-------------------------- MODULE ExpressionsProofs --------------------------
(***************************************************************************)
(* Proofs about Expressions, for words of any width, any names and any      *)
(* constants of the script: the type invariant, and from it that compound   *)
(* assignments agree with their operators, comparisons with cmp, references *)
(* with their targets, and that the remainder by a mask is a remainder.     *)
(***************************************************************************)
EXTENDS Expressions, Foundations

-----------------------------------------------------------------------------
(* Division. *)

LEMMA DivMod ==
  ASSUME NEW n \in Int, NEW d \in Nat \ {0}
  PROVE  n = d * (n \div d) + (n % d) /\ n % d \in 0..(d - 1) /\ n \div d \in Int
<1>1. n = d * (n \div d) + (n % d)
  OBVIOUS
<1>2. n % d \in 0..(d - 1)
  OBVIOUS
<1>3. n \div d \in Int
  OBVIOUS
<1> QED
  BY <1>1, <1>2, <1>3

LEMMA DivUnique ==
  ASSUME NEW n \in Int, NEW d \in Nat \ {0}, NEW q \in Int, NEW r \in 0..(d - 1), n = d * q + r
  PROVE  n % d = r /\ n \div d = q
<1> DEFINE k == n \div d
<1>1. n = d * k + (n % d) /\ n % d \in 0..(d - 1) /\ k \in Int
  BY DivMod
<1>2. PICK m \in Int : m = n % d
  BY <1>1
<1> HIDE DEF k
<1>3. d * (k - q) = r - m
  BY <1>1, <1>2
<1>4. k - q = 0
  <2>1. CASE k - q >= 1
    <3>1. d * (k - q) >= d
      BY <1>1, <2>1
    <3> QED
      BY <1>1, <1>2, <1>3, <3>1
  <2>2. CASE k - q <= -1
    <3>1. d * (k - q) <= -d
      BY <1>1, <2>2
    <3> QED
      BY <1>1, <1>2, <1>3, <3>1
  <2> QED
    BY <1>1, <2>1, <2>2
<1>5. k = q /\ m = r
  <2>1. k = q
    BY <1>1, <1>4
  <2>2. d * (k - q) = 0
    BY <1>4
  <2> QED
    BY <2>1, <2>2, <1>2, <1>3
<1> QED
  BY <1>2, <1>5 DEF k

LEMMA Halves ==
  ASSUME NEW n \in Nat
  PROVE  /\ n \div 2 \in Nat /\ n % 2 \in {0, 1} /\ n = 2 * (n \div 2) + (n % 2)
         /\ n # 0 => n \div 2 < n
<1>1. n = 2 * (n \div 2) + (n % 2) /\ n % 2 \in 0..1 /\ n \div 2 \in Int
  OBVIOUS
<1> QED
  BY <1>1

(* The remainder of two terms does not change by multiples of the divisor. *)
LEMMA Multiple ==
  ASSUME NEW d \in Nat \ {0}, NEW q \in Int
  PROVE  (d * q) % d = 0
<1>1. d * q \in Int /\ d * q = d * q + 0 /\ 0 \in 0..(d - 1)
  OBVIOUS
<1> QED
  BY <1>1, DivUnique

-----------------------------------------------------------------------------
(* Words. *)

LEMMA Powers ==
  ASSUME NEW w \in 0..LongBits
  PROVE  2^w \in Nat \ {0}
<1> DEFINE S == {n \in Nat : n <= LongBits => 2^n \in Nat \ {0}}
<1>1. S = Nat
  <2> SUFFICES ASSUME NEW n \in Nat, \A k \in 0..(n - 1) : k \in S PROVE n \in S
    <3>1. S \in SUBSET Nat
      OBVIOUS
    <3> HIDE DEF S
    <3> QED
      BY <3>1, NatSet
  <2>1. CASE n = 0
    BY <2>1, WidthAssumption
  <2>2. CASE n # 0 /\ n <= LongBits
    <3>1. n - 1 \in S /\ n - 1 <= LongBits /\ n \in 1..LongBits
      BY <2>2, WidthAssumption
    <3>2. 2^n = 2 * 2^(n - 1)
      BY <3>1, WidthAssumption
    <3>3. 2^(n - 1) \in Nat \ {0}
      BY <3>1
    <3> QED
      BY <3>2, <3>3
  <2> QED
    BY <2>1, <2>2
<1>2. w \in Nat /\ w \in S /\ w <= LongBits
  BY <1>1, WidthAssumption
<1> QED
  BY <1>2

(* Half of the numbers of a width are negative. *)
LEMMA Half ==
  ASSUME NEW w \in 1..LongBits
  PROVE  2^(w - 1) \in Nat \ {0} /\ 2^w = 2 * 2^(w - 1) /\ 2^w \in Nat \ {0}
<1>1. w - 1 \in 0..LongBits /\ w \in 0..LongBits
  BY WidthAssumption
<1> QED
  BY <1>1, Powers, WidthAssumption

LEMMA Wraps ==
  ASSUME NEW w \in 1..LongBits, NEW n \in Int
  PROVE  /\ Wrap(n, w) \in Word(w) /\ Wrap(n, w) \in Int
         /\ n \in Word(w) => Wrap(n, w) = n
         /\ Fits(n, w) <=> n \in Word(w)
<1>1. PICK p \in Nat \ {0} : p = 2^(w - 1) /\ 2^w = 2 * p
  BY Half
<1>2. PICK d \in Nat \ {0} : d = 2 * p
  OBVIOUS
<1>3. n % d \in 0..(d - 1) /\ n = d * (n \div d) + (n % d)
  BY DivMod
<1>4. Word(w) = (-p)..(p - 1)
  BY <1>1 DEF Word, Least
<1>5. Wrap(n, w) = IF n % d < p THEN n % d ELSE (n % d) - d
  BY <1>1, <1>2 DEF Wrap
<1>6. Wrap(n, w) \in Word(w) /\ Wrap(n, w) \in Int
  BY <1>2, <1>3, <1>4, <1>5
<1>7. ASSUME n \in Word(w)
      PROVE  Wrap(n, w) = n
  <2>1. CASE n >= 0
    <3>1. n = d * 0 + n /\ n \in 0..(d - 1)
      BY <1>2, <1>4, <1>7, <2>1
    <3>2. n % d = n
      BY <3>1, DivUnique
    <3> QED
      BY <1>4, <1>5, <1>7, <3>2
  <2>2. CASE n < 0
    <3>1. n = d * (-1) + (n + d) /\ n + d \in 0..(d - 1) /\ -1 \in Int
      BY <1>2, <1>4, <1>7, <2>2
    <3>2. n % d = n + d
      BY <3>1, DivUnique
    <3> QED
      BY <1>2, <1>4, <1>5, <1>7, <3>2
  <2> QED
    BY <2>1, <2>2
<1>8. Fits(n, w) <=> n \in Word(w)
  BY <1>6, <1>7 DEF Fits
<1> QED
  BY <1>6, <1>7, <1>8

-----------------------------------------------------------------------------
(* The bitwise operators. *)

BitOps == {"bw_and", "bw_or", "bw_xor"}

LEMMA BitIs ==
  ASSUME NEW op \in BitOps, NEW x \in {0, 1}, NEW y \in {0, 1}
  PROVE  Bit(op, x, y) \in {0, 1}
<1>1. CASE op = "bw_and"
  BY <1>1 DEF Bit
<1>2. CASE op = "bw_or"
  <2>1. Bit(op, x, y) = x + y - x * y
    BY <1>2 DEF Bit
  <2>2. x * y = IF x = 1 /\ y = 1 THEN 1 ELSE 0
    OBVIOUS
  <2> QED
    BY <2>1, <2>2
<1>3. CASE op = "bw_xor"
  <2>1. Bit(op, x, y) = (x + y) % 2
    BY <1>3 DEF Bit
  <2> QED
    BY <2>1
<1> QED
  BY <1>1, <1>2, <1>3 DEF BitOps

LEMMA BitwiseStep ==
  ASSUME NEW op \in BitOps, NEW x \in Nat, NEW y \in Nat
  PROVE  /\ bitwise[<<op, x, y>>] \in Nat
         /\ x = 0 /\ y = 0 => bitwise[<<op, x, y>>] = 0
         /\ bitwise[<<op, x, y>>]
              = 2 * bitwise[<<op, x \div 2, y \div 2>>] + Bit(op, x % 2, y % 2) \/ (x = 0 /\ y = 0)
<1> DEFINE S == BitOps \X Nat \X Nat
           B == {z \in S : z[2] = 0 /\ z[3] = 0}
           m == [z \in S |-> z[2] + z[3]]
           base == [z \in S |-> 0]
           p == [z \in S |-> <<z[1], z[2] \div 2, z[3] \div 2>>]
           h == [q \in S \X Nat |-> 2 * q[2] + Bit(q[1][1], q[1][2] % 2, q[1][3] % 2)]
           Rule(f, z) == IF z[2] = 0 /\ z[3] = 0 THEN 0
                         ELSE 2 * f[<<z[1], z[2] \div 2, z[3] \div 2>>] + Bit(z[1], z[2] % 2, z[3] % 2)
<1>1. ASSUME NEW z \in S
      PROVE  /\ z[1] \in BitOps /\ z[2] \in Nat /\ z[3] \in Nat
             /\ z = <<z[1], z[2], z[3]>>
             /\ z[2] \div 2 \in Nat /\ z[3] \div 2 \in Nat
             /\ z[2] % 2 \in {0, 1} /\ z[3] % 2 \in {0, 1}
             /\ Bit(z[1], z[2] % 2, z[3] % 2) \in {0, 1}
  <2>1. z[1] \in BitOps /\ z[2] \in Nat /\ z[3] \in Nat /\ z = <<z[1], z[2], z[3]>>
    OBVIOUS
  <2> HIDE DEF S
  <2>2. z[2] \div 2 \in Nat /\ z[3] \div 2 \in Nat /\ z[2] % 2 \in {0, 1} /\ z[3] % 2 \in {0, 1}
    BY <2>1, Halves
  <2> QED
    BY <2>1, <2>2, BitIs
<1>2. m \in [S -> Nat] /\ base \in [S -> Nat] /\ p \in [S -> S]
  <2>1. \A z \in S : p[z] \in S
    BY <1>1
  <2> QED
    BY <2>1, <1>1
<1>3. h \in [S \X Nat -> Nat]
  <2> SUFFICES ASSUME NEW z \in S, NEW v \in Nat
               PROVE  2 * v + Bit(z[1], z[2] % 2, z[3] % 2) \in Nat
    OBVIOUS
  <2> QED
    BY <1>1
<1>4. \A z \in S \ B : m[p[z]] < m[z]
  <2> TAKE z \in S \ B
  <2>1. p[z] = <<z[1], z[2] \div 2, z[3] \div 2>> /\ p[z] \in S
    BY <1>2
  <2>2. m[z] = z[2] + z[3] /\ m[p[z]] = z[2] \div 2 + z[3] \div 2
    BY <2>1
  <2>3. z[2] # 0 \/ z[3] # 0
    OBVIOUS
  <2>4. z[2] \in Nat /\ z[3] \in Nat
    BY <1>1
  <2> HIDE DEF S, B, m, p
  <2> QED
    BY <2>2, <2>3, <2>4, Halves
<1>5. PICK f \in [S -> Nat] : Recursive(f, S, B, base, p, h)
  <2> HIDE DEF S, B, m, base, p, h
  <2> QED
    BY <1>2, <1>3, <1>4, Recursion
<1>6. ASSUME NEW z \in S
      PROVE  f[z] = Rule(f, z)
  <2>1. f[z] = IF z \in B THEN base[z] ELSE h[<<z, f[p[z]]>>]
    BY <1>5 DEF Recursive
  <2>2. f[p[z]] \in Nat /\ p[z] = <<z[1], z[2] \div 2, z[3] \div 2>>
    BY <1>2
  <2>3. h[<<z, f[p[z]]>>] = 2 * f[p[z]] + Bit(z[1], z[2] % 2, z[3] % 2)
    BY <2>2
  <2>4. z \in B <=> z[2] = 0 /\ z[3] = 0
    OBVIOUS
  <2>5. base[z] = 0
    OBVIOUS
  <2> HIDE DEF S, B, base, p, h
  <2> QED
    BY <2>1, <2>2, <2>3, <2>4, <2>5
<1>7. f = [z \in S |-> Rule(f, z)]
  <2>1. f = [z \in S |-> f[z]]
    OBVIOUS
  <2> HIDE DEF S, Rule
  <2> QED
    BY <1>6, <2>1
<1>8. PICK g : g = CHOOSE f_1 : f_1 = [z \in S |-> Rule(f_1, z)]
  OBVIOUS
<1>9. g = [z \in S |-> Rule(g, z)]
  <2> HIDE DEF S, Rule
  <2> QED
    BY <1>7, <1>8
<1>10. bitwise = g
  BY <1>8, Zenon DEF bitwise, BitOps
<1>11. ASSUME NEW z \in S
       PROVE  bitwise[z] = Rule(bitwise, z)
  <2> HIDE DEF S, Rule
  <2> QED
    BY <1>9, <1>10
<1>12. \A z \in S : bitwise[z] \in Nat
  <2>1. \A z \in S : z \in B => bitwise[z] \in Nat
    <3> TAKE z \in S
    <3> HAVE z \in B
    <3>1. bitwise[z] = Rule(bitwise, z)
      <4> HIDE DEF S, Rule
      <4> QED
        BY <1>11
    <3>2. z[2] = 0 /\ z[3] = 0
      OBVIOUS
    <3> QED
      BY <3>1, <3>2
  <2>2. \A z \in S \ B : bitwise[p[z]] \in Nat => bitwise[z] \in Nat
    <3> TAKE z \in S \ B
    <3> HAVE bitwise[p[z]] \in Nat
    <3>1. bitwise[z] = Rule(bitwise, z)
      <4> HIDE DEF S, Rule
      <4> QED
        BY <1>11
    <3>2. ~(z[2] = 0 /\ z[3] = 0) /\ p[z] = <<z[1], z[2] \div 2, z[3] \div 2>>
      OBVIOUS
    <3>3. bitwise[z] = 2 * bitwise[p[z]] + Bit(z[1], z[2] % 2, z[3] % 2)
      BY <3>1, <3>2
    <3>4. Bit(z[1], z[2] % 2, z[3] % 2) \in {0, 1}
      BY <1>1
    <3> QED
      BY <3>3, <3>4
  <2>3. Descends(S, Nat, B, m, p, bitwise)
    <3> HIDE DEF S, B, m, p
    <3> QED
      BY <1>2, <1>4, <2>1, <2>2 DEF Descends
  <2> HIDE DEF S, B, m, p
  <2> QED
    BY <2>3, Descent
<1>13. PICK z \in S : z = <<op, x, y>>
  OBVIOUS
<1>14. z[1] = op /\ z[2] = x /\ z[3] = y
  BY <1>13
<1>15. bitwise[z] = Rule(bitwise, z)
  <2> HIDE DEF S, Rule
  <2> QED
    BY <1>11
<1>16. bitwise[z] \in Nat
  <2> HIDE DEF S
  <2> QED
    BY <1>12
<1>17. bitwise[z] = IF x = 0 /\ y = 0 THEN 0
                    ELSE 2 * bitwise[<<op, x \div 2, y \div 2>>] + Bit(op, x % 2, y % 2)
  BY <1>14, <1>15
<1> HIDE DEF S, Rule
<1> QED
  BY <1>13, <1>16, <1>17

And(x, y) == bitwise[<<"bw_and", x, y>>]

LEMMA AndStep ==
  ASSUME NEW x \in Nat, NEW y \in Nat
  PROVE  /\ And(x, y) \in Nat
         /\ And(x, y) = 2 * And(x \div 2, y \div 2) + (x % 2) * (y % 2)
<1>1. PICK op \in BitOps : op = "bw_and"
  BY DEF BitOps
<1>2. /\ And(x, y) \in Nat
      /\ x = 0 /\ y = 0 => And(x, y) = 0
      /\ And(x, y) = 2 * And(x \div 2, y \div 2) + Bit(op, x % 2, y % 2) \/ (x = 0 /\ y = 0)
  BY <1>1, BitwiseStep DEF And
<1>3. Bit(op, x % 2, y % 2) = (x % 2) * (y % 2)
  BY <1>1 DEF Bit
<1>4. CASE x = 0 /\ y = 0
  <2>1. x \div 2 = 0 /\ x % 2 = 0 /\ y \div 2 = 0 /\ y % 2 = 0
    BY <1>4
  <2> QED
    BY <1>2, <1>4, <2>1
<1>5. CASE ~(x = 0 /\ y = 0)
  BY <1>2, <1>3, <1>5
<1> QED
  BY <1>4, <1>5

LEMMA AndZero ==
  ASSUME NEW x \in Nat
  PROVE  And(x, 0) = 0
<1> DEFINE S == {n \in Nat : And(n, 0) = 0}
<1>1. S = Nat
  <2> SUFFICES ASSUME NEW n \in Nat, \A k \in 0..(n - 1) : k \in S PROVE n \in S
    <3>1. S \in SUBSET Nat
      OBVIOUS
    <3> HIDE DEF S
    <3> QED
      BY <3>1, NatSet
  <2>1. And(n, 0) = 2 * And(n \div 2, 0 \div 2) + (n % 2) * (0 % 2) /\ And(n, 0) \in Nat
    BY AndStep
  <2>2. 0 \div 2 = 0 /\ 0 % 2 = 0 /\ n % 2 \in {0, 1} /\ (n % 2) * 0 = 0
    BY Halves
  <2>3. And(n, 0) = 2 * And(n \div 2, 0)
    <3>1. PICK h \in Nat : h = n \div 2
      BY Halves
    <3>2. And(h, 0) \in Nat
      BY AndStep
    <3>3. And(n, 0) = 2 * And(h, 0) + 0
      BY <2>1, <2>2, <3>1
    <3> QED
      BY <3>1, <3>2, <3>3
  <2>4. CASE n = 0
    <3>1. n \div 2 = n
      BY <2>4
    <3> QED
      BY <2>1, <2>3, <3>1
  <2>5. CASE n # 0
    <3>1. n \div 2 \in 0..(n - 1)
      BY <2>5, Halves
    <3>2. And(n \div 2, 0) = 0
      BY <3>1
    <3> QED
      BY <2>3, <3>2
  <2> QED
    BY <2>4, <2>5
<1> QED
  BY <1>1

LEMMA AndSame ==
  ASSUME NEW x \in Nat
  PROVE  And(x, x) = x
<1> DEFINE S == {n \in Nat : And(n, n) = n}
<1>1. S = Nat
  <2> SUFFICES ASSUME NEW n \in Nat, \A k \in 0..(n - 1) : k \in S PROVE n \in S
    <3>1. S \in SUBSET Nat
      OBVIOUS
    <3> HIDE DEF S
    <3> QED
      BY <3>1, NatSet
  <2>1. And(n, n) = 2 * And(n \div 2, n \div 2) + (n % 2) * (n % 2)
    BY AndStep
  <2>2. (n % 2) * (n % 2) = n % 2
    BY Halves
  <2>4. CASE n = 0
    BY <2>4, AndZero
  <2>5. CASE n # 0
    <3>1. n \div 2 \in 0..(n - 1)
      BY <2>5, Halves
    <3>2. And(n \div 2, n \div 2) = n \div 2
      BY <3>1
    <3> QED
      BY <2>1, <2>2, <3>2, Halves
  <2> QED
    BY <2>4, <2>5
<1> QED
  BY <1>1

(* What the mask of a divisor yields when the divisor has no bit in common  *)
(* with the number below it.                                               *)
Mask(b) == And(b, b - 1) = 0

LEMMA MaskHalf ==
  ASSUME NEW b \in Nat, b > 1, Mask(b)
  PROVE  \E c \in Nat \ {0} : /\ b = 2 * c /\ Mask(c)
                              /\ (b - 1) \div 2 = c - 1 /\ (b - 1) % 2 = 1
<1>1. PICK c \in Nat : c = b \div 2 /\ (b = 2 * c \/ b = 2 * c + 1)
  BY Halves
<1>2. And(b, b - 1) = 2 * And(c, (b - 1) \div 2) + (b % 2) * ((b - 1) % 2)
  <2>1. b - 1 \in Nat
    OBVIOUS
  <2> QED
    BY <1>1, <2>1, AndStep
<1>3. c # 0
  BY <1>1
<1>4. CASE b = 2 * c
  <2>1. (b - 1) \div 2 = c - 1 /\ (b - 1) % 2 = 1 /\ b % 2 = 0
    BY <1>4
  <2>2. c - 1 \in Nat
    BY <1>3
  <2>3. And(c, c - 1) \in Nat
    BY <2>2, AndStep
  <2>4. And(c, c - 1) = 0
    BY <1>2, <2>1, <2>3 DEF Mask
  <2> QED
    BY <1>3, <1>4, <2>1, <2>4 DEF Mask
<1>5. CASE b = 2 * c + 1
  <2>1. (b - 1) \div 2 = c /\ (b - 1) % 2 = 0 /\ b % 2 = 1
    BY <1>5
  <2>2. And(b, b - 1) = 2 * c
    BY <1>2, <2>1, AndSame
  <2> QED
    BY <1>3, <2>2 DEF Mask
<1> QED
  BY <1>1, <1>4, <1>5

LEMMA MaskIsRemainder ==
  ASSUME NEW b \in Nat \ {0}, Mask(b), NEW a \in Nat
  PROVE  And(a, b - 1) = a % b
<1> DEFINE S == {n \in Nat : n # 0 /\ Mask(n) => \A x \in Nat : And(x, n - 1) = x % n}
<1>1. S = Nat
  <2> SUFFICES ASSUME NEW n \in Nat, \A k \in 0..(n - 1) : k \in S PROVE n \in S
    <3>1. S \in SUBSET Nat
      OBVIOUS
    <3> HIDE DEF S
    <3> QED
      BY <3>1, NatSet
  <2> SUFFICES ASSUME n # 0, Mask(n), NEW x \in Nat PROVE And(x, n - 1) = x % n
    OBVIOUS
  <2>1. CASE n = 1
    <3>1. And(x, 0) = 0 /\ x % 1 = 0
      BY AndZero
    <3> QED
      BY <2>1, <3>1
  <2>2. CASE n > 1
    <3>1. PICK c \in Nat \ {0} : n = 2 * c /\ Mask(c) /\ (n - 1) \div 2 = c - 1 /\ (n - 1) % 2 = 1
      BY <2>2, MaskHalf
    <3>2. PICK y \in Nat : y = x \div 2 /\ x % 2 \in {0, 1} /\ x = 2 * y + (x % 2)
      BY Halves
    <3>3. And(y, c - 1) = y % c
      <4>1. c \in 0..(n - 1)
        BY <3>1
      <4>2. c \in S
        BY <4>1
      <4> QED
        BY <3>1, <4>2
    <3>4. And(x, n - 1) = 2 * (y % c) + (x % 2)
      <4>1. And(x, n - 1) = 2 * And(x \div 2, (n - 1) \div 2) + (x % 2) * ((n - 1) % 2)
        <5>1. n - 1 \in Nat
          BY <2>2
        <5> QED
          BY <5>1, AndStep
      <4>2. And(x \div 2, (n - 1) \div 2) = y % c
        BY <3>1, <3>2, <3>3
      <4>3. (x % 2) * ((n - 1) % 2) = x % 2
        BY <3>1, <3>2
      <4> QED
        BY <4>1, <4>2, <4>3
    <3>5. x % n = 2 * (y % c) + (x % 2)
      <4>1. PICK q \in Int, r \in 0..(c - 1) : y = c * q + r /\ r = y % c
        <5>1. y \in Int
          OBVIOUS
        <5> QED
          BY <5>1, DivMod
      <4>2. PICK s \in 0..(n - 1) : s = 2 * r + (x % 2)
        BY <3>1, <3>2
      <4>3. x = n * q + s
        <5>1. PICK k \in Int : k = c * q
          OBVIOUS
        <5>2. n * q = 2 * k
          BY <3>1, <5>1
        <5>3. PICK e \in {0, 1} : e = x % 2
          BY <3>2
        <5>4. y = k + r /\ s = 2 * r + e /\ x = 2 * y + e
          BY <3>2, <4>1, <4>2, <5>1, <5>3
        <5> QED
          BY <5>2, <5>4
      <4>4. x \in Int /\ n \in Nat \ {0}
        BY <2>2
      <4>5. x % n = s
        BY <4>3, <4>4, DivUnique
      <4> QED
        BY <4>1, <4>2, <4>5
    <3> QED
      BY <3>4, <3>5
  <2> QED
    BY <2>1, <2>2
<1> QED
  BY <1>1

LEMMA MaskDivides ==
  ASSUME NEW b \in Nat \ {0}, Mask(b), NEW w \in 0..LongBits, b <= 2^w
  PROVE  \E q \in Nat \ {0} : 2^w = b * q
<1> DEFINE S == {n \in Nat : n <= LongBits =>
                    \A x \in Nat \ {0} : Mask(x) /\ x <= 2^n => \E q \in Nat \ {0} : 2^n = x * q}
<1>1. S = Nat
  <2> SUFFICES ASSUME NEW n \in Nat, \A k \in 0..(n - 1) : k \in S PROVE n \in S
    <3>1. S \in SUBSET Nat
      OBVIOUS
    <3> HIDE DEF S
    <3> QED
      BY <3>1, NatSet
  <2> SUFFICES ASSUME n <= LongBits, NEW x \in Nat \ {0}, Mask(x), x <= 2^n
               PROVE  \E q \in Nat \ {0} : 2^n = x * q
    OBVIOUS
  <2>0. 2^n \in Nat \ {0}
    <3>1. n \in 0..LongBits
      BY WidthAssumption
    <3> QED
      BY <3>1, Powers
  <2>1. CASE x = 1
    <3>1. 2^n = x * 2^n
      BY <2>0, <2>1
    <3> QED
      BY <2>0, <3>1
  <2>2. CASE x > 1
    <3>1. PICK c \in Nat \ {0} : x = 2 * c /\ Mask(c)
      BY <2>2, MaskHalf
    <3>2. n # 0
      <4>1. 2^0 = 1
        BY WidthAssumption
      <4>2. n = 0 => 2^n = 1
        BY <4>1
      <4>3. x <= 2^n /\ x \in Nat
        OBVIOUS
      <4> QED
        BY <2>2, <4>2, <4>3
    <3>3. n \in 1..LongBits /\ n - 1 \in 0..(n - 1) /\ n - 1 <= LongBits
      BY <3>2, WidthAssumption
    <3>4. 2^n = 2 * 2^(n - 1) /\ 2^(n - 1) \in Nat \ {0}
      BY <3>3, Half
    <3>5. c <= 2^(n - 1)
      BY <3>1, <3>4
    <3>6. PICK q \in Nat \ {0} : 2^(n - 1) = c * q
      <4>1. n - 1 \in S
        BY <3>3
      <4> QED
        BY <3>1, <3>3, <3>5, <4>1
    <3>7. 2^n = x * q
      BY <3>1, <3>4, <3>6
    <3> QED
      BY <3>7
  <2> QED
    BY <2>1, <2>2
<1>2. w \in Nat /\ w <= LongBits
  BY WidthAssumption
<1>3. w \in S
  <2> HIDE DEF S
  <2> QED
    BY <1>1, <1>2
<1> QED
  BY <1>2, <1>3

-----------------------------------------------------------------------------
(* Division as C has it. *)

LEMMA Quotients ==
  ASSUME NEW a \in Int, NEW b \in Int, b # 0
  PROVE  \E k \in Nat, m \in Nat :
            /\ Abs(a) = Abs(b) * k + m /\ m < Abs(b) /\ k <= Abs(a)
            /\ Quotient(a, b) = Sign(a) * Sign(b) * k
            /\ b * Quotient(a, b) = Sign(a) * (Abs(b) * k)
            /\ Abs(b) > 1 => 2 * k <= Abs(a)
            /\ Abs(b) = 1 => k = Abs(a)
<1>1. PICK x \in Nat, y \in Nat \ {0} : x = Abs(a) /\ y = Abs(b)
  BY DEF Abs
<1>2. PICK k \in Int, m \in 0..(y - 1) : x = y * k + m /\ k = x \div y
  <2>1. x \in Int
    OBVIOUS
  <2> QED
    BY <2>1, DivMod
<1>3. k >= 0
  <2>1. CASE k <= -1
    <3>1. y * k <= -y
      BY <2>1
    <3> QED
      BY <1>2, <3>1
  <2> QED
    BY <2>1
<1>4. k \in Nat /\ m \in Nat /\ m < y
  BY <1>2, <1>3
<1>5. y * k >= k /\ (y > 1 => y * k >= 2 * k) /\ y * k \in Nat
  <2>1. y >= 1
    OBVIOUS
  <2>2. (y - 1) * k >= 0
    BY <1>4, <2>1
  <2>3. y > 1 => (y - 2) * k >= 0
    BY <1>4
  <2>4. (y - 1) * k = y * k - k /\ (y - 2) * k = y * k - 2 * k
    BY <1>4
  <2>5. y * k \in Int
    OBVIOUS
  <2> QED
    BY <1>4, <2>2, <2>3, <2>4, <2>5
<1>6. k <= x /\ (y > 1 => 2 * k <= x)
  BY <1>2, <1>4, <1>5
<1>7. y = 1 => k = x
  BY <1>2, <1>4
<1>8. Quotient(a, b) = Sign(a) * Sign(b) * k
  BY <1>1, <1>2 DEF Quotient
<1>9. b * Quotient(a, b) = Sign(a) * (y * k)
  <2>1. Sign(a) \in {-1, 1} /\ Sign(b) \in {-1, 1} /\ b = Sign(b) * y
    BY <1>1 DEF Sign, Abs
  <2>2. CASE Sign(b) = 1
    <3>1. Quotient(a, b) = Sign(a) * k
      BY <1>8, <2>1, <2>2
    <3>2. b = y
      BY <2>1, <2>2
    <3>3. CASE Sign(a) = 1
      BY <3>1, <3>2, <3>3
    <3>4. CASE Sign(a) = -1
      BY <3>1, <3>2, <3>4
    <3> QED
      BY <2>1, <3>3, <3>4
  <2>3. CASE Sign(b) = -1
    <3>1. b = -y
      BY <2>1, <2>3
    <3>3. CASE Sign(a) = 1
      <4>1. Quotient(a, b) = -k
        BY <1>8, <2>3, <3>3
      <4> QED
        BY <3>1, <3>3, <4>1
    <3>4. CASE Sign(a) = -1
      <4>1. Quotient(a, b) = k
        BY <1>8, <2>3, <3>4
      <4> QED
        BY <3>1, <3>4, <4>1
    <3> QED
      BY <2>1, <3>3, <3>4
  <2> QED
    BY <2>1, <2>2, <2>3
<1> QED
  BY <1>1, <1>2, <1>4, <1>6, <1>7, <1>8, <1>9

(* The quotient of two numbers is not beyond the dividend. *)
LEMMA QuotientIs ==
  ASSUME NEW a \in Int, NEW b \in Int, b # 0
  PROVE  /\ Quotient(a, b) \in Int
         /\ b # -1 \/ a >= 0 => Quotient(a, b) \in (-Abs(a))..Abs(a)
         /\ b # -1 /\ a < 0 => Quotient(a, b) < -a
<1>1. PICK k \in Nat, m \in Nat :
            /\ Abs(a) = Abs(b) * k + m /\ m < Abs(b) /\ k <= Abs(a)
            /\ Quotient(a, b) = Sign(a) * Sign(b) * k
            /\ Abs(b) > 1 => 2 * k <= Abs(a)
            /\ Abs(b) = 1 => k = Abs(a)
  BY Quotients
<1>2. Quotient(a, b) = IF (a < 0) = (b < 0) THEN k ELSE -k
  BY <1>1 DEF Sign
<1>3. k <= Abs(a) /\ (Abs(b) > 1 => 2 * k <= Abs(a)) /\ (Abs(b) = 1 => k = Abs(a))
  BY <1>1
<1> QED
  BY <1>2, <1>3 DEF Abs

LEMMA RemainderIs ==
  ASSUME NEW a \in Int, NEW b \in Int, b # 0
  PROVE  /\ Remainder(a, b) \in Int
         /\ Abs(Remainder(a, b)) < Abs(b)
         /\ (a - Remainder(a, b)) % Abs(b) = 0
         /\ a >= 0 => Remainder(a, b) \in 0..a
         /\ a < 0 => Remainder(a, b) \in a..0
<1>1. PICK k \in Nat, m \in Nat :
            /\ Abs(a) = Abs(b) * k + m /\ m < Abs(b) /\ k <= Abs(a)
            /\ b * Quotient(a, b) = Sign(a) * (Abs(b) * k)
  BY Quotients
<1>2. PICK y \in Nat \ {0} : y = Abs(b)
  BY DEF Abs
<1>3. PICK z \in Nat : z = y * k
  OBVIOUS
<1>4. Remainder(a, b) = a - Sign(a) * z
  BY <1>1, <1>2, <1>3 DEF Remainder
<1>5. Abs(a) = z + m /\ m < y
  BY <1>1, <1>2, <1>3
<1>6. CASE a >= 0
  <2>1. Sign(a) = 1 /\ Abs(a) = a
    BY <1>6 DEF Sign, Abs
  <2>2. Remainder(a, b) = m /\ a - m = y * k
    BY <1>3, <1>4, <1>5, <2>1
  <2>3. (y * k) % y = 0
    BY Multiple
  <2>4. Abs(m) = m
    BY DEF Abs
  <2> QED
    BY <1>2, <1>5, <1>6, <2>1, <2>2, <2>3, <2>4
<1>7. CASE a < 0
  <2>1. Sign(a) = -1 /\ Abs(a) = -a
    BY <1>7 DEF Sign, Abs
  <2>2. Remainder(a, b) = -m /\ a - (-m) = -z
    BY <1>4, <1>5, <2>1
  <2>3. -z = y * (-k)
    BY <1>3
  <2>4. (y * (-k)) % y = 0
    <3>1. -k \in Int
      OBVIOUS
    <3> QED
      BY <3>1, Multiple
  <2>5. Abs(-m) = m
    BY DEF Abs
  <2> QED
    BY <1>2, <1>5, <1>7, <2>1, <2>2, <2>3, <2>4, <2>5
<1> QED
  BY <1>6, <1>7

-----------------------------------------------------------------------------
(* The operators on words. *)

Shifts == {"bw_lshift", "bw_rshift"}

LEMMA Widths ==
  /\ LongBits \in 1..LongBits /\ IntBits \in 1..LongBits /\ CharBits \in 1..LongBits
  /\ LongBits > 1 /\ SIGFPE \in Nat /\ SIGFPE \notin Word(LongBits)
  /\ {-1, 0, 1} \subseteq Word(LongBits)
<1>1. LongBits \in 1..LongBits /\ IntBits \in 1..LongBits /\ CharBits \in 1..LongBits /\ LongBits > 1
  BY WidthAssumption
<1>2. PICK p \in Nat \ {0} : p = 2^(LongBits - 1) /\ 2^LongBits = 2 * p
  BY <1>1, Half
<1>3. PICK q \in Nat \ {0} : p = 2 * q
  <2>1. LongBits - 1 \in 1..LongBits
    BY <1>1
  <2>2. 2^(LongBits - 1) = 2 * 2^(LongBits - 1 - 1) /\ 2^(LongBits - 1 - 1) \in Nat \ {0}
    BY <2>1, Half
  <2> QED
    BY <1>2, <2>2
<1>4. Word(LongBits) = (-p)..(p - 1)
  BY <1>2 DEF Word, Least
<1>5. SIGFPE = 2 * p
  BY <1>2 DEF SIGFPE
<1> QED
  BY <1>1, <1>3, <1>4, <1>5

LEMMA BitsIs ==
  ASSUME NEW w \in 1..LongBits, NEW n \in Int
  PROVE  Bits(n, w) \in Nat /\ Bits(n, w) < 2^w /\ 2^w \in Nat \ {0}
<1>1. 2^w \in Nat \ {0}
  BY Half
<1>2. n % 2^w \in 0..(2^w - 1)
  BY <1>1, DivMod
<1> QED
  BY <1>1, <1>2 DEF Bits

LEMMA BitwiseIs ==
  ASSUME NEW w \in 1..LongBits, NEW a \in Int, NEW b \in Int, NEW op \in BitOps
  PROVE  c_bitwise(op, a, b, w) \in Word(w)
<1>1. Bits(a, w) \in Nat /\ Bits(b, w) \in Nat
  BY BitsIs
<1>2. bitwise[<<op, Bits(a, w), Bits(b, w)>>] \in Nat
  BY <1>1, BitwiseStep
<1>3. bitwise[<<op, Bits(a, w), Bits(b, w)>>] \in Int
  BY <1>2
<1> QED
  BY <1>3, Wraps DEF c_bitwise

LEMMA WordIs ==
  ASSUME NEW w \in 1..LongBits
  PROVE  Word(w) = (-(2^(w - 1)))..(2^(w - 1) - 1) /\ Word(w) \subseteq Int /\ Least(w) \in Int
<1>1. 2^(w - 1) \in Nat \ {0}
  BY Half
<1> QED
  BY <1>1 DEF Word, Least

LEMMA RemainderInWord ==
  ASSUME NEW w \in 1..LongBits, NEW a \in Word(w), NEW b \in Int, b # 0
  PROVE  Remainder(a, b) \in Word(w)
<1>1. PICK p \in Nat \ {0} : p = 2^(w - 1)
  BY Half
<1>2. a \in (-p)..(p - 1) /\ Word(w) = (-p)..(p - 1)
  BY <1>1, WordIs
<1>3. a \in Int
  BY <1>2
<1>4. /\ a >= 0 => Remainder(a, b) \in 0..a
      /\ a < 0 => Remainder(a, b) \in a..0
  BY <1>3, RemainderIs
<1> QED
  BY <1>2, <1>4

LEMMA ModInWord ==
  ASSUME NEW a \in Word(LongBits), NEW b \in Int
  PROVE  c_mod(a, b) \in Word(LongBits) \union {SIGFPE}
<1>1. LongBits \in 1..LongBits /\ 0 \in Word(LongBits) /\ a \in Int
  BY Widths, WordIs
<1>2. CASE b \in {0, 1}
  BY <1>1, <1>2 DEF c_mod
<1>3. CASE b \notin {0, 1}
  <2>1. c_bitwise("bw_and", a, b - 1, LongBits) \in Word(LongBits)
    <3>1. b - 1 \in Int /\ "bw_and" \in BitOps
      BY DEF BitOps
    <3> QED
      BY <1>1, <3>1, BitwiseIs
  <2>2. Remainder(a, b) \in Word(LongBits)
    BY <1>1, <1>3, RemainderInWord
  <2> QED
    BY <1>3, <2>1, <2>2 DEF c_mod
<1> QED
  BY <1>2, <1>3

LEMMA QuotientInWord ==
  ASSUME NEW w \in 1..LongBits, NEW a \in Word(w), NEW b \in Int, b # 0, b # -1 \/ a # Least(w)
  PROVE  Quotient(a, b) \in Word(w)
<1>1. PICK p \in Nat \ {0} : p = 2^(w - 1)
  BY Half
<1>2. a \in (-p)..(p - 1) /\ Word(w) = (-p)..(p - 1) /\ Least(w) = -p
  BY <1>1, WordIs DEF Least
<1>3. a \in Int
  BY <1>2
<1>4. CASE b # -1
  <2>1. /\ Quotient(a, b) \in Int
        /\ Quotient(a, b) \in (-Abs(a))..Abs(a)
        /\ a < 0 => Quotient(a, b) < -a
    BY <1>3, <1>4, QuotientIs
  <2> QED
    BY <1>2, <2>1 DEF Abs
<1>5. CASE b = -1
  <2>1. PICK k \in Nat : Quotient(a, b) = Sign(a) * Sign(b) * k /\ (Abs(b) = 1 => k = Abs(a))
    BY <1>3, Quotients
  <2>2. Sign(b) = -1 /\ Abs(b) = 1 /\ k = Abs(a)
    <3>0. b < 0 /\ b > -2
      BY <1>5
    <3>1. b < 0 /\ -b = 1
      BY <3>0
    <3>2. Sign(b) = -1
      BY <3>1 DEF Sign
    <3>3. Abs(b) = 1
      BY <3>1 DEF Abs
    <3> QED
      BY <2>1, <3>2, <3>3
  <2>3. Quotient(a, b) = -a
    <3>1. CASE a < 0
      <4>1. Sign(a) = -1 /\ k = -a
        BY <1>3, <3>1, <2>2 DEF Sign, Abs
      <4> QED
        BY <1>3, <2>1, <2>2, <4>1
    <3>2. CASE a >= 0
      <4>1. Sign(a) = 1 /\ k = a
        BY <1>3, <3>2, <2>2 DEF Sign, Abs
      <4> QED
        BY <1>3, <2>1, <2>2, <4>1
    <3> QED
      BY <1>3, <3>1, <3>2
  <2> QED
    BY <1>2, <1>5, <2>3
<1> QED
  BY <1>4, <1>5

LEMMA ShiftRight ==
  ASSUME NEW w \in 1..LongBits, NEW a \in Word(w), NEW b \in Int
  PROVE  /\ a \div 2^(b % w) \in Word(w)
         /\ a * 2^(b % w) \in Int
<1>1. PICK p \in Nat \ {0} : p = 2^(w - 1)
  BY Half
<1>2. a \in (-p)..(p - 1) /\ Word(w) = (-p)..(p - 1)
  BY <1>1, WordIs
<1>3. PICK d \in Nat \ {0} : d = 2^(b % w)
  <2>1. w \in Nat \ {0} /\ w <= LongBits
    OBVIOUS
  <2>2. b % w \in 0..(w - 1)
    BY <2>1, DivMod
  <2>3. b % w \in 0..LongBits
    BY <2>1, <2>2, WidthAssumption
  <2> QED
    BY <2>3, Powers
<1>4. PICK q \in Int, r \in 0..(d - 1) : a = d * q + r /\ q = a \div d
  <2>1. a \in Int
    BY <1>2
  <2> QED
    BY <2>1, DivMod
<1>5. q >= -p
  <2>1. CASE q <= -p - 1
    <3>1. d * (q + 1) <= q + 1
      <4>1. (d - 1) * (q + 1) <= 0
        BY <2>1
      <4>2. (d - 1) * (q + 1) = d * (q + 1) - (q + 1)
        OBVIOUS
      <4> QED
        BY <4>1, <4>2
    <3>2. d * (q + 1) = d * q + d
      OBVIOUS
    <3>3. a < d * q + d
      BY <1>4
    <3> QED
      BY <1>2, <2>1, <3>1, <3>2, <3>3
  <2> QED
    BY <2>1
<1>6. q <= p - 1
  <2>1. CASE q >= p
    <3>1. d * q >= q
      <4>1. (d - 1) * q >= 0
        BY <2>1
      <4>2. (d - 1) * q = d * q - q
        OBVIOUS
      <4> QED
        BY <4>1, <4>2
    <3> QED
      BY <1>2, <1>4, <2>1, <3>1
  <2> QED
    BY <2>1
<1> QED
  BY <1>2, <1>3, <1>4, <1>5, <1>6

(* What an operator of C yields on words is a word, or the program traps. *)
LEMMA OperatorInWord ==
  ASSUME NEW w \in 1..LongBits, NEW a \in Word(w), NEW b \in Int,
         NEW op \in {"add", "sub", "mul", "div"} \union BitOps \union Shifts
  PROVE  c_op(op, a, b, w) \in Word(w) \/ (op = "div" /\ c_op(op, a, b, w) = SIGFPE)
<1>1. a \in Int
  BY WordIs
<1>2. CASE op \in {"add", "sub", "mul"}
  <2>1. a + b \in Int /\ a - b \in Int /\ a * b \in Int
    BY <1>1
  <2>2. Wrap(a + b, w) \in Word(w) /\ Wrap(a - b, w) \in Word(w) /\ Wrap(a * b, w) \in Word(w)
    BY <2>1, Wraps
  <2> QED
    BY <1>2, <2>2 DEF c_op
<1>3. CASE op = "div"
  <2>1. c_op(op, a, b, w) = IF b = 0 \/ (b = -1 /\ a = Least(w)) THEN SIGFPE ELSE Quotient(a, b)
    BY <1>3 DEF c_op
  <2> QED
    BY <1>3, <2>1, QuotientInWord
<1>4. CASE op \in BitOps
  <2>1. c_op(op, a, b, w) = c_bitwise(op, a, b, w)
    BY <1>4 DEF c_op, BitOps
  <2> QED
    BY <1>1, <1>4, <2>1, BitwiseIs
<1>5. CASE op \in Shifts
  <2>1. Wrap(a * 2^(b % w), w) \in Word(w) /\ a \div 2^(b % w) \in Word(w)
    BY ShiftRight, Wraps
  <2> QED
    BY <1>5, <2>1 DEF c_op, Shifts
<1> QED
  BY <1>2, <1>3, <1>4, <1>5

LEMMA FactorialIs ==
  ASSUME NEW n \in Nat
  PROVE  factorial[n] \in Nat
<1> DEFINE B == {0}
           m == [k \in Nat |-> k]
           base == [k \in Nat |-> 1]
           p == [k \in Nat |-> IF k = 0 THEN 0 ELSE k - 1]
           h == [q \in Nat \X Nat |-> q[1] * q[2]]
           Rule(f, k) == IF k = 0 THEN 1 ELSE k * f[k - 1]
<1>1. m \in [Nat -> Nat] /\ base \in [Nat -> Nat] /\ p \in [Nat -> Nat] /\ h \in [Nat \X Nat -> Nat]
  OBVIOUS
<1>2. \A k \in Nat \ B : m[p[k]] < m[k]
  OBVIOUS
<1>3. PICK f \in [Nat -> Nat] : Recursive(f, Nat, B, base, p, h)
  <2> HIDE DEF B, m, base, p, h
  <2> QED
    BY <1>1, <1>2, Recursion
<1>4. ASSUME NEW k \in Nat
      PROVE  f[k] = Rule(f, k)
  <2>1. f[k] = IF k \in B THEN base[k] ELSE h[<<k, f[p[k]]>>]
    BY <1>3 DEF Recursive
  <2>2. CASE k = 0
    BY <2>1, <2>2
  <2>3. CASE k # 0
    <3>1. p[k] = k - 1 /\ k - 1 \in Nat /\ f[k - 1] \in Nat
      BY <2>3
    <3>2. h[<<k, f[k - 1]>>] = k * f[k - 1]
      BY <3>1
    <3>3. k \notin B
      BY <2>3
    <3> QED
      BY <2>1, <2>3, <3>1, <3>2, <3>3
  <2> QED
    BY <2>2, <2>3
<1>5. f = [k \in Nat |-> Rule(f, k)]
  <2>1. f = [k \in Nat |-> f[k]]
    OBVIOUS
  <2> HIDE DEF Rule
  <2> QED
    BY <1>4, <2>1
<1>6. PICK g : g = CHOOSE f_1 : f_1 = [k \in Nat |-> Rule(f_1, k)]
  OBVIOUS
<1>7. g = [k \in Nat |-> Rule(g, k)]
  <2> HIDE DEF Rule
  <2> QED
    BY <1>5, <1>6
<1>8. factorial = g
  BY <1>6, Zenon DEF factorial
<1>9. \A k \in Nat : g[k] = Rule(g, k)
  <2> HIDE DEF Rule
  <2> QED
    BY <1>7
<1>10. \A k \in Nat : k \in B => g[k] \in Nat
  BY <1>9
<1>11. \A k \in Nat \ B : g[p[k]] \in Nat => g[k] \in Nat
  <2> TAKE k \in Nat \ B
  <2> HAVE g[p[k]] \in Nat
  <2>1. g[k] = k * g[k - 1] /\ p[k] = k - 1
    BY <1>9
  <2> QED
    BY <2>1
<1>12. Descends(Nat, Nat, B, m, p, g)
  <2> HIDE DEF B, m, p
  <2> QED
    BY <1>1, <1>2, <1>10, <1>11 DEF Descends
<1>13. \A k \in Nat : g[k] \in Nat
  <2> HIDE DEF B, m, p
  <2> QED
    BY <1>12, Descent
<1> QED
  BY <1>8, <1>13

LEMMA FactorialInWord ==
  ASSUME NEW w \in 1..LongBits, NEW n \in Int
  PROVE  c_factorial(n, w) \in Word(w) \union {1}
<1>1. CASE n < 1
  BY <1>1 DEF c_factorial
<1>2. CASE n >= 1
  <2>1. n \in Nat
    BY <1>2
  <2>2. factorial[n] \in Int
    BY <2>1, FactorialIs
  <2> QED
    BY <1>2, <2>2, Wraps DEF c_factorial
<1> QED
  BY <1>1, <1>2

-----------------------------------------------------------------------------
(* The remainder by the mask of the divisor, where the divisor allows it.   *)

LEMMA MaskedRemainder ==
  ASSUME NEW a \in Word(LongBits), NEW b \in Word(LongBits), b # 0,
         NoCommonBit(b, b - 1, LongBits)
  PROVE  \E r \in Int : /\ c_bitwise("bw_and", a, b - 1, LongBits) = r
                        /\ Abs(r) < Abs(b) /\ (a - r) % Abs(b) = 0
<1>1. PICK p \in Nat \ {0}, d \in Nat \ {0} : p = 2^(LongBits - 1) /\ d = 2^LongBits /\ d = 2 * p
  BY Widths, Half
<1>2. Word(LongBits) = (-p)..(p - 1) /\ a \in (-p)..(p - 1) /\ b \in (-p)..(p - 1)
  BY <1>1, Widths, WordIs
<1>3. PICK B \in Nat \ {0} : /\ Bits(b, LongBits) = B /\ Bits(b - 1, LongBits) = B - 1
                             /\ B = (IF b > 0 THEN b ELSE b + d) /\ B < d
  <2>1. CASE b > 0
    <3>1. b = d * 0 + b /\ b \in 0..(d - 1) /\ b - 1 = d * 0 + (b - 1) /\ b - 1 \in 0..(d - 1)
      BY <1>1, <1>2, <2>1
    <3>2. b % d = b /\ (b - 1) % d = b - 1
      BY <3>1, DivUnique
    <3> QED
      BY <1>1, <1>2, <2>1, <3>1, <3>2 DEF Bits
  <2>2. CASE b < 0
    <3>0. b \in Int /\ b >= -p /\ d = 2 * p
      BY <1>1, <1>2
    <3>1. PICK e \in Nat \ {0} : e = b + d /\ e < d
      BY <2>2, <3>0
    <3>2. b \in Int /\ b - 1 \in Int /\ -1 \in Int /\ e \in 0..(d - 1) /\ e - 1 \in 0..(d - 1)
      BY <1>2, <3>1
    <3>3. b = d * (-1) + e /\ b - 1 = d * (-1) + (e - 1)
      BY <1>2, <3>1
    <3>4. b % d = e
      BY <3>2, <3>3, DivUnique
    <3>5. (b - 1) % d = e - 1
      BY <3>2, <3>3, DivUnique
    <3>6. ~(b > 0)
      BY <2>2, <3>2
    <3>7. Bits(b, LongBits) = e /\ Bits(b - 1, LongBits) = e - 1
      BY <1>1, <3>4, <3>5 DEF Bits
    <3> QED
      BY <3>1, <3>6, <3>7
  <2> QED
    BY <1>2, <2>1, <2>2
<1>4. Mask(B)
  BY <1>3 DEF NoCommonBit, Mask, And
<1>5. PICK q \in Nat \ {0} : d = B * q
  <2>1. LongBits \in 0..LongBits /\ B <= 2^LongBits
    BY <1>1, <1>3, Widths
  <2> QED
    BY <1>1, <1>4, <2>1, MaskDivides
<1>6. Abs(b) = B /\ B <= p
  <2>1. CASE b > 0
    BY <1>2, <1>3, <2>1 DEF Abs
  <2>2. CASE b < 0
    <3>1. B >= p /\ B < 2 * p
      BY <1>1, <1>2, <1>3, <2>2
    <3>2. q # 1
      BY <1>1, <1>5, <3>1
    <3>3. ~(q >= 3)
      <4>1. CASE q >= 3
        <5>1. B * (q - 3) >= 0
          BY <4>1
        <5>2. B * (q - 3) = B * q - B * 3
          OBVIOUS
        <5> QED
          BY <1>1, <1>5, <3>1, <5>1, <5>2
      <4> QED
        BY <4>1
    <3>4. q = 2
      BY <3>2, <3>3
    <3>5. B = p /\ b = -p
      <4>1. d = B * 2
        BY <1>5, <3>4
      <4>2. B = b + d /\ b \in Int
        BY <1>2, <1>3, <2>2
      <4> QED
        BY <1>1, <4>1, <4>2
    <3> QED
      BY <2>2, <3>5 DEF Abs
  <2> QED
    BY <1>2, <2>1, <2>2
<1>7. PICK A \in Nat, j \in Int : A = Bits(a, LongBits) /\ a = d * j + A
  <2>1. a \in Int
    BY <1>2
  <2>2. a = d * (a \div d) + (a % d) /\ a \div d \in Int /\ a % d \in Nat
    BY <2>1, DivMod
  <2> QED
    BY <1>1, <2>2 DEF Bits
<1>8. PICK m \in 0..(B - 1), k \in Int : A = B * k + m /\ m = A % B
  <2>1. A \in Int
    OBVIOUS
  <2> QED
    BY <2>1, DivMod
<1>9. And(A, B - 1) = m
  BY <1>4, <1>8, MaskIsRemainder
<1>10. c_bitwise("bw_and", a, b - 1, LongBits) = m
  <2>1. m \in Word(LongBits) /\ m \in Int
    BY <1>2, <1>6
  <2>2. Wrap(m, LongBits) = m
    BY <2>1, Widths, Wraps
  <2> QED
    BY <1>3, <1>7, <1>9, <2>2 DEF c_bitwise, And
<1>11. (a - m) % B = 0
  <2>1. PICK x \in Int : x = q * j
    OBVIOUS
  <2>2. d * j = B * x
    BY <1>5, <2>1
  <2>3. a - m = B * x + B * k
    <3>1. PICK u \in Int, v \in Int : u = B * x /\ v = B * k
      OBVIOUS
    <3>2. a = u + A /\ A = v + m
      BY <1>7, <1>8, <2>2, <3>1
    <3>3. a - m = u + v
      BY <3>2
    <3> QED
      BY <3>1, <3>3
  <2>4. PICK y \in Int : y = x + k
    OBVIOUS
  <2>5. B * x + B * k = B * y
    BY <2>4
  <2>6. (B * y) % B = 0
    BY Multiple
  <2> QED
    BY <2>3, <2>5, <2>6
<1>12. Abs(m) < Abs(b)
  BY <1>6 DEF Abs
<1> QED
  BY <1>6, <1>10, <1>11, <1>12

LEMMA ModRight ==
  ASSUME NEW a \in Word(LongBits), NEW b \in Word(LongBits), b # 0, c_mod(a, b) # SIGFPE
  PROVE  Abs(c_mod(a, b)) < Abs(b) /\ (a - c_mod(a, b)) % Abs(b) = 0
<1>1. a \in Int /\ b \in Int
  BY Widths, WordIs
<1>2. CASE b = 1
  <2>1. c_mod(a, b) = 0
    BY <1>2 DEF c_mod
  <2>2. Abs(b) = 1 /\ Abs(0) = 0 /\ a % 1 = 0
    BY <1>1, <1>2 DEF Abs
  <2> QED
    BY <1>1, <2>1, <2>2
<1>3. CASE b # 1 /\ NoCommonBit(b, b - 1, LongBits)
  <2>1. c_mod(a, b) = c_bitwise("bw_and", a, b - 1, LongBits)
    BY <1>3 DEF c_mod
  <2> QED
    BY <1>3, <2>1, MaskedRemainder
<1>4. CASE b # 1 /\ ~NoCommonBit(b, b - 1, LongBits)
  <2>1. c_mod(a, b) = Remainder(a, b)
    BY <1>4 DEF c_mod
  <2> QED
    BY <1>1, <2>1, RemainderIs
<1> QED
  BY <1>2, <1>3, <1>4

-----------------------------------------------------------------------------
(* Doubles. *)

LEMMA DoublesAre ==
  /\ Infinity \in Nat /\ Infinity > 4 /\ NaN = Infinity + 1 /\ NaN \in Int
  /\ Doubles = (-Infinity)..(Infinity + 1) /\ Doubles \subseteq Int
  /\ Infinity \in Doubles /\ -Infinity \in Doubles /\ NaN \in Doubles /\ 0 \in Doubles
<1>1. Infinity \in Nat /\ Infinity > 2^LongBits
  BY WidthAssumption
<1>2. 2^LongBits = 2 * 2^(LongBits - 1) /\ 2^(LongBits - 1) = 2 * 2^(LongBits - 1 - 1)
      /\ 2^(LongBits - 1 - 1) \in Nat \ {0}
  <2>1. LongBits \in 1..LongBits /\ LongBits - 1 \in 1..LongBits
    BY Widths
  <2> QED
    BY <2>1, Half
<1>3. Infinity > 4 - 1
  BY <1>1, <1>2
<1>4. 2^LongBits >= 4
  BY <1>2
<1>5. Infinity > 4
  <2>1. 2^LongBits \in Int
    BY <1>2
  <2> QED
    BY <1>1, <1>4, <2>1
<1> QED
  BY <1>1, <1>5 DEF NaN, Doubles

LEMMA RoundedIs ==
  ASSUME NEW n \in Int
  PROVE  Rounded(n) \in Doubles /\ Rounded(n) # NaN /\ FromLong(n) \in Doubles
<1>1. \A k \in Int : Rounded(k) \in Doubles /\ Rounded(k) # NaN
  BY DoublesAre DEF Rounded
<1>2. 2 * n \in Int
  OBVIOUS
<1> QED
  BY <1>1, <1>2 DEF FromLong

LEMMA SignsAre ==
  ASSUME NEW a \in Int, NEW b \in Int
  PROVE  Sign(a) * Sign(b) * Infinity \in Doubles
<1>1. Sign(a) \in {1, -1} /\ Sign(b) \in {1, -1}
  BY DEF Sign
<1>2. PICK i \in Nat : i = Infinity
  BY DoublesAre
<1>3. \A x \in {1, -1}, y \in {1, -1} : x * y * i \in {i, -i}
  <2>1. 1 * 1 * i = i /\ 1 * (-1) * i = -i /\ (-1) * 1 * i = -i /\ (-1) * (-1) * i = i
    OBVIOUS
  <2> QED
    BY <2>1
<1>4. Sign(a) * Sign(b) * i \in {i, -i}
  BY <1>1, <1>3
<1> QED
  BY <1>2, <1>4, DoublesAre

LEMMA DoubleOperators ==
  ASSUME NEW a \in Doubles, NEW b \in Doubles, NEW op \in Arithmetic
  PROVE  d_op(op, a, b) \in Doubles
<1>1. a \in Int /\ b \in Int
  BY DoublesAre
<1>2. \A y \in Doubles : d_add(a, y) \in Doubles
  <2> TAKE y \in Doubles
  <2>1. y \in Int /\ a + y \in Int
    BY <1>1, DoublesAre
  <2>2. Rounded(a + y) \in Doubles
    BY <2>1, RoundedIs
  <2> QED
    BY <2>2, DoublesAre DEF d_add
<1>3. (IF b = NaN THEN NaN ELSE -b) \in Doubles
  BY DoublesAre
<1>4. d_mul(a, b) \in Doubles
  <2>1. a * b \in Int /\ 2 \in Int
    BY <1>1
  <2>2. Quotient(a * b, 2) \in Int
    BY <2>1, QuotientIs
  <2>3. Rounded(Quotient(a * b, 2)) \in Doubles
    BY <2>2, RoundedIs
  <2>4. Sign(a) * Sign(b) * Infinity \in Doubles
    BY <1>1, SignsAre
  <2> QED
    BY <2>3, <2>4, DoublesAre DEF d_mul
<1>5. d_div(a, b) \in Doubles
  <2>1. 2 * a \in Int
    BY <1>1
  <2>2. b # 0 => Quotient(2 * a, b) \in Int
    BY <1>1, <2>1, QuotientIs
  <2>3. b # 0 => Rounded(Quotient(2 * a, b)) \in Doubles
    BY <2>2, RoundedIs
  <2>4. Sign(a) * Sign(b) * Infinity \in Doubles
    BY <1>1, SignsAre
  <2> QED
    BY <2>3, <2>4, DoublesAre DEF d_div
<1>6. d_mod(a, b) \in Doubles
  <2>1. b # 0 => /\ a >= 0 => Remainder(a, b) \in 0..a
                 /\ a < 0 => Remainder(a, b) \in a..0
    BY <1>1, RemainderIs
  <2>2. b # 0 => Remainder(a, b) \in Doubles
    BY <1>1, <2>1, DoublesAre
  <2> QED
    BY <2>2, DoublesAre DEF d_mod
<1> QED
  BY <1>2, <1>3, <1>4, <1>5, <1>6 DEF d_op, Arithmetic

LEMMA ToLongIs ==
  ASSUME NEW x \in Int, NEW w \in 1..LongBits
  PROVE  ToLong(x, w) \in Word(w) /\ ToLong(x, w) \in Int
<1>1. PICK p \in Nat \ {0} : p = 2^(w - 1)
  BY Half
<1>2. Least(w) \in Word(w) /\ Word(w) \subseteq Int
  BY <1>1, WordIs DEF Least
<1>3. Quotient(x, 2) \in Int
  <2>1. 2 \in Int
    OBVIOUS
  <2> QED
    BY <2>1, QuotientIs
<1>4. Fits(Quotient(x, 2), w) => Quotient(x, 2) \in Word(w)
  BY <1>3, Wraps
<1> QED
  BY <1>2, <1>4 DEF ToLong

-----------------------------------------------------------------------------
(* Values of the builtin types. *)

Heap(h) == DOMAIN h = Names /\ \A x \in Names : Object(h[x])
Operand(x) == Object(x) \/ \E r \in Operands : x = Reference(r)
Result(x) == x \in {Error, Crash} \/ Object(x)

LEMMA Constructed ==
  ASSUME NEW t, NEW n, NEW s
  PROVE  /\ Value(t, n).t = t /\ Value(t, n).v = n /\ Value(t, n).s = << >>
         /\ Text(s).t = "String" /\ Text(s).v = 0 /\ Text(s).s = s
BY DEF Value, Text

LEMMA Typed ==
  ASSUME NEW t \in Kinds, NEW n \in Int,
         t = "Integer" => n \in Word(LongBits), t = "Char" => n \in Word(CharBits),
         t = "Float" => n \in Doubles, t = "Boolean" => n \in {0, 1}
  PROVE  Object(Value(t, n))
<1>1. << >> \in Seq(Pieces)
  OBVIOUS
<1>2. Value(t, n) \in [t : Kinds, v : Int, s : Seq(Pieces)]
  BY <1>1 DEF Value
<1> QED
  BY <1>2, Constructed DEF Object

LEMMA Texts ==
  ASSUME NEW s \in Seq(Pieces)
  PROVE  Object(Text(s))
<1>1. Text(s) \in [t : Kinds, v : Int, s : Seq(Pieces)]
  BY DEF Text, Kinds
<1> QED
  BY <1>1, Constructed DEF Object

LEMMA Integers ==
  ASSUME NEW n \in Word(LongBits) \union {SIGFPE}
  PROVE  Result(Integer(n))
<1>1. CASE n = SIGFPE
  BY <1>1 DEF Integer, Result
<1>2. CASE n # SIGFPE
  <2>1. n \in Int /\ "Integer" \in Kinds
    BY <1>2, Widths, WordIs DEF Kinds
  <2>2. Object(Value("Integer", n))
    BY <1>2, <2>1, Typed
  <2> QED
    BY <1>2, <2>2 DEF Integer, Result
<1> QED
  BY <1>1, <1>2

LEMMA Chars ==
  ASSUME NEW n \in Int
  PROVE  Result(Char(n))
<1>1. CASE n = SIGFPE
  BY <1>1 DEF Char, Result
<1>2. CASE n # SIGFPE
  <2>1. Wrap(n, CharBits) \in Word(CharBits) /\ Wrap(n, CharBits) \in Int /\ "Char" \in Kinds
    BY Widths, Wraps DEF Kinds
  <2>2. Object(Value("Char", Wrap(n, CharBits)))
    BY <2>1, Typed
  <2> QED
    BY <1>2, <2>2 DEF Char, Result
<1> QED
  BY <1>1, <1>2

LEMMA Floats ==
  ASSUME NEW x \in Doubles
  PROVE  Object(Float(x))
<1>1. x \in Int /\ "Float" \in Kinds
  BY DoublesAre DEF Kinds
<1> QED
  BY <1>1, Typed DEF Float

LEMMA FloatOfLong ==
  ASSUME NEW n \in Int
  PROVE  Object(Float(FromLong(n)))
BY RoundedIs, Floats

LEMMA Truths ==
  ASSUME NEW b \in BOOLEAN
  PROVE  /\ Truth(b) \in {0, 1} /\ Result(Boolean(b)) /\ Result(Integer(Truth(b)))
         /\ Result(Char(Truth(b))) /\ Object(Float(FromLong(Truth(b))))
<1>1. Truth(b) \in {0, 1} /\ Truth(b) \in Int
  BY DEF Truth
<1>2. Result(Boolean(b))
  <2>1. "Boolean" \in Kinds
    BY DEF Kinds
  <2> QED
    BY <1>1, <2>1, Typed DEF Boolean, Result
<1>3. Result(Integer(Truth(b)))
  <2>1. Truth(b) \in Word(LongBits) \union {SIGFPE}
    BY <1>1, Widths
  <2> QED
    BY <2>1, Integers
<1>4. Result(Char(Truth(b)))
  BY <1>1, Chars
<1>5. Object(Float(FromLong(Truth(b))))
  BY <1>1, FloatOfLong
<1> QED
  BY <1>1, <1>2, <1>3, <1>4, <1>5

LEMMA Fields ==
  ASSUME NEW x, Object(x)
  PROVE  /\ x.t \in Kinds /\ x.t # "Reference" /\ x.v \in Int /\ x.s \in Seq(Pieces)
         /\ x.t = "Integer" => x.v \in Word(LongBits)
         /\ x.t = "Char" => x.v \in Word(CharBits)
         /\ x.t = "Float" => x.v \in Doubles
<1>1. x.t \in Kinds /\ x.v \in Int /\ x.s \in Seq(Pieces)
  BY DEF Object
<1>2. "Reference" \notin Kinds
  BY DEF Kinds, Collections
<1> QED
  BY <1>1, <1>2 DEF Object

LEMMA StringValues ==
  ASSUME NEW x, Object(x)
  PROVE  string_ivalue(x) \in Int /\ string_fvalue(x) \in Doubles
<1>1. x.s \in Seq(Pieces)
  BY Fields
<1>2. x.s # << >> => x.s[1] \in Pieces
  <2> SUFFICES ASSUME x.s # << >> PROVE x.s[1] \in Pieces
    OBVIOUS
  <2>1. PICK n \in Nat : n = Len(x.s)
    BY <1>1, LenProperties
  <2>2. n # 0
    BY <1>1, <2>1, EmptySeq
  <2>3. 1 \in 1..Len(x.s)
    BY <2>1, <2>2
  <2> QED
    BY <1>1, <2>3, ElementOfSeq
<1>3. CASE x.s = << >>
  <2>1. string_ivalue(x) = 0
    BY <1>3 DEF string_ivalue
  <2>2. string_fvalue(x) = FromLong(0)
    BY <1>3, <2>1 DEF string_fvalue
  <2>3. FromLong(0) \in Doubles
    <3>1. 0 \in Int
      OBVIOUS
    <3> QED
      BY <3>1, RoundedIs
  <2> QED
    BY <2>1, <2>2, <2>3
<1>4. CASE x.s # << >>
  <2>1. x.s[1][2] \in Int /\ (x.s[1][1] = "%f" => x.s[1][2] \in Doubles)
    BY <1>2, <1>4 DEF Pieces
  <2>2. ToLong(x.s[1][2], LongBits) \in Int
    BY <2>1, Widths, ToLongIs
  <2>3. string_ivalue(x) \in Int
    BY <1>4, <2>1, <2>2 DEF string_ivalue
  <2>4. FromLong(string_ivalue(x)) \in Doubles
    BY <2>3, RoundedIs
  <2> QED
    BY <2>1, <2>3, <2>4 DEF string_fvalue
<1> QED
  BY <1>3, <1>4

LEMMA Singleton ==
  ASSUME NEW p \in Pieces
  PROVE  <<p>> \in Seq(Pieces)
OBVIOUS

LEMMA ScalarValues ==
  ASSUME NEW x, Object(x)
  PROVE  /\ scalar_ivalue(x) \in Int /\ scalar_fvalue(x) \in Doubles
         /\ scalar_svalue(x) \in Seq(Pieces)
<1>1. x.t \in Kinds /\ x.v \in Int /\ x.s \in Seq(Pieces) /\ (x.t = "Float" => x.v \in Doubles)
  BY Fields
<1>2. scalar_ivalue(x) \in Int
  <2>1. float_ivalue(x) \in Int
    BY <1>1, Widths, ToLongIs DEF float_ivalue
  <2> QED
    BY <1>1, <2>1, StringValues DEF scalar_ivalue, int_values
<1>3. scalar_fvalue(x) \in Doubles
  <2>1. FromLong(int_values(x)) \in Doubles
    BY <1>1, RoundedIs DEF int_values
  <2> QED
    BY <1>1, <2>1, StringValues DEF scalar_fvalue
<1>4. /\ {"%d", "%c", "%s", "%p"} \subseteq Formats \ {"%f"}
      /\ Kinds \subseteq Formats \ {"%f"} /\ "%f" \in Formats
  BY DEF Formats, Kinds, Collections
<1>5. \A f \in Formats \ {"%f"}, n \in Int : <<f, n>> \in Pieces
  BY DEF Pieces
<1>6. Wrap(x.v, IntBits) \in Int
  BY <1>1, Widths, Wraps
<1>7. scalar_svalue(x) \in Seq(Pieces)
  <2>1. int_svalue(x) \in Seq(Pieces)
    <3>1. <<"%d", Wrap(x.v, IntBits)>> \in Pieces
      BY <1>4, <1>5, <1>6
    <3> QED
      BY <3>1, Singleton DEF int_svalue
  <2>2. x.t = "Float" => float_svalue(x) \in Seq(Pieces)
    <3> SUFFICES ASSUME x.t = "Float" PROVE float_svalue(x) \in Seq(Pieces)
      OBVIOUS
    <3>1. <<"%f", x.v>> \in Pieces
      BY <1>1, <1>4 DEF Pieces
    <3> QED
      BY <3>1, Singleton DEF float_svalue
  <2>3. char_svalue(x) \in Seq(Pieces)
    <3>1. <<"%c", x.v>> \in Pieces
      BY <1>1, <1>4, <1>5
    <3>2. << >> \in Seq(Pieces) /\ <<<<"%c", x.v>>>> \in Seq(Pieces)
      BY <3>1, Singleton
    <3> QED
      BY <3>2 DEF char_svalue
  <2>4. bool_svalue(x) \in Seq(Pieces)
    <3>1. <<"%s", x.v>> \in Pieces
      BY <1>1, <1>4, <1>5
    <3> QED
      BY <3>1, Singleton DEF bool_svalue
  <2>5. handle_svalue(x) \in Seq(Pieces)
    <3>1. <<"%p", x.v>> \in Pieces
      BY <1>1, <1>4, <1>5
    <3> QED
      BY <3>1, Singleton DEF handle_svalue
  <2>6. <<<<x.t, x.v>>>> \in Seq(Pieces)
    <3>1. <<x.t, x.v>> \in Pieces
      BY <1>1, <1>4, <1>5
    <3> QED
      BY <3>1, Singleton
  <2> QED
    BY <1>1, <2>1, <2>2, <2>3, <2>4, <2>5, <2>6 DEF scalar_svalue
<1> QED
  BY <1>2, <1>3, <1>7

LEMMA Operated ==
  ASSUME NEW h, Heap(h), NEW x, Operand(x)
  PROVE  /\ ob_ivalue(h, x) \in Int /\ ob_fvalue(h, x) \in Doubles /\ ob_svalue(h, x) \in Seq(Pieces)
         /\ x.t = "String" => x.s \in Seq(Pieces)
<1>1. CASE Object(x)
  <2>1. x.t # "Reference" /\ x.s \in Seq(Pieces)
    BY <1>1, Fields
  <2> QED
    BY <1>1, <2>1, ScalarValues DEF ob_ivalue, ob_fvalue, ob_svalue
<1>2. CASE \E r \in Operands : x = Reference(r)
  <2>1. PICK r \in Operands : x = Reference(r)
    BY <1>2
  <2>2. x.t = "Reference" /\ x.v = r
    BY <2>1, Constructed DEF Reference
  <2>3. CASE r = 0
    <3>1. <<"<null>", 0>> \in Pieces
      BY DEF Pieces, Formats
    <3>2. <<<<"<null>", 0>>>> \in Seq(Pieces)
      BY <3>1, Singleton
    <3> QED
      BY <2>2, <2>3, <3>2, DoublesAre DEF ob_ivalue, ob_fvalue, ob_svalue
  <2>4. CASE r # 0
    <3>1. Object(h[r])
      BY <2>4 DEF Operands, Heap
    <3> QED
      BY <2>2, <2>4, <3>1, ScalarValues DEF ob_ivalue, ob_fvalue, ob_svalue
  <2> QED
    BY <2>3, <2>4
<1> QED
  BY <1>1, <1>2 DEF Operand

(* Which operators a type has. *)
LEMMA Tables ==
  /\ \A op \in Numeric : /\ ~Supports("Binary", op) /\ ~Supports("Map", op)
                         /\ ~Supports("Structure", op)
                         /\ Supports("Integer", op) /\ Supports("Char", op) /\ Supports("Float", op)
  /\ \A op \in Arithmetic \union InplaceArithmetic \union Bitwise2 \union InplaceBitwise :
        ~Supports("Boolean", op) /\ ~Supports("Handle", op)
  /\ \A op \in Numeric : Supports("String", op) => op \in {"add", "inplace_add", "l_same", "l_diff"}
  /\ Supports("String", "add") /\ Supports("String", "inplace_add")
  /\ \A op \in Logic : Supports("Boolean", op) /\ Supports("Handle", op)
<1> USE DEF Numeric, Arithmetic, InplaceArithmetic, Bitwise2, InplaceBitwise, Logic, Comparison, Unary
<1>1. \A op \in Numeric : ~Supports("Binary", op)
  BY DEF Supports, Table, BinaryTable, Every
<1>2. \A op \in Numeric : ~Supports("Map", op)
  BY DEF Supports, Table, MapTable, Every
<1>3. \A op \in Numeric : ~Supports("Structure", op)
  BY DEF Supports, Table, StructureTable, Every
<1>4. \A op \in Numeric : Supports("Integer", op)
  BY DEF Supports, Table, IntegerTable
<1>5. \A op \in Numeric : Supports("Char", op)
  BY DEF Supports, Table, CharTable
<1>6. \A op \in Numeric : Supports("Float", op)
  BY DEF Supports, Table, FloatTable
<1>7. \A op \in Arithmetic \union InplaceArithmetic \union Bitwise2 \union InplaceBitwise :
        ~Supports("Boolean", op)
  BY DEF Supports, Table, BooleanTable, Every, Stream, Convertible
<1>8. \A op \in Arithmetic \union InplaceArithmetic \union Bitwise2 \union InplaceBitwise :
        ~Supports("Handle", op)
  BY DEF Supports, Table, HandleTable, Every, Stream, Convertible
<1>9. \A op \in Numeric : Supports("String", op) => op \in {"add", "inplace_add", "l_same", "l_diff"}
  BY DEF Supports, Table, StringTable, Every, Stream, Convertible
<1>10. Supports("String", "add") /\ Supports("String", "inplace_add")
  BY DEF Supports, Table, StringTable
<1>11. \A op \in Logic : Supports("Boolean", op)
  BY DEF Supports, Table, BooleanTable
<1>12. \A op \in Logic : Supports("Handle", op)
  BY DEF Supports, Table, HandleTable
<1> QED
  BY <1>1, <1>2, <1>3, <1>4, <1>5, <1>6, <1>7, <1>8, <1>9, <1>10, <1>11, <1>12

-----------------------------------------------------------------------------
(* Every operator yields a value of a type, or ends the program.            *)

LEMMA Wider ==
  ASSUME NEW v \in 1..LongBits, NEW w \in 1..LongBits, v <= w
  PROVE  Word(v) \subseteq Word(w)
<1> DEFINE S == {n \in Nat : v + n <= LongBits => Word(v) \subseteq Word(v + n)}
<1>0. v \in Nat \ {0} /\ LongBits \in Nat
  BY WidthAssumption
<1>1. S = Nat
  <2> SUFFICES ASSUME NEW n \in Nat, \A k \in 0..(n - 1) : k \in S PROVE n \in S
    <3>1. S \in SUBSET Nat
      OBVIOUS
    <3> HIDE DEF S
    <3> QED
      BY <3>1, NatSet
  <2>1. CASE n = 0
    BY <1>0, <2>1
  <2>2. CASE n # 0
    <3> SUFFICES ASSUME v + n <= LongBits PROVE Word(v) \subseteq Word(v + n)
      OBVIOUS
    <3>1. PICK u \in 1..LongBits : u = v + n - 1 /\ u + 1 \in 1..LongBits /\ v + n = u + 1
      BY <1>0, <2>2
    <3>2. Word(v) \subseteq Word(u)
      <4>1. n - 1 \in S /\ v + (n - 1) = u /\ u <= LongBits
        BY <1>0, <2>2, <3>1
      <4> QED
        BY <4>1
    <3>3. PICK p \in Nat \ {0} : p = 2^(u - 1) /\ 2^u = 2 * p
      BY <3>1, Half
    <3>4. Word(u) = (-p)..(p - 1)
      BY <3>1, <3>3, WordIs
    <3>5. PICK e \in Nat \ {0} : e = 2 * p
      OBVIOUS
    <3>6. 2^(u + 1 - 1) = e
      <4>1. u + 1 - 1 = u
        BY <3>1
      <4> QED
        BY <3>3, <3>5, <4>1
    <3>7. Word(u + 1) = (-e)..(e - 1)
      BY <3>1, <3>6, WordIs
    <3> QED
      BY <3>1, <3>2, <3>4, <3>5, <3>7
  <2> QED
    BY <2>1, <2>2
<1>2. w - v \in Nat /\ v + (w - v) = w
  BY <1>0
<1>3. w - v \in S
  <2> HIDE DEF S
  <2> QED
    BY <1>1, <1>2
<1> QED
  BY <1>0, <1>2, <1>3

LEMMA Concatenated ==
  ASSUME NEW s \in Seq(Pieces), NEW t \in Seq(Pieces)
  PROVE  Object(Text(s \o t))
BY ConcatProperties, Texts

Compounds == InplaceArithmetic \union InplaceBitwise

LEMMA OperatorIs ==
  ASSUME NEW v \in 1..LongBits, NEW w \in 1..LongBits, v <= w, NEW a \in Word(v), NEW b \in Int,
         NEW op \in {"add", "sub", "mul", "div"} \union Bitwise2
  PROVE  /\ c_op(op, a, b, w) \in Int
         /\ op \in Bitwise2 => c_op(op, a, b, w) \in Word(w)
         /\ w = LongBits => c_op(op, a, b, w) \in Word(w) \union {SIGFPE}
<1>1. a \in Word(w)
  BY Wider
<1>2. op \in {"add", "sub", "mul", "div"} \union BitOps \union Shifts
  BY DEF BitOps, Shifts, Bitwise2
<1>3. c_op(op, a, b, w) \in Word(w) \/ (op = "div" /\ c_op(op, a, b, w) = SIGFPE)
  BY <1>1, <1>2, OperatorInWord
<1>4. "div" \notin Bitwise2 /\ Word(w) \subseteq Int /\ SIGFPE \in Int
  BY Widths, WordIs DEF Bitwise2
<1> QED
  BY <1>3, <1>4

LEMMA LogicIs ==
  ASSUME NEW a \in Int, NEW b \in Int, NEW op \in Logic
  PROVE  c_logic(op, a, b) \in BOOLEAN
<1>1. CASE op \in {"l_same", "l_diff"}
  BY <1>1 DEF c_logic
<1>2. CASE op \in {"l_less", "l_greater", "l_less_or_same", "l_greater_or_same"}
  <2>1. (a < b) \in BOOLEAN /\ (a > b) \in BOOLEAN /\ (a <= b) \in BOOLEAN /\ (a >= b) \in BOOLEAN
    OBVIOUS
  <2> QED
    BY <1>2, <2>1 DEF c_logic
<1>3. CASE op \in {"l_or", "l_and"}
  BY <1>3 DEF c_logic
<1> QED
  BY <1>1, <1>2, <1>3 DEF Logic, Comparison

LEMMA IntegerResults ==
  ASSUME NEW h, Heap(h), NEW me, Object(me), me.t = "Integer", NEW b, Operand(b)
  PROVE  /\ \A op \in Arithmetic : Result(int_arith(h, op, me, b))
         /\ \A op \in Bitwise2 : Result(int_bitwise(h, op, me, b))
         /\ \A op \in Logic : Result(int_logic(h, op, me, b))
         /\ \A op \in Unary : Result(int_unary(op, me))
         /\ \A op \in Compounds : Result(int_inplace(h, op, me, b))
<1>1. me.v \in Word(LongBits) /\ me.v \in Int /\ me.s \in Seq(Pieces)
  BY Fields
<1>2. PICK n \in Int : n = ob_ivalue(h, b)
  BY Operated
<1>3. LongBits \in 1..LongBits
  BY Widths
<1>4. \A op \in {"add", "sub", "mul", "div"} \union Bitwise2 :
         Result(Integer(c_op(op, me.v, n, LongBits)))
  <2> TAKE op \in {"add", "sub", "mul", "div"} \union Bitwise2
  <2>1. LongBits <= LongBits
    BY <1>3
  <2>2. c_op(op, me.v, n, LongBits) \in Word(LongBits) \union {SIGFPE}
    BY <1>1, <1>3, <2>1, OperatorIs
  <2> QED
    BY <2>2, Integers
<1>5. Result(Integer(c_mod(me.v, n)))
  BY <1>1, ModInWord, Integers
<1>6. b.t = "String" => Result(Text(int_svalue(me) \o b.s))
  <2> SUFFICES ASSUME b.t = "String" PROVE Result(Text(int_svalue(me) \o b.s))
    OBVIOUS
  <2>1. scalar_svalue(me) = int_svalue(me)
    BY DEF scalar_svalue
  <2>2. int_svalue(me) \in Seq(Pieces) /\ b.s \in Seq(Pieces)
    BY <2>1, ScalarValues, Operated
  <2> QED
    BY <2>2, Concatenated DEF Result
<1>7. \A op \in Arithmetic : Result(int_arith(h, op, me, b))
  BY <1>2, <1>4, <1>5, <1>6 DEF int_arith, Arithmetic
<1>8. \A op \in Bitwise2 : Result(int_bitwise(h, op, me, b))
  BY <1>2, <1>4 DEF int_bitwise
<1>9. \A op \in Logic : Result(int_logic(h, op, me, b))
  <2> TAKE op \in Logic
  <2>1. c_logic(op, me.v, n) \in BOOLEAN
    BY <1>1, LogicIs
  <2> QED
    BY <1>2, <2>1, Truths DEF int_logic
<1>10. \A op \in Unary : Result(int_unary(op, me))
  <2>1. Result(Integer(c_factorial(me.v, LongBits)))
    <3>1. c_factorial(me.v, LongBits) \in Word(LongBits) \union {1}
      BY <1>1, <1>3, FactorialInWord
    <3>2. c_factorial(me.v, LongBits) \in Word(LongBits) \union {SIGFPE}
      BY <3>1, Widths
    <3> QED
      BY <3>2, Integers
  <2>2. \A k \in Int : Result(Integer(Wrap(k, LongBits)))
    BY <1>3, Wraps, Integers
  <2>3. me.v + 1 \in Int /\ me.v - 1 \in Int /\ -me.v \in Int
    BY <1>1
  <2>4. Result(Integer(-me.v - 1))
    <3>1. PICK p \in Nat \ {0} : p = 2^(LongBits - 1)
      BY <1>3, Half
    <3>2. Word(LongBits) = (-p)..(p - 1)
      BY <1>3, <3>1, WordIs
    <3>3. -me.v - 1 \in Word(LongBits)
      BY <1>1, <3>2
    <3> QED
      BY <3>3, Integers
  <2>5. Result(Integer(Truth(me.v = 0)))
    BY Truths
  <2> QED
    BY <2>1, <2>2, <2>3, <2>4, <2>5 DEF int_unary, Unary
<1>11. \A op \in Compounds : Result(int_inplace(h, op, me, b))
  <2> TAKE op \in Compounds
  <2>1. op # "inplace_mod" => int_compound[op] \in {"add", "sub", "mul", "div"} \union Bitwise2
    BY DEF int_compound, Compounds, InplaceArithmetic, InplaceBitwise, Bitwise2
  <2>2. op # "inplace_mod" => Result(Integer(c_op(int_compound[op], me.v, n, LongBits)))
    BY <1>4, <2>1
  <2> QED
    BY <1>2, <1>5, <2>2 DEF int_inplace, Result
<1> QED
  BY <1>7, <1>8, <1>9, <1>10, <1>11

LEMMA CharResults ==
  ASSUME NEW h, Heap(h), NEW me, Object(me), me.t = "Char", NEW b, Operand(b)
  PROVE  /\ \A op \in Arithmetic : Result(char_arith(h, op, me, b))
         /\ \A op \in Bitwise2 : Result(char_bitwise(h, op, me, b))
         /\ \A op \in Logic : Result(char_logic(h, op, me, b))
         /\ \A op \in Unary : Result(char_unary(op, me))
         /\ \A op \in Compounds : Result(char_inplace(h, op, me, b))
<1>1. me.v \in Word(CharBits) /\ me.v \in Int /\ me.s \in Seq(Pieces)
  BY Fields
<1>2. PICK n \in Int : n = ob_ivalue(h, b)
  BY Operated
<1>3. /\ LongBits \in 1..LongBits /\ IntBits \in 1..LongBits /\ CharBits \in 1..LongBits
      /\ CharBits <= IntBits /\ CharBits <= LongBits
  BY Widths, WidthAssumption
<1>4. \A op \in {"add", "sub", "mul", "div"} \union Bitwise2 :
         /\ Result(Char(c_op(op, me.v, n, LongBits)))
         /\ Result(Char(c_op(op, me.v, n, IntBits)))
  <2> TAKE op \in {"add", "sub", "mul", "div"} \union Bitwise2
  <2>1. c_op(op, me.v, n, LongBits) \in Int
    BY <1>1, <1>3, OperatorIs
  <2>2. c_op(op, me.v, n, IntBits) \in Int
    BY <1>1, <1>3, OperatorIs
  <2> QED
    BY <2>1, <2>2, Chars
<1>5. Result(Char(c_mod(me.v, n)))
  <2>1. me.v \in Word(LongBits)
    BY <1>1, <1>3, Wider
  <2>2. c_mod(me.v, n) \in Word(LongBits) \union {SIGFPE}
    BY <2>1, ModInWord
  <2>3. c_mod(me.v, n) \in Int
    <3>1. Word(LongBits) \subseteq Int /\ SIGFPE \in Int
      BY <1>3, WordIs, Widths
    <3> QED
      BY <2>2, <3>1
  <2> QED
    BY <2>3, Chars
<1>6. b.t = "String" => Result(Text(char_svalue(me) \o b.s))
  <2> SUFFICES ASSUME b.t = "String" PROVE Result(Text(char_svalue(me) \o b.s))
    OBVIOUS
  <2>1. scalar_svalue(me) = char_svalue(me)
    BY DEF scalar_svalue
  <2>2. char_svalue(me) \in Seq(Pieces) /\ b.s \in Seq(Pieces)
    BY <2>1, ScalarValues, Operated
  <2> QED
    BY <2>2, Concatenated DEF Result
<1>7. \A op \in Arithmetic : Result(char_arith(h, op, me, b))
  BY <1>2, <1>4, <1>5, <1>6 DEF char_arith, Arithmetic
<1>8. \A op \in Bitwise2 : Result(char_bitwise(h, op, me, b))
  BY <1>2, <1>4 DEF char_bitwise
<1>9. \A op \in Logic : Result(char_logic(h, op, me, b))
  <2> TAKE op \in Logic
  <2>1. c_logic(op, me.v, n) \in BOOLEAN
    BY <1>1, LogicIs
  <2> QED
    BY <1>2, <2>1, Truths DEF char_logic
<1>10. \A op \in Unary : Result(char_unary(op, me))
  <2>1. Result(Char(c_factorial(me.v, LongBits)))
    <3>1. c_factorial(me.v, LongBits) \in Word(LongBits) \union {1}
      BY <1>1, <1>3, FactorialInWord
    <3>2. c_factorial(me.v, LongBits) \in Int
      BY <1>3, <3>1, WordIs
    <3> QED
      BY <3>2, Chars
  <2>2. me.v + 1 \in Int /\ me.v - 1 \in Int /\ -me.v \in Int /\ -me.v - 1 \in Int
    BY <1>1
  <2>3. Result(Char(Truth(me.v = 0)))
    BY Truths
  <2> QED
    BY <2>1, <2>2, <2>3, Chars DEF char_unary, Unary
<1>11. \A op \in Compounds : Result(char_inplace(h, op, me, b))
  <2> TAKE op \in Compounds
  <2>1. op # "inplace_mod" => char_compound[op] \in {"add", "sub", "mul", "div"} \union Bitwise2
    BY DEF char_compound, int_compound, Compounds, InplaceArithmetic, InplaceBitwise, Bitwise2
  <2>2. op # "inplace_mod" => /\ Result(Char(c_op(char_compound[op], me.v, n, LongBits)))
                              /\ Result(Char(c_op(char_compound[op], me.v, n, IntBits)))
    BY <1>4, <2>1
  <2> QED
    BY <1>2, <1>5, <2>2 DEF char_inplace, Result
<1> QED
  BY <1>7, <1>8, <1>9, <1>10, <1>11

LEMMA FloatResults ==
  ASSUME NEW h, Heap(h), NEW me, Object(me), me.t = "Float", NEW b, Operand(b)
  PROVE  /\ \A op \in Arithmetic : Result(float_arith(h, op, me, b))
         /\ \A op \in Bitwise2 : Result(float_bitwise(h, op, me, b))
         /\ \A op \in Logic : Result(float_logic(h, op, me, b))
         /\ \A op \in Unary : Result(float_unary(op, me))
         /\ \A op \in Compounds : Result(float_inplace(h, op, me, b))
<1>1. me.v \in Doubles /\ me.v \in Int /\ me.s \in Seq(Pieces)
  BY Fields
<1>2. PICK n \in Int, x \in Doubles : n = ob_ivalue(h, b) /\ x = ob_fvalue(h, b)
  BY Operated
<1>3. /\ LongBits \in 1..LongBits /\ IntBits \in 1..LongBits
      /\ IntBits <= IntBits /\ IntBits <= LongBits /\ LongBits <= LongBits
  BY Widths
<1>4. PICK i \in Word(IntBits), l \in Word(LongBits) :
         i = ToLong(me.v, IntBits) /\ l = ToLong(me.v, LongBits) /\ i \in Int /\ l \in Int
  BY <1>1, <1>3, ToLongIs
<1>5. \A op \in Bitwise2 : /\ Object(Float(FromLong(c_op(op, i, n, IntBits))))
                           /\ Object(Float(FromLong(c_op(op, i, n, LongBits))))
                           /\ Object(Float(FromLong(c_op(op, l, n, LongBits))))
  <2> TAKE op \in Bitwise2
  <2>1. c_op(op, i, n, IntBits) \in Int
    BY <1>3, OperatorIs
  <2>2. c_op(op, i, n, LongBits) \in Int
    BY <1>3, OperatorIs
  <2>3. c_op(op, l, n, LongBits) \in Int
    BY <1>3, OperatorIs
  <2> QED
    BY <2>1, <2>2, <2>3, FloatOfLong
<1>6. b.t = "String" => Result(Text(float_svalue(me) \o b.s))
  <2> SUFFICES ASSUME b.t = "String" PROVE Result(Text(float_svalue(me) \o b.s))
    OBVIOUS
  <2>1. scalar_svalue(me) = float_svalue(me)
    BY DEF scalar_svalue
  <2>2. float_svalue(me) \in Seq(Pieces) /\ b.s \in Seq(Pieces)
    BY <2>1, ScalarValues, Operated
  <2> QED
    BY <2>2, Concatenated DEF Result
<1>7. \A op \in Arithmetic : Object(Float(d_op(op, me.v, x)))
  BY <1>1, DoubleOperators, Floats
<1>8. \A op \in Arithmetic : Result(float_arith(h, op, me, b))
  BY <1>2, <1>6, <1>7 DEF float_arith, Result
<1>9. \A op \in Bitwise2 : Result(float_bitwise(h, op, me, b))
  BY <1>2, <1>4, <1>5 DEF float_bitwise, Result
<1>10. \A op \in Logic : Result(float_logic(h, op, me, b))
  <2> TAKE op \in Logic
  <2>1. d_logic(op, me.v, x) \in BOOLEAN
    BY <1>1, DoublesAre, LogicIs DEF d_logic
  <2> QED
    BY <1>2, <2>1, Truths DEF float_logic, Result
<1>11. \A op \in Unary : Result(float_unary(op, me))
  <2>1. Object(Float(FromLong(c_factorial(i, IntBits))))
    <3>1. c_factorial(i, IntBits) \in Word(IntBits) \union {1}
      BY <1>3, <1>4, FactorialInWord
    <3>2. c_factorial(i, IntBits) \in Int
      BY <1>3, <3>1, WordIs
    <3> QED
      BY <3>2, FloatOfLong
  <2>2. /\ Object(Float(d_add(me.v, FromLong(1)))) /\ Object(Float(d_add(me.v, FromLong(-1))))
    <3>1. FromLong(1) \in Doubles /\ FromLong(-1) \in Doubles
      <4>1. 1 \in Int /\ -1 \in Int
        OBVIOUS
      <4> QED
        BY <4>1, RoundedIs
    <3>2. \A y \in Doubles : d_op("add", me.v, y) \in Doubles
      <4>1. "add" \in Arithmetic
        BY DEF Arithmetic
      <4> QED
        BY <1>1, <4>1, DoubleOperators
    <3>3. \A y \in Doubles : d_add(me.v, y) \in Doubles
      BY <3>2 DEF d_op
    <3> QED
      BY <3>1, <3>3, Floats
  <2>3. Object(Float(IF me.v = NaN THEN NaN ELSE -me.v))
    <3>1. (IF me.v = NaN THEN NaN ELSE -me.v) \in Doubles
      BY <1>1, DoublesAre
    <3> QED
      BY <3>1, Floats
  <2>4. Object(Float(FromLong(-i - 1)))
    <3>1. -i - 1 \in Int
      BY <1>4
    <3> QED
      BY <3>1, FloatOfLong
  <2>5. Object(Float(FromLong(Truth(me.v = 0))))
    BY Truths
  <2> QED
    BY <1>4, <2>1, <2>2, <2>3, <2>4, <2>5 DEF float_unary, Unary, Result
<1>12. \A op \in Compounds : Result(float_inplace(h, op, me, b))
  <2> TAKE op \in Compounds
  <2>1. /\ op \in InplaceArithmetic => float_compound[op] \in Arithmetic
        /\ op \notin InplaceArithmetic => float_compound[op] \in Bitwise2
    BY DEF float_compound, int_compound, Compounds, InplaceArithmetic, InplaceBitwise, Bitwise2, Arithmetic
  <2>2. op \in InplaceArithmetic => Object(Float(d_op(float_compound[op], me.v, x)))
    BY <1>7, <2>1
  <2>3. op \notin InplaceArithmetic => Object(Float(FromLong(c_op(float_compound[op], l, n, LongBits))))
    BY <1>5, <2>1
  <2>4. float_ivalue(me) = l
    BY <1>4 DEF float_ivalue
  <2> QED
    BY <1>2, <2>2, <2>3, <2>4 DEF float_inplace, Result
<1> QED
  BY <1>8, <1>9, <1>10, <1>11, <1>12

LEMMA BooleanResults ==
  ASSUME NEW h, Heap(h), NEW me, Object(me), NEW b, Operand(b)
  PROVE  /\ \A op \in Logic : Result(bool_logic(h, op, me, b)) /\ Result(handle_logic(h, op, me, b))
         /\ Result(bool_l_not(me)) /\ Result(handle_l_not(me))
<1>1. me.v \in Int
  BY Fields
<1>2. PICK n \in Int : n = ob_ivalue(h, b)
  BY Operated
<1>3. scalar_lvalue(me) \in BOOLEAN /\ (~scalar_lvalue(me)) \in BOOLEAN /\ (me.v = 0) \in BOOLEAN
  BY DEF scalar_lvalue
<1>4. PICK k \in Int : k = Truth(scalar_lvalue(me))
  BY <1>3 DEF Truth
<1>5. ASSUME NEW op \in Logic
      PROVE  Result(bool_logic(h, op, me, b)) /\ Result(handle_logic(h, op, me, b))
  <2>1. c_logic(op, me.v, n) \in BOOLEAN /\ c_logic(op, k, n) \in BOOLEAN
    BY <1>1, LogicIs
  <2>2. Result(Boolean(c_logic(op, me.v, n)))
    BY <2>1, Truths
  <2>3. Result(Integer(Truth(c_logic(op, k, n))))
    BY <2>1, Truths
  <2> QED
    BY <1>2, <1>4, <2>2, <2>3 DEF bool_logic, handle_logic
<1>6. Result(bool_l_not(me)) /\ Result(handle_l_not(me))
  <2>1. Result(Boolean(me.v = 0))
    BY <1>3, Truths
  <2>2. Result(Integer(Truth(~scalar_lvalue(me))))
    BY <1>3, Truths
  <2> QED
    BY <2>1, <2>2 DEF bool_l_not, handle_l_not
<1> QED
  BY <1>5, <1>6

LEMMA StringResults ==
  ASSUME NEW h, Heap(h), NEW me, Object(me), NEW b, Operand(b)
  PROVE  /\ Result(string_add(h, me, b)) /\ Result(Text(me.s \o ob_svalue(h, b)))
         /\ \A op \in Logic : Result(string_logic(h, op, me, b))
<1>1. me.s \in Seq(Pieces) /\ ob_svalue(h, b) \in Seq(Pieces)
  BY Fields, Operated
<1>2. Result(Text(me.s \o ob_svalue(h, b)))
  BY <1>1, Concatenated DEF Result
<1>3. ASSUME NEW op \in Logic
      PROVE  Result(string_logic(h, op, me, b))
  <2>1. PICK c \in BOOLEAN : c = ((me.s = ob_svalue(h, b)) = (op = "l_same"))
    OBVIOUS
  <2>2. Result(Integer(Truth(c)))
    BY Truths
  <2> QED
    BY <2>1, <2>2 DEF string_logic
<1> QED
  BY <1>2, <1>3 DEF string_add

LEMMA PlainResults ==
  ASSUME NEW h, Heap(h), NEW me, Object(me), NEW b, Operand(b)
  PROVE  /\ \A op \in Arithmetic : Result(plain_arith(h, op, me, b))
         /\ \A op \in Bitwise2 : Result(plain_bitwise(h, op, me, b))
         /\ \A op \in Logic : Result(plain_logic(h, op, me, b))
         /\ \A op \in Unary : Result(plain_unary(op, me))
         /\ \A op \in Compounds : Result(plain_inplace(h, op, me, b))
<1>0. /\ Arithmetic \subseteq Numeric /\ Bitwise2 \subseteq Numeric /\ Logic \subseteq Numeric
      /\ Unary \subseteq Numeric /\ Compounds \subseteq Numeric
      /\ Compounds = InplaceArithmetic \union InplaceBitwise /\ Result(Error)
      /\ \A op \in Bitwise2 \union Unary : ~Supports("String", op)
  <2>1. \A op \in Bitwise2 \union Unary : op \notin {"add", "inplace_add", "l_same", "l_diff"}
    BY DEF Bitwise2, Unary
  <2>2. \A op \in Bitwise2 \union Unary : ~Supports("String", op)
    BY <2>1, Tables DEF Numeric
  <2> QED
    BY <2>2 DEF Numeric, Compounds, Result
<1>1. me.t \in {"Integer", "Char", "Float", "Boolean", "Handle", "String", "Binary", "Map", "Structure"}
  BY Fields DEF Kinds, Collections
<1>2. \A op \in Numeric : me.t \in {"Binary", "Map", "Structure"} => ~Supports(me.t, op)
  BY Tables
<1>3. \A op \in Arithmetic \union Bitwise2 \union Compounds :
         me.t \in {"Boolean", "Handle"} => ~Supports(me.t, op)
  BY <1>0, Tables
<1>4. ASSUME NEW op \in Arithmetic
      PROVE  Result(plain_arith(h, op, me, b))
  BY <1>0, <1>1, <1>2, <1>3, IntegerResults, CharResults, FloatResults, StringResults DEF plain_arith
<1>5. ASSUME NEW op \in Bitwise2
      PROVE  Result(plain_bitwise(h, op, me, b))
  BY <1>0, <1>1, <1>2, <1>3, IntegerResults, CharResults, FloatResults DEF plain_bitwise
<1>6. ASSUME NEW op \in Logic
      PROVE  Result(plain_logic(h, op, me, b))
  BY <1>0, <1>1, <1>2, IntegerResults, CharResults, FloatResults, BooleanResults, StringResults DEF plain_logic
<1>7. ASSUME NEW op \in Unary
      PROVE  Result(plain_unary(op, me))
  BY <1>0, <1>1, <1>2, IntegerResults, CharResults, FloatResults, BooleanResults DEF plain_unary
<1>8. ASSUME NEW op \in Compounds
      PROVE  Result(plain_inplace(h, op, me, b))
  BY <1>0, <1>1, <1>2, <1>3, IntegerResults, CharResults, FloatResults, StringResults DEF plain_inplace
<1> QED
  BY <1>4, <1>5, <1>6, <1>7, <1>8

(* A null reference answers by itself. *)
Outcome(x) == Result(x) \/ x.t = "Reference"

LEMMA Outcomes ==
  ASSUME NEW h, Heap(h), NEW a, Operand(a), NEW b, Operand(b)
  PROVE  /\ \A op \in Arithmetic : Outcome(ob_arith(h, op, a, b))
         /\ \A op \in Bitwise2 : Outcome(ob_bitwise(h, op, a, b))
         /\ \A op \in Logic : Outcome(ob_logic(h, op, a, b))
         /\ \A op \in Unary : Outcome(ob_unary(h, op, a))
         /\ \A op \in Compounds : Outcome(ob_inplace(h, op, a, b))
<1>1. CASE Object(a)
  <2>1. ~IsRef(a)
    BY <1>1, Fields DEF IsRef
  <2> QED
    BY <1>1, <2>1, PlainResults DEF Outcome, ob_arith, ob_bitwise, ob_logic, ob_unary, ob_inplace
<1>2. CASE \E r \in Operands : a = Reference(r)
  <2>1. PICK r \in Operands : a = Reference(r)
    BY <1>2
  <2>2. IsRef(a) /\ a.t = "Reference" /\ a.v = r
    BY <2>1, Constructed DEF Reference, IsRef
  <2>3. r # 0 => Object(h[r])
    BY DEF Operands, Heap
  <2>4. ASSUME NEW op \in Arithmetic
        PROVE  Outcome(ob_arith(h, op, a, b))
    BY <2>2, <2>3, PlainResults DEF ob_arith, ref_arith, IsNull, Outcome
  <2>5. ASSUME NEW op \in Bitwise2
        PROVE  Outcome(ob_bitwise(h, op, a, b))
    BY <2>2, <2>3, PlainResults DEF ob_bitwise, ref_bitwise, IsNull, Outcome
  <2>6. ASSUME NEW op \in Compounds
        PROVE  Outcome(ob_inplace(h, op, a, b))
    BY <2>2, <2>3, PlainResults DEF ob_inplace, ref_inplace, IsNull, Outcome
  <2>7. ASSUME NEW op \in Unary
        PROVE  Outcome(ob_unary(h, op, a))
    <3>1. Result(Boolean(TRUE)) /\ Result(Crash)
      BY Truths DEF Result
    <3> QED
      BY <2>2, <2>3, <3>1, PlainResults DEF ob_unary, ref_unary, IsNull, Outcome
  <2>8. ASSUME NEW op \in Logic
        PROVE  Outcome(ob_logic(h, op, a, b))
    <3>1. PICK e \in BOOLEAN, f \in BOOLEAN, g \in BOOLEAN :
             /\ e = ((a.v = b.v) = (op = "l_same"))
             /\ f = (~IsNull(a) /\ ~IsNull(b))
             /\ g = c_logic(op, a.v, 0)
      <4>1. a.v \in Int /\ 0 \in Int
        BY <2>2, NamesAssumption DEF Operands
      <4>2. c_logic(op, a.v, 0) \in BOOLEAN
        BY <4>1, LogicIs
      <4> QED
        BY <4>2
    <3>2. Result(Boolean(e)) /\ Result(Boolean(f)) /\ Result(Boolean(g)) /\ Result(Crash)
      BY Truths DEF Result
    <3>3. r # 0 => Result(plain_logic(h, op, h[r], b))
      BY <2>3, PlainResults
    <3>4. r = 0 <=> IsNull(a)
      BY <2>2 DEF IsNull
    <3> QED
      BY <2>2, <3>1, <3>2, <3>3, <3>4 DEF ob_logic, ref_logic, Outcome
  <2> QED
    BY <2>4, <2>5, <2>6, <2>7, <2>8
<1> QED
  BY <1>1, <1>2 DEF Operand

-----------------------------------------------------------------------------
(* The invariant. *)

Inv ==
  /\ Heap(obj)
  /\ ref \in Operands
  /\ status \in {"running", "hyb_error", "signal"}

LEMMA EvaluatedIs ==
  ASSUME Inv, NEW x \in Operands
  PROVE  Operand(Evaluated(x))
BY DEF Inv, Evaluated, Operand, Operands, Heap

LEMMA KeepInv ==
  ASSUME Inv, NEW z \in Names, NEW value, Outcome(value), Keep(z, value)
  PROVE  Inv'
<1>1. CASE value \in {Error, Crash}
  <2>1. status' = value.t /\ obj' = obj /\ ref' = ref
    BY <1>1 DEF Keep
  <2>2. value.t \in {"hyb_error", "signal"}
    BY <1>1, Constructed DEF Error, Crash
  <2> QED
    BY <2>1, <2>2 DEF Inv, Heap
<1>2. CASE value \notin {Error, Crash}
  <2>1. obj' = [obj EXCEPT ![z] = value] /\ ref' = ref /\ status' = status /\ Kept(value)
    BY <1>2 DEF Keep
  <2>2. Object(value)
    BY <1>2, <2>1 DEF Outcome, Result, Kept
  <2>3. DOMAIN obj' = Names
    BY <2>1 DEF Inv, Heap
  <2>4. \A x \in Names : obj'[x] = obj[x] \/ obj'[x] = value
    BY <2>1 DEF Inv, Heap
  <2>5. \A x \in Names : Object(obj'[x])
    BY <2>2, <2>4 DEF Inv, Heap
  <2> QED
    BY <2>1, <2>3, <2>5 DEF Inv, Heap
<1> QED
  BY <1>1, <1>2

LEMMA Initially == Init => Inv
<1> SUFFICES ASSUME Init PROVE Inv
  OBVIOUS
<1>1. obj \in [Names -> Literals] /\ ref = 0 /\ status = "running"
  BY DEF Init
<1>2. Heap(obj)
  BY <1>1, LiteralsAssumption DEF Heap
<1> QED
  BY <1>1, <1>2 DEF Inv, Operands

LEMMA Inductive == Inv /\ [Next]_vars => Inv'
<1> SUFFICES ASSUME Inv, [Next]_vars PROVE Inv'
  OBVIOUS
<1>0. Heap(obj)
  BY DEF Inv
<1>1. CASE UNCHANGED vars
  BY <1>1 DEF Inv, Heap, vars
<1>2. ASSUME NEW x \in Operands, Refer(x) PROVE Inv'
  BY <1>2 DEF Refer, Inv, Heap
<1>3. ASSUME NEW z \in Names, Constant(z) PROVE Inv'
  <2>1. PICK x \in Literals : Keep(z, x)
    BY <1>3 DEF Constant
  <2>2. Outcome(x)
    BY LiteralsAssumption DEF Outcome, Result
  <2> QED
    BY <2>1, <2>2, KeepInv
<1>4. ASSUME NEW z \in Names, NEW x \in Operands, NEW y \in Operands, NEW op \in Arithmetic,
             vm_exec_arith(op, x, y, z)
      PROVE  Inv'
  <2>1. Outcome(ob_arith(obj, op, Evaluated(x), Evaluated(y)))
    BY <1>0, EvaluatedIs, Outcomes
  <2> QED
    BY <1>4, <2>1, KeepInv DEF vm_exec_arith
<1>5. ASSUME NEW z \in Names, NEW x \in Operands, NEW y \in Operands, NEW op \in Bitwise2,
             vm_exec_bitwise(op, x, y, z)
      PROVE  Inv'
  <2>1. Outcome(ob_bitwise(obj, op, Evaluated(x), Evaluated(y)))
    BY <1>0, EvaluatedIs, Outcomes
  <2> QED
    BY <1>5, <2>1, KeepInv DEF vm_exec_bitwise
<1>6. ASSUME NEW z \in Names, NEW x \in Operands, NEW y \in Operands, NEW op \in Logic,
             vm_exec_logic(op, x, y, z)
      PROVE  Inv'
  <2>1. Outcome(ob_logic(obj, op, Evaluated(x), Evaluated(y)))
    BY <1>0, EvaluatedIs, Outcomes
  <2> QED
    BY <1>6, <2>1, KeepInv DEF vm_exec_logic
<1>7. ASSUME NEW z \in Names, NEW x \in Operands, NEW op \in Unary, vm_exec_unary(op, x, z)
      PROVE  Inv'
  <2>1. Outcome(ob_unary(obj, op, Evaluated(x)))
    BY <1>0, EvaluatedIs, Outcomes
  <2> QED
    BY <1>7, <2>1, KeepInv DEF vm_exec_unary
<1>8. \A x \in Operands : Target(x) # 0 => Target(x) \in Names
  BY DEF Inv, Operands, Target
<1>9. ASSUME NEW x \in Operands, NEW y \in Operands, NEW op \in Compounds, vm_exec_inplace(op, x, y)
      PROVE  Inv'
  <2>1. Outcome(ob_inplace(obj, op, Evaluated(x), Evaluated(y)))
    BY <1>0, EvaluatedIs, Outcomes
  <2>2. CASE Target(x) = 0
    BY <1>1, <1>9, <2>2 DEF vm_exec_inplace
  <2>3. CASE Target(x) # 0
    <3>1. Target(x) \in Names /\ Keep(Target(x), ob_inplace(obj, op, Evaluated(x), Evaluated(y)))
      BY <1>8, <1>9, <2>3 DEF vm_exec_inplace
    <3> QED
      BY <2>1, <3>1, KeepInv
  <2> QED
    BY <2>2, <2>3
<1>10. ASSUME NEW x \in Operands, NEW op \in Unary, vm_exec_inc_dec(op, x) PROVE Inv'
  <2>1. Outcome(ob_unary(obj, op, Evaluated(x)))
    BY <1>0, EvaluatedIs, Outcomes
  <2>2. CASE Target(x) = 0
    BY <1>1, <1>10, <2>2 DEF vm_exec_inc_dec
  <2>3. CASE Target(x) # 0
    <3>1. Target(x) \in Names /\ Keep(Target(x), ob_unary(obj, op, Evaluated(x)))
      BY <1>8, <1>10, <2>3 DEF vm_exec_inc_dec
    <3> QED
      BY <2>1, <3>1, KeepInv
  <2> QED
    BY <2>2, <2>3
<1>11. {"factorial", "minus", "bw_not", "l_not"} \subseteq Unary /\ {"increment", "decrement"} \subseteq Unary
  BY DEF Unary
<1> QED
  BY <1>1, <1>2, <1>3, <1>4, <1>5, <1>6, <1>7, <1>9, <1>10, <1>11 DEF Next, Compounds

(* Whatever expressions a script evaluates, every variable holds a value    *)
(* that its type has: the words, characters and doubles of the code never   *)
(* leave their widths (integer.cpp, char.cpp, float.cpp).                   *)
THEOREM Invariance == Spec => []Inv
BY Initially, Inductive, PTL DEF Spec

-----------------------------------------------------------------------------
(* Comparisons. *)

LEMMA TruthHolds ==
  ASSUME NEW b \in BOOLEAN
  PROVE  /\ (Integer(Truth(b)).v # 0) = b /\ (Char(Truth(b)).v # 0) = b
         /\ (Boolean(b).v # 0) = b /\ (Float(FromLong(Truth(b))).v # 0) = b
<1>1. Truth(b) = (IF b THEN 1 ELSE 0) /\ Truth(b) # SIGFPE
  <2>1. 0 # SIGFPE /\ 1 # SIGFPE
    BY Widths
  <2> QED
    BY <2>1 DEF Truth
<1>2. (Integer(Truth(b)).v # 0) = b
  BY <1>1, Constructed DEF Integer
<1>3. (Boolean(b).v # 0) = b
  BY <1>1, Constructed DEF Boolean
<1>4. (Char(Truth(b)).v # 0) = b
  <2>1. Char(Truth(b)).v = Wrap(Truth(b), CharBits)
    BY <1>1, Constructed DEF Char
  <2>2. PICK p \in Nat \ {0}, d \in Nat \ {0} : p = 2^(CharBits - 1) /\ d = 2^CharBits /\ d = 2 * p
    BY Widths, Half
  <2>3. 0 % d = 0 /\ 1 % d = 1
    <3>1. 0 = d * 0 + 0 /\ 1 = d * 0 + 1 /\ 0 \in 0..(d - 1) /\ 1 \in 0..(d - 1) /\ 0 \in Int /\ 1 \in Int
      BY <2>2
    <3>2. 0 % d = 0
      BY <3>1, DivUnique
    <3>3. 1 % d = 1
      BY <3>1, DivUnique
    <3> QED
      BY <3>2, <3>3
  <2>4. Wrap(0, CharBits) = 0
    BY <2>2, <2>3 DEF Wrap
  <2>5. Wrap(1, CharBits) # 0
    <3>1. Wrap(1, CharBits) = IF 1 < p THEN 1 ELSE 1 - d
      BY <2>2, <2>3 DEF Wrap
    <3> QED
      BY <2>2, <3>1
  <2> QED
    BY <1>1, <2>1, <2>4, <2>5
<1>5. (Float(FromLong(Truth(b))).v # 0) = b
  <2>1. Float(FromLong(Truth(b))).v = FromLong(Truth(b))
    BY Constructed DEF Float
  <2>2. FromLong(0) = 0 /\ FromLong(1) = 2
    BY DoublesAre DEF FromLong, Rounded
  <2> QED
    BY <1>1, <2>1, <2>2
<1> QED
  BY <1>2, <1>3, <1>4, <1>5

LEMMA NumbersOrdered ==
  ASSUME NEW i \in Int, NEW n \in Int
  PROVE  /\ c_logic("l_same", i, n) = (c_cmp(i, n) = 0)
         /\ c_logic("l_diff", i, n) = (c_cmp(i, n) # 0)
         /\ c_logic("l_less", i, n) = (c_cmp(i, n) = -1)
         /\ c_logic("l_greater", i, n) = (c_cmp(i, n) = 1)
         /\ c_logic("l_less_or_same", i, n) = (c_cmp(i, n) # 1)
         /\ c_logic("l_greater_or_same", i, n) = (c_cmp(i, n) # -1)
<1>1. c_logic("l_same", i, n) = (i = n) /\ c_logic("l_diff", i, n) = (i # n)
  BY DEF c_logic
<1>2. c_logic("l_less", i, n) = (i < n) /\ c_logic("l_greater", i, n) = (i > n)
  BY DEF c_logic
<1>3. c_logic("l_less_or_same", i, n) = (i <= n) /\ c_logic("l_greater_or_same", i, n) = (i >= n)
  BY DEF c_logic
<1>4. CASE i = n
  <2>1. c_cmp(i, n) = 0 /\ ~(i < n) /\ ~(i > n) /\ i <= n /\ i >= n
    BY <1>4 DEF c_cmp
  <2> QED
    BY <1>1, <1>2, <1>3, <1>4, <2>1
<1>5. CASE i > n
  <2>1. c_cmp(i, n) = 1 /\ i # n /\ ~(i < n) /\ ~(i <= n) /\ i >= n
    BY <1>5 DEF c_cmp
  <2> QED
    BY <1>1, <1>2, <1>3, <1>5, <2>1
<1>6. CASE i < n
  <2>1. c_cmp(i, n) = -1 /\ i # n /\ ~(i > n) /\ i <= n /\ ~(i >= n)
    BY <1>6 DEF c_cmp
  <2> QED
    BY <1>1, <1>2, <1>3, <1>6, <2>1
<1> QED
  BY <1>4, <1>5, <1>6

(* The operators of a type and its cmp compare the same two numbers. *)
LEMMA SameNumbers ==
  ASSUME NEW h, Heap(h), NEW a, Object(a), NEW b, Operand(b),
         a.t \in {"Integer", "Char", "Float", "Boolean"},
         a.t = "Float" => NaN \notin {a.v, ob_fvalue(h, b)}
  PROVE  \E i \in Int, n \in Int :
            /\ \A op \in Comparison : (ob_logic(h, op, a, b).v # 0) = c_logic(op, i, n)
            /\ ob_cmp(h, a, b) = c_cmp(i, n)
<1>1. a.v \in Int /\ ~IsRef(a)
  BY Fields DEF IsRef
<1>2. PICK n \in Int, x \in Int : n = ob_ivalue(h, b) /\ x = ob_fvalue(h, b)
  BY Operated, DoublesAre
<1>3. \A op \in Comparison : /\ op \in Logic /\ op \in Numeric
                             /\ c_logic(op, a.v, n) \in BOOLEAN /\ c_logic(op, a.v, x) \in BOOLEAN
                             /\ ob_logic(h, op, a, b) = plain_logic(h, op, a, b)
  BY <1>1, LogicIs DEF Logic, Numeric, ob_logic
<1>4. \A op \in Comparison : Supports(a.t, op)
  BY <1>3, Tables
<1>5. CASE a.t = "Integer"
  <2>1. \A op \in Comparison : ob_logic(h, op, a, b) = Integer(Truth(c_logic(op, a.v, n)))
    BY <1>2, <1>3, <1>4, <1>5 DEF plain_logic, int_logic
  <2>2. \A op \in Comparison : (ob_logic(h, op, a, b).v # 0) = c_logic(op, a.v, n)
    BY <1>3, <2>1, TruthHolds
  <2>3. ob_cmp(h, a, b) = c_cmp(a.v, n)
    BY <1>2, <1>5 DEF ob_cmp, int_cmp
  <2> QED
    BY <1>1, <2>2, <2>3
<1>6. CASE a.t = "Char"
  <2>1. \A op \in Comparison : ob_logic(h, op, a, b) = Char(Truth(c_logic(op, a.v, n)))
    BY <1>2, <1>3, <1>4, <1>6 DEF plain_logic, char_logic
  <2>2. \A op \in Comparison : (ob_logic(h, op, a, b).v # 0) = c_logic(op, a.v, n)
    BY <1>3, <2>1, TruthHolds
  <2>3. ob_cmp(h, a, b) = c_cmp(a.v, n)
    BY <1>2, <1>6 DEF ob_cmp, char_cmp
  <2> QED
    BY <1>1, <2>2, <2>3
<1>7. CASE a.t = "Boolean"
  <2>1. \A op \in Comparison : ob_logic(h, op, a, b) = Boolean(c_logic(op, a.v, n))
    BY <1>2, <1>3, <1>4, <1>7 DEF plain_logic, bool_logic
  <2>2. \A op \in Comparison : (ob_logic(h, op, a, b).v # 0) = c_logic(op, a.v, n)
    BY <1>3, <2>1, TruthHolds
  <2>3. ob_cmp(h, a, b) = c_cmp(a.v, n)
    BY <1>2, <1>7 DEF ob_cmp, bool_cmp
  <2> QED
    BY <1>1, <2>2, <2>3
<1>8. CASE a.t = "Float"
  <2>0. NaN \notin {a.v, x}
    BY <1>2, <1>8
  <2>1. \A op \in Comparison : ob_logic(h, op, a, b) = Float(FromLong(Truth(c_logic(op, a.v, x))))
    BY <1>2, <1>3, <1>4, <1>8, <2>0 DEF plain_logic, float_logic, d_logic
  <2>2. \A op \in Comparison : (ob_logic(h, op, a, b).v # 0) = c_logic(op, a.v, x)
    BY <1>3, <2>1, TruthHolds
  <2>3. ob_cmp(h, a, b) = c_cmp(a.v, x)
    BY <1>2, <1>8, <2>0 DEF ob_cmp, float_cmp, d_cmp
  <2> QED
    BY <1>1, <2>2, <2>3
<1> QED
  BY <1>5, <1>6, <1>7, <1>8

LEMMA InvOrder == Inv => OrderAgrees
<1> SUFFICES ASSUME Inv, NEW x \in Names, NEW y \in Operands, Comparable(obj[x], Evaluated(y))
             PROVE  /\ (ob_logic(obj, "l_same", obj[x], Evaluated(y)).v # 0)
                          = (ob_cmp(obj, obj[x], Evaluated(y)) = 0)
                    /\ (ob_logic(obj, "l_diff", obj[x], Evaluated(y)).v # 0)
                          = (ob_cmp(obj, obj[x], Evaluated(y)) # 0)
                    /\ (ob_logic(obj, "l_less", obj[x], Evaluated(y)).v # 0)
                          = (ob_cmp(obj, obj[x], Evaluated(y)) = -1)
                    /\ (ob_logic(obj, "l_greater", obj[x], Evaluated(y)).v # 0)
                          = (ob_cmp(obj, obj[x], Evaluated(y)) = 1)
                    /\ (ob_logic(obj, "l_less_or_same", obj[x], Evaluated(y)).v # 0)
                          = (ob_cmp(obj, obj[x], Evaluated(y)) # 1)
                    /\ (ob_logic(obj, "l_greater_or_same", obj[x], Evaluated(y)).v # 0)
                          = (ob_cmp(obj, obj[x], Evaluated(y)) # -1)
  BY Zenon DEF OrderAgrees
<1>1. Heap(obj) /\ Object(obj[x]) /\ Operand(Evaluated(y))
  BY EvaluatedIs DEF Inv, Heap
<1>2. PICK i \in Int, n \in Int :
         /\ \A op \in Comparison : (ob_logic(obj, op, obj[x], Evaluated(y)).v # 0) = c_logic(op, i, n)
         /\ ob_cmp(obj, obj[x], Evaluated(y)) = c_cmp(i, n)
  BY <1>1, SameNumbers DEF Comparable
<1>3. {"l_same", "l_diff", "l_less", "l_greater", "l_less_or_same", "l_greater_or_same"} \subseteq Comparison
  BY DEF Comparison
<1> QED
  BY <1>2, <1>3, NumbersOrdered

(* For words of any width and values of any type: the six comparison        *)
(* operators of a type agree with its cmp, whatever the operand is          *)
(* (ob_l_same .. ob_l_greater_or_same and ob_cmp of types.h, int_cmp,       *)
(* char_cmp, float_cmp and bool_cmp of core/types).                         *)
THEOREM ComparisonsAgree == Spec => []OrderAgrees
BY Invariance, InvOrder, PTL

-----------------------------------------------------------------------------
(* Remainders. *)

LEMMA InvRemainder == Inv => RemainderRight
<1> SUFFICES ASSUME Inv, NEW x \in Names, NEW y \in Names,
                    obj[x].t = "Integer", obj[y].t = "Integer",
                    NEW r, r = int_arith(obj, "mod", obj[x], obj[y])
             PROVE  IF obj[y].v = 0 THEN r = Integer(0)
                    ELSE r # Crash => /\ Abs(r.v) < Abs(obj[y].v)
                                      /\ (obj[x].v - r.v) % Abs(obj[y].v) = 0
  BY DEF RemainderRight
<1>1. PICK a \in Word(LongBits), b \in Word(LongBits) : a = obj[x].v /\ b = obj[y].v
  BY Fields DEF Inv, Heap
<1>2. r = Integer(c_mod(a, b))
  <2>1. ob_ivalue(obj, obj[y]) = b
    BY <1>1 DEF ob_ivalue, scalar_ivalue, int_values
  <2> QED
    BY <1>1, <2>1 DEF int_arith
<1>3. CASE b = 0
  <2>1. c_mod(a, b) = 0
    BY <1>3 DEF c_mod
  <2> QED
    BY <1>1, <1>2, <1>3, <2>1
<1>4. CASE b # 0 /\ r # Crash
  <2>1. c_mod(a, b) # SIGFPE
    BY <1>2, <1>4 DEF Integer
  <2>2. r.v = c_mod(a, b)
    BY <1>2, <2>1, Constructed DEF Integer
  <2> QED
    BY <1>1, <1>4, <2>1, <2>2, ModRight
<1> QED
  BY <1>1, <1>3, <1>4

(* The remainder of any two words, by the mask of the divisor or by the     *)
(* division: below the divisor, and apart from the dividend by a multiple   *)
(* of it (int_mod of integer.cpp).                                          *)
THEOREM RemaindersRight == Spec => []RemainderRight
BY Invariance, InvRemainder, PTL

-----------------------------------------------------------------------------
(* References. *)

LEMMA TargetValues ==
  ASSUME NEW h, Heap(h), NEW n \in Names
  PROVE  /\ ob_ivalue(h, Reference(n)) = ob_ivalue(h, h[n])
         /\ ob_fvalue(h, Reference(n)) = ob_fvalue(h, h[n])
         /\ ob_svalue(h, Reference(n)) = ob_svalue(h, h[n])
         /\ Reference(n).t = "Reference" /\ Reference(n).v = n /\ n # 0
         /\ h[n].t # "Reference" /\ Object(h[n])
<1>1. Reference(n).t = "Reference" /\ Reference(n).v = n /\ n # 0
  BY Constructed, NamesAssumption DEF Reference
<1>2. h[n].t # "Reference" /\ Object(h[n])
  BY Fields DEF Heap
<1> QED
  BY <1>1, <1>2 DEF ob_ivalue, ob_fvalue, ob_svalue

LEMMA InvReference == Inv => ReferenceTransparent
<1> SUFFICES ASSUME Inv, ref # 0
             PROVE  /\ \A y \in Names, op \in Arithmetic \union Bitwise2 \union Logic :
                          /\ ob_binary(obj, op, Reference(ref), obj[y]) = ob_binary(obj, op, obj[ref], obj[y])
                          /\ ~(op = "add" /\ obj[ref].t = "String")
                               => ob_binary(obj, op, obj[y], Reference(ref)) = ob_binary(obj, op, obj[y], obj[ref])
                    /\ \A op \in Unary : ob_unary(obj, op, Reference(ref)) = ob_unary(obj, op, obj[ref])
  BY DEF ReferenceTransparent
<1>1. Heap(obj) /\ ref \in Names
  BY DEF Inv, Operands
<1>2. PICK r, c : r = Reference(ref) /\ c = obj[ref]
  OBVIOUS
<1>3. /\ ob_ivalue(obj, r) = ob_ivalue(obj, c) /\ ob_fvalue(obj, r) = ob_fvalue(obj, c)
      /\ ob_svalue(obj, r) = ob_svalue(obj, c)
      /\ r.t = "Reference" /\ r.v = ref /\ obj[r.v] = c /\ IsRef(r) /\ ~IsNull(r)
      /\ c.t # "Reference" /\ ~IsRef(c)
  BY <1>1, <1>2, TargetValues DEF IsRef, IsNull
<1>4. ASSUME NEW y \in Names, NEW op \in Arithmetic \union Bitwise2 \union Logic
      PROVE  ob_binary(obj, op, r, obj[y]) = ob_binary(obj, op, c, obj[y])
  <2>1. obj[y].t # "Reference"
    BY <1>1, TargetValues
  <2>2. ob_arith(obj, op, r, obj[y]) = ob_arith(obj, op, c, obj[y])
    BY <1>3 DEF ob_arith, ref_arith
  <2>3. ob_bitwise(obj, op, r, obj[y]) = ob_bitwise(obj, op, c, obj[y])
    BY <1>3 DEF ob_bitwise, ref_bitwise
  <2>4. ob_logic(obj, op, r, obj[y]) = ob_logic(obj, op, c, obj[y])
    BY <1>3, <2>1 DEF ob_logic, ref_logic
  <2> QED
    BY <2>2, <2>3, <2>4 DEF ob_binary
<1>5. ASSUME NEW y \in Names, NEW op \in Arithmetic \union Bitwise2 \union Logic,
             ~(op = "add" /\ c.t = "String")
      PROVE  ob_binary(obj, op, obj[y], r) = ob_binary(obj, op, obj[y], c)
  <2> DEFINE me == obj[y]
  <2>1. ~IsRef(me)
    BY <1>1, TargetValues DEF IsRef
  <2> HIDE DEF me
  <2>2. plain_arith(obj, op, me, r) = plain_arith(obj, op, me, c)
    <3>1. int_arith(obj, op, me, r) = int_arith(obj, op, me, c)
      BY <1>3, <1>5 DEF int_arith
    <3>2. char_arith(obj, op, me, r) = char_arith(obj, op, me, c)
      BY <1>3, <1>5 DEF char_arith
    <3>3. float_arith(obj, op, me, r) = float_arith(obj, op, me, c)
      BY <1>3, <1>5 DEF float_arith
    <3>4. string_add(obj, me, r) = string_add(obj, me, c)
      BY <1>3 DEF string_add
    <3> QED
      BY <3>1, <3>2, <3>3, <3>4 DEF plain_arith
  <2>3. plain_bitwise(obj, op, me, r) = plain_bitwise(obj, op, me, c)
    BY <1>3 DEF plain_bitwise, int_bitwise, char_bitwise, float_bitwise
  <2>4. plain_logic(obj, op, me, r) = plain_logic(obj, op, me, c)
    BY <1>3 DEF plain_logic, int_logic, char_logic, float_logic, bool_logic, handle_logic, string_logic
  <2>5. ob_binary(obj, op, me, r) = ob_binary(obj, op, me, c)
    BY <2>1, <2>2, <2>3, <2>4 DEF ob_binary, ob_arith, ob_bitwise, ob_logic
  <2> QED
    BY <2>5 DEF me
<1>6. ASSUME NEW op \in Unary
      PROVE  ob_unary(obj, op, r) = ob_unary(obj, op, c)
  BY <1>3 DEF ob_unary, ref_unary
<1> QED
  BY <1>2, <1>4, <1>5, <1>6

(* For any values: an operator takes a reference for its target             *)
(* (reference.cpp), but for the text that + appends.                        *)
THEOREM ReferencesTransparent == Spec => []ReferenceTransparent
BY Invariance, InvReference, PTL

-----------------------------------------------------------------------------
(* Compound assignments. *)

LEMMA Narrow ==
  ASSUME NEW x \in Int, Fits(ToLong(x, LongBits), IntBits)
  PROVE  ToLong(x, IntBits) = ToLong(x, LongBits)
<1>1. /\ LongBits \in 1..LongBits /\ IntBits \in 1..LongBits /\ IntBits <= LongBits
      /\ Word(IntBits) \subseteq Word(LongBits)
  BY Widths, Wider
<1>2. PICK q \in Int : q = Quotient(x, 2)
  <2>1. 2 \in Int
    OBVIOUS
  <2> QED
    BY <2>1, QuotientIs
<1>3. PICK l \in Int : l = ToLong(x, LongBits) /\ l \in Word(IntBits)
  <2>1. ToLong(x, LongBits) \in Int
    BY <1>1, ToLongIs
  <2> QED
    BY <1>1, <2>1, Wraps
<1>4. CASE x # NaN /\ Fits(q, LongBits) /\ ~Infinite(x)
  <2>1. l = q
    BY <1>2, <1>3, <1>4 DEF ToLong
  <2>2. Fits(q, IntBits)
    BY <1>1, <1>3, <2>1, Wraps
  <2> QED
    BY <1>2, <1>3, <1>4, <2>1, <2>2 DEF ToLong
<1>5. CASE ~(x # NaN /\ Fits(q, LongBits) /\ ~Infinite(x))
  <2>1. l = Least(LongBits)
    BY <1>2, <1>3, <1>5 DEF ToLong
  <2>2. Fits(q, IntBits) => Fits(q, LongBits)
    BY <1>1, Wraps
  <2>3. ToLong(x, IntBits) = Least(IntBits)
    BY <1>2, <1>5, <2>2 DEF ToLong
  <2>4. Least(IntBits) = Least(LongBits)
    <3>1. PICK p \in Nat \ {0}, d \in Nat \ {0} : p = 2^(IntBits - 1) /\ d = 2^(LongBits - 1)
      BY <1>1, Half
    <3>2. Word(IntBits) = (-p)..(p - 1) /\ Word(LongBits) = (-d)..(d - 1)
      BY <1>1, <3>1, WordIs
    <3>3. Least(IntBits) = -p /\ Least(LongBits) = -d
      BY <3>1 DEF Least
    <3>4. -d >= -p
      BY <1>3, <2>1, <3>2, <3>3
    <3>5. -p \in Word(IntBits)
      BY <3>2
    <3>6. -p >= -d
      BY <1>1, <3>2, <3>5
    <3> QED
      BY <3>3, <3>4, <3>6
  <2> QED
    BY <1>3, <2>1, <2>3, <2>4
<1> QED
  BY <1>4, <1>5

LEMMA Disjoint ==
  \A op \in Arithmetic \union Bitwise2 : op \notin Logic
BY DEF Arithmetic, Bitwise2, Logic, Comparison

LEMMA Meanings ==
  /\ DOMAIN Meaning = Compounds
  /\ \A op \in InplaceArithmetic : Meaning[op] \in Arithmetic /\ Meaning[op] \notin Bitwise2
  /\ \A op \in InplaceBitwise : Meaning[op] \in Bitwise2 /\ Meaning[op] \notin Arithmetic
  /\ \A op \in Compounds : /\ Meaning[op] = "add" <=> op = "inplace_add"
                           /\ Meaning[op] = "mod" <=> op = "inplace_mod"
                           /\ Meaning[op] \in {"bw_lshift", "bw_rshift"}
                                <=> op \in {"bw_inplace_lshift", "bw_inplace_rshift"}
                           /\ float_compound[op] = Meaning[op]
                           /\ op # "bw_inplace_or" => int_compound[op] = Meaning[op]
                           /\ char_compound[op] = int_compound[op]
<1>1. DOMAIN Meaning = Compounds
  BY DEF Meaning, Compounds, InplaceArithmetic, InplaceBitwise
<1>2. \A op \in InplaceArithmetic : Meaning[op] \in Arithmetic /\ Meaning[op] \notin Bitwise2
  BY DEF Meaning, InplaceArithmetic, Arithmetic, Bitwise2
<1>3. \A op \in InplaceBitwise : Meaning[op] \in Bitwise2 /\ Meaning[op] \notin Arithmetic
  BY DEF Meaning, InplaceBitwise, Arithmetic, Bitwise2
<1>4. \A op \in Compounds : /\ Meaning[op] = "add" <=> op = "inplace_add"
                            /\ Meaning[op] = "mod" <=> op = "inplace_mod"
                            /\ Meaning[op] \in {"bw_lshift", "bw_rshift"}
                                 <=> op \in {"bw_inplace_lshift", "bw_inplace_rshift"}
  BY DEF Meaning, Compounds, InplaceArithmetic, InplaceBitwise
<1>5. \A op \in Compounds : /\ float_compound[op] = Meaning[op]
                            /\ op # "bw_inplace_or" => int_compound[op] = Meaning[op]
                            /\ char_compound[op] = int_compound[op]
  BY DEF Meaning, Compounds, InplaceArithmetic, InplaceBitwise, float_compound, char_compound, int_compound
<1> QED
  BY <1>1, <1>2, <1>3, <1>4, <1>5

LEMMA IntegerCompound ==
  ASSUME NEW h, NEW a, a.t = "Integer", NEW b, NEW op \in Compounds, ~Deviates(op, a, b)
  PROVE  int_inplace(h, op, a, b) = IF op \in InplaceArithmetic THEN int_arith(h, Meaning[op], a, b)
                                    ELSE int_bitwise(h, Meaning[op], a, b)
<1>1. op # "bw_inplace_or" /\ ~(op = "inplace_add" /\ b.t = "String")
  BY DEF Deviates
<1>2. CASE op \in InplaceArithmetic
  BY <1>1, <1>2, Meanings DEF int_inplace, int_arith
<1>3. CASE op \notin InplaceArithmetic
  <2>1. op # "inplace_add" /\ op # "inplace_mod"
    BY <1>3 DEF InplaceArithmetic
  <2> QED
    BY <1>1, <1>3, <2>1, Meanings DEF int_inplace, int_bitwise
<1> QED
  BY <1>2, <1>3

LEMMA CharCompound ==
  ASSUME NEW h, NEW a, a.t = "Char", NEW b, NEW op \in Compounds, ~Deviates(op, a, b)
  PROVE  char_inplace(h, op, a, b) = IF op \in InplaceArithmetic THEN char_arith(h, Meaning[op], a, b)
                                     ELSE char_bitwise(h, Meaning[op], a, b)
<1>1. op # "bw_inplace_or" /\ ~(op = "inplace_add" /\ b.t = "String")
  BY DEF Deviates
<1>2. CASE op \in InplaceArithmetic
  <2>1. op \notin {"bw_inplace_lshift", "bw_inplace_rshift"}
    BY <1>2 DEF InplaceArithmetic
  <2> QED
    BY <1>1, <1>2, <2>1, Meanings DEF char_inplace, char_arith
<1>3. CASE op \notin InplaceArithmetic
  <2>1. op # "inplace_add" /\ op # "inplace_mod"
    BY <1>3 DEF InplaceArithmetic
  <2> QED
    BY <1>1, <1>3, <2>1, Meanings DEF char_inplace, char_bitwise
<1> QED
  BY <1>2, <1>3

LEMMA FloatCompound ==
  ASSUME NEW h, NEW a, Object(a), a.t = "Float", NEW b, NEW op \in Compounds, ~Deviates(op, a, b)
  PROVE  float_inplace(h, op, a, b) = IF op \in InplaceArithmetic THEN float_arith(h, Meaning[op], a, b)
                                      ELSE float_bitwise(h, Meaning[op], a, b)
<1>1. ~(op = "inplace_add" /\ b.t = "String")
  BY DEF Deviates
<1>2. CASE op \in InplaceArithmetic
  BY <1>1, <1>2, Meanings DEF float_inplace, float_arith
<1>3. CASE op \notin InplaceArithmetic
  <2>1. op # "inplace_add" /\ op \in InplaceBitwise
    BY <1>3 DEF InplaceArithmetic, Compounds
  <2>2. Fits(ToLong(a.v, LongBits), IntBits) /\ op \notin {"bw_inplace_lshift", "bw_inplace_rshift"}
    BY <2>1 DEF Deviates
  <2>3. ToLong(a.v, IntBits) = float_ivalue(a)
    BY <2>2, Fields, Narrow DEF float_ivalue
  <2>4. Meaning[op] \notin {"bw_lshift", "bw_rshift"} /\ float_compound[op] = Meaning[op]
    BY <2>2, Meanings
  <2> QED
    BY <1>3, <2>1, <2>3, <2>4 DEF float_inplace, float_bitwise
<1> QED
  BY <1>2, <1>3

LEMMA NotSupported ==
  ASSUME NEW h, NEW a, NEW b, NEW op, ~Supports(a.t, op)
  PROVE  /\ plain_inplace(h, op, a, b) = Error /\ plain_arith(h, op, a, b) = Error
         /\ plain_bitwise(h, op, a, b) = Error
<1>1. plain_inplace(h, op, a, b) = Error
  BY DEF plain_inplace
<1>2. plain_arith(h, op, a, b) = Error
  BY DEF plain_arith
<1>3. plain_bitwise(h, op, a, b) = Error
  BY DEF plain_bitwise
<1> QED
  BY <1>1, <1>2, <1>3

LEMMA PlainCompound ==
  ASSUME NEW h, NEW a, Object(a), NEW b, NEW op \in Compounds, ~Deviates(op, a, b)
  PROVE  plain_inplace(h, op, a, b) = IF op \in InplaceArithmetic THEN plain_arith(h, Meaning[op], a, b)
                                      ELSE plain_bitwise(h, Meaning[op], a, b)
<1>1. a.t \in {"Integer", "Char", "Float", "Boolean", "Handle", "String", "Binary", "Map", "Structure"}
  BY Fields DEF Kinds, Collections
<1>2. /\ op \in Numeric /\ Meaning[op] \in Numeric
      /\ op \in InplaceArithmetic \union InplaceBitwise
      /\ Meaning[op] \in Arithmetic \union Bitwise2
      /\ Meaning[op] = "add" <=> op = "inplace_add"
  BY Meanings DEF Numeric, Compounds
<1>3. CASE a.t \in {"Boolean", "Handle", "Binary", "Map", "Structure"}
  <2>1. ~Supports(a.t, op) /\ ~Supports(a.t, Meaning[op])
    BY <1>2, <1>3, Tables
  <2> QED
    BY <2>1, NotSupported
<1>4. CASE a.t = "String"
  <2>1. CASE op = "inplace_add"
    <3>1. Supports(a.t, op) /\ Supports(a.t, Meaning[op]) /\ op \in InplaceArithmetic
      BY <1>2, <1>4, <2>1, Tables DEF InplaceArithmetic
    <3> QED
      BY <1>4, <3>1 DEF plain_inplace, plain_arith, string_add
  <2>2. CASE op # "inplace_add"
    <3>1. op \notin {"add", "l_same", "l_diff"} /\ Meaning[op] \notin {"inplace_add", "l_same", "l_diff"}
      BY <1>2 DEF InplaceArithmetic, InplaceBitwise, Arithmetic, Bitwise2
    <3>2. ~Supports(a.t, op) /\ ~Supports(a.t, Meaning[op])
      BY <1>2, <1>4, <2>2, <3>1, Tables
    <3> QED
      BY <3>2, NotSupported
  <2> QED
    BY <2>1, <2>2
<1>5. CASE a.t \in {"Integer", "Char", "Float"}
  <2>1. Supports(a.t, op) /\ Supports(a.t, Meaning[op])
    BY <1>2, <1>5, Tables
  <2>2. CASE a.t = "Integer"
    BY <2>1, <2>2, IntegerCompound DEF plain_inplace, plain_arith, plain_bitwise
  <2>3. CASE a.t = "Char"
    BY <2>1, <2>3, CharCompound DEF plain_inplace, plain_arith, plain_bitwise
  <2>4. CASE a.t = "Float"
    BY <2>1, <2>4, FloatCompound DEF plain_inplace, plain_arith, plain_bitwise
  <2> QED
    BY <1>5, <2>2, <2>3, <2>4
<1> QED
  BY <1>1, <1>3, <1>4, <1>5

LEMMA InvCompound == Inv => CompoundAgrees
<1> SUFFICES ASSUME Inv, NEW x \in Names, NEW y \in Operands, NEW op \in Compounds,
                    ~Deviates(op, obj[x], Evaluated(y))
             PROVE  ob_inplace(obj, op, obj[x], Evaluated(y))
                      = ob_binary(obj, Meaning[op], obj[x], Evaluated(y))
  BY Meanings DEF CompoundAgrees
<1>1. Object(obj[x]) /\ ~IsRef(obj[x])
  BY Fields DEF Inv, Heap, IsRef
<1>2. PICK a, b : a = obj[x] /\ b = Evaluated(y)
  OBVIOUS
<1>3. ob_inplace(obj, op, a, b) = plain_inplace(obj, op, a, b)
  BY <1>1, <1>2 DEF ob_inplace
<1>4. CASE op \in InplaceArithmetic
  <2>1. Meaning[op] \in Arithmetic /\ Meaning[op] \notin Bitwise2 \union Logic
    BY <1>4, Meanings, Disjoint
  <2>2. ob_binary(obj, Meaning[op], a, b) = ob_arith(obj, Meaning[op], a, b)
    BY <2>1 DEF ob_binary
  <2>3. ob_arith(obj, Meaning[op], a, b) = plain_arith(obj, Meaning[op], a, b)
    BY <1>1, <1>2 DEF ob_arith
  <2>4. plain_inplace(obj, op, a, b) = plain_arith(obj, Meaning[op], a, b)
    BY <1>1, <1>2, <1>4, PlainCompound
  <2> QED
    BY <1>2, <1>3, <2>2, <2>3, <2>4
<1>5. CASE op \notin InplaceArithmetic
  <2>1. Meaning[op] \in Bitwise2 /\ Meaning[op] \notin Arithmetic \union Logic
    BY <1>5, Meanings, Disjoint DEF Compounds
  <2>2. ob_binary(obj, Meaning[op], a, b) = ob_bitwise(obj, Meaning[op], a, b)
    BY <2>1 DEF ob_binary
  <2>3. ob_bitwise(obj, Meaning[op], a, b) = plain_bitwise(obj, Meaning[op], a, b)
    BY <1>1, <1>2 DEF ob_bitwise
  <2>4. plain_inplace(obj, op, a, b) = plain_bitwise(obj, Meaning[op], a, b)
    BY <1>1, <1>2, <1>5, PlainCompound
  <2> QED
    BY <1>2, <1>3, <2>2, <2>3, <2>4
<1> QED
  BY <1>4, <1>5

(* For words of any width and values of any type: x op= y leaves in x what  *)
(* x op y yields, but for the deviations that Deviates names (integer.cpp,  *)
(* char.cpp, float.cpp, string.cpp).                                        *)
THEOREM CompoundsAgree == Spec => []CompoundAgrees
BY Invariance, InvCompound, PTL
=============================================================================
