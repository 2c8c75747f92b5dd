------------------------------ MODULE Foundations -----------------------------
(***************************************************************************)
(* What recursive functions, folds and bounds of sets yield, for any data. *)
(* A definition by recursion is the choice of a function that solves an    *)
(* equation; Recursion and Folding say that there is one, Descent and      *)
(* FoldSteps what the chosen one is like.  The functions that a fold is    *)
(* built from are values here, sets of pairs, so that no lemma has an      *)
(* operator for a parameter.                                               *)
(***************************************************************************)
EXTENDS Integers, SequencesExt, FiniteSetTheorems, SequenceTheorems, TLAPS

(* A set of numbers has a least one, and a set closed under induction is all. *)
LEMMA LeastElement ==
  ASSUME NEW S \in SUBSET Nat, S # {}
  PROVE  \E n \in S : \A k \in S : n <= k
<1> DEFINE T == {1 .. n : n \in S}
<1>1. \A U \in T : U \subseteq Nat /\ IsFiniteSet(U)
  BY FS_Interval
<1>2. T \subseteq FiniteSubsetsOf(Nat)
  BY <1>1 DEF FiniteSubsetsOf
<1>3. T # {}
  OBVIOUS
<1>4. PICK U \in T : \A V \in T : ~(<<V, U>> \in StrictSubsetOrdering(Nat))
  <2> HIDE DEF T
  <2> QED
    BY <1>2, <1>3, FS_StrictSubsetOrderingWellFounded, WFMin
<1>5. PICK n \in S : U = 1 .. n
  OBVIOUS
<1>6. ASSUME NEW k \in S, k < n PROVE FALSE
  <2>1. 1 .. k \in T
    OBVIOUS
  <2>2. 1 .. k \subseteq U /\ 1 .. k # U
    <3>1. n \in 1 .. n /\ n \notin 1 .. k
      BY <1>6
    <3> QED
      BY <1>5, <1>6, <3>1
  <2>3. <<1 .. k, U>> \in StrictSubsetOrdering(Nat)
    BY <2>2, <1>1, <2>1 DEF StrictSubsetOrdering
  <2> QED
    BY <1>4, <2>1, <2>3
<1> QED
  BY <1>6

LEMMA NatSet ==
  ASSUME NEW S \in SUBSET Nat, \A n \in Nat : (\A k \in 0 .. n - 1 : k \in S) => n \in S
  PROVE  S = Nat
<1> SUFFICES ASSUME Nat \ S # {} PROVE FALSE
  OBVIOUS
<1>1. PICK n \in Nat \ S : \A k \in Nat \ S : n <= k
  BY LeastElement
<1> QED
  BY <1>1

-----------------------------------------------------------------------------
(* A recursive definition with one recursive call. *)

Recursive(f, S, B, base, p, h) ==
  \A x \in S : f[x] = IF x \in B THEN base[x] ELSE h[<<x, f[p[x]]>>]

LEMMA Recursion ==
  ASSUME NEW S, NEW V, NEW B, NEW m \in [S -> Nat], NEW base \in [S -> V],
         NEW p \in [S -> S], NEW h \in [S \X V -> V],
         \A x \in S \ B : m[p[x]] < m[x]
  PROVE  \E f \in [S -> V] : Recursive(f, S, B, base, p, h)
<1> DEFINE Good(f, n) == \A x \in S : m[x] < n =>
                            f[x] = IF x \in B THEN base[x] ELSE h[<<x, f[p[x]]>>]
           Reached == {n \in Nat : \E f \in [S -> V] : Good(f, n)}
<1>1. Reached = Nat
  <2> SUFFICES ASSUME NEW n \in Nat, \A k \in 0 .. n - 1 : k \in Reached
               PROVE  n \in Reached
    <3> HIDE DEF Reached
    <3>1. Reached \in SUBSET Nat
      BY DEF Reached
    <3> QED
      BY <3>1, NatSet
  <2>1. CASE n = 0
    BY <2>1
  <2>2. CASE n # 0
    <3>1. PICK f \in [S -> V] : Good(f, n - 1)
      BY <2>2
    <3> DEFINE g == [x \in S |-> IF x \in B THEN base[x] ELSE h[<<x, f[p[x]]>>]]
    <3>2. g \in [S -> V]
      OBVIOUS
    <3>3. ASSUME NEW x \in S, m[x] < n
          PROVE  g[x] = IF x \in B THEN base[x] ELSE h[<<x, g[p[x]]>>]
      <4>1. CASE x \in B
        BY <4>1
      <4>2. CASE x \notin B
        <5>1. p[x] \in S /\ m[p[x]] < n - 1
          <6>1. m[x] \in Nat /\ m[p[x]] \in Nat /\ m[p[x]] < m[x]
            BY <4>2
          <6> QED
            BY <3>3, <6>1
        <5>2. f[p[x]] = g[p[x]]
          BY <3>1, <5>1
        <5> QED
          BY <4>2, <5>2
      <4> QED
        BY <4>1, <4>2
    <3>4. Good(g, n)
      BY <3>3
    <3> QED
      BY <3>2, <3>4
  <2> QED
    BY <2>1, <2>2
<1>2. ASSUME NEW f \in [S -> V], NEW g \in [S -> V], NEW j \in Nat, NEW k \in Nat,
             Good(f, j), Good(g, k), NEW x \in S, m[x] < j, m[x] < k
      PROVE  f[x] = g[x]
  <2> DEFINE Differ == {m[y] : y \in {z \in S : m[z] < j /\ m[z] < k /\ f[z] # g[z]}}
  <2> SUFFICES ASSUME f[x] # g[x] PROVE FALSE
    OBVIOUS
  <2>0. m[x] \in Differ
    BY <1>2
  <2>1. Differ \in SUBSET Nat
    OBVIOUS
  <2>2. PICK n \in Differ : \A i \in Differ : n <= i
    <3> HIDE DEF Differ
    <3> QED
      BY <2>0, <2>1, LeastElement
  <2>3. PICK y \in S : m[y] = n /\ m[y] < j /\ m[y] < k /\ f[y] # g[y]
    BY <2>2
  <2>4. y \notin B
    BY <1>2, <2>3
  <2>5. p[y] \in S /\ m[p[y]] \in Nat /\ m[y] \in Nat /\ m[p[y]] < m[y]
    BY <2>4
  <2>6. f[p[y]] = g[p[y]]
    <3>1. m[p[y]] < j /\ m[p[y]] < k
      BY <2>3, <2>5
    <3>2. m[p[y]] \notin Differ
      <4> HIDE DEF Differ
      <4> QED
        BY <2>1, <2>2, <2>3, <2>5
    <3> QED
      BY <2>5, <3>1, <3>2
  <2>7. f[y] = h[<<y, f[p[y]]>>] /\ g[y] = h[<<y, g[p[y]]>>]
    <3> HIDE DEF Differ
    <3> QED
      BY <1>2, <2>3, <2>4
  <2> QED
    BY <2>3, <2>6, <2>7
<1> DEFINE Upto(n) == CHOOSE f \in [S -> V] : Good(f, n)
<1>3. ASSUME NEW n \in Nat
      PROVE  Upto(n) \in [S -> V] /\ Good(Upto(n), n)
  <2>1. \E f \in [S -> V] : Good(f, n)
    BY <1>1
  <2> QED
    BY <2>1
<1> DEFINE F == [x \in S |-> Upto(m[x] + 1)[x]]
<1> HIDE DEF Good, Upto
<1>4. F \in [S -> V]
  BY <1>3
<1>5. ASSUME NEW x \in S
      PROVE  F[x] = IF x \in B THEN base[x] ELSE h[<<x, F[p[x]]>>]
  <2> DEFINE u == Upto(m[x] + 1)
             w == Upto(m[p[x]] + 1)
  <2>1. m[x] \in Nat /\ m[p[x]] \in Nat /\ p[x] \in S
    OBVIOUS
  <2>2. u \in [S -> V] /\ w \in [S -> V] /\ Good(u, m[x] + 1) /\ Good(w, m[p[x]] + 1)
    BY <2>1, <1>3
  <2>3. F[x] = u[x] /\ F[p[x]] = w[p[x]]
    BY <2>1
  <2> HIDE DEF u, w, F
  <2>4. u[x] = IF x \in B THEN base[x] ELSE h[<<x, u[p[x]]>>]
    BY <2>1, <2>2 DEF Good
  <2>5. x \notin B => u[p[x]] = w[p[x]]
    <3> SUFFICES ASSUME x \notin B PROVE u[p[x]] = w[p[x]]
      OBVIOUS
    <3>1. m[p[x]] < m[x] + 1 /\ m[p[x]] < m[p[x]] + 1 /\ m[x] + 1 \in Nat /\ m[p[x]] + 1 \in Nat
      BY <2>1
    <3> QED
      BY <1>2, <2>1, <2>2, <3>1
  <2> QED
    BY <2>3, <2>4, <2>5
<1> QED
  BY <1>4, <1>5 DEF Recursive

-----------------------------------------------------------------------------
(* Bounds of finite sets of integers. *)

LEMMA MaxOf ==
  ASSUME NEW S \in SUBSET Int, NEW n \in S, \A k \in S : k <= n
  PROVE  Max(S) = n
<1>1. n \in S /\ \A y \in S : n >= y
  OBVIOUS
<1>2. Max(S) \in S /\ \A y \in S : Max(S) >= y
  BY <1>1 DEF Max
<1>3. n \in Int /\ Max(S) \in Int /\ Max(S) >= n /\ n >= Max(S)
  BY <1>1, <1>2
<1> QED
  BY <1>3

LEMMA MinOf ==
  ASSUME NEW S \in SUBSET Int, NEW n \in S, \A k \in S : n <= k
  PROVE  Min(S) = n
<1>1. n \in S /\ \A y \in S : n =< y
  OBVIOUS
<1>2. Min(S) \in S /\ \A y \in S : Min(S) =< y
  BY <1>1 DEF Min
<1>3. n \in Int /\ Min(S) \in Int /\ Min(S) =< n /\ n =< Min(S)
  BY <1>1, <1>2
<1> QED
  BY <1>3

LEMMA Minimum ==
  ASSUME NEW S, NEW a \in Int, S # {}, S \subseteq {i \in Int : i >= a}
  PROVE  Min(S) \in S /\ \A k \in S : Min(S) <= k
<1> DEFINE T == {i - a : i \in S}
<1>0. \A i \in S : i \in Int /\ i >= a /\ i - a \in Nat
  OBVIOUS
<1>1. T \in SUBSET Nat /\ T # {}
  BY <1>0
<1>2. PICK n \in T : \A k \in T : n <= k
  <2> HIDE DEF T
  <2> QED
    BY <1>1, LeastElement
<1>3. PICK m \in S : n = m - a
  BY <1>2
<1>4. \A k \in S : m <= k
  <2> TAKE k \in S
  <2>1. k - a \in T
    OBVIOUS
  <2>2. n <= k - a
    BY <1>2, <2>1
  <2> QED
    BY <1>0, <1>3, <2>2
<1> QED
  BY <1>0, <1>4, MinOf

LEMMA Maximum ==
  ASSUME NEW S, NEW b \in Int, S # {}, S \subseteq {i \in Int : i <= b}
  PROVE  Max(S) \in S /\ \A k \in S : k <= Max(S)
<1> DEFINE T == {b - i : i \in S}
<1>0. \A i \in S : i \in Int /\ i <= b /\ b - i \in Nat
  OBVIOUS
<1>1. T \in SUBSET Nat /\ T # {}
  BY <1>0
<1>2. PICK n \in T : \A k \in T : n <= k
  <2> HIDE DEF T
  <2> QED
    BY <1>1, LeastElement
<1>3. PICK m \in S : n = b - m
  BY <1>2
<1>4. \A k \in S : k <= m
  <2> TAKE k \in S
  <2>1. b - k \in T
    OBVIOUS
  <2>2. n <= b - k
    BY <1>2, <2>1
  <2> QED
    BY <1>0, <1>3, <2>2
<1> QED
  BY <1>0, <1>4, MaxOf

LEMMA InInterval ==
  ASSUME NEW S, NEW a \in Int, NEW b \in Int, S # {}, S \subseteq a .. b
  PROVE  /\ Min(S) \in S /\ \A k \in S : Min(S) <= k
         /\ Max(S) \in S /\ \A k \in S : k <= Max(S)
<1>1. S \subseteq {i \in Int : i >= a} /\ S \subseteq {i \in Int : i <= b}
  OBVIOUS
<1> QED
  BY <1>1, Minimum, Maximum

LEMMA Positions ==
  ASSUME NEW S, NEW n \in Nat, S # {}, S \subseteq 1 .. n
  PROVE  /\ Min(S) \in S /\ \A k \in S : Min(S) <= k
         /\ Max(S) \in S /\ \A k \in S : k <= Max(S)
<1>1. PICK a \in Int : a = 1
  OBVIOUS
<1>2. S \subseteq a .. n /\ n \in Int
  BY <1>1
<1>3. Min(S) \in S /\ \A k \in S : Min(S) <= k
  BY <1>2, InInterval
<1>4. Max(S) \in S /\ \A k \in S : k <= Max(S)
  BY <1>2, InInterval
<1> QED
  BY <1>3, <1>4

LEMMA MinPair ==
  ASSUME NEW a \in Int, NEW b \in Int
  PROVE  Min({a, b}) = IF a <= b THEN a ELSE b
<1>1. CASE a <= b
  <2>1. a \in {a, b} /\ \A k \in {a, b} : a <= k
    BY <1>1
  <2>2. {a, b} \in SUBSET Int
    OBVIOUS
  <2>3. Min({a, b}) = a
    BY <2>1, <2>2, MinOf
  <2> QED
    BY <1>1, <2>3
<1>2. CASE ~(a <= b)
  <2>1. b \in {a, b} /\ \A k \in {a, b} : b <= k
    BY <1>2
  <2>2. {a, b} \in SUBSET Int
    OBVIOUS
  <2>3. Min({a, b}) = b
    BY <2>1, <2>2, MinOf
  <2> QED
    BY <1>2, <2>3
<1> QED
  BY <1>1, <1>2

LEMMA LastOfInterval ==
  ASSUME NEW k \in Nat \ {0}
  PROVE  Max(1 .. k) = k /\ (1 .. k) \ {k} = 1 .. k - 1 /\ 1 .. k # {}
<1>1. k \in 1 .. k /\ \A i \in 1 .. k : i <= k
  OBVIOUS
<1>2. 1 .. k \in SUBSET Int
  OBVIOUS
<1>3. Max(1 .. k) = k
  BY <1>1, <1>2, MaxOf
<1> QED
  BY <1>1, <1>3

(* A fold from the left, as FoldLeft of SequencesExt writes it: the elements *)
(* of a set of positions are used from the lowest one on.                    *)
Folder(n, V, base, step) == n \in Nat /\ base \in V /\ step \in [V \X (1 .. n) -> V]

Folds(f, n, base, step) ==
  \A s \in SUBSET (1 .. n) : f[s] = IF s = {} THEN base ELSE step[<<f[s \ {Max(s)}], Max(s)>>]

LEMMA Folding ==
  ASSUME NEW n, NEW V, NEW base, NEW step, Folder(n, V, base, step)
  PROVE  \E f \in [SUBSET (1 .. n) -> V] : Folds(f, n, base, step)
<1>0. n \in Nat /\ base \in V /\ step \in [V \X (1 .. n) -> V]
  BY DEF Folder
<1> USE <1>0
<1> SUFFICES \E f \in [SUBSET (1 .. n) -> V] : \A s \in SUBSET (1 .. n) :
                f[s] = IF s = {} THEN base ELSE step[<<f[s \ {Max(s)}], Max(s)>>]
  BY DEF Folds
<1> DEFINE S == SUBSET (1 .. n)
           m == [s \in S |-> Cardinality(s)]
           p == [s \in S |-> IF s = {} THEN s ELSE s \ {Max(s)}]
           b == [s \in S |-> base]
           h == [q \in S \X V |-> IF q[1] = {} THEN base ELSE step[<<q[2], Max(q[1])>>]]
<1>1. ASSUME NEW s \in S
      PROVE  IsFiniteSet(s) /\ Cardinality(s) \in Nat
  <2>1. IsFiniteSet(1 .. n)
    BY FS_Interval
  <2>2. IsFiniteSet(s)
    BY <2>1, FS_Subset
  <2> QED
    BY <2>2, FS_CardinalityType
<1>2. ASSUME NEW s \in S, s # {}
      PROVE  Max(s) \in s
  <2>1. s \subseteq {i \in Int : i <= n} /\ n \in Int /\ s # {}
    BY <1>2
  <2> HIDE DEF S
  <2> QED
    BY <2>1, Maximum
<1>3. m \in [S -> Nat] /\ p \in [S -> S] /\ b \in [S -> V] /\ h \in [S \X V -> V]
  <2>1. m \in [S -> Nat]
    BY <1>1
  <2>2. h \in [S \X V -> V]
    <3> SUFFICES ASSUME NEW s \in S, NEW v \in V, s # {}
                 PROVE  step[<<v, Max(s)>>] \in V
      OBVIOUS
    <3>1. Max(s) \in 1 .. n
      BY <1>2
    <3> QED
      BY <3>1
  <2> QED
    BY <2>1, <2>2
<1>4. ASSUME NEW s \in S \ {{}}
      PROVE  m[p[s]] < m[s]
  <2>1. Max(s) \in s /\ s \ {Max(s)} \in S
    BY <1>2
  <2>2. Cardinality(s \ {Max(s)}) = Cardinality(s) - 1
    BY <1>1, <2>1, FS_RemoveElement
  <2> QED
    BY <1>1, <2>1, <2>2
<1>5. PICK f \in [S -> V] : Recursive(f, S, {{}}, b, p, h)
  <2> HIDE DEF S, m, p, b, h
  <2> QED
    BY <1>3, <1>4, Recursion
<1>6. ASSUME NEW s \in S
      PROVE  f[s] = IF s = {} THEN base ELSE step[<<f[s \ {Max(s)}], Max(s)>>]
  <2>1. f[s] = IF s \in {{}} THEN b[s] ELSE h[<<s, f[p[s]]>>]
    BY <1>5 DEF Recursive
  <2>2. f[p[s]] \in V /\ <<s, f[p[s]]>> \in S \X V
    BY <1>3
  <2> QED
    BY <2>1, <2>2
<1> QED
  BY <1>6

-----------------------------------------------------------------------------
(* Parts of sequences. *)

LEMMA SubSeqInside ==
  ASSUME NEW S, NEW s \in Seq(S), NEW m \in Int, NEW n \in Int, 1 <= m, n <= Len(s)
  PROVE  /\ SubSeq(s, m, n) \in Seq(S)
         /\ Len(SubSeq(s, m, n)) = IF m <= n THEN n - m + 1 ELSE 0
         /\ \A i \in 1 .. n - m + 1 : SubSeq(s, m, n)[i] = s[m + i - 1]
<1>1. \A i \in m .. n : s[i] \in S
  <2>1. Len(s) \in Nat
    BY LenProperties
  <2> QED
    BY <2>1, ElementOfSeq
<1> QED
  BY <1>1, SubSeqProperties

LEMMA FrontProperties ==
  ASSUME NEW S, NEW s \in Seq(S), s # << >>
  PROVE  /\ Front(s) \in Seq(S)
         /\ Len(Front(s)) = Len(s) - 1
         /\ \A i \in 1 .. Len(s) - 1 : Front(s)[i] = s[i]
<1>1. PICK n \in Nat : Len(s) = n /\ n > 0
  BY EmptySeq
<1>2. /\ SubSeq(s, 1, n - 1) \in Seq(S)
      /\ Len(SubSeq(s, 1, n - 1)) = IF 1 <= n - 1 THEN n - 1 - 1 + 1 ELSE 0
      /\ \A i \in 1 .. n - 1 - 1 + 1 : SubSeq(s, 1, n - 1)[i] = s[1 + i - 1]
  BY <1>1, SubSeqInside
<1>3. Front(s) = SubSeq(s, 1, n - 1)
  BY <1>1 DEF Front
<1>4. (IF 1 <= n - 1 THEN n - 1 - 1 + 1 ELSE 0) = n - 1
  BY <1>1
<1>5. ASSUME NEW i \in 1 .. n - 1
      PROVE  Front(s)[i] = s[i]
  BY <1>2, <1>3
<1> QED
  BY <1>1, <1>2, <1>3, <1>4, <1>5

LEMMA RemoveAtProperties ==
  ASSUME NEW S, NEW s \in Seq(S), NEW q \in 1 .. Len(s)
  PROVE  /\ RemoveAt(s, q) \in Seq(S)
         /\ Len(RemoveAt(s, q)) = Len(s) - 1
         /\ \A p \in 1 .. Len(s) - 1 : RemoveAt(s, q)[p] = IF p < q THEN s[p] ELSE s[p + 1]
<1> DEFINE front == SubSeq(s, 1, q - 1)
           back  == SubSeq(s, q + 1, Len(s))
<1>1. Len(s) \in Nat /\ q \in Int /\ \A p \in 1 .. Len(s) : s[p] \in S
  BY LenProperties, ElementOfSeq
<1>2. /\ front \in Seq(S)
      /\ Len(front) = q - 1
      /\ \A p \in 1 .. q - 1 : front[p] = s[p]
  <2>1. \A p \in 1 .. q - 1 : s[p] \in S
    BY <1>1
  <2>2. /\ SubSeq(s, 1, q - 1) \in Seq(S)
        /\ Len(SubSeq(s, 1, q - 1)) = IF 1 <= q - 1 THEN q - 1 - 1 + 1 ELSE 0
        /\ \A i \in 1 .. q - 1 - 1 + 1 : SubSeq(s, 1, q - 1)[i] = s[1 + i - 1]
    BY <1>1, <2>1, SubSeqProperties
  <2> QED
    BY <1>1, <2>2
<1>3. /\ back \in Seq(S)
      /\ Len(back) = Len(s) - q
      /\ \A p \in 1 .. Len(s) - q : back[p] = s[q + p]
  <2>1. \A p \in q + 1 .. Len(s) : s[p] \in S
    BY <1>1
  <2>2. /\ SubSeq(s, q + 1, Len(s)) \in Seq(S)
        /\ Len(SubSeq(s, q + 1, Len(s))) = IF q + 1 <= Len(s) THEN Len(s) - (q + 1) + 1 ELSE 0
        /\ \A i \in 1 .. Len(s) - (q + 1) + 1 : SubSeq(s, q + 1, Len(s))[i] = s[q + 1 + i - 1]
    BY <1>1, <2>1, SubSeqProperties
  <2> QED
    BY <1>1, <2>2
<1>4. /\ RemoveAt(s, q) \in Seq(S)
      /\ Len(RemoveAt(s, q)) = Len(s) - 1
      /\ \A p \in 1 .. Len(s) - 1 :
           RemoveAt(s, q)[p] = IF p <= q - 1 THEN front[p] ELSE back[p - (q - 1)]
  <2> HIDE DEF front, back
  <2>1. /\ front \o back \in Seq(S)
        /\ Len(front \o back) = Len(front) + Len(back)
        /\ \A i \in 1 .. Len(front) + Len(back) :
             (front \o back)[i] = IF i <= Len(front) THEN front[i] ELSE back[i - Len(front)]
    BY <1>2, <1>3, ConcatProperties
  <2>2. RemoveAt(s, q) = front \o back
    BY DEF RemoveAt, front, back
  <2>3. Len(front) + Len(back) = Len(s) - 1
    BY <1>1, <1>2, <1>3
  <2> QED
    BY <1>2, <2>1, <2>2, <2>3
<1>5. ASSUME NEW p \in 1 .. Len(s) - 1
      PROVE  RemoveAt(s, q)[p] = IF p < q THEN s[p] ELSE s[p + 1]
  <2> HIDE DEF front, back
  <2>1. CASE p < q
    BY <1>1, <1>2, <1>4, <2>1
  <2>2. CASE ~(p < q)
    <3>1. p - (q - 1) \in 1 .. Len(s) - q /\ q + (p - (q - 1)) = p + 1
      BY <1>1, <2>2
    <3>2. RemoveAt(s, q)[p] = back[p - (q - 1)]
      <4>1. ~(p <= q - 1)
        BY <1>1, <2>2
      <4> QED
        BY <1>4, <4>1
    <3> QED
      BY <1>3, <2>2, <3>1, <3>2
  <2> QED
    BY <2>1, <2>2
<1> QED
  BY <1>4, <1>5

LEMMA Removal ==
  ASSUME NEW S, NEW s \in Seq(S), NEW n \in Nat, n = Len(s), NEW q \in 1 .. n
  PROVE  /\ RemoveAt(s, q) \in Seq(S)
         /\ Len(RemoveAt(s, q)) = n - 1
         /\ \A p \in 1 .. n - 1 : RemoveAt(s, q)[p] = IF p < q THEN s[p] ELSE s[p + 1]
<1>1. q \in 1 .. Len(s)
  OBVIOUS
<1>2. /\ RemoveAt(s, q) \in Seq(S)
      /\ Len(RemoveAt(s, q)) = Len(s) - 1
      /\ \A p \in 1 .. Len(s) - 1 : RemoveAt(s, q)[p] = IF p < q THEN s[p] ELSE s[p + 1]
  BY <1>1, RemoveAtProperties
<1> QED
  BY <1>2

-----------------------------------------------------------------------------
(* What a recursive function yields is of a type when its last case is and   *)
(* every other one keeps to it.                                             *)
Descends(S, V, B, m, p, g) ==
  /\ m \in [S -> Nat] /\ p \in [S -> S]
  /\ \A x \in S \ B : m[p[x]] < m[x]
  /\ \A x \in S : x \in B => g[x] \in V
  /\ \A x \in S \ B : g[p[x]] \in V => g[x] \in V

LEMMA Descent ==
  ASSUME NEW S, NEW V, NEW B, NEW m, NEW p, NEW g, Descends(S, V, B, m, p, g)
  PROVE  \A x \in S : g[x] \in V
<1> USE DEF Descends
<1> DEFINE Bad == {m[x] : x \in {y \in S : g[y] \notin V}}
<1> SUFFICES ASSUME NEW x \in S, g[x] \notin V PROVE FALSE
  OBVIOUS
<1>1. Bad \in SUBSET Nat /\ Bad # {}
  OBVIOUS
<1>2. PICK n \in Bad : \A k \in Bad : n <= k
  <2> HIDE DEF Bad
  <2> QED
    BY <1>1, LeastElement
<1>3. PICK y \in S : n = m[y] /\ g[y] \notin V
  BY <1>2
<1>4. y \notin B
  BY <1>3
<1>5. p[y] \in S /\ m[p[y]] < m[y] /\ g[p[y]] \notin V
  BY <1>3, <1>4
<1>6. m[p[y]] \in Bad /\ m[p[y]] \in Nat /\ m[y] \in Nat
  BY <1>5
<1> HIDE DEF Bad
<1> QED
  BY <1>2, <1>3, <1>5, <1>6

(* The parts of a sequence of equal sequences, one after another. *)
LEMMA Flattened ==
  ASSUME NEW T, NEW v \in Seq(T), NEW n \in Nat
  PROVE  FlattenSeq([i \in 1 .. n |-> v]) \in Seq(T)
<1> DEFINE s == [i \in 1 .. n |-> v]
<1>1. s \in Seq(Seq(T)) /\ Len(s) = n
  BY IsASeq
<1>2. CASE n = 0
  <2>1. s = << >>
    BY <1>1, <1>2, EmptySeq
  <2>2. FlattenSeq(s) = << >>
    BY <1>1, <1>2, <2>1 DEF FlattenSeq
  <2> QED
    BY <2>2, EmptySeq
<1>3. CASE n # 0
  <2> DEFINE S == 1 .. n
             m == [i \in S |-> i]
             p == [i \in S |-> IF i = 1 THEN i ELSE i - 1]
             b == [i \in S |-> v]
             h == [q \in S \X Seq(T) |-> q[2] \o v]
             Fix(f) == f = [i \in 1 .. n |-> IF i = 1 THEN s[i] ELSE f[i - 1] \o s[i]]
  <2>1. m \in [S -> Nat] /\ p \in [S -> S] /\ b \in [S -> Seq(T)]
    BY <1>3
  <2>2. h \in [S \X Seq(T) -> Seq(T)]
    BY ConcatProperties
  <2>3. \A x \in S \ {1} : m[p[x]] < m[x]
    OBVIOUS
  <2>4. PICK f \in [S -> Seq(T)] : Recursive(f, S, {1}, b, p, h)
    <3> HIDE DEF S, m, p, b, h
    <3> QED
      BY <2>1, <2>2, <2>3, Recursion
  <2>5. Fix(f)
    <3>1. ASSUME NEW i \in S
          PROVE  f[i] = IF i = 1 THEN s[i] ELSE f[i - 1] \o s[i]
      <4>1. f[i] = IF i \in {1} THEN b[i] ELSE h[<<i, f[p[i]]>>]
        BY <2>4 DEF Recursive
      <4>2. i # 1 => f[p[i]] = f[i - 1] /\ f[i - 1] \in Seq(T)
        OBVIOUS
      <4> QED
        BY <4>1, <4>2
    <3> QED
      BY <3>1
  <2>6. PICK g : g = CHOOSE f_1 : Fix(f_1)
    OBVIOUS
  <2>7. Fix(g)
    BY <2>5, <2>6
  <2>8. \A x \in S : g[x] \in Seq(T)
    <3>1. \A x \in S : x \in {1} => g[x] \in Seq(T)
      BY <2>7
    <3>2. \A x \in S \ {1} : g[p[x]] \in Seq(T) => g[x] \in Seq(T)
      <4> TAKE x \in S \ {1}
      <4> HAVE g[p[x]] \in Seq(T)
      <4>1. g[x] = g[x - 1] \o v
        BY <2>7
      <4>2. g[x - 1] \in Seq(T)
        OBVIOUS
      <4> QED
        BY <4>1, <4>2, ConcatProperties
    <3>3. Descends(S, Seq(T), {1}, m, p, g)
      <4> HIDE DEF S, m, p, Fix
      <4> QED
        BY <2>1, <2>3, <3>1, <3>2 DEF Descends
    <3> HIDE DEF S, m, p, Fix
    <3> QED
      BY <3>3, Descent
  <2>9. FlattenSeq(s) = g[n]
    <3>1. Len(s) # 0
      BY <1>1, <1>3
    <3> QED
      BY <1>1, <2>6, <3>1 DEF FlattenSeq
  <2>10. n \in S
    BY <1>3
  <2> QED
    BY <2>8, <2>9, <2>10
<1> QED
  BY <1>2, <1>3

-----------------------------------------------------------------------------
(* A fold, step by step. *)
FoldsAs(g, n, V, base, step) ==
  /\ g[{}] = base
  /\ \A t \in SUBSET (1 .. n) :
        t # {} /\ g[t \ {Max(t)}] \in V => g[t] = step[<<g[t \ {Max(t)}], Max(t)>>]

Accumulates(acc, n, base, step) ==
  acc[0] = base /\ \A k \in 1 .. n : acc[k] = step[<<acc[k - 1], k>>]

LEMMA FoldSteps ==
  ASSUME NEW n, NEW V, NEW base, NEW step, Folder(n, V, base, step),
         NEW g, FoldsAs(g, n, V, base, step)
  PROVE  \E acc \in [0 .. n -> V] : Accumulates(acc, n, base, step) /\ acc[n] = g[1 .. n]
<1> USE DEF Folder, Accumulates
<1> DEFINE acc == [k \in 0 .. n |-> g[1 .. k]]
<1>1. g[1 .. 0] = base
  <2>1. 1 .. 0 = {}
    OBVIOUS
  <2> QED
    BY <2>1 DEF FoldsAs
<1>2. ASSUME NEW k \in 1 .. n, acc[k - 1] \in V
      PROVE  acc[k] = step[<<acc[k - 1], k>>]
  <2>1. k \in Nat \ {0} /\ 1 .. k \in SUBSET (1 .. n) /\ k - 1 \in 0 .. n
    OBVIOUS
  <2>2. Max(1 .. k) = k /\ (1 .. k) \ {k} = 1 .. k - 1 /\ 1 .. k # {}
    BY <2>1, LastOfInterval
  <2>3. acc[k] = g[1 .. k] /\ acc[k - 1] = g[1 .. k - 1]
    BY <2>1
  <2> HIDE DEF acc
  <2>4. g[(1 .. k) \ {Max(1 .. k)}] = acc[k - 1]
    BY <2>2, <2>3
  <2> QED
    BY <1>2, <2>1, <2>2, <2>3, <2>4 DEF FoldsAs
<1>3. acc \in [0 .. n -> V]
  <2> DEFINE Ok == {k \in Nat : k <= n => acc[k] \in V}
  <2>1. ASSUME NEW k \in Nat, \A j \in 0 .. k - 1 : j \in Ok PROVE k \in Ok
    <3>1. CASE k = 0
      BY <3>1, <1>1
    <3>2. CASE k # 0 /\ k <= n
      <4>1. acc[k - 1] \in V
        BY <2>1, <3>2
      <4>0. k \in 1 .. n
        BY <3>2
      <4> HIDE DEF acc
      <4>2. acc[k] = step[<<acc[k - 1], k>>]
        BY <1>2, <4>0, <4>1
      <4>3. acc[k] \in V
        BY <4>0, <4>1, <4>2
      <4> QED
        BY <4>3
    <3>3. CASE ~(k <= n)
      BY <3>3
    <3> QED
      BY <3>1, <3>2, <3>3
  <2>2. Ok = Nat
    <3> HIDE DEF Ok
    <3>1. Ok \in SUBSET Nat
      BY DEF Ok
    <3> QED
      BY <2>1, <3>1, NatSet
  <2>3. ASSUME NEW k \in 0 .. n
        PROVE  acc[k] \in V
    <3>1. k \in Ok /\ k <= n
      <4> HIDE DEF Ok
      <4> QED
        BY <2>2
    <3> HIDE DEF acc
    <3> QED
      BY <3>1
  <2>4. acc = [k \in 0 .. n |-> acc[k]]
    OBVIOUS
  <2> HIDE DEF acc
  <2> QED
    BY <2>3, <2>4
<1>4. acc[0] = base /\ acc[n] = g[1 .. n]
  BY <1>1
<1>5. ASSUME NEW k \in 1 .. n
      PROVE  acc[k] = step[<<acc[k - 1], k>>]
  <2>1. k - 1 \in 0 .. n
    OBVIOUS
  <2> HIDE DEF acc
  <2>2. acc[k - 1] \in V
    BY <1>3, <2>1
  <2> QED
    BY <1>2, <2>2
<1> HIDE DEF acc
<1> QED
  BY <1>3, <1>4, <1>5

LEMMA FoldInside ==
  ASSUME NEW n, NEW V, NEW base, NEW step, Folder(n, V, base, step),
         NEW g, FoldsAs(g, n, V, base, step)
  PROVE  g[1 .. n] \in V
<1>1. PICK acc \in [0 .. n -> V] : Accumulates(acc, n, base, step) /\ acc[n] = g[1 .. n]
  BY FoldSteps
<1>2. n \in Nat
  BY DEF Folder
<1> QED
  BY <1>1, <1>2

Folded(n, V, base, step, g) ==
  \E acc \in [0 .. n -> V] : Accumulates(acc, n, base, step) /\ acc[n] = g[1 .. n]

LEMMA FoldRun ==
  ASSUME NEW n, NEW V, NEW base, NEW step, Folder(n, V, base, step),
         NEW g, FoldsAs(g, n, V, base, step)
  PROVE  Folded(n, V, base, step, g)
<1>1. \E acc \in [0 .. n -> V] : Accumulates(acc, n, base, step) /\ acc[n] = g[1 .. n]
  BY FoldSteps
<1> QED
  BY <1>1 DEF Folded

-----------------------------------------------------------------------------
(* A recursive function that counts, and an induction that does.            *)
CountsTo(f, n, base, step) == f[0] = base /\ \A k \in 1 .. n : f[k] = step[<<f[k - 1], k>>]

LEMMA Counting ==
  ASSUME NEW n \in Nat, NEW V, NEW base \in V, NEW step \in [V \X (1 .. n) -> V]
  PROVE  \E f \in [0 .. n -> V] : CountsTo(f, n, base, step)
<1> DEFINE S == 0 .. n
           m == [k \in S |-> k]
           p == [k \in S |-> IF k = 0 THEN k ELSE k - 1]
           b == [k \in S |-> base]
           all == [k \in S |-> [v \in V |-> IF k = 0 THEN base ELSE step[<<v, k>>]]]
           h == [q \in S \X V |-> all[q[1]][q[2]]]
<1>1. m \in [S -> Nat] /\ p \in [S -> S] /\ b \in [S -> V]
  OBVIOUS
<1>2. h \in [S \X V -> V]
  OBVIOUS
<1>3. \A x \in S \ {0} : m[p[x]] < m[x]
  OBVIOUS
<1>4. PICK f \in [S -> V] : Recursive(f, S, {0}, b, p, h)
  <2> HIDE DEF S, m, p, b, h
  <2> QED
    BY <1>1, <1>2, <1>3, Recursion
<1>5. f[0] = base
  <2>1. 0 \in S /\ b[0] = base
    OBVIOUS
  <2> HIDE DEF S, b, p, h
  <2> QED
    BY <1>4, <2>1 DEF Recursive
<1>6. ASSUME NEW k \in 1 .. n
      PROVE  f[k] = step[<<f[k - 1], k>>]
  <2>1. k \in S /\ k \notin {0} /\ p[k] = k - 1 /\ k - 1 \in S
    OBVIOUS
  <2>2. f[k] = h[<<k, f[k - 1]>>]
    BY <1>4, <2>1 DEF Recursive
  <2>3. f[k - 1] \in V
    BY <2>1
  <2> QED
    BY <2>1, <2>2, <2>3
<1> QED
  BY <1>5, <1>6 DEF CountsTo

LEMMA UpTo ==
  ASSUME NEW n \in Nat, NEW S, 0 \in S, \A k \in 1 .. n : k - 1 \in S => k \in S
  PROVE  \A k \in 0 .. n : k \in S
<1> DEFINE T == {k \in Nat : k <= n => k \in S}
<1>1. T = Nat
  <2>1. ASSUME NEW k \in Nat, \A i \in 0 .. k - 1 : i \in T
        PROVE  k \in T
    <3>1. CASE k = 0
      BY <3>1
    <3>2. CASE k # 0 /\ k <= n
      <4>1. k - 1 \in T /\ k \in 1 .. n
        BY <2>1, <3>2
      <4> QED
        BY <4>1
    <3> QED
      BY <3>1, <3>2
  <2>2. T \in SUBSET Nat
    OBVIOUS
  <2> HIDE DEF T
  <2> QED
    BY <2>1, <2>2, NatSet
<1> QED
  BY <1>1

-----------------------------------------------------------------------------
(* Index trees, for any bytes and values: what their users rely on.  The    *)
(* array and the tree agree, and together they are a function from labels   *)
(* to values.  Both hold as long as a known label is replaced and not       *)
(* inserted again, which is what MemorySegment::add does; the last theorem  *)
(* says what becomes of a table when it is inserted again.                  *)
Tree == INSTANCE IndexTree

TreeLabel(Byte) == Seq(Byte) \ {<<>>}
TreePair(Byte, Value) == [label : TreeLabel(Byte), value : Value]
TreeTable(Byte, Value) ==
  [map : Seq(TreePair(Byte, Value)), tree : UNION {[C -> Nat] : C \in SUBSET Seq(Byte)}]

TreeLabels(t) == {t.map[p].label : p \in 1 .. Len(t.map)}

(* The label of every pair leads to it, and nothing leads anywhere else. *)
PairsFound(t)  == \A p \in 1 .. Len(t.map) : /\ t.map[p].label \in DOMAIN t.tree
                                             /\ t.tree[t.map[p].label] = p
ChainsRight(t) == \A c \in DOMAIN t.tree : t.tree[c] # Tree!NULL =>
                    /\ t.tree[c] \in 1 .. Len(t.map)
                    /\ t.map[t.tree[c]].label = c

Coherent(Byte, Value, t) == t \in TreeTable(Byte, Value) /\ PairsFound(t) /\ ChainsRight(t)

(* The function a table stands for, read from the array alone. *)
Contents(t) ==
  [l \in TreeLabels(t) |-> t.map[CHOOSE p \in 1 .. Len(t.map) : t.map[p].label = l].value]

-----------------------------------------------------------------------------
(* Of a coherent table *)

LEMMA TableTypes ==
  ASSUME NEW Byte, NEW Value, NEW t \in TreeTable(Byte, Value)
  PROVE  /\ t.map \in Seq(TreePair(Byte, Value))
         /\ Len(t.map) \in Nat
         /\ DOMAIN t.tree \subseteq Seq(Byte)
         /\ \A c \in DOMAIN t.tree : t.tree[c] \in Nat
         /\ \A p \in 1 .. Len(t.map) : /\ t.map[p] \in TreePair(Byte, Value)
                                       /\ t.map[p].label \in TreeLabel(Byte)
                                       /\ t.map[p].value \in Value
<1>1. t.map \in Seq(TreePair(Byte, Value)) /\ Len(t.map) \in Nat
  BY LenProperties DEF TreeTable
<1>2. PICK C \in SUBSET Seq(Byte) : t.tree \in [C -> Nat]
  BY DEF TreeTable
<1>3. \A p \in 1 .. Len(t.map) : t.map[p] \in TreePair(Byte, Value)
  BY <1>1, ElementOfSeq
<1> QED
  BY <1>1, <1>2, <1>3 DEF TreePair

(* A label the table has leads to the only pair that carries it; another   *)
(* one leads nowhere.                                                      *)
LEMMA Leads ==
  ASSUME NEW Byte, NEW Value, NEW t, Coherent(Byte, Value, t), NEW l \in TreeLabel(Byte)
  PROVE  /\ Tree!at_find(t.tree, l) # Tree!NULL <=> l \in TreeLabels(t)
         /\ l \in TreeLabels(t) =>
              /\ Tree!at_find(t.tree, l) = t.tree[l]
              /\ l \in DOMAIN t.tree
              /\ t.tree[l] \in 1 .. Len(t.map)
              /\ t.map[t.tree[l]].label = l
         /\ \A p \in 1 .. Len(t.map) : t.map[p].label = l => p = Tree!at_find(t.tree, l)
<1>1. /\ l # <<>>
      /\ \A p \in 1 .. Len(t.map) : p # Tree!NULL
  BY DEF TreeLabel, Tree!NULL
<1>2. ASSUME NEW p \in 1 .. Len(t.map), t.map[p].label = l
      PROVE  l \in DOMAIN t.tree /\ t.tree[l] = p /\ Tree!at_find(t.tree, l) = p
  BY <1>1, <1>2 DEF Coherent, PairsFound, Tree!at_find
<1>3. ASSUME Tree!at_find(t.tree, l) # Tree!NULL
      PROVE  l \in TreeLabels(t)
  <2>1. l \in DOMAIN t.tree /\ t.tree[l] # Tree!NULL
    BY <1>3 DEF Tree!at_find
  <2> QED
    BY <2>1 DEF Coherent, ChainsRight, TreeLabels
<1> QED
  BY <1>1, <1>2, <1>3 DEF TreeLabels

(* Looking a label up gives what the contents say, and nothing for a label *)
(* the contents do not have (ITree::find).                                 *)
THEOREM FindRight ==
  ASSUME NEW Byte, NEW Value, NEW t, Coherent(Byte, Value, t), NEW l \in TreeLabel(Byte)
  PROVE  Tree!find(t, l) = IF l \in TreeLabels(t) THEN Contents(t)[l] ELSE Tree!NULL
<1>1. CASE l \in TreeLabels(t)
  <2> DEFINE p == CHOOSE q \in 1 .. Len(t.map) : t.map[q].label = l
  <2>1. p \in 1 .. Len(t.map) /\ t.map[p].label = l
    BY <1>1 DEF TreeLabels
  <2> HIDE DEF p
  <2>2. p = Tree!at_find(t.tree, l)
    BY <2>1, Leads
  <2>3. p # Tree!NULL
    BY <2>1 DEF Tree!NULL
  <2> QED
    BY <1>1, <2>2, <2>3 DEF Tree!find, Contents, p
<1>2. CASE l \notin TreeLabels(t)
  BY <1>2, Leads DEF Tree!find
<1> QED
  BY <1>1, <1>2

(* No pair of a coherent table is out of reach. *)
THEOREM NoneShadowed ==
  ASSUME NEW Byte, NEW Value, NEW t, Coherent(Byte, Value, t)
  PROVE  Tree!Shadowed(t) = {}
<1>1. /\ DOMAIN t.map = 1 .. Len(t.map)
      /\ \A p \in 1 .. Len(t.map) : t.map[p].label \in TreeLabel(Byte)
  BY TableTypes, LenProperties DEF Coherent
<1> QED
  BY <1>1, Leads DEF Tree!Shadowed

(* A table read through its tree is the table read through its array. *)
LEMMA ContentsAt ==
  ASSUME NEW Byte, NEW Value, NEW t, Coherent(Byte, Value, t)
  PROVE  /\ DOMAIN Contents(t) = TreeLabels(t)
         /\ \A p \in 1 .. Len(t.map) : Contents(t)[t.map[p].label] = t.map[p].value
<1>1. ASSUME NEW p \in 1 .. Len(t.map)
      PROVE  Contents(t)[t.map[p].label] = t.map[p].value
  <2> DEFINE l == t.map[p].label
             q == CHOOSE r \in 1 .. Len(t.map) : t.map[r].label = l
  <2>1. q \in 1 .. Len(t.map) /\ t.map[q].label = l
    OBVIOUS
  <2>2. l \in TreeLabel(Byte)
    BY TableTypes DEF Coherent
  <2>3. q = p
    BY <2>1, <2>2, Leads
  <2>4. l \in TreeLabels(t)
    BY DEF TreeLabels
  <2> QED
    BY <2>3, <2>4 DEF Contents
<1> QED
  BY <1>1 DEF Contents

THEOREM EmptyCoherent ==
  ASSUME NEW Byte, NEW Value
  PROVE  /\ Coherent(Byte, Value, Tree!EmptyTable)
         /\ TreeLabels(Tree!EmptyTable) = {}
<1>1. Tree!EmptyTable.map = <<>> /\ Tree!EmptyTable.tree = Tree!EmptyTree
  BY DEF Tree!EmptyTable
<1>2. <<>> \in Seq(TreePair(Byte, Value)) /\ Len(<<>>) = 0 /\ <<>> \in Seq(Byte)
  BY EmptySeq
<1>3. Tree!EmptyTree \in [{<<>>} -> Nat]
  BY DEF Tree!EmptyTree, Tree!NULL
<1>4. Tree!EmptyTable \in TreeTable(Byte, Value)
  BY <1>2, <1>3 DEF Tree!EmptyTable, TreeTable
<1>5. 1 .. 0 = {}
  OBVIOUS
<1> QED
  BY <1>1, <1>2, <1>3, <1>4, <1>5 DEF Coherent, PairsFound, ChainsRight, TreeLabels, Tree!EmptyTree

-----------------------------------------------------------------------------
(* Of insert *)

LEMMA OwnPrefix ==
  ASSUME NEW Byte, NEW Value, NEW l \in Seq(Byte)
  PROVE  l \in Tree!Prefixes(l) /\ Tree!Prefixes(l) \subseteq Seq(Byte)
<1>1. Len(l) \in Nat /\ l = SubSeq(l, 1, Len(l))
  BY LenProperties, SubSeqFull
<1>2. ASSUME NEW n \in 0 .. Len(l)
      PROVE  SubSeq(l, 1, n) \in Seq(Byte)
  <2>1. \A i \in 1 .. n : l[i] \in Byte
    BY <1>1, ElementOfSeq
  <2> QED
    BY <1>1, <2>1, SubSeqProperties
<1>3. l \in Tree!Prefixes(l)
  BY <1>1, Len(l) \in 0 .. Len(l) DEF Tree!Prefixes
<1>4. Tree!Prefixes(l) \subseteq Seq(Byte)
  BY <1>2 DEF Tree!Prefixes
<1> QED
  BY <1>3, <1>4

LEMMA InsertShape ==
  ASSUME NEW Byte, NEW Value, NEW t \in TreeTable(Byte, Value), NEW l \in TreeLabel(Byte), NEW v \in Value, NEW u, u = Tree!insert(t, l, v)
  PROVE  /\ u \in TreeTable(Byte, Value)
         /\ Len(u.map) = Len(t.map) + 1
         /\ \A p \in 1 .. Len(t.map) : u.map[p] = t.map[p]
         /\ u.map[Len(t.map) + 1] = [label |-> l, value |-> v]
         /\ l \in DOMAIN u.tree /\ u.tree[l] = Len(t.map) + 1
         /\ DOMAIN t.tree \subseteq DOMAIN u.tree
         /\ \A c \in DOMAIN u.tree \ {l} :
              u.tree[c] = IF c \in DOMAIN t.tree THEN t.tree[c] ELSE Tree!NULL
<1> DEFINE new == [label |-> l, value |-> v]
           n   == Len(t.map) + 1
<1>1. t.map \in Seq(TreePair(Byte, Value)) /\ n \in Nat \ {0} /\ new \in TreePair(Byte, Value)
  <2>1. t.map \in Seq(TreePair(Byte, Value)) /\ Len(t.map) \in Nat
    BY TableTypes
  <2>2. new \in TreePair(Byte, Value)
    BY DEF TreePair
  <2> QED
    BY <2>1, <2>2
<1>2. u.map = Append(t.map, new) /\ u.tree = Tree!at_insert(t.tree, l, n)
  BY DEF Tree!insert
<1>3. /\ u.map \in Seq(TreePair(Byte, Value))
      /\ Len(u.map) = n
      /\ \A p \in 1 .. Len(t.map) : u.map[p] = t.map[p]
      /\ u.map[n] = new
  BY <1>1, <1>2, AppendProperties
<1>4. l \in Tree!Prefixes(l) /\ Tree!Prefixes(l) \subseteq Seq(Byte)
  BY OwnPrefix DEF TreeLabel
<1>5. /\ DOMAIN u.tree = DOMAIN t.tree \union Tree!Prefixes(l)
      /\ \A c \in DOMAIN u.tree :
           u.tree[c] = IF c = l THEN n ELSE IF c \in DOMAIN t.tree THEN t.tree[c] ELSE Tree!NULL
  BY <1>2 DEF Tree!at_insert
<1>6. u.tree \in [DOMAIN u.tree -> Nat] /\ DOMAIN u.tree \subseteq Seq(Byte)
  <2>1. DOMAIN u.tree \subseteq Seq(Byte)
    BY <1>4, <1>5, TableTypes
  <2>2. \A c \in DOMAIN u.tree : u.tree[c] \in Nat
    BY <1>1, <1>5, TableTypes DEF Tree!NULL
  <2>3. u.tree = [c \in DOMAIN u.tree |-> u.tree[c]]
    BY <1>2 DEF Tree!at_insert
  <2> QED
    BY <2>1, <2>2, <2>3
<1>7. u = [map |-> u.map, tree |-> u.tree]
  BY DEF Tree!insert
<1>8. u \in TreeTable(Byte, Value)
  BY <1>3, <1>6, <1>7 DEF TreeTable
<1> QED
  BY <1>3, <1>4, <1>5, <1>8

(* Inserting a label that is not known keeps the table coherent and adds   *)
(* the label to its contents, and changes nothing else (ITree::insert).    *)
THEOREM InsertRight ==
  ASSUME NEW Byte, NEW Value, NEW t, Coherent(Byte, Value, t), NEW l \in TreeLabel(Byte) \ TreeLabels(t), NEW v \in Value,
         NEW u, u = Tree!insert(t, l, v)
  PROVE  /\ Coherent(Byte, Value, u)
         /\ Contents(u) = [k \in TreeLabels(t) \union {l} |-> IF k = l THEN v ELSE Contents(t)[k]]
<1> DEFINE n == Len(t.map) + 1
<1>1. t \in TreeTable(Byte, Value) /\ l \in TreeLabel(Byte) /\ Len(t.map) \in Nat /\ n \in 1 .. n
  <2>1. t \in TreeTable(Byte, Value) /\ l \in TreeLabel(Byte)
    BY DEF Coherent
  <2>2. Len(t.map) \in Nat
    BY <2>1, TableTypes
  <2> QED
    BY <2>1, <2>2
<1>2. /\ u \in TreeTable(Byte, Value)
      /\ Len(u.map) = n
      /\ \A p \in 1 .. Len(t.map) : u.map[p] = t.map[p]
      /\ u.map[n].label = l /\ u.map[n].value = v
      /\ l \in DOMAIN u.tree /\ u.tree[l] = n
      /\ DOMAIN t.tree \subseteq DOMAIN u.tree
      /\ \A c \in DOMAIN u.tree \ {l} :
           u.tree[c] = IF c \in DOMAIN t.tree THEN t.tree[c] ELSE Tree!NULL
  <2>1. u.map[n] = [label |-> l, value |-> v]
    BY <1>1, InsertShape
  <2> QED
    BY <1>1, <2>1, InsertShape
<1>3. 1 .. n = (1 .. Len(t.map)) \union {n}
  BY <1>1
<1>4. \A p \in 1 .. Len(t.map) : t.map[p].label # l
  BY DEF TreeLabels
<1>5. PairsFound(u)
  BY <1>2, <1>3, <1>4, SMTT(30) DEF Coherent, PairsFound
<1>6. ChainsRight(u)
  <2>1. ASSUME NEW c \in DOMAIN u.tree \ {l}, u.tree[c] # Tree!NULL
        PROVE  u.tree[c] \in 1 .. n /\ u.map[u.tree[c]].label = c
    <3>1. c \in DOMAIN t.tree /\ u.tree[c] = t.tree[c]
      BY <1>2, <2>1
    <3>2. t.tree[c] \in 1 .. Len(t.map) /\ t.map[t.tree[c]].label = c
      BY <2>1, <3>1 DEF Coherent, ChainsRight
    <3> QED
      BY <1>2, <1>3, <3>1, <3>2
  <2> QED
    BY <1>1, <1>2, <2>1 DEF ChainsRight
<1>7. Coherent(Byte, Value, u)
  BY <1>2, <1>5, <1>6 DEF Coherent
<1>8. TreeLabels(u) = TreeLabels(t) \union {l}
  <2>1. \A p \in 1 .. Len(t.map) : u.map[p].label = t.map[p].label
    BY <1>2
  <2>2. ASSUME NEW k \in TreeLabels(u) PROVE k \in TreeLabels(t) \union {l}
    <3>1. PICK p \in 1 .. n : u.map[p].label = k
      BY <1>2, <2>2 DEF TreeLabels
    <3>2. CASE p = n
      BY <1>2, <3>1, <3>2
    <3>3. CASE p \in 1 .. Len(t.map)
      BY <2>1, <3>1, <3>3 DEF TreeLabels
    <3> QED
      BY <1>3, <3>2, <3>3
  <2>3. ASSUME NEW k \in TreeLabels(t) PROVE k \in TreeLabels(u)
    <3>1. PICK p \in 1 .. Len(t.map) : t.map[p].label = k
      BY <2>3 DEF TreeLabels
    <3>2. p \in 1 .. Len(u.map) /\ u.map[p].label = k
      BY <1>2, <1>3, <2>1, <3>1
    <3> QED
      BY <3>2 DEF TreeLabels
  <2>4. l \in TreeLabels(u)
    BY <1>1, <1>2 DEF TreeLabels
  <2> QED
    BY <2>2, <2>3, <2>4
<1>9. ASSUME NEW k \in TreeLabels(u)
      PROVE  Contents(u)[k] = IF k = l THEN v ELSE Contents(t)[k]
  <2>1. CASE k = l
    BY <1>1, <1>2, <1>7, <2>1, ContentsAt
  <2>2. CASE k # l
    <3>1. PICK p \in 1 .. Len(t.map) : t.map[p].label = k
      BY <1>8, <2>2 DEF TreeLabels
    <3>2. p \in 1 .. Len(u.map) /\ u.map[p] = t.map[p]
      BY <1>2, <1>3, <3>1
    <3> QED
      BY <1>7, <2>2, <3>1, <3>2, ContentsAt
  <2> QED
    BY <2>1, <2>2
<1>10. Contents(u) = [k \in TreeLabels(u) |-> Contents(u)[k]]
  BY DEF Contents
<1> QED
  BY <1>7, <1>8, <1>9, <1>10

-----------------------------------------------------------------------------
(* Of replace *)

LEMMA ReplaceShape ==
  ASSUME NEW Byte, NEW Value, NEW t, Coherent(Byte, Value, t), NEW l \in TreeLabels(t), NEW v \in Value,
         NEW u, u = Tree!replace(t, l, v)
  PROVE  /\ l \in TreeLabel(Byte)
         /\ u \in TreeTable(Byte, Value) /\ u.tree = t.tree
         /\ Len(u.map) = Len(t.map)
         /\ \A p \in 1 .. Len(t.map) :
              /\ u.map[p].label = t.map[p].label
              /\ u.map[p].value = IF t.map[p].label = l THEN v ELSE t.map[p].value
<1> DEFINE q   == t.tree[l]
           new == [t.map[q] EXCEPT !.value = v]
<1>1. t \in TreeTable(Byte, Value) /\ l \in TreeLabel(Byte)
  BY TableTypes DEF Coherent, TreeLabels
<1>2. Tree!at_find(t.tree, l) = q /\ q # Tree!NULL /\ q \in 1 .. Len(t.map) /\ t.map[q].label = l
  BY <1>1, Leads
<1>3. t.map \in Seq(TreePair(Byte, Value)) /\ t.map[q] \in TreePair(Byte, Value)
  BY <1>1, <1>2, TableTypes
<1>4. new \in TreePair(Byte, Value) /\ new.label = l /\ new.value = v
  BY <1>2, <1>3 DEF TreePair
<1>5. u = [map |-> [t.map EXCEPT ![q] = new], tree |-> t.tree]
  BY <1>1, <1>2 DEF Tree!replace, TreeTable
<1>6. /\ u.map \in Seq(TreePair(Byte, Value))
      /\ Len(u.map) = Len(t.map)
      /\ \A p \in 1 .. Len(t.map) : u.map[p] = IF p = q THEN new ELSE t.map[p]
  <2> HIDE DEF q, new
  <2>1. u.map = [t.map EXCEPT ![q] = new]
    BY <1>5
  <2> QED
    BY <1>2, <1>3, <1>4, <2>1, ExceptSeq
<1>7. u \in TreeTable(Byte, Value)
  BY <1>1, <1>5, <1>6 DEF TreeTable
<1>8. \A p \in 1 .. Len(t.map) : t.map[p].label = l <=> p = q
  BY <1>1, <1>2, Leads
<1> QED
  BY <1>1, <1>2, <1>4, <1>5, <1>6, <1>7, <1>8

(* Replacing a known label changes its value and nothing else              *)
(* (ITree::replace).                                                       *)
THEOREM ReplaceRight ==
  ASSUME NEW Byte, NEW Value, NEW t, Coherent(Byte, Value, t), NEW l \in TreeLabels(t), NEW v \in Value,
         NEW u, u = Tree!replace(t, l, v)
  PROVE  /\ Coherent(Byte, Value, u)
         /\ Contents(u) = [k \in TreeLabels(t) |-> IF k = l THEN v ELSE Contents(t)[k]]
<1>1. /\ u \in TreeTable(Byte, Value) /\ u.tree = t.tree
      /\ Len(u.map) = Len(t.map)
      /\ \A p \in 1 .. Len(t.map) :
           /\ u.map[p].label = t.map[p].label
           /\ u.map[p].value = IF t.map[p].label = l THEN v ELSE t.map[p].value
  BY ReplaceShape
<1>2. Coherent(Byte, Value, u)
  BY <1>1 DEF Coherent, PairsFound, ChainsRight
<1>3. TreeLabels(u) = TreeLabels(t)
  BY <1>1 DEF TreeLabels
<1>4. ASSUME NEW k \in TreeLabels(u)
      PROVE  Contents(u)[k] = IF k = l THEN v ELSE Contents(t)[k]
  <2>1. PICK p \in 1 .. Len(t.map) : t.map[p].label = k
    BY <1>3 DEF TreeLabels
  <2>2. Contents(t)[k] = t.map[p].value /\ Contents(u)[k] = u.map[p].value
    BY <1>1, <1>2, <2>1, ContentsAt
  <2> QED
    BY <1>1, <2>1, <2>2
<1>5. Contents(u) = [k \in TreeLabels(u) |-> Contents(u)[k]]
  BY DEF Contents
<1> QED
  BY <1>2, <1>3, <1>4, <1>5

-----------------------------------------------------------------------------
(* Of remove *)

LEMMA SameRemoval ==
  ASSUME NEW S, NEW s \in Seq(S), NEW q \in 1 .. Len(s)
  PROVE  /\ Tree!RemoveAt(s, q) \in Seq(S)
         /\ Len(Tree!RemoveAt(s, q)) = Len(s) - 1
         /\ \A p \in 1 .. Len(s) - 1 : Tree!RemoveAt(s, q)[p] = IF p < q THEN s[p] ELSE s[p + 1]
<1>1. Tree!RemoveAt(s, q) = SubSeq(s, 1, q - 1) \o SubSeq(s, q + 1, Len(s))
  BY DEF Tree!RemoveAt
<1>2. RemoveAt(s, q) = SubSeq(s, 1, q - 1) \o SubSeq(s, q + 1, Len(s))
  BY DEF RemoveAt
<1>3. Tree!RemoveAt(s, q) = RemoveAt(s, q)
  BY <1>1, <1>2
<1> QED
  BY <1>3, RemoveAtProperties

LEMMA RemoveShape ==
  ASSUME NEW Byte, NEW Value, NEW t, Coherent(Byte, Value, t), NEW l \in TreeLabels(t), NEW u, u = Tree!remove(t, l)
  PROVE  /\ l \in TreeLabel(Byte)
         /\ t.tree[l] \in 1 .. Len(t.map)
         /\ u \in TreeTable(Byte, Value)
         /\ Len(u.map) = Len(t.map) - 1
         /\ \A p \in 1 .. Len(t.map) - 1 :
              u.map[p] = IF p < t.tree[l] THEN t.map[p] ELSE t.map[p + 1]
         /\ DOMAIN u.tree = DOMAIN t.tree
         /\ \A c \in DOMAIN t.tree :
              u.tree[c] = IF c = l THEN Tree!NULL
                          ELSE IF t.tree[c] > t.tree[l] THEN t.tree[c] - 1 ELSE t.tree[c]
<1> DEFINE q    == t.tree[l]
           tree == [t.tree EXCEPT ![l] = Tree!NULL]
<1>1. t \in TreeTable(Byte, Value) /\ l \in TreeLabel(Byte)
  BY TableTypes DEF Coherent, TreeLabels
<1>2. Tree!at_find(t.tree, l) = q /\ q # Tree!NULL /\ q \in 1 .. Len(t.map) /\ l \in DOMAIN t.tree
  BY <1>1, Leads
<1>3. u = [map |-> Tree!RemoveAt(t.map, q), tree |-> Tree!Erased(tree, q)]
  BY <1>2 DEF Tree!remove, Tree!at_remove
<1>4. t.map \in Seq(TreePair(Byte, Value)) /\ Len(t.map) \in Nat
      /\ DOMAIN t.tree \subseteq Seq(Byte) /\ \A c \in DOMAIN t.tree : t.tree[c] \in Nat
  BY <1>1, TableTypes
<1>5. /\ u.map \in Seq(TreePair(Byte, Value))
      /\ Len(u.map) = Len(t.map) - 1
      /\ \A p \in 1 .. Len(t.map) - 1 : u.map[p] = IF p < q THEN t.map[p] ELSE t.map[p + 1]
  <2> HIDE DEF q
  <2> DEFINE s == t.map
             S == TreePair(Byte, Value)
  <2>1. u.map = Tree!RemoveAt(s, q)
    BY <1>3
  <2>2. s \in Seq(S) /\ q \in 1 .. Len(s)
    BY <1>2, <1>4
  <2>3. /\ Tree!RemoveAt(s, q) \in Seq(S)
        /\ Len(Tree!RemoveAt(s, q)) = Len(s) - 1
        /\ \A p \in 1 .. Len(s) - 1 : Tree!RemoveAt(s, q)[p] = IF p < q THEN s[p] ELSE s[p + 1]
    <3> HIDE DEF s, S
    <3> QED
      BY <2>2, SameRemoval
  <2> QED
    BY <2>1, <2>3
<1>6. /\ DOMAIN tree = DOMAIN t.tree
      /\ \A c \in DOMAIN t.tree : tree[c] = IF c = l THEN Tree!NULL ELSE t.tree[c]
  BY <1>1, <1>2 DEF TreeTable
<1>7. /\ DOMAIN u.tree = DOMAIN t.tree
      /\ \A c \in DOMAIN t.tree : u.tree[c] = IF tree[c] > q THEN tree[c] - 1 ELSE tree[c]
  <2> HIDE DEF tree, q
  <2> QED
    BY <1>3, <1>6 DEF Tree!Erased
<1>8. \A c \in DOMAIN t.tree :
        u.tree[c] = IF c = l THEN Tree!NULL
                    ELSE IF t.tree[c] > q THEN t.tree[c] - 1 ELSE t.tree[c]
  <2> HIDE DEF tree
  <2> QED
    BY <1>2, <1>4, <1>6, <1>7 DEF Tree!NULL
<1>9. u.tree \in [DOMAIN t.tree -> Nat]
  <2> HIDE DEF tree, q
  <2>1. \A c \in DOMAIN t.tree : u.tree[c] \in Nat
    BY <1>2, <1>4, <1>8 DEF Tree!NULL
  <2>2. u.tree = [c \in DOMAIN u.tree |-> u.tree[c]]
    BY <1>3 DEF Tree!Erased
  <2> QED
    BY <1>7, <2>1, <2>2
<1>10. u \in TreeTable(Byte, Value)
  <2>1. u = [map |-> u.map, tree |-> u.tree]
    BY <1>3
  <2> QED
    BY <1>4, <1>5, <1>9, <2>1 DEF TreeTable
<1> QED
  BY <1>1, <1>2, <1>5, <1>7, <1>8, <1>10

(* Removing a known label takes it out of the contents, and changes        *)
(* nothing else, although the pairs after it move (ITree::remove).         *)
THEOREM RemoveRight ==
  ASSUME NEW Byte, NEW Value, NEW t, Coherent(Byte, Value, t), NEW l \in TreeLabels(t), NEW u, u = Tree!remove(t, l)
  PROVE  /\ Coherent(Byte, Value, u)
         /\ Contents(u) = [k \in TreeLabels(t) \ {l} |-> Contents(t)[k]]
<1> DEFINE q == t.tree[l]
           n == Len(t.map)
           From(p) == IF p < q THEN p ELSE p + 1
<1>1. /\ l \in TreeLabel(Byte)
      /\ n \in Nat /\ q \in 1 .. n
      /\ u \in TreeTable(Byte, Value) /\ Len(u.map) = n - 1
      /\ DOMAIN u.tree = DOMAIN t.tree
      /\ \A p \in 1 .. n - 1 : u.map[p] = t.map[From(p)]
      /\ \A c \in DOMAIN t.tree :
           u.tree[c] = IF c = l THEN Tree!NULL
                       ELSE IF t.tree[c] > q THEN t.tree[c] - 1 ELSE t.tree[c]
  <2>1. n \in Nat
    BY TableTypes DEF Coherent
  <2> QED
    BY <2>1, RemoveShape
<1>2. /\ \A p \in 1 .. n : t.map[p].label \in DOMAIN t.tree /\ t.tree[t.map[p].label] = p
      /\ \A c \in DOMAIN t.tree : t.tree[c] # 0 =>
           t.tree[c] \in 1 .. n /\ t.map[t.tree[c]].label = c
  BY DEF Coherent, PairsFound, ChainsRight, Tree!NULL
<1>3. l \in DOMAIN t.tree /\ t.map[q].label = l
  BY <1>1, Leads
<1> HIDE DEF q, n
<1>4. \A p \in 1 .. n - 1 : From(p) \in 1 .. n /\ From(p) # q
  BY <1>1
<1>5. PairsFound(u)
  <2>1. ASSUME NEW p \in 1 .. n - 1
        PROVE  u.map[p].label \in DOMAIN u.tree /\ u.tree[u.map[p].label] = p
    <3> DEFINE c == u.map[p].label
    <3>1. c = t.map[From(p)].label /\ c \in DOMAIN t.tree /\ t.tree[c] = From(p)
      BY <1>1, <1>2, <1>4
    <3>2. c # l
      BY <1>4, <3>1, q = t.tree[l] DEF q
    <3>3. u.tree[c] = IF From(p) > q THEN From(p) - 1 ELSE From(p)
      BY <1>1, <3>1, <3>2
    <3> HIDE DEF c
    <3>4. u.tree[c] = p
      BY <1>1, <3>3
    <3> QED
      BY <1>1, <3>1, <3>4 DEF c
  <2> QED
    BY <1>1, <2>1 DEF PairsFound
<1>6. ChainsRight(u)
  <2>1. ASSUME NEW c \in DOMAIN t.tree, u.tree[c] # 0
        PROVE  u.tree[c] \in 1 .. n - 1 /\ u.map[u.tree[c]].label = c
    <3>1. c # l /\ u.tree[c] = IF t.tree[c] > q THEN t.tree[c] - 1 ELSE t.tree[c]
      BY <1>1, <2>1 DEF Tree!NULL
    <3>2. t.tree[c] # 0
      BY <1>1, <2>1, <3>1
    <3>3. t.tree[c] \in 1 .. n /\ t.map[t.tree[c]].label = c
      BY <1>2, <3>2
    <3>4. t.tree[c] # q
      BY <1>3, <3>1, <3>3
    <3>5. u.tree[c] \in 1 .. n - 1 /\ From(u.tree[c]) = t.tree[c]
      BY <1>1, <3>1, <3>3, <3>4
    <3> HIDE DEF From
    <3> QED
      BY <1>1, <3>3, <3>5
  <2> QED
    BY <1>1, <2>1 DEF ChainsRight, Tree!NULL
<1>7. Coherent(Byte, Value, u)
  BY <1>1, <1>5, <1>6 DEF Coherent
<1>8. TreeLabels(u) = TreeLabels(t) \ {l}
  <2>1. ASSUME NEW p \in 1 .. n - 1
        PROVE  u.map[p].label \in TreeLabels(t) \ {l}
    <3>1. t.map[From(p)].label \in TreeLabels(t) /\ t.tree[t.map[From(p)].label] = From(p)
      BY <1>2, <1>4 DEF TreeLabels, n
    <3> HIDE DEF From
    <3> QED
      BY <1>1, <1>4, <3>1 DEF q
  <2>2. ASSUME NEW p \in 1 .. n, t.map[p].label # l
        PROVE  \E r \in 1 .. n - 1 : u.map[r].label = t.map[p].label
    <3>1. p # q
      BY <1>3, <2>2
    <3>2. PICK r \in 1 .. n - 1 : From(r) = p
      <4>1. CASE p < q
        <5>1. p \in 1 .. n - 1 /\ From(p) = p
          BY <1>1, <4>1
        <5> QED
          BY <5>1
      <4>2. CASE p > q
        <5>1. p - 1 \in 1 .. n - 1 /\ From(p - 1) = p
          BY <1>1, <4>2
        <5> QED
          BY <5>1
      <4> QED
        BY <1>1, <3>1, <4>1, <4>2
    <3> HIDE DEF From
    <3> QED
      BY <1>1, <3>2
  <2>3. TreeLabels(t) = {t.map[p].label : p \in 1 .. n}
    BY DEF TreeLabels, n
  <2>4. TreeLabels(u) = {u.map[p].label : p \in 1 .. n - 1}
    BY <1>1 DEF TreeLabels
  <2>5. TreeLabels(u) \subseteq TreeLabels(t) \ {l}
    BY <2>1, <2>4
  <2>6. TreeLabels(t) \ {l} \subseteq TreeLabels(u)
    BY <2>2, <2>3, <2>4
  <2> QED
    BY <2>5, <2>6
<1>9. ASSUME NEW k \in TreeLabels(u)
      PROVE  Contents(u)[k] = Contents(t)[k]
  <2> HIDE DEF From
  <2>1. PICK p \in 1 .. n - 1 : u.map[p].label = k
    BY <1>1 DEF TreeLabels
  <2>2. Contents(u)[k] = u.map[p].value
    BY <1>1, <1>7, <2>1, ContentsAt
  <2>3. Contents(t)[t.map[From(p)].label] = t.map[From(p)].value
    BY <1>4, ContentsAt DEF n
  <2> QED
    BY <1>1, <2>1, <2>2, <2>3
<1>10. Contents(u) = [k \in TreeLabels(u) |-> Contents(u)[k]]
  BY DEF Contents
<1> QED
  BY <1>7, <1>8, <1>9, <1>10

-----------------------------------------------------------------------------
(* Of a label inserted again *)

(* The newer value is found; the older pair stays in the array, where no   *)
(* label leads to it.  Removing the label does not bring it back: nothing  *)
(* is found, although a pair still carries the label (ITree::insert, whose *)
(* comment promises that the old reference is changed).                    *)
THEOREM InsertedTwice ==
  ASSUME NEW Byte, NEW Value, NEW t, Coherent(Byte, Value, t), NEW l \in TreeLabels(t), NEW v \in Value \ {Tree!NULL},
         NEW u, u = Tree!insert(t, l, v)
  PROVE  /\ Tree!find(u, l) = v
         /\ Tree!Shadowed(u) = {t.tree[l]}
         /\ Tree!find(Tree!remove(u, l), l) = Tree!NULL
         /\ l \in TreeLabels(Tree!remove(u, l))
<1> DEFINE n == Len(t.map) + 1
           q == t.tree[l]
<1>1. t \in TreeTable(Byte, Value) /\ l \in TreeLabel(Byte) /\ Len(t.map) \in Nat
  BY TableTypes DEF Coherent, TreeLabels
<1>2. q \in 1 .. Len(t.map) /\ t.map[q].label = l
  BY <1>1, Leads
<1>3. /\ u \in TreeTable(Byte, Value)
      /\ Len(u.map) = n
      /\ \A p \in 1 .. Len(t.map) : u.map[p] = t.map[p]
      /\ u.map[n] = [label |-> l, value |-> v]
      /\ l \in DOMAIN u.tree /\ u.tree[l] = n
      /\ DOMAIN t.tree \subseteq DOMAIN u.tree
      /\ \A c \in DOMAIN u.tree \ {l} :
           u.tree[c] = IF c \in DOMAIN t.tree THEN t.tree[c] ELSE Tree!NULL
  BY <1>1, InsertShape
<1>4. Tree!at_find(u.tree, l) = n /\ n # Tree!NULL
  BY <1>1, <1>3 DEF Tree!at_find, TreeLabel, Tree!NULL
<1>5. Tree!find(u, l) = v
  BY <1>3, <1>4 DEF Tree!find
<1>6. Tree!Shadowed(u) = {q}
  <2>1. DOMAIN u.map = (1 .. Len(t.map)) \union {n} /\ q # n
    <3>1. u.map \in Seq(TreePair(Byte, Value))
      BY <1>3, TableTypes
    <3> QED
      BY <1>1, <1>2, <1>3, <3>1, LenProperties
  <2>2. Tree!at_find(u.tree, u.map[n].label) = n
    BY <1>3, <1>4
  <2>3. Tree!at_find(u.tree, u.map[q].label) # q
    BY <1>2, <1>3, <1>4, <2>1
  <2>4. ASSUME NEW p \in 1 .. Len(t.map), p # q
        PROVE  Tree!at_find(u.tree, u.map[p].label) = p
    <3>1. t.map[p].label \in DOMAIN t.tree /\ t.tree[t.map[p].label] = p
      BY DEF Coherent, PairsFound
    <3>2. t.map[p].label # l /\ t.map[p].label # <<>>
      BY <1>1, <2>4, <3>1, TableTypes DEF TreeLabel
    <3> QED
      BY <1>3, <3>1, <3>2 DEF Tree!at_find
  <2> QED
    BY <1>2, <2>1, <2>2, <2>3, <2>4 DEF Tree!Shadowed
<1>7. Tree!remove(u, l) = [map  |-> Tree!RemoveAt(u.map, n),
                      tree |-> Tree!Erased([u.tree EXCEPT ![l] = Tree!NULL], n)]
  BY <1>4 DEF Tree!remove, Tree!at_remove
<1>8. Tree!find(Tree!remove(u, l), l) = Tree!NULL
  <2>1. Tree!Erased([u.tree EXCEPT ![l] = Tree!NULL], n)[l] = Tree!NULL
    BY <1>1, <1>3 DEF Tree!Erased, Tree!NULL
  <2> QED
    BY <1>7, <2>1 DEF Tree!find, Tree!at_find
<1>9. l \in TreeLabels(Tree!remove(u, l))
  <2>1. u.map \in Seq(TreePair(Byte, Value)) /\ n \in 1 .. Len(u.map)
    BY <1>1, <1>3, TableTypes
  <2>2. /\ Len(Tree!RemoveAt(u.map, n)) = Len(t.map)
        /\ \A p \in 1 .. Len(t.map) :
             Tree!RemoveAt(u.map, n)[p] = IF p < n THEN u.map[p] ELSE u.map[p + 1]
    <3> HIDE DEF n
    <3>1. Len(u.map) - 1 = Len(t.map)
      BY <1>1, <1>3 DEF n
    <3> QED
      BY <2>1, <3>1, SameRemoval, ZenonT(40)
  <2>3. Tree!RemoveAt(u.map, n)[q] = t.map[q]
    BY <1>1, <1>2, <1>3, <2>2
  <2> QED
    BY <1>2, <1>7, <2>2, <2>3 DEF TreeLabels
<1> QED
  BY <1>5, <1>6, <1>8, <1>9
=============================================================================
