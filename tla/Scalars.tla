------------------------------ MODULE Scalars ------------------------------
(***************************************************************************)
(* The operators of the scalar types (integer.cpp, char.cpp, float.cpp,     *)
(* boolean.cpp, handle.cpp) and what they take from an operand of another   *)
(* type, at small widths.  Long, int and char are two's complement numbers; *)
(* overflow wraps and a shift takes its count modulo the width, as the code *)
(* compiled for x86-64 does.  A double is a number of halves, rounded; the  *)
(* values +-Infinity and NaN are those of IEEE 754.                         *)
(*                                                                         *)
(* A value is its type, a number, and the pieces of its text when it is a   *)
(* string: a piece stands for the printed form of a number.                 *)
(***************************************************************************)
EXTENDS Types, Integers, Sequences

CONSTANTS
    LongBits,   \* width of long
    IntBits,    \* width of int, at most that of long
    CharBits,   \* width of char, at most that of int
    Infinity    \* the infinite double, in halves; beyond any long

ASSUME WidthAssumption ==
    /\ {LongBits, IntBits, CharBits} \subseteq Nat \ {0}
    /\ CharBits <= IntBits /\ IntBits <= LongBits /\ LongBits > 1
    /\ Infinity \in Nat /\ Infinity > 2^LongBits
    /\ 2^0 = 1 /\ \A w \in 1..LongBits : 2^w = 2 * 2^(w - 1)  \* which no prover knows

Value(type, n) == [t |-> type, v |-> n, s |-> << >>]
Text(pieces) == [t |-> "String", v |-> 0, s |-> pieces]

Error == Value("hyb_error", 0)      \* hyb_error: the process ends with a message
Crash == Value("signal", 0)         \* SIGFPE or SIGSEGV: it ends without

Truth(b) == IF b THEN 1 ELSE 0

----------------------------------------------------------------------------
(* Numbers of a width.                                                      *)
Wrap(n, w) == LET m == n % 2^w IN IF m < 2^(w - 1) THEN m ELSE m - 2^w
Least(w) == -(2^(w - 1))
Fits(n, w) == Wrap(n, w) = n
Word(w) == Least(w)..(-Least(w) - 1)

Abs(n) == IF n < 0 THEN -n ELSE n
Sign(n) == IF n < 0 THEN -1 ELSE 1
Quotient(a, b) == Sign(a) * Sign(b) * (Abs(a) \div Abs(b))   \* C rounds to zero
Remainder(a, b) == a - b * Quotient(a, b)

Bits(n, w) == n % 2^w

(* The bitwise operators on the bits of two words, from the last bit on.    *)
Bit(op, x, y) ==
    CASE op = "bw_and" -> x * y
      [] op = "bw_or" -> x + y - x * y
      [] op = "bw_xor" -> (x + y) % 2

bitwise[word \in {"bw_and", "bw_or", "bw_xor"} \X Nat \X Nat] ==
    LET op == word[1]
        x == word[2]
        y == word[3]
    IN  IF x = 0 /\ y = 0 THEN 0
        ELSE 2 * bitwise[<<op, x \div 2, y \div 2>>] + Bit(op, x % 2, y % 2)

c_bitwise(op, a, b, w) == Wrap(bitwise[<<op, Bits(a, w), Bits(b, w)>>], w)
NoCommonBit(a, b, w) == bitwise[<<"bw_and", Bits(a, w), Bits(b, w)>>] = 0

SIGFPE == 2^LongBits    \* in the place of a number: the division trapped

\* Mutant of c_mod: no test for zero.
c_modUnguarded(a, b) ==
    IF NoCommonBit(b, b - 1, LongBits)
    THEN c_bitwise("bw_and", a, b - 1, LongBits)
    ELSE IF b = -1 /\ a = Least(LongBits) THEN SIGFPE ELSE Remainder(a, b)

(* The remainder as int_mod and char_mod compute it, with their two         *)
(* shortcuts.                                                               *)
c_mod(a, b) ==
    IF b \in {0, 1} THEN 0
    ELSE IF NoCommonBit(b, b - 1, LongBits)
         THEN c_bitwise("bw_and", a, b - 1, LongBits)
         ELSE IF b = -1 /\ a = Least(LongBits) THEN SIGFPE ELSE Remainder(a, b)

(* A C operator on numbers of width w.                                      *)
c_op(op, a, b, w) ==
    CASE op = "add" -> Wrap(a + b, w)
      [] op = "sub" -> Wrap(a - b, w)
      [] op = "mul" -> Wrap(a * b, w)
      [] op = "div" -> IF b = 0 \/ (b = -1 /\ a = Least(w)) THEN SIGFPE
                       ELSE Quotient(a, b)
      [] op \in {"bw_and", "bw_or", "bw_xor"} -> c_bitwise(op, a, b, w)
      [] op = "bw_lshift" -> Wrap(a * 2^(b % w), w)
      [] op = "bw_rshift" -> a \div 2^(b % w)

(* A C comparison or logical operator on numbers without NaN.               *)
c_logic(op, a, b) ==
    CASE op = "l_same" -> a = b
      [] op = "l_diff" -> a # b
      [] op = "l_less" -> a < b
      [] op = "l_greater" -> a > b
      [] op = "l_less_or_same" -> a <= b
      [] op = "l_greater_or_same" -> a >= b
      [] op = "l_or" -> a # 0 \/ b # 0
      [] op = "l_and" -> a # 0 /\ b # 0

c_cmp(a, b) == IF a = b THEN 0 ELSE IF a > b THEN 1 ELSE -1

factorial[n \in Nat] == IF n = 0 THEN 1 ELSE n * factorial[n - 1]
c_factorial(n, w) == IF n < 1 THEN 1 ELSE Wrap(factorial[n], w)

----------------------------------------------------------------------------
(* Doubles, in halves.                                                      *)
NaN == Infinity + 1
Doubles == (-Infinity)..NaN
Infinite(x) == x \in {Infinity, -Infinity}

Rounded(h) == IF h > Infinity THEN Infinity ELSE IF h < -Infinity THEN -Infinity ELSE h
FromLong(n) == Rounded(2 * n)
ToLong(x, w) ==     \* out of range, the conversion yields the least number
    IF x # NaN /\ Fits(Quotient(x, 2), w) /\ ~Infinite(x) THEN Quotient(x, 2) ELSE Least(w)

d_add(a, b) ==
    IF NaN \in {a, b} \/ {a, b} = {Infinity, -Infinity} THEN NaN
    ELSE IF Infinite(a) THEN a ELSE IF Infinite(b) THEN b ELSE Rounded(a + b)

d_mul(a, b) ==
    IF NaN \in {a, b} \/ (0 \in {a, b} /\ (Infinite(a) \/ Infinite(b))) THEN NaN
    ELSE IF Infinite(a) \/ Infinite(b) THEN Sign(a) * Sign(b) * Infinity
    ELSE Rounded(Quotient(a * b, 2))

d_div(a, b) ==
    IF NaN \in {a, b} \/ (a = 0 /\ b = 0) \/ (Infinite(a) /\ Infinite(b)) THEN NaN
    ELSE IF b = 0 \/ Infinite(a) THEN Sign(a) * Sign(b) * Infinity
    ELSE IF Infinite(b) THEN 0 ELSE Rounded(Quotient(2 * a, b))

d_mod(a, b) ==
    IF NaN \in {a, b} \/ Infinite(a) \/ b = 0 THEN NaN
    ELSE IF Infinite(b) THEN a ELSE Remainder(a, b)

d_op(op, a, b) ==
    CASE op = "add" -> d_add(a, b)
      [] op = "sub" -> d_add(a, IF b = NaN THEN NaN ELSE -b)
      [] op = "mul" -> d_mul(a, b)
      [] op = "div" -> d_div(a, b)
      [] op = "mod" -> d_mod(a, b)

(* NaN is different from everything and neither less nor greater; as a      *)
(* condition it is true.                                                    *)
d_logic(op, a, b) ==
    IF NaN \in {a, b} /\ op \in Comparison THEN op = "l_diff" ELSE c_logic(op, a, b)

d_cmp(a, b) == IF NaN \in {a, b} THEN -1 ELSE c_cmp(a, b)

----------------------------------------------------------------------------
(* What an operand of any type is as a number, a condition, a text.         *)
int_values(x) == x.v
float_ivalue(x) == ToLong(x.v, LongBits)

(* atol and atof of a text: the number it begins with.                      *)
string_ivalue(x) ==
    IF x.s = << >> THEN 0
    ELSE LET p == x.s[1] IN
         CASE p[1] = "%d" -> p[2]
           [] p[1] = "%f" -> ToLong(p[2], LongBits)
           [] OTHER -> 0

string_fvalue(x) ==
    IF x.s # << >> /\ x.s[1][1] = "%f" THEN x.s[1][2] ELSE FromLong(string_ivalue(x))

scalar_ivalue(x) ==
    CASE x.t = "Float" -> float_ivalue(x)
      [] x.t = "String" -> string_ivalue(x)
      [] OTHER -> int_values(x)

scalar_fvalue(x) ==
    CASE x.t = "Float" -> x.v
      [] x.t = "String" -> string_fvalue(x)
      [] OTHER -> FromLong(int_values(x))

scalar_lvalue(x) == IF x.t = "String" THEN x.s # << >> ELSE x.v # 0

int_svalue(x) == <<<<"%d", Wrap(x.v, IntBits)>>>>   \* long printed as int
float_svalue(x) == <<<<"%f", x.v>>>>
char_svalue(x) == IF x.v = 0 THEN << >> ELSE <<<<"%c", x.v>>>>
bool_svalue(x) == <<<<"%s", x.v>>>>
handle_svalue(x) == <<<<"%p", x.v>>>>

scalar_svalue(x) ==
    CASE x.t = "Integer" -> int_svalue(x)
      [] x.t = "Float" -> float_svalue(x)
      [] x.t = "Char" -> char_svalue(x)
      [] x.t = "Boolean" -> bool_svalue(x)
      [] x.t = "Handle" -> handle_svalue(x)
      [] x.t = "String" -> x.s
      [] OTHER -> <<<<x.t, x.v>>>>
=============================================================================
