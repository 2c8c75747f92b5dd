----------------------------- MODULE Operators -----------------------------
(***************************************************************************)
(* The operator functions of the scalar types, of strings and of            *)
(* references, and the ob_ functions of types.h that choose among them by   *)
(* the type of the left operand.                                            *)
(*                                                                         *)
(* An operator yields a value; an operator that works in place also says    *)
(* what is left in its first operand.  Operands are values; the value of a  *)
(* reference is the name of its target, 0 for null, and h gives the values  *)
(* of names.                                                                *)
(***************************************************************************)
EXTENDS Scalars

CONSTANT Names      \* names of variables that hold no reference, not 0

ASSUME NamesAssumption == Names \subseteq Nat \ {0}

Integer(n) == IF n = SIGFPE THEN Crash ELSE Value("Integer", n)
Char(n) == IF n = SIGFPE THEN Crash ELSE Value("Char", Wrap(n, CharBits))
Float(h) == Value("Float", h)
Boolean(b) == Value("Boolean", Truth(b))
Reference(target) == Value("Reference", target)

(* The right operand as a number; references stand for their target.        *)
ob_ivalue(h, x) ==
    IF x.t # "Reference" THEN scalar_ivalue(x)
    ELSE IF x.v = 0 THEN 0 ELSE scalar_ivalue(h[x.v])

ob_fvalue(h, x) ==
    IF x.t # "Reference" THEN scalar_fvalue(x)
    ELSE IF x.v = 0 THEN 0 ELSE scalar_fvalue(h[x.v])

ob_svalue(h, x) ==
    IF x.t # "Reference" THEN scalar_svalue(x)
    ELSE IF x.v = 0 THEN <<<<"<null>", 0>>>> ELSE scalar_svalue(h[x.v])

----------------------------------------------------------------------------
(* integer.cpp                                                              *)
int_arith(h, op, me, b) ==
    IF op = "add" /\ b.t = "String" THEN Text(int_svalue(me) \o b.s)
    ELSE IF op = "mod" THEN Integer(c_mod(me.v, ob_ivalue(h, b)))
    ELSE Integer(c_op(op, me.v, ob_ivalue(h, b), LongBits))

int_bitwise(h, op, me, b) == Integer(c_op(op, me.v, ob_ivalue(h, b), LongBits))

int_logic(h, op, me, b) == Integer(Truth(c_logic(op, me.v, ob_ivalue(h, b))))

\* Mutant of int_compound: ^= computes |=.
int_compoundSwapped ==
    [inplace_add |-> "add", inplace_sub |-> "sub", inplace_mul |-> "mul",
     inplace_div |-> "div", inplace_mod |-> "mod",
     bw_inplace_and |-> "bw_and", bw_inplace_or |-> "bw_and",
     bw_inplace_xor |-> "bw_or", bw_inplace_lshift |-> "bw_lshift",
     bw_inplace_rshift |-> "bw_rshift"]

(* The operator each compound assignment applies to the number.             *)
int_compound ==
    [inplace_add |-> "add", inplace_sub |-> "sub", inplace_mul |-> "mul",
     inplace_div |-> "div", inplace_mod |-> "mod",
     bw_inplace_and |-> "bw_and", bw_inplace_or |-> "bw_and",
     bw_inplace_xor |-> "bw_xor", bw_inplace_lshift |-> "bw_lshift",
     bw_inplace_rshift |-> "bw_rshift"]

(* What is left in me: a string operand makes a new object and leaves it.   *)
int_inplace(h, op, me, b) ==
    LET n == ob_ivalue(h, b) IN
    CASE op = "inplace_add" /\ b.t = "String" -> me
      [] op = "inplace_mod" -> Integer(c_mod(me.v, n))
      [] OTHER -> Integer(c_op(int_compound[op], me.v, n, LongBits))

int_unary(op, me) ==
    CASE op = "factorial" -> Integer(c_factorial(me.v, LongBits))
      [] op = "increment" -> Integer(Wrap(me.v + 1, LongBits))
      [] op = "decrement" -> Integer(Wrap(me.v - 1, LongBits))
      [] op = "minus" -> Integer(Wrap(-me.v, LongBits))
      [] op = "bw_not" -> Integer(-me.v - 1)
      [] op = "l_not" -> Integer(Truth(me.v = 0))

\* Mutant of int_cmp: the difference overflows.
int_cmpBySubtraction(h, me, b) ==
    c_cmp(Wrap(me.v - ob_ivalue(h, b), LongBits), 0)

int_cmp(h, me, b) == c_cmp(me.v, ob_ivalue(h, b))

----------------------------------------------------------------------------
(* char.cpp: the operators of long, kept as a char.                         *)
char_arith(h, op, me, b) ==
    IF op = "add" /\ b.t = "String" THEN Text(char_svalue(me) \o b.s)
    ELSE IF op = "mod" THEN Char(c_mod(me.v, ob_ivalue(h, b)))
    ELSE Char(c_op(op, me.v, ob_ivalue(h, b), LongBits))

char_bitwise(h, op, me, b) ==
    IF op \in {"bw_lshift", "bw_rshift"}    \* a char is shifted as an int
    THEN Char(c_op(op, me.v, ob_ivalue(h, b), IntBits))
    ELSE Char(c_op(op, me.v, ob_ivalue(h, b), LongBits))

char_logic(h, op, me, b) == Char(Truth(c_logic(op, me.v, ob_ivalue(h, b))))

char_compound == [int_compound EXCEPT !["bw_inplace_or"] = "bw_and"]

char_inplace(h, op, me, b) ==
    LET n == ob_ivalue(h, b) IN
    CASE op = "inplace_add" /\ b.t = "String" -> me
      [] op = "inplace_mod" -> Char(c_mod(me.v, n))
      [] op \in {"bw_inplace_lshift", "bw_inplace_rshift"} ->
            Char(c_op(char_compound[op], me.v, n, IntBits))
      [] OTHER -> Char(c_op(char_compound[op], me.v, n, LongBits))

char_unary(op, me) ==
    CASE op = "factorial" -> Char(c_factorial(me.v, LongBits))
      [] op = "increment" -> Char(me.v + 1)
      [] op = "decrement" -> Char(me.v - 1)
      [] op = "minus" -> Char(-me.v)
      [] op = "bw_not" -> Char(-me.v - 1)
      [] op = "l_not" -> Char(Truth(me.v = 0))

char_cmp(h, me, b) == c_cmp(me.v, ob_ivalue(h, b))

----------------------------------------------------------------------------
(* float.cpp: bitwise operators work on (int) of the value, those in place  *)
(* on (long) of it.                                                         *)
float_arith(h, op, me, b) ==
    IF op = "add" /\ b.t = "String" THEN Text(float_svalue(me) \o b.s)
    ELSE Float(d_op(op, me.v, ob_fvalue(h, b)))

float_bitwise(h, op, me, b) ==
    LET n == ToLong(me.v, IntBits) IN
    Float(FromLong(
        IF op \in {"bw_lshift", "bw_rshift"} THEN c_op(op, n, ob_ivalue(h, b), IntBits)
        ELSE c_op(op, n, ob_ivalue(h, b), LongBits)))

float_logic(h, op, me, b) ==
    Float(FromLong(Truth(d_logic(op, me.v, ob_fvalue(h, b)))))

float_compound == [int_compound EXCEPT !["bw_inplace_or"] = "bw_or"]

float_inplace(h, op, me, b) ==
    IF op = "inplace_add" /\ b.t = "String" THEN me
    ELSE IF op \in InplaceArithmetic
         THEN Float(d_op(float_compound[op], me.v, ob_fvalue(h, b)))
         ELSE Float(FromLong(c_op(float_compound[op], float_ivalue(me),
                                  ob_ivalue(h, b), LongBits)))

float_unary(op, me) ==
    CASE op = "factorial" -> Float(FromLong(c_factorial(ToLong(me.v, IntBits), IntBits)))
      [] op = "increment" -> Float(d_add(me.v, FromLong(1)))
      [] op = "decrement" -> Float(d_add(me.v, FromLong(-1)))
      [] op = "minus" -> Float(IF me.v = NaN THEN NaN ELSE -me.v)
      [] op = "bw_not" -> Float(FromLong(-ToLong(me.v, IntBits) - 1))
      [] op = "l_not" -> Float(FromLong(Truth(me.v = 0)))

float_cmp(h, me, b) == d_cmp(me.v, ob_fvalue(h, b))

----------------------------------------------------------------------------
(* boolean.cpp and handle.cpp; the operators of a handle use the truth of   *)
(* its address, its cmp the address.                                        *)
bool_logic(h, op, me, b) == Boolean(c_logic(op, me.v, ob_ivalue(h, b)))
bool_l_not(me) == Boolean(me.v = 0)
bool_cmp(h, me, b) == c_cmp(me.v, ob_ivalue(h, b))

handle_logic(h, op, me, b) ==
    Integer(Truth(c_logic(op, Truth(scalar_lvalue(me)), ob_ivalue(h, b))))
handle_l_not(me) == Integer(Truth(~scalar_lvalue(me)))
handle_cmp(h, me, b) == c_cmp(ob_ivalue(h, me), ob_ivalue(h, b))

(* string.cpp                                                               *)
string_add(h, me, b) == Text(me.s \o ob_svalue(h, b))
string_logic(h, op, me, b) == Integer(Truth((me.s = ob_svalue(h, b)) = (op = "l_same")))
=============================================================================
