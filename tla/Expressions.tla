---------------------------- MODULE Expressions ----------------------------
(***************************************************************************)
(* Expressions of a script: variables that hold values of the builtin       *)
(* types and one reference to a variable; each step evaluates an operator   *)
(* as its vm_exec_ handler does (vm.cpp) through the ob_ functions of       *)
(* types.h, and keeps the result in a variable.                             *)
(***************************************************************************)
EXTENDS Operators

CONSTANT Literals   \* the values that the constants of the script have

(* Values: a collection stands for any of its type, as no operator that is  *)
(* modelled here looks inside.  A piece of a text is a format and the       *)
(* number that was printed in it.                                          *)
Collections == {"Binary", "Map", "Structure"}
Kinds == {"Integer", "Char", "Float", "Boolean", "Handle", "String"} \union Collections
Formats == {"%d", "%f", "%c", "%s", "%p", "<null>"} \union Kinds

Pieces == {p \in Formats \X Int : p[1] = "%f" => p[2] \in Doubles}

Object(x) ==
    /\ x \in [t : Kinds, v : Int, s : Seq(Pieces)]
    /\ x.t = "Integer" => x.v \in Word(LongBits)
    /\ x.t = "Char" => x.v \in Word(CharBits)
    /\ x.t = "Float" => x.v \in Doubles
    /\ x.t = "Boolean" => x.v \in {0, 1}

ASSUME LiteralsAssumption == \A x \in Literals : Object(x)

VARIABLES
    obj,    \* the value of each variable
    ref,    \* the variable that the reference points to, 0 for null
    status  \* "running", "hyb_error" or "signal"

vars == <<obj, ref, status>>

----------------------------------------------------------------------------
(* types.h: the operators of a value that is no reference.                  *)
plain_arith(h, op, me, b) ==
    IF ~Supports(me.t, op) THEN Error
    ELSE CASE me.t = "Integer" -> int_arith(h, op, me, b)
           [] me.t = "Char" -> char_arith(h, op, me, b)
           [] me.t = "Float" -> float_arith(h, op, me, b)
           [] me.t = "String" -> string_add(h, me, b)

plain_bitwise(h, op, me, b) ==
    IF ~Supports(me.t, op) THEN Error
    ELSE CASE me.t = "Integer" -> int_bitwise(h, op, me, b)
           [] me.t = "Char" -> char_bitwise(h, op, me, b)
           [] me.t = "Float" -> float_bitwise(h, op, me, b)

plain_logic(h, op, me, b) ==
    IF ~Supports(me.t, op) THEN Error
    ELSE CASE me.t = "Integer" -> int_logic(h, op, me, b)
           [] me.t = "Char" -> char_logic(h, op, me, b)
           [] me.t = "Float" -> float_logic(h, op, me, b)
           [] me.t = "Boolean" -> bool_logic(h, op, me, b)
           [] me.t = "Handle" -> handle_logic(h, op, me, b)
           [] me.t = "String" -> string_logic(h, op, me, b)

plain_unary(op, me) ==
    IF ~Supports(me.t, op) THEN Error
    ELSE CASE me.t = "Integer" -> int_unary(op, me)
           [] me.t = "Char" -> char_unary(op, me)
           [] me.t = "Float" -> float_unary(op, me)
           [] me.t = "Boolean" -> bool_l_not(me)
           [] me.t = "Handle" -> handle_l_not(me)

(* What an operator in place leaves in me.                                  *)
plain_inplace(h, op, me, b) ==
    IF ~Supports(me.t, op) THEN Error
    ELSE CASE me.t = "Integer" -> int_inplace(h, op, me, b)
           [] me.t = "Char" -> char_inplace(h, op, me, b)
           [] me.t = "Float" -> float_inplace(h, op, me, b)
           [] me.t = "String" -> Text(me.s \o ob_svalue(h, b))

ob_cmp(h, me, b) ==
    CASE me.t = "Integer" -> int_cmp(h, me, b)
      [] me.t = "Char" -> char_cmp(h, me, b)
      [] me.t = "Float" -> float_cmp(h, me, b)
      [] me.t = "Boolean" -> bool_cmp(h, me, b)
      [] me.t = "Handle" -> handle_cmp(h, me, b)

----------------------------------------------------------------------------
(* reference.cpp: a reference forwards to its target; a null one answers    *)
(* by itself, or is dereferenced where the code does not look.              *)
IsNull(me) == me.v = 0

ref_arith(h, op, me, b) == IF IsNull(me) THEN me ELSE plain_arith(h, op, h[me.v], b)

\* Mutant of ref_bitwise: the operands change places.
ref_bitwiseSwapped(h, op, me, b) ==
    IF IsNull(me) THEN me ELSE plain_bitwise(h, op, b, h[me.v])

ref_bitwise(h, op, me, b) == IF IsNull(me) THEN me ELSE plain_bitwise(h, op, h[me.v], b)

ref_unary(h, op, me) ==
    IF ~IsNull(me) THEN plain_unary(op, h[me.v])
    ELSE CASE op = "bw_not" -> Crash
           [] op = "l_not" -> Boolean(TRUE)
           [] OTHER -> me

ref_inplace(h, op, me, b) == IF IsNull(me) THEN me ELSE plain_inplace(h, op, h[me.v], b)

(* Two references are compared as pointers: by == and != always, by the     *)
(* other operators when the right one is null; && tests both for null.      *)
ref_logic(h, op, me, b) ==
    IF b.t = "Reference" /\ op \in {"l_same", "l_diff"}
    THEN Boolean((me.v = b.v) = (op = "l_same"))
    ELSE IF b.t = "Reference" /\ op = "l_and" THEN Boolean(~IsNull(me) /\ ~IsNull(b))
    ELSE IF b.t = "Reference" /\ IsNull(b) THEN Boolean(c_logic(op, me.v, 0))
    ELSE IF IsNull(me) THEN Crash ELSE plain_logic(h, op, h[me.v], b)

----------------------------------------------------------------------------
(* The ob_ functions.                                                       *)
IsRef(x) == x.t = "Reference"

ob_unary(h, op, x) == IF IsRef(x) THEN ref_unary(h, op, x) ELSE plain_unary(op, x)
ob_arith(h, op, a, b) == IF IsRef(a) THEN ref_arith(h, op, a, b) ELSE plain_arith(h, op, a, b)
ob_bitwise(h, op, a, b) == IF IsRef(a) THEN ref_bitwise(h, op, a, b) ELSE plain_bitwise(h, op, a, b)
ob_logic(h, op, a, b) == IF IsRef(a) THEN ref_logic(h, op, a, b) ELSE plain_logic(h, op, a, b)
ob_inplace(h, op, a, b) == IF IsRef(a) THEN ref_inplace(h, op, a, b) ELSE plain_inplace(h, op, a, b)

ob_binary(h, op, a, b) ==
    CASE op \in Arithmetic -> ob_arith(h, op, a, b)
      [] op \in Bitwise2 -> ob_bitwise(h, op, a, b)
      [] op \in Logic -> ob_logic(h, op, a, b)

----------------------------------------------------------------------------
Operands == Names \union {0}        \* 0 is the reference
Evaluated(x) == IF x = 0 THEN Reference(ref) ELSE obj[x]
Target(x) == IF x = 0 THEN ref ELSE x

(* Bound: texts of more than one piece are not kept, nor references in       *)
(* variables; the operators are evaluated on them all the same.             *)
Kept(x) == x.t # "Reference" /\ Len(x.s) <= 1

(* The end of a step: the value goes to a name, or the program ends.        *)
Keep(name, value) ==
    IF value \in {Error, Crash}
    THEN status' = value.t /\ UNCHANGED <<obj, ref>>
    ELSE /\ Kept(value)
         /\ obj' = [obj EXCEPT ![name] = value]
         /\ UNCHANGED <<ref, status>>

Constant(z) ==
    /\ status = "running"
    /\ \E x \in Literals : Keep(z, x)

Refer(x) ==
    /\ status = "running"
    /\ ref' = x
    /\ UNCHANGED <<obj, status>>

vm_exec_arith(op, x, y, z) ==
    /\ status = "running"
    /\ Keep(z, ob_arith(obj, op, Evaluated(x), Evaluated(y)))

vm_exec_bitwise(op, x, y, z) ==
    /\ status = "running"
    /\ Keep(z, ob_bitwise(obj, op, Evaluated(x), Evaluated(y)))

vm_exec_logic(op, x, y, z) ==
    /\ status = "running"
    /\ Keep(z, ob_logic(obj, op, Evaluated(x), Evaluated(y)))

vm_exec_unary(op, x, z) ==
    /\ status = "running"
    /\ Keep(z, ob_unary(obj, op, Evaluated(x)))

(* The handlers of compound assignments discard what the operator yields:   *)
(* what counts is what it leaves in the object.                             *)
vm_exec_inplace(op, x, y) ==
    /\ status = "running"
    /\ LET left == ob_inplace(obj, op, Evaluated(x), Evaluated(y)) IN
       IF Target(x) = 0 THEN UNCHANGED vars ELSE Keep(Target(x), left)

vm_exec_inc_dec(op, x) ==
    /\ status = "running"
    /\ IF Target(x) = 0 THEN UNCHANGED vars
       ELSE Keep(Target(x), ob_unary(obj, op, Evaluated(x)))

Init ==
    /\ obj \in [Names -> Literals]
    /\ ref = 0
    /\ status = "running"

Next ==
    \/ \E x \in Operands : Refer(x)
    \/ \E z \in Names :
          \/ Constant(z)
          \/ \E x, y \in Operands :
                \/ \E op \in Arithmetic : vm_exec_arith(op, x, y, z)
                \/ \E op \in Bitwise2 : vm_exec_bitwise(op, x, y, z)
                \/ \E op \in Logic : vm_exec_logic(op, x, y, z)
          \/ \E x \in Operands, op \in {"factorial", "minus", "bw_not", "l_not"} :
                vm_exec_unary(op, x, z)
    \/ \E x, y \in Operands, op \in InplaceArithmetic \union InplaceBitwise :
          vm_exec_inplace(op, x, y)
    \/ \E x \in Operands, op \in {"increment", "decrement"} : vm_exec_inc_dec(op, x)

Spec == Init /\ [][Next]_vars

----------------------------------------------------------------------------
(* The operator each compound assignment of the language stands for.        *)
Meaning ==
    [inplace_add |-> "add", inplace_sub |-> "sub", inplace_mul |-> "mul",
     inplace_div |-> "div", inplace_mod |-> "mod", bw_inplace_and |-> "bw_and",
     bw_inplace_or |-> "bw_or", bw_inplace_xor |-> "bw_xor",
     bw_inplace_lshift |-> "bw_lshift", bw_inplace_rshift |-> "bw_rshift"]

(* Where a compound assignment is not the assignment of its operator's      *)
(* result, in the code as it is: |= of integers and characters computes &=; *)
(* += of a number and a text drops the text; a float beyond an int is       *)
(* converted to int by the operator and to long by the assignment, and      *)
(* shifts in the one width or the other.                                    *)
Deviates(op, a, b) ==
    \/ op = "bw_inplace_or" /\ a.t \in {"Integer", "Char"}
    \/ op = "inplace_add" /\ a.t # "String" /\ b.t = "String"
    \/ /\ op \in InplaceBitwise /\ a.t = "Float"
       /\ ~Fits(ToLong(a.v, LongBits), IntBits) \/ op \in {"bw_inplace_lshift", "bw_inplace_rshift"}

(* x op= y leaves in x what x = x op y does (integer.cpp, char.cpp,          *)
(* float.cpp, string.cpp), whatever the types are, or both end the program; *)
(* the deviations are the named ones.                                       *)
CompoundAgrees ==
    \A x \in Names, y \in Operands, op \in DOMAIN Meaning :
       LET a == obj[x]
           b == Evaluated(y)
       IN  ~Deviates(op, a, b)
              => ob_inplace(obj, op, a, b) = ob_binary(obj, Meaning[op], a, b)

(* Numbers that an order tells apart.                                       *)
Comparable(a, b) ==
    /\ a.t \in {"Integer", "Char", "Float", "Boolean"}
    /\ a.t = "Float" => NaN \notin {a.v, ob_fvalue(obj, b)}

(* The six comparison operators of a type say what its cmp says, which       *)
(* orders maps and sorts vectors: exactly one of <, ==, > holds.  A NaN is   *)
(* left out (cmp calls it less, the operators nothing), and handles, whose   *)
(* operators compare the truth of the address.                              *)
OrderAgrees ==
    \A x \in Names, y \in Operands :
       LET a == obj[x]
           b == Evaluated(y)
           Holds(op) == ob_logic(obj, op, a, b).v # 0
           c == ob_cmp(obj, a, b)
       IN  Comparable(a, b) =>
              /\ Holds("l_same") = (c = 0) /\ Holds("l_diff") = (c # 0)
              /\ Holds("l_less") = (c = -1) /\ Holds("l_greater") = (c = 1)
              /\ Holds("l_less_or_same") = (c # 1)
              /\ Holds("l_greater_or_same") = (c # -1)

(* The remainder with its shortcuts (int_mod): it is below the divisor in   *)
(* absolute value and differs from the dividend by a multiple of it, also   *)
(* for negative numbers and the least one; a zero divisor yields zero.      *)
RemainderRight ==
    \A x, y \in Names :
       obj[x].t = "Integer" /\ obj[y].t = "Integer" =>
          LET r == int_arith(obj, "mod", obj[x], obj[y]) IN
          IF obj[y].v = 0 THEN r = Integer(0)
          ELSE r # Crash => /\ Abs(r.v) < Abs(obj[y].v)
                            /\ (obj[x].v - r.v) % Abs(obj[y].v) = 0

(* A reference that is not null stands for its target in every operator      *)
(* (reference.cpp), on the left and, but for the text that + takes from a    *)
(* string itself, on the right.                                             *)
ReferenceTransparent ==
    ref # 0 =>
       LET r == Reference(ref) IN
       /\ \A y \in Names, op \in Arithmetic \union Bitwise2 \union Logic :
             /\ ob_binary(obj, op, r, obj[y]) = ob_binary(obj, op, obj[ref], obj[y])
             /\ ~(op = "add" /\ obj[ref].t = "String")
                   => ob_binary(obj, op, obj[y], r) = ob_binary(obj, op, obj[y], obj[ref])
       /\ \A op \in Unary : ob_unary(obj, op, r) = ob_unary(obj, op, obj[ref])
=============================================================================
