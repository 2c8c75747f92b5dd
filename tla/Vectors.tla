------------------------------ MODULE Vectors ------------------------------
(***************************************************************************)
(* The operations of vectors (core/types/vector.cpp) and of binaries        *)
(* (core/types/binary.cpp).  An object of either type is a sequence of      *)
(* elements and the counter items, kept beside it by hand.                  *)
(*                                                                         *)
(* An operation yields what it leaves in its object and what it answers.    *)
(***************************************************************************)
EXTENDS Types, Integers, Sequences, SequencesExt, FiniteSetsExt

CONSTANTS
    NaN,        \* the double that compares with nothing, an odd integer here
    ByteBits,   \* width of a byte
    SizeBits,   \* width of size_t and of long
    Quantities, \* what an element holds, see Element; bytes among them
    Printed(_), \* the text that an element of another type prints
    Atol(_),    \* the whole number that a text begins with
    Atof(_)     \* the double that it begins with

ASSUME WidthsAssumption ==
    /\ ByteBits \in Nat \ {0} /\ SizeBits \in Nat \ {0}
    /\ 2^ByteBits \in Nat \ {0} /\ 2^SizeBits \in Nat \ {0}  \* which no prover derives
    /\ 2^(SizeBits - 1) \in Nat

(* What an element is, as far as ob_cmp tells: a number, a double in        *)
(* halves, the place of a text in a dictionary, or an object that has no    *)
(* cmp (a structure or an instance) and its size.                           *)
Element ==
    [t : {"Integer", "Char", "Boolean", "Handle", "Float", "String", "Structure"},
     v : Quantities]

Integer(n) == [t |-> "Integer", v |-> n]
Char(c) == [t |-> "Char", v |-> c]

ASSUME ConversionsAssumption ==
    /\ Quantities \subseteq Int /\ 0..(2^ByteBits - 1) \subseteq Quantities
    /\ NaN \in Int /\ NaN % 2 = 1
    /\ \A n \in Quantities : Atol(n) \in Int /\ Atof(n) \in Int
    /\ \A e \in Element : Printed(e) \in Int

Number(n) == [t |-> "Number", v |-> n]
Item(e) == [t |-> "Item", v |-> e]
Truth(b) == [t |-> "Boolean", v |-> b]
Nothing == [t |-> "nothing"]
Exception == [t |-> "Exception"]    \* vm_raise_exception
Error == [t |-> "hyb_error"]        \* the process ends with a message
Crash == [t |-> "signal"]           \* it ends without one
Hang == [t |-> "hang"]              \* it computes for ever

Outcome(left, answer) == [left |-> left, answer |-> answer]

List(type, s) == [t |-> type, value |-> s, items |-> Len(s)]
Vector(s) == List("Vector", s)
Binary(s) == List("Binary", s)

----------------------------------------------------------------------------
(* An element as a double, as a whole number and as a text.  A double that  *)
(* no long holds becomes the least one.                                     *)
fvalue(e) == CASE e.t = "Float" -> e.v [] e.t = "String" -> Atof(e.v) [] OTHER -> 2 * e.v

Truncated(h) == IF h >= 0 THEN h \div 2 ELSE -((-h) \div 2)
ToLong(h) ==
    IF h # NaN /\ Truncated(h) \in -(2^(SizeBits - 1))..(2^(SizeBits - 1) - 1)
    THEN Truncated(h) ELSE -(2^(SizeBits - 1))

ivalue(e) ==
    CASE e.t = "Float" -> ToLong(e.v) [] e.t = "String" -> Atol(e.v) [] OTHER -> e.v

svalue(e) == IF e.t = "String" THEN e.v ELSE Printed(e)

c_cmp(a, b) == IF a = b THEN 0 ELSE IF a > b THEN 1 ELSE -1

(* ob_cmp of two elements: as doubles, texts or whole numbers, as the type   *)
(* of the left one has it.  With NaN on either side a float is less.        *)
element_cmp(a, b) ==
    CASE a.t = "Float" -> IF NaN \in {a.v, fvalue(b)} THEN -1 ELSE c_cmp(a.v, fvalue(b))
      [] a.t = "String" -> c_cmp(a.v, svalue(b))
      [] OTHER -> c_cmp(ivalue(a), ivalue(b))

Same(a, b) == element_cmp(a, b) = 0

Comparable(e) == Supports(e.t, "cmp")

(* A search for o from the first element on ends the program at an element   *)
(* that has no cmp, unless one before it is the same as o.                  *)
Stops(s, o) ==
    \E i \in DOMAIN s : ~Comparable(s[i]) /\ \A j \in 1..(i - 1) : ~Same(s[j], o)
Holds(s, o) == \E i \in DOMAIN s : Same(s[i], o)

(* An index becomes a size_t.                                               *)
Index(i) == i % 2^SizeBits
\* Mutant of Outside: one too few.
OutsideLast(me, i) == Index(i) + 1 >= me.items
Outside(me, i) == Index(i) >= me.items

(* How many of the bytes or elements of an object a size selects.           *)
Selected(me, size) == IF size # 0 /\ size <= me.items THEN size ELSE me.items

----------------------------------------------------------------------------
(* Elements are copied by push and set: a value stays what it was.          *)
vector_cl_push(me, o) == [me EXCEPT !.value = Append(@, o), !.items = @ + 1]

\* Mutant of vector_cl_pop: an empty one is popped, too.
vector_cl_popUnchecked(me) ==
    Outcome([me EXCEPT !.value = Front(@), !.items = @ - 1], Nothing)

vector_cl_pop(me) ==
    IF me.items = 0 THEN Outcome(me, Exception)
    ELSE Outcome([me EXCEPT !.value = Front(@), !.items = @ - 1],
                 Item(me.value[me.items]))

vector_cl_remove(me, i) ==
    IF Outside(me, i) THEN Outcome(me, Exception)
    ELSE Outcome([me EXCEPT !.value = RemoveAt(@, Index(i) + 1), !.items = @ - 1],
                 Item(me.value[Index(i) + 1]))

vector_cl_at(me, i) ==
    IF Outside(me, i) THEN Exception ELSE Item(me.value[Index(i) + 1])

vector_cl_set(me, i, v) ==
    IF Outside(me, i) THEN Outcome(me, Exception)
    ELSE Outcome([me EXCEPT !.value[Index(i) + 1] = v], Nothing)

vector_free(me) == [me EXCEPT !.value = << >>, !.items = 0]

vector_traverse(me, i) == IF i >= me.items THEN Nothing ELSE Item(me.value[i + 1])

(* The conversions of every collection count its items.                     *)
vector_ivalue(me) == me.items

(* The elements in order, then nothing; vectors of different sizes by size. *)
(* Of elements that have a cmp: another one ends the program.               *)
first_difference(a, b) ==
    LET Differ == {i \in DOMAIN a : ~Same(a[i], b[i])} IN
    IF Differ = {} THEN 0 ELSE element_cmp(a[Min(Differ)], b[Min(Differ)])

\* Mutant of list_cmp: of two sizes the left is greater.
list_cmpUnsized(a, b) ==
    IF Len(a) # Len(b) THEN 1 ELSE first_difference(a, b)

list_cmp(a, b) ==
    IF Len(a) # Len(b) THEN (IF Len(a) > Len(b) THEN 1 ELSE -1)
    ELSE first_difference(a, b)

vector_cmp(me, cmp) == IF cmp.t # "Vector" THEN 1 ELSE list_cmp(me.value, cmp.value)

(* A copy is assigned to nothing: me is emptied, the copy is the answer.    *)
vector_assign(me, op) == Outcome(vector_free(me), op)

----------------------------------------------------------------------------
(* The elements of a right operand: those of a vector, or itself.           *)
Operand(op) == IF op.t = "Vector" THEN op.value ELSE <<op.v>>

vector_add(me, op) == Vector(me.value \o Operand(op))

vector_inplace_add(me, op) == vector_add(me, op)

(* The iterator runs to the end for the first element of op, and is not set *)
(* back for the others.                                                     *)
Without(s, o) ==
    FoldLeft(LAMBDA rest, e : IF Same(e, o) THEN rest ELSE Append(rest, e), << >>, s)

vector_sub(me, op) ==
    LET os == Operand(op) IN
    IF os = << >> THEN me
    ELSE IF \E i \in DOMAIN me.value : ~Comparable(me.value[i]) THEN Error
    ELSE Vector(Without(me.value, os[1]))

(* The operator that assigns: the difference is what it leaves.             *)
Becomes(me, answer) ==
    IF answer = Error THEN Outcome(me, Error) ELSE Outcome(answer, Nothing)

(* With a vector on the right, vme is read before it is assigned: it points *)
(* nowhere, to something that looks empty, or to the object of a call       *)
(* before.                                                                  *)
vector_inplace_sub(me, op) ==
    {Becomes(me, vector_sub(me, op))}
       \union IF op.t = "Vector" THEN {Outcome(me, Crash), Outcome(me, Nothing)} ELSE {}

----------------------------------------------------------------------------
(* The builtin methods.                                                     *)
vector_contains(me, find) ==
    IF Stops(me.value, find) THEN Error ELSE Truth(Holds(me.value, find))

vector_unique(me) ==
    FoldLeft(LAMBDA u, e : IF u = Error \/ Stops(u.value, e) THEN Error
                           ELSE IF Holds(u.value, e) THEN u ELSE vector_cl_push(u, e),
             Vector(<< >>), me.value)

(* Every element but the first is compared with the one found so far; the    *)
(* clone of no object at all is the answer when there is none.              *)
vector_max(me) ==
    IF me.items = 0 THEN Crash
    ELSE IF \E i \in 2..me.items : ~Comparable(me.value[i]) THEN Error
    ELSE Item(FoldLeft(LAMBDA m, e : IF element_cmp(e, m) = 1 THEN e ELSE m,
                       me.value[1], Tail(me.value)))

vector_min(me) ==
    IF me.items = 0 THEN Crash
    ELSE IF \E i \in 2..me.items : ~Comparable(me.value[i]) THEN Error
    ELSE Item(FoldLeft(LAMBDA m, e : IF element_cmp(e, m) = -1 THEN e ELSE m,
                       me.value[1], Tail(me.value)))

----------------------------------------------------------------------------
(* binary.cpp: a vector of numbers; other elements end the program.         *)
Storable(o) == o.t \in {"Char", "Integer", "Float"}

binary_cl_push_reference(me, o) ==
    IF Storable(o) THEN Outcome(vector_cl_push(me, o), Nothing) ELSE Outcome(me, Error)

binary_cl_at(me, i) == vector_cl_at(me, i)

binary_cl_set_reference(me, i, v) ==
    IF ~Outside(me, i) /\ ~Storable(v) THEN Outcome(me, Error)
    ELSE vector_cl_set(me, i, v)

binary_traverse(me, i) == vector_traverse(me, i)
binary_free(me) == vector_free(me)
binary_assign(me, op) == Outcome(binary_free(me), op)
binary_cmp(me, cmp) == IF cmp.t # "Binary" THEN 1 ELSE list_cmp(me.value, cmp.value)

Byte(n) == n % 2^ByteBits
\* Mutant of binary_serialize: the numbers, not their bytes.
binary_serializeSigned(me, size) ==
    [i \in 1..Selected(me, size) |-> ivalue(me.value[i])]

binary_serialize(me, size) ==
    [i \in 1..Selected(me, size) |-> Byte(ivalue(me.value[i]))]

(* A new object for a size; without one, the object as it is.               *)
binary_deserialize(me, buffer, size) ==
    IF size = 0 THEN me ELSE Binary([i \in 1..size |-> Integer(buffer[i])])
=============================================================================
