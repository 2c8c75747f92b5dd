---------------------------- MODULE Collections ----------------------------
(***************************************************************************)
(* A collection of a script, me, and a second one of its type, op, that the *)
(* script keeps answers in.  Every step is one operation of the type, with  *)
(* operands from small sets; an operation the type does not have ends the   *)
(* program (types.h), one that raises an exception leaves me as it was.     *)
(***************************************************************************)
EXTENDS Strings, Maps

CONSTANTS
    Kinds,      \* the types of collection considered
    Elements,   \* elements of vectors and binaries
    Keys,       \* keys of maps
    Values,     \* values of maps
    Characters, \* characters of texts, Nul among them
    MaxItems,   \* bound: the length of a collection and of a text
    KeptItems   \* bound: the length of an answer that is kept

ASSUME ElementsAssumption ==
    /\ Kinds \subseteq {"String", "Vector", "Binary", "Map"}
    /\ Elements \subseteq Element /\ Keys \union Values \subseteq Elements
    /\ Characters \subseteq {e \in Element : e.t = "Char"}
    /\ MaxItems \in Nat /\ MaxItems + 1 < 2^SizeBits

VARIABLES
    me, op,     \* the two collections
    drifted,    \* a string was assigned, erased or read: see ItemsExact
    status      \* "running", or how the program ended

vars == <<me, op, drifted, status>>

Texts == BoundedSeq(Characters, MaxItems)
Words == BoundedSeq(Characters \ {Nul}, 2)
Indices == -1..MaxItems

Empty(kind) == IF kind = "Map" THEN Map(<< >>, << >>) ELSE List(kind, << >>)

Bounded(c, n) ==
    /\ c.items <= n
    /\ IF c.t = "Map" THEN Len(c.keys) <= n ELSE Len(c.value) <= n

----------------------------------------------------------------------------
(* The end of a step: what is left in me, and what becomes of the answer.   *)
Given(answer) ==
    /\ status' = IF answer \in {Error, Crash, Hang} THEN answer.t ELSE "running"
    /\ op' = IF answer.t = me.t /\ Bounded(answer, KeptItems) THEN answer ELSE op

Settle(outcome) ==
    /\ status = "running"
    /\ Bounded(outcome.left, MaxItems)
    /\ me' = outcome.left
    /\ Given(outcome.answer)

Keeps(outcome) == Settle(outcome) /\ UNCHANGED drifted

Answers(answer) == Keeps(Outcome(me, answer))

Is(kind) == me.t = kind

(* A slot of the type table that is empty, or arguments that the operation   *)
(* does not take: types.h, and the tests at the head of every method.       *)
Refused(slot) == ~Supports(me.t, slot) /\ Answers(Error)

WrongArguments == Answers(Error)

----------------------------------------------------------------------------
cl_push(e) ==
    \/ Refused("cl_push")
    \/ Is("Vector") /\ Keeps(Outcome(vector_cl_push(me, e), Nothing))
    \/ Is("Binary") /\ Keeps(binary_cl_push_reference(me, e))

cl_pop ==
    \/ Refused("cl_pop")
    \/ Is("Vector") /\ Keeps(vector_cl_pop(me))
    \/ Is("Map") /\ Keeps(map_cl_pop(me))

cl_remove ==
    \/ Refused("cl_remove")
    \/ Is("Vector") /\ \E i \in Indices : Keeps(vector_cl_remove(me, i))
    \/ Is("Map") /\ \E k \in Keys : Keeps(map_cl_remove(me, k))

(* A key or index may be a number, or a collection, which counts its items. *)
cl_at ==
    \/ Is("String") /\ \E i \in Indices : Answers(string_cl_at(me, i))
    \/ Is("Vector") /\ \E i \in Indices \union {vector_ivalue(op)} : Answers(vector_cl_at(me, i))
    \/ Is("Binary") /\ \E i \in Indices : Answers(binary_cl_at(me, i))
    \/ Is("Map") /\ \E k \in Keys : Answers(map_cl_at(me, k))

cl_set ==
    \/ /\ Is("String")
       /\ \E i \in Indices, c \in Characters :
             /\ Settle(string_cl_set(me, i, c))
             /\ drifted' = (drifted \/ Len(me'.value) # Len(me.value))
    \/ Is("Vector") /\ \E i \in Indices, v \in Elements : Keeps(vector_cl_set(me, i, v))
    \/ /\ Is("Binary")
       /\ \E i \in Indices, v \in Elements : Keeps(binary_cl_set_reference(me, i, v))
    \/ /\ Is("Map")
       /\ \E k \in Keys, v \in Values : Keeps(map_cl_set(me, k, v))

(* The slot assign, which attributes and references use: op, or a number.   *)
assign ==
    \E x \in {op, Number(1)} :
       \/ Is("String") /\ Settle(string_assign(me, x)) /\ drifted' = (x = op \/ drifted)
       \/ Is("Vector") /\ Keeps(vector_assign(me, x))
       \/ Is("Binary") /\ Keeps(binary_assign(me, x))
       \/ Is("Map") /\ Keeps(map_assign(me, x))

clone == IF Is("String") THEN Answers(string_clone(me)) ELSE Answers(me)

arith ==
    \/ Refused("add")
    \/ /\ Is("String")
       /\ Answers(string_add(me, op)) \/ Keeps(Outcome(string_inplace_add(me, op), Nothing))
    \/ /\ Is("Vector")
       /\ \E x \in {op} \union {Item(e) : e \in Elements} :
             \/ Answers(vector_add(me, x))
             \/ Answers(vector_sub(me, x))
             \/ Keeps(Outcome(vector_inplace_add(me, x), Nothing))
             \/ \E outcome \in vector_inplace_sub(me, x) : Keeps(outcome)

----------------------------------------------------------------------------
(* The builtin methods, called with arguments that a script may give.       *)
string_call_method ==
    /\ Is("String")
    /\ \/ WrongArguments
       \/ Answers(string_length(me))
       \/ Answers(string_trim(me))
       \/ \E w \in Words :
             \/ Answers(string_find(me, w))
             \/ Answers(string_split(me, w))
             \/ \E r \in Words : Answers(string_replace_method(me, w, r))
             \/ \E compiles, captures \in BOOLEAN :
                   Answers(string_regexp(me, w, compiles, captures))
       \/ \E i, n \in Indices : Answers(string_substr(me, i, n))
       \/ \E n \in Indices : Answers(string_repeat(me, n))

vector_call_method ==
    /\ Is("Vector")
    /\ \/ WrongArguments
       \/ Answers(Number(me.items))
       \/ Keeps(vector_cl_pop(me))
       \/ \E i \in Indices : Keeps(vector_cl_remove(me, i))
       \/ \E e \in Elements : Answers(vector_contains(me, e))
       \/ Answers(vector_unique(me))
       \/ Answers(vector_min(me))
       \/ Answers(vector_max(me))

map_call_method ==
    /\ Is("Map")
    /\ \/ WrongArguments
       \/ Answers(Number(me.items))
       \/ Keeps(map_cl_pop(me))
       \/ \E k \in Keys : Keeps(map_cl_remove(me, k)) \/ Answers(map_has(me, k))
       \/ Answers(map_keys(me))
       \/ Answers(map_values(me))

(* Reading and writing; what is read replaces the text.                     *)
stream ==
    \/ /\ Is("String")
       /\ \E input \in Texts, size \in 0..2 :
             /\ \/ Settle(Outcome(string_from_fd(me, input, size), Nothing))
                \/ size = 0 /\ Settle(Outcome(string_scanf(me, CString(input)), Nothing))
                \/ Newline \in Range(input) /\ Settle(string_deserialize(me, input, size))
             /\ drifted' = TRUE
    \/ /\ Is("Binary")
       /\ \E size \in 0..me.items : Answers(binary_deserialize(me, binary_serialize(me, 0), size))

Init ==
    /\ \E kind \in Kinds : me = Empty(kind) /\ op = me
    /\ drifted = FALSE
    /\ status = "running"

Next ==
    \/ \E e \in Elements : cl_push(e)
    \/ cl_pop \/ cl_remove \/ cl_at \/ cl_set
    \/ assign \/ clone \/ arith
    \/ string_call_method \/ vector_call_method \/ map_call_method
    \/ stream

Spec == Init /\ [][Next]_vars
----------------------------------------------------------------------------
Content(c) == IF c.t = "Map" THEN c.keys \o c.values ELSE c.value

(* A collection is a sequence of elements, or two of them, and a counter.   *)
CollectionObject ==
    [t : Kinds \ {"Map"}, value : Seq(Element), items : Nat]
       \union [t : Kinds \cap {"Map"}, keys : Seq(Keys), values : Seq(Values), items : Nat]

TypeOK ==
    /\ me \in CollectionObject /\ op \in CollectionObject /\ op.t = me.t
    /\ me.items <= MaxItems
    /\ drifted \in BOOLEAN
    /\ status \in {"running", "hyb_error", "signal", "hang"}

(* The collector asks an object for its children 0, 1, ... until there is    *)
(* none: it is given every element of a vector or binary, and every key and  *)
(* every value of a map, once (vector_traverse, binary_traverse,            *)
(* map_traverse, gc_mark).                                                  *)
TraversesAll ==
    ~Is("String") =>
       LET child(i) == IF Is("Vector") THEN vector_traverse(me, i)
                       ELSE IF Is("Binary") THEN binary_traverse(me, i)
                       ELSE map_traverse(me, i)
           none == Min({i \in 0..(2 * MaxItems) : child(i) = Nothing})
       IN  [i \in 1..none |-> child(i - 1)] = [i \in DOMAIN Content(me) |-> Item(Content(me)[i])]

Exact(c) ==
    IF c.t = "Map" THEN c.items = Len(c.keys) /\ c.items = Len(c.values)
    ELSE c.items = Len(c.value)

(* The counter items is the length of the sequence, and the keys and the    *)
(* values of a map are as many, through every operation (vector.cpp,        *)
(* map.cpp, binary.cpp, string.cpp); and the collector is given them all.   *)
(* A string that was assigned, cut by a 0 or read from a stream is left     *)
(* out: its items is that of before.                                        *)
ItemsExact ==
    /\ ~drifted => Exact(me)
    /\ TraversesAll

(* A search takes x for k.                                                  *)
TakenFor(x, k) == Comparable(x) /\ Same(x, k)

(* An index operator answers the element of a valid index and raises an      *)
(* exception for every other one, negative ones included (vector_cl_at,      *)
(* string_cl_at, binary_cl_at).  A key that a map holds answers the value   *)
(* beside it, whatever keys of other types were mapped before it; one that  *)
(* no key is taken for raises an exception; and a value that was mapped is  *)
(* what the same key answers next (map_cl_at, map_cl_set).  Strings as in   *)
(* ItemsExact.                                                              *)
AccessExact ==
    /\ Is("Map") =>
          \A k \in Keys :
             LET Beside == SelectLastInSeq(me.keys, LAMBDA x : x = k) IN
             /\ k \in Range(me.keys) /\ TakenFor(k, k) =>
                   map_cl_at(me, k) = Item(me.values[Beside])
             /\ (\A x \in Range(me.keys) : Comparable(x) /\ ~Same(x, k)) =>
                   map_cl_at(me, k) = Exception
             /\ TakenFor(k, k) =>
                   \A v \in Values :
                      LET set == map_cl_set(me, k, v) IN
                      set.answer = Nothing => map_cl_at(set.left, k) = Item(v)
    /\ ~Is("Map") /\ ~drifted =>
          \A i \in Indices :
             LET item == IF i + 1 \in DOMAIN me.value THEN Item(me.value[i + 1]) ELSE Exception
             IN  /\ Is("String") => string_cl_at(me, i) = item
                 /\ Is("Vector") => vector_cl_at(me, i) = item
                 /\ Is("Binary") => binary_cl_at(me, i) = item

(* The methods of strings.  What split takes apart join puts together, and   *)
(* no part holds the token; replace is the join of the parts with the other  *)
(* text, unless two matches follow one another (it skips a character after   *)
(* each); trim leaves a piece of the text that neither begins nor ends with  *)
(* a space and drops nothing else; a pattern captures as often as it occurs. *)
TextMethods ==
    Is("String") /\ me.value = CString(me.value) =>
       /\ \A tok \in Words \ {<< >>} :
             LET parts == string_split(me, tok).value IN
             /\ vector_join(parts, tok).value = me.value
             /\ \A i \in DOMAIN parts : Find(parts[i], tok, 0) = -1
             /\ \A repl \in Words :
                   LET replaced == vector_join(parts, repl) IN
                   /\ string_replace(me.value, tok, repl) = replaced.value
                   /\ (\A i \in 2..(Len(parts) - 1) : parts[i] # << >>)
                         => string_replace_method(me, tok, repl) = replaced
             /\ string_regexp(me, tok, TRUE, TRUE).items = Len(parts) - 1
       /\ LET trimmed == string_trim(me).value
              at == Find(me.value, trimmed, 0)
              Blank == {Space, Newline} IN
          /\ at # -1
          /\ trimmed # << >> => {trimmed[1], Last(trimmed)} \cap Blank = {}
          /\ \A i \in DOMAIN me.value : i \in (at + 1)..(at + Len(trimmed)) \/ me.value[i] \in Blank

(* The methods and operators of vectors, against sets, when ob_cmp can tell *)
(* the elements.  unique keeps elements that none before it is taken for,   *)
(* and drops none but those; contains finds what is there.  On elements of  *)
(* one type nothing is taken for anything else: unique keeps one of each,   *)
(* contains finds nothing else, min and max are bounds, and a difference    *)
(* drops the elements of the right operand when that has one element (of    *)
(* more, it drops the first only).  NaN equals nothing.                     *)
IsNaN(e) == e.t = "Float" /\ e.v = NaN
Alike(S) == Cardinality({e.t : e \in S}) <= 1
Numerals(S) == {e.v : e \in S}

VectorMethods ==
    LET Held == Range(me.value)
        unique == vector_unique(me).value IN
    Is("Vector") /\ (\A e \in Held : Comparable(e)) =>
       /\ Range(unique) \subseteq Held
       /\ \A j \in DOMAIN unique : \A i \in 1..(j - 1) : ~Same(unique[i], unique[j])
       /\ \A e \in Held \ Range(unique) : Holds(unique, e)
       /\ \A e \in Elements :
             /\ e \in Held /\ ~IsNaN(e) => vector_contains(me, e) = Truth(TRUE)
             /\ Alike(Held \union {e}) =>
                   vector_contains(me, e) = Truth(e \in Held /\ ~IsNaN(e))
       /\ Alike(Held) =>
             /\ Range(unique) = Held
             /\ me.items > 0 /\ (\A e \in Held : ~IsNaN(e)) =>
                   /\ vector_min(me).v.v = Min(Numerals(Held))
                   /\ vector_max(me).v.v = Max(Numerals(Held))
       /\ Alike(Held \union Range(op.value)) /\ Cardinality(Range(op.value)) <= 1 =>
             Range(vector_sub(me, op).value) = {e \in Held : e \notin Range(op.value) \/ IsNaN(e)}
       /\ Range(vector_add(me, op).value) = Held \union Range(op.value)

(* A method answers what its name says, on every text and on vectors whose  *)
(* elements have a cmp (the methods of string.cpp and vector.cpp); what that *)
(* is when elements of different types are mixed, VectorMethods says.       *)
MethodsExact == TextMethods /\ VectorMethods

(* cmp of two collections whose elements are of the same types, place by    *)
(* place (those of two strings are), is an order by which they can be       *)
(* sorted: the one is less when the other is greater, and only the same     *)
(* content compares equal (vector_cmp, binary_cmp, map_cmp, string_cmp).    *)
(* Of different types it is none: each element compares by the type of the  *)
(* left one.  NaN is left out.                                              *)
Ordered(a, b) ==
    /\ Is("String") \/ Len(a) = Len(b) => \A i \in DOMAIN a \cap DOMAIN b : a[i].t = b[i].t
    /\ \A e \in Range(a) \union Range(b) : Comparable(e) /\ ~IsNaN(e)

CmpOrders ==
    LET cmp(a, b) == IF Is("String") THEN string_cmp(a, b)
                     ELSE IF Is("Vector") THEN vector_cmp(a, b)
                     ELSE IF Is("Binary") THEN binary_cmp(a, b)
                     ELSE map_cmp(a, b)
    IN  Ordered(Content(me), Content(op)) =>
           /\ cmp(me, op) = -cmp(op, me)
           /\ (cmp(me, op) = 0) = (Content(me) = Content(op))

(* What a binary or a string writes it reads again: a binary the whole       *)
(* number of each element modulo the width of a byte, a string that ends    *)
(* its line its characters and its items (binary_serialize,                 *)
(* binary_deserialize, string_serialize, string_deserialize).               *)
RoundTrip ==
    /\ Is("Binary") =>
          \A size \in 1..me.items :
             binary_deserialize(me, binary_serialize(me, size), size)
                = Binary([i \in 1..size |-> Integer(Byte(ivalue(me.value[i])))])
    /\ Is("String") /\ ~drifted /\ Line(me.value) = me.value /\ me.items > 0 =>
          string_deserialize(me, string_serialize(me, 0), 0) = Outcome(me, Nothing)

(* A map is a Dictionary of the keys that compare as the same as themselves: *)
(* every operation on it stores a value under one key, the oldest that is   *)
(* taken for the given one, or drops one key, clears it or leaves it        *)
(* (map.cpp).  The keys that are left out, NaN and objects without a cmp,    *)
(* change nothing of the others.                                            *)
Dict == IF Is("Map")
        THEN [k \in {x \in Range(me.keys) : TakenFor(x, x)} |-> map_cl_at(me, k).v]
        ELSE << >>
Takes == {p \in Keys \X Keys : TakenFor(p[1], p[2])}
D == INSTANCE Dictionary WITH dict <- Dict
ImplementsDictionary == D!Spec
=============================================================================
