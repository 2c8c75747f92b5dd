------------------------------ MODULE Strings ------------------------------
(***************************************************************************)
(* The operations of strings (core/types/string.cpp).  A string is its      *)
(* characters and the counter items that its index operators look at.       *)
(***************************************************************************)
EXTENDS Vectors

Nul == Char(0)      \* which ends a C string
Space == Char(1)    \* isspace
Newline == Char(3)

(* What c_str() shows of a text; objects are made from it.                  *)
CString(s) ==
    IF Contains(s, Nul) THEN SubSeq(s, 1, SelectInSeq(s, LAMBDA c : c = Nul) - 1) ELSE s
String(s) == List("String", CString(s))

(* std::string::find, with positions that begin at 0; -1 is npos.           *)
Find(s, pattern, from) ==
    LET At == {i \in from..(Len(s) - Len(pattern)) :
                  SubSeq(s, i + 1, i + Len(pattern)) = pattern}
    IN  IF At = {} THEN -1 ELSE Min(At)

From(s, start) == SubSeq(s, start + 1, Len(s))

----------------------------------------------------------------------------
(* The builtin methods.                                                     *)
string_length(me) == Number(Len(me.value))

string_find(me, needle) == Number(Find(me.value, needle, 0))

(* std::string::substr throws beyond the end, and nothing catches it; a     *)
(* negative length is the longest.                                          *)
string_substr(me, start, n) ==
    IF Index(start) > Len(me.value) THEN Crash
    ELSE String(SubSeq(me.value, start + 1, Min({start + Index(n), Len(me.value)})))

(* After a replacement the search goes on one character too far: the        *)
(* character after the match is kept unseen.                                *)
string_replace_method(me, find, repl) ==
    LET s == me.value
        rest[from \in 0..(Len(s) + 1)] ==
            LET at == Find(s, find, from)
                next == at + Len(find) IN
            IF at = -1 THEN From(s, from)
            ELSE SubSeq(s, from + 1, at) \o repl \o SubSeq(s, next + 1, Min({next + 1, Len(s)}))
                    \o rest[next + 1]
    IN  String(rest[0])

(* The helper of other modules; a match of nothing is found for ever.       *)
string_replace(s, find, repl) ==
    LET rest[from \in 0..Len(s)] ==
            LET at == Find(s, find, from) IN
            IF at = -1 THEN From(s, from)
            ELSE SubSeq(s, from + 1, at) \o repl \o rest[at + Len(find)]
    IN  rest[0]

\* Mutant of Parts: one character is skipped, not the token.
PartsByOne(s, tok) ==
    LET part[start \in 0..Len(s)] ==
            LET end == Find(s, tok, start) IN
            IF end = -1 THEN <<From(s, start)>>
            ELSE <<SubSeq(s, start + 1, end)>> \o part[end + 1]
    IN  part[0]

(* The parts of s between the tokens.                                       *)
Parts(s, tok) ==
    LET part[start \in 0..Len(s)] ==
            LET end == Find(s, tok, start) IN
            IF end = -1 THEN <<From(s, start)>>
            ELSE <<SubSeq(s, start + 1, end)>> \o part[end + Len(tok)]
    IN  part[0]

string_split(me, tok) ==
    IF tok = << >> THEN Hang
    ELSE LET parts == Parts(me.value, tok) IN
         Vector([i \in DOMAIN parts |-> CString(parts[i])])

string_trim(me) ==
    LET Seen == {i \in DOMAIN me.value : me.value[i] # Space /\ me.value[i] # Newline} IN
    String(IF Seen = {} THEN << >> ELSE SubSeq(me.value, Min(Seen), Max(Seen)))

string_repeat(me, n) ==     \* a negative count is a very large one
    IF n < 0 /\ me.value # << >> THEN Crash
    ELSE String(FlattenSeq([i \in 1..n |-> me.value]))

(* vector.cpp: join, on the texts of the elements.                          *)
vector_join(texts, glue) ==
    String(FoldLeftDomain(LAMBDA s, i : s \o texts[i] \o (IF i < Len(texts) THEN glue ELSE << >>),
                          << >>, texts))

(* A pattern of PCRE, as far as the code tells: the text it matches and     *)
(* whether it captures it.  Every capture is pushed; the search goes on at  *)
(* the end of the match, which an empty match does not move.                *)
string_regexp(me, pattern, compiles, captures) ==
    IF ~compiles THEN Exception
    ELSE IF ~captures THEN Number(IF Find(me.value, pattern, 0) = -1 THEN 0 ELSE 1)
    ELSE IF pattern = << >> THEN Hang
    ELSE Vector([i \in 1..(Len(Parts(me.value, pattern)) - 1) |-> pattern])

----------------------------------------------------------------------------
string_clone(me) == String(me.value)

string_cmp(me, op) ==       \* in the order of a dictionary
    IF me.value = op.value THEN 0
    ELSE IF \/ IsPrefix(op.value, me.value)
            \/ \E i \in DOMAIN me.value \cap DOMAIN op.value :
                  /\ SubSeq(me.value, 1, i - 1) = SubSeq(op.value, 1, i - 1)
                  /\ me.value[i].v > op.value[i].v
         THEN 1 ELSE -1

(* items stays what it was.                                                 *)
string_assign(me, op) ==
    IF op.t = "String" THEN Outcome([me EXCEPT !.value = op.value], Nothing)
    ELSE Outcome(me, op)

string_add(me, op) == String(me.value \o op.value)

\* Mutant of string_inplace_add: items stays.
string_inplace_addUncounted(me, op) ==
    [me EXCEPT !.value = @ \o op.value]

string_inplace_add(me, op) ==
    [me EXCEPT !.value = @ \o op.value, !.items = @ + Len(op.value)]

(* The characters are in memory up to the 0 that ends them; what follows is *)
(* not the string's.                                                        *)
string_cl_at(me, i) ==
    IF Outside(me, i) THEN Exception
    ELSE IF Index(i) < Len(me.value) THEN Item(me.value[Index(i) + 1])
    ELSE IF Index(i) = Len(me.value) THEN Item(Nul)
    ELSE Crash

(* A 0 erases the rest of the characters, and items stays.                  *)
string_cl_set(me, i, c) ==
    IF Outside(me, i) THEN Outcome(me, Exception)
    ELSE IF Index(i) > Len(me.value) THEN Outcome(me, Crash)
    ELSE IF c = Nul THEN Outcome([me EXCEPT !.value = SubSeq(@, 1, Index(i))], Nothing)
    ELSE IF Index(i) = Len(me.value) THEN Outcome(me, Nothing)
    ELSE Outcome([me EXCEPT !.value[Index(i) + 1] = c], Nothing)

(* A word of the input.                                                     *)
string_scanf(me, word) == [me EXCEPT !.value = word]

(* Bytes to a stream: as many as items says, whatever the string holds.     *)
string_serialize(me, size) ==
    [i \in 1..Selected(me, size) |-> IF i <= Len(me.value) THEN me.value[i] ELSE Nul]

string_to_fd(me, size) == string_serialize(me, size)

(* Reading up to a new line; with a size, the bytes are written over the    *)
(* pointer that should receive them.                                        *)
Line(buffer) == SubSeq(buffer, 1, SelectInSeq(buffer, LAMBDA c : c = Newline))
string_deserialize(me, buffer, size) ==
    IF size # 0 THEN Outcome(me, Crash)
    ELSE Outcome([me EXCEPT !.value = Line(buffer), !.items = Len(Line(buffer))], Nothing)

(* From a file: a buffer of the size, or a line, a 0 or the end, whose       *)
(* characters are counted on top of what items was.                         *)
string_from_fd(me, input, size) ==
    IF size # 0
    THEN IF input = << >> THEN me
         ELSE [me EXCEPT !.value = CString(SubSeq(input, 1, Min({size, Len(input)})))]
    ELSE LET end == SelectInSeq(input, LAMBDA c : c \in {Nul, Newline})
             read == IF end = 0 THEN input ELSE SubSeq(input, 1, end)
         IN  [me EXCEPT !.value = read, !.items = @ + Len(read)]
=============================================================================
