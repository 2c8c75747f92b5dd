-------------------------- MODULE CollectionsProofs --------------------------
(***************************************************************************)
(* Proofs about Collections, for any elements, characters and bounds, and  *)
(* for any widths of bytes and sizes.                                      *)
(*                                                                         *)
(* The invariant CInv adds two facts to the types: both collections are    *)
(* exact, but for a string that drifted, and no key of a map is taken for  *)
(* one that was put after it.  The lemmas before "The steps" are about the *)
(* operators: what each operation leaves is Sound, and what it answers is  *)
(* Good, an object of its type that is exact again.  Then the step of      *)
(* every action preserves CInv, and the properties follow from it.         *)
(***************************************************************************)
EXTENDS Collections, Foundations

(* Whatever is put after a key can be compared with it, and is not the same. *)
OneEach(c) ==
    c.t = "Map" =>
       \A i, j \in DOMAIN c.keys :
          i < j => Comparable(c.keys[i]) /\ ~Same(c.keys[i], c.keys[j])

CInv ==
    /\ TypeOK
    /\ Bounded(me, MaxItems)
    /\ drifted => Is("String")
    /\ ~drifted => Exact(me)
    /\ Exact(op)
    /\ OneEach(me)

(* An answer that can become the second collection. *)
Good(answer) == answer.t \in Kinds => answer \in CollectionObject /\ Exact(answer)
Kept(answer) == answer.t = me.t => answer \in CollectionObject /\ Exact(answer)

-----------------------------------------------------------------------------
(* Objects and answers. *)
LEMMA ListObjects ==
  ASSUME NEW kind \in Kinds, kind # "Map", NEW s \in Seq(Element)
  PROVE  /\ List(kind, s) \in CollectionObject
         /\ List(kind, s).t = kind
         /\ Exact(List(kind, s)) /\ OneEach(List(kind, s))
BY LenProperties DEF List, CollectionObject, Exact, OneEach

LEMMA Lists ==
  ASSUME NEW c \in CollectionObject, c.t # "Map"
  PROVE  /\ c.t \in Kinds /\ c.value \in Seq(Element) /\ c.items \in Nat
         /\ Len(c.value) \in Nat
         /\ DOMAIN c.value = 1 .. Len(c.value)
         /\ c = [t |-> c.t, value |-> c.value, items |-> c.items]
         /\ OneEach(c)
BY LenProperties DEF CollectionObject, OneEach

LEMMA Tables ==
  ASSUME NEW c \in CollectionObject, c.t = "Map"
  PROVE  /\ c.t \in Kinds /\ c.items \in Nat
         /\ c.keys \in Seq(Keys) /\ c.values \in Seq(Values)
         /\ Len(c.keys) \in Nat /\ Len(c.values) \in Nat
         /\ DOMAIN c.keys = 1 .. Len(c.keys) /\ DOMAIN c.values = 1 .. Len(c.values)
         /\ c = [t |-> "Map", keys |-> c.keys, values |-> c.values, items |-> c.items]
BY LenProperties DEF CollectionObject

LEMMA Numbers ==
  /\ \A n : Good(Number(n)) /\ Good(Item(n)) /\ Good(Truth(n))
  /\ Good(Nothing) /\ Good(Exception) /\ Good(Error) /\ Good(Crash) /\ Good(Hang)
BY ElementsAssumption DEF Good, Number, Item, Truth, Nothing, Exception, Error, Crash, Hang

LEMMA GoodKept ==
  ASSUME CInv, NEW answer, Good(answer)
  PROVE  Kept(answer)
<1>1. me.t \in Kinds
  BY DEF CInv, TypeOK, CollectionObject
<1> QED
  BY <1>1 DEF Good, Kept

LEMMA SettledInv ==
  ASSUME CInv, NEW outcome, Settle(outcome),
         outcome.left \in CollectionObject, outcome.left.t = me.t, Kept(outcome.answer)
  PROVE  /\ me' = outcome.left /\ me' \in CollectionObject /\ me'.t = me.t
         /\ me'.items <= MaxItems /\ Bounded(me, MaxItems)'
         /\ op' \in CollectionObject /\ op'.t = me'.t /\ Exact(op)'
         /\ status' \in {"running", "hyb_error", "signal", "hang"}
<1>1. /\ status' = IF outcome.answer \in {Error, Crash, Hang} THEN outcome.answer.t ELSE "running"
      /\ op' = IF outcome.answer.t = me.t /\ Bounded(outcome.answer, KeptItems) THEN outcome.answer ELSE op
      /\ me' = outcome.left
      /\ Bounded(outcome.left, MaxItems)
  BY DEF Settle, Given
<1>2. status' \in {"running", "hyb_error", "signal", "hang"}
  BY <1>1 DEF Error, Crash, Hang
<1>3. me.t \in Kinds
  BY DEF CInv, TypeOK, CollectionObject
<1>4. op' \in CollectionObject /\ op'.t = me.t /\ Exact(op')
  BY <1>1, <1>3 DEF Kept, CInv, TypeOK
<1>5. Exact(op)'
  BY <1>4 DEF Exact
<1>6. Bounded(me, MaxItems)' /\ me'.items <= MaxItems
  BY <1>1 DEF Bounded
<1> QED
  BY <1>1, <1>2, <1>4, <1>5, <1>6

Preserved == CInv' /\ me'.t = me.t

LEMMA StepInv ==
  ASSUME CInv, NEW outcome, Settle(outcome), drifted' \in BOOLEAN, drifted' => Is("String"),
         outcome.left \in CollectionObject, outcome.left.t = me.t, OneEach(outcome.left),
         ~drifted' => Exact(outcome.left), Kept(outcome.answer)
  PROVE  Preserved
<1>2. /\ me' = outcome.left /\ me' \in CollectionObject /\ me'.t = me.t
      /\ me'.items <= MaxItems /\ Bounded(me, MaxItems)'
      /\ op' \in CollectionObject /\ op'.t = me'.t /\ Exact(op)'
      /\ status' \in {"running", "hyb_error", "signal", "hang"}
  BY SettledInv
<1>3. (~drifted)' => Exact(me)'
  BY <1>2 DEF Exact
<1>4. OneEach(me)'
  BY <1>2 DEF OneEach
<1>5. (drifted => Is("String"))'
  BY <1>2 DEF Is
<1>6. TypeOK'
  <2>2. CollectionObject' = CollectionObject
    BY DEF CollectionObject
  <2> QED
    BY <1>2, <2>2 DEF TypeOK
<1> QED
  BY <1>2, <1>3, <1>4, <1>5, <1>6 DEF CInv, Preserved

LEMMA KeepsInv ==
  ASSUME CInv, NEW outcome, Keeps(outcome),
         outcome.left \in CollectionObject, outcome.left.t = me.t, OneEach(outcome.left),
         ~drifted => Exact(outcome.left), Kept(outcome.answer)
  PROVE  Preserved
<1>1. Settle(outcome) /\ drifted' = drifted
  BY DEF Keeps
<1>2. drifted' \in BOOLEAN /\ (drifted' => Is("String")) /\ (~drifted' => Exact(outcome.left))
  BY <1>1 DEF CInv, TypeOK
<1> QED
  BY <1>1, <1>2, StepInv

LEMMA AnswersInv ==
  ASSUME CInv, NEW answer, Answers(answer), Kept(answer)
  PROVE  Preserved
<1>1. Keeps(Outcome(me, answer))
  BY DEF Answers
<1>2. Outcome(me, answer).left = me /\ Outcome(me, answer).answer = answer
  BY DEF Outcome
<1>3. me \in CollectionObject /\ OneEach(me) /\ (~drifted => Exact(me))
  BY DEF CInv, TypeOK
<1> QED
  BY <1>1, <1>2, <1>3, KeepsInv

-----------------------------------------------------------------------------
(* The lists: push, pop, remove and set. *)
LEMMA ListRecord ==
  ASSUME NEW kind \in Kinds, kind # "Map", NEW s \in Seq(Element), NEW n \in Nat,
         NEW d, d = [t |-> kind, value |-> s, items |-> n]
  PROVE  /\ d \in CollectionObject /\ d.t = kind /\ OneEach(d)
         /\ n = Len(s) => Exact(d)
BY DEF CollectionObject, OneEach, Exact

LEMMA ListUpdate ==
  ASSUME NEW c \in CollectionObject, c.t # "Map", NEW s, NEW n
  PROVE  /\ [c EXCEPT !.value = s, !.items = n] = [t |-> c.t, value |-> s, items |-> n]
         /\ [c EXCEPT !.value = s] = [t |-> c.t, value |-> s, items |-> c.items]
<1>1. PICK k, v, i : c = [t |-> k, value |-> v, items |-> i]
  BY Lists
<1>3. [c EXCEPT !.value = s] = [t |-> k, value |-> s, items |-> i]
  BY <1>1
<1>2. [c EXCEPT !.value = s, !.items = n] = [t |-> k, value |-> s, items |-> n]
  <2>1. PICK d : d = [c EXCEPT !.value = s]
    OBVIOUS
  <2>0. d = [t |-> k, value |-> s, items |-> i]
    BY <1>3, <2>1
  <2>2. [d EXCEPT !.items = n] = [t |-> k, value |-> s, items |-> n]
    BY <2>0
  <2>3. [c EXCEPT !.value = s, !.items = n] = [d EXCEPT !.items = n]
    BY <2>1
  <2> QED
    BY <2>2, <2>3
<1>4. c.t = k /\ c.items = i
  BY <1>1
<1> QED
  BY <1>2, <1>3, <1>4

LEMMA MapRecord ==
  ASSUME "Map" \in Kinds, NEW ks \in Seq(Keys), NEW vs \in Seq(Values), NEW n \in Nat
  PROVE  /\ MapOf(ks, vs, n) \in CollectionObject
         /\ MapOf(ks, vs, n).t = "Map" /\ MapOf(ks, vs, n).keys = ks
         /\ MapOf(ks, vs, n).values = vs /\ MapOf(ks, vs, n).items = n
BY DEF CollectionObject, MapOf

(* An object that keeps count, and a change that keeps it so. *)
Sound(c, d) == d \in CollectionObject /\ d.t = c.t /\ Exact(d) /\ OneEach(d)

LEMMA SoundUpdate ==
  ASSUME NEW c \in CollectionObject, c.t # "Map", NEW s \in Seq(Element)
  PROVE  /\ Sound(c, [c EXCEPT !.value = s, !.items = Len(s)])
         /\ c.items = Len(s) => Sound(c, [c EXCEPT !.value = s])
<1>1. PICK n \in Nat : n = Len(s)
  BY LenProperties
<1>2. PICK d : d = [t |-> c.t, value |-> s, items |-> n]
  OBVIOUS
<1>3. d \in CollectionObject /\ d.t = c.t /\ OneEach(d) /\ (n = Len(s) => Exact(d))
  BY <1>2, ListRecord, Lists
<1>4. /\ [c EXCEPT !.value = s, !.items = Len(s)] = d
      /\ c.items = Len(s) => [c EXCEPT !.value = s] = d
  <2>1. PICK e, f : e = [c EXCEPT !.value = s, !.items = Len(s)] /\ f = [c EXCEPT !.value = s]
    OBVIOUS
  <2>2. e = [t |-> c.t, value |-> s, items |-> Len(s)] /\ f = [t |-> c.t, value |-> s, items |-> c.items]
    BY <2>1, ListUpdate, Zenon
  <2>3. e = d /\ (c.items = Len(s) => f = d)
    BY <1>1, <1>2, <2>2
  <2> QED
    BY <2>1, <2>3, Zenon
<1> QED
  BY <1>1, <1>3, <1>4 DEF Sound

LEMMA FreeSound ==
  ASSUME NEW c \in CollectionObject
  PROVE  /\ c.t # "Map" => Sound(c, vector_free(c))
         /\ c.t = "Map" => Sound(c, map_free(c))
<1>0. << >> \in Seq(Element) /\ << >> \in Seq(Keys) /\ << >> \in Seq(Values) /\ Len(<< >>) = 0
  BY EmptySeq
<1>1. CASE c.t # "Map"
  <2>1. vector_free(c) = [c EXCEPT !.value = << >>, !.items = Len(<< >>)]
    BY <1>0 DEF vector_free
  <2>2. Sound(c, [c EXCEPT !.value = << >>, !.items = Len(<< >>)])
    BY <1>0, <1>1, SoundUpdate, Zenon
  <2> QED
    BY <1>1, <2>1, <2>2
<1>2. CASE c.t = "Map"
  <2> DEFINE d == MapOf(<< >>, << >>, 0)
  <2>1. d \in CollectionObject /\ d.t = "Map" /\ d.keys = << >> /\ d.values = << >> /\ d.items = 0
    <3>1. "Map" \in Kinds
      BY <1>2, Tables
    <3> QED
      BY <1>0, <3>1 DEF MapOf, CollectionObject
  <2>2. OneEach(d) /\ Exact(d)
    BY <1>0, <2>1 DEF OneEach, Exact
  <2> QED
    BY <1>2, <2>1, <2>2 DEF Sound, map_free
<1> QED
  BY <1>1, <1>2

LEMMA PushSound ==
  ASSUME NEW c \in CollectionObject, c.t # "Map", Exact(c), NEW e \in Element
  PROVE  Sound(c, vector_cl_push(c, e))
<1>1. c.value \in Seq(Element) /\ c.items = Len(c.value) /\ c.items \in Nat
  BY Lists DEF Exact
<1>2. Append(c.value, e) \in Seq(Element) /\ Len(Append(c.value, e)) = c.items + 1
  BY <1>1, AppendProperties
<1>3. vector_cl_push(c, e) = [c EXCEPT !.value = Append(c.value, e), !.items = Len(Append(c.value, e))]
  BY <1>2 DEF vector_cl_push
<1>4. Sound(c, [c EXCEPT !.value = Append(c.value, e), !.items = Len(Append(c.value, e))])
  BY <1>2, SoundUpdate, Zenon
<1> QED
  BY <1>3, <1>4

LEMMA PopSound ==
  ASSUME NEW c \in CollectionObject, c.t # "Map", Exact(c)
  PROVE  Sound(c, vector_cl_pop(c).left) /\ Good(vector_cl_pop(c).answer)
<1>1. c.value \in Seq(Element) /\ c.items = Len(c.value) /\ c.items \in Nat
  BY Lists DEF Exact
<1>2. CASE c.items = 0
  <2>1. vector_cl_pop(c).left = c /\ vector_cl_pop(c).answer = Exception
    BY <1>2 DEF vector_cl_pop, Outcome
  <2> QED
    BY <2>1, Lists, Numbers DEF Sound
<1>3. CASE c.items # 0
  <2>1. c.value # << >>
    BY <1>1, <1>3, EmptySeq
  <2>2. Front(c.value) \in Seq(Element) /\ Len(Front(c.value)) = c.items - 1
    BY <1>1, <1>3, <2>1, FrontProperties
  <2>3. /\ vector_cl_pop(c).left
               = [c EXCEPT !.value = Front(c.value), !.items = Len(Front(c.value))]
        /\ vector_cl_pop(c).answer = Item(c.value[c.items])
    BY <1>3, <2>2 DEF vector_cl_pop, Outcome
  <2>4. Sound(c, [c EXCEPT !.value = Front(c.value), !.items = Len(Front(c.value))])
    BY <2>2, SoundUpdate, Zenon
  <2> QED
    BY <2>3, <2>4, Numbers
<1> QED
  BY <1>2, <1>3

LEMMA IndexRange ==
  ASSUME NEW i \in Int
  PROVE  Index(i) \in Nat
BY WidthsAssumption DEF Index

LEMMA RemoveSound ==
  ASSUME NEW c \in CollectionObject, c.t # "Map", Exact(c), NEW i \in Int
  PROVE  Sound(c, vector_cl_remove(c, i).left) /\ Good(vector_cl_remove(c, i).answer)
<1>1. c.value \in Seq(Element) /\ c.items = Len(c.value) /\ c.items \in Nat /\ Index(i) \in Nat
  BY Lists, IndexRange DEF Exact
<1>2. CASE Outside(c, i)
  <2>1. vector_cl_remove(c, i).left = c /\ vector_cl_remove(c, i).answer = Exception
    BY <1>2 DEF vector_cl_remove, Outcome
  <2> QED
    BY <2>1, Lists, Numbers DEF Sound
<1>3. CASE ~Outside(c, i)
  <2>1. Index(i) + 1 \in 1 .. Len(c.value)
    BY <1>1, <1>3 DEF Outside
  <2>2. /\ RemoveAt(c.value, Index(i) + 1) \in Seq(Element)
        /\ Len(RemoveAt(c.value, Index(i) + 1)) = c.items - 1
    <3>1. Len(RemoveAt(c.value, Index(i) + 1)) = Len(c.value) - 1
      BY <1>1, <2>1, RemoveAtProperties
    <3> QED
      BY <1>1, <2>1, <3>1, RemoveAtProperties
  <2> DEFINE s == RemoveAt(c.value, Index(i) + 1)
  <2>3. /\ vector_cl_remove(c, i).left = [c EXCEPT !.value = s, !.items = Len(s)]
        /\ vector_cl_remove(c, i).answer = Item(c.value[Index(i) + 1])
    BY <1>3, <2>2 DEF vector_cl_remove, Outcome
  <2> HIDE DEF s
  <2>4. Sound(c, [c EXCEPT !.value = s, !.items = Len(s)])
    BY <2>2, SoundUpdate, Zenon DEF s
  <2> QED
    BY <2>3, <2>4, Numbers
<1> QED
  BY <1>2, <1>3

LEMMA SetSound ==
  ASSUME NEW c \in CollectionObject, c.t # "Map", Exact(c), NEW i \in Int, NEW v \in Element
  PROVE  Sound(c, vector_cl_set(c, i, v).left) /\ Good(vector_cl_set(c, i, v).answer)
<1>1. c.value \in Seq(Element) /\ c.items = Len(c.value) /\ c.items \in Nat /\ Index(i) \in Nat
  BY Lists, IndexRange DEF Exact
<1>2. CASE Outside(c, i)
  <2>1. vector_cl_set(c, i, v).left = c /\ vector_cl_set(c, i, v).answer = Exception
    BY <1>2 DEF vector_cl_set, Outcome
  <2> QED
    BY <2>1, Lists, Numbers DEF Sound
<1>3. CASE ~Outside(c, i)
  <2> DEFINE s == [c.value EXCEPT ![Index(i) + 1] = v]
  <2>1. Index(i) + 1 \in 1 .. Len(c.value)
    BY <1>1, <1>3 DEF Outside
  <2>2. s \in Seq(Element) /\ Len(s) = c.items
    BY <1>1, <2>1, ExceptSeq
  <2>3. /\ vector_cl_set(c, i, v).left = [c EXCEPT !.value = s]
        /\ vector_cl_set(c, i, v).answer = Nothing
    BY <1>3 DEF vector_cl_set, Outcome
  <2> HIDE DEF s
  <2>4. Sound(c, [c EXCEPT !.value = s])
    BY <2>2, <1>1, SoundUpdate, Zenon
  <2> QED
    BY <2>3, <2>4, Numbers
<1> QED
  BY <1>2, <1>3

-----------------------------------------------------------------------------
(* The maps: finding a key, pop, remove and set. *)
(* What an element is as a whole number is one, and as a byte is one that an *)
(* element holds.                                                           *)
LEMMA WholeNumbers ==
  ASSUME NEW e \in Element
  PROVE  ivalue(e) \in Int /\ Byte(ivalue(e)) \in Int /\ Integer(Byte(ivalue(e))) \in Element
<1>1. e.v \in Quantities /\ e.v \in Int /\ Atol(e.v) \in Int
  BY ConversionsAssumption DEF Element
<1>2. ToLong(e.v) \in Int
  <2>1. Truncated(e.v) \in Int
    <3>1. e.v >= 0 => e.v \div 2 \in Int
      BY <1>1
    <3>2. e.v < 0 => -((-e.v) \div 2) \in Int
      BY <1>1
    <3> QED
      BY <1>1, <3>1, <3>2 DEF Truncated
  <2>2. PICK w \in Nat : w = 2^(SizeBits - 1)
    BY WidthsAssumption
  <2>3. ToLong(e.v) = Truncated(e.v) \/ ToLong(e.v) = -w
    BY <2>2 DEF ToLong
  <2> QED
    BY <2>1, <2>2, <2>3
<1>3. ivalue(e) \in Int
  BY <1>1, <1>2 DEF ivalue
<1>4. PICK w \in Nat \ {0} : w = 2^ByteBits
  BY WidthsAssumption
<1>5. ivalue(e) % w \in 0 .. w - 1
  BY <1>3, <1>4
<1>6. Byte(ivalue(e)) \in Quantities /\ Byte(ivalue(e)) \in Int
  BY <1>4, <1>5, ConversionsAssumption DEF Byte
<1> QED
  BY <1>3, <1>6 DEF Integer, Element

(* Elements of one type that have a cmp, and are not NaN, compare by what   *)
(* they hold.                                                               *)
Plain(a, b) == a.t = b.t /\ Comparable(a) /\ ~IsNaN(a) /\ ~IsNaN(b)

LEMMA PlainBoth ==
  ASSUME NEW a, NEW b, Plain(a, b)
  PROVE  Plain(b, a)
BY DEF Plain, Comparable

LEMMA AlikeOrder ==
  ASSUME NEW a \in Element, NEW b \in Element, Plain(a, b)
  PROVE  /\ Same(a, b) <=> a = b
         /\ element_cmp(a, b) = -element_cmp(b, a)
         /\ a # b => a.v # b.v
<1>1. a.v \in Int /\ b.v \in Int /\ (a.v = b.v => a = b)
  <2>1. a.v \in Int /\ b.v \in Int
    BY ConversionsAssumption DEF Element
  <2>2. a = [t |-> a.t, v |-> a.v] /\ b = [t |-> b.t, v |-> b.v]
    BY DEF Element
  <2> QED
    BY <2>1, <2>2 DEF Plain
<1>2. element_cmp(a, b) = c_cmp(a.v, b.v) /\ element_cmp(b, a) = c_cmp(b.v, a.v)
  <2>1. CASE a.t = "Float"
    <3>1. a.v # NaN /\ b.v # NaN /\ fvalue(a) = a.v /\ fvalue(b) = b.v /\ b.t = "Float"
      BY <2>1 DEF Plain, IsNaN, fvalue
    <3> QED
      BY <2>1, <3>1 DEF element_cmp
  <2>2. CASE a.t = "String"
    BY <2>2 DEF Plain, element_cmp, svalue
  <2>3. CASE a.t # "Float" /\ a.t # "String"
    BY <2>3 DEF Plain, element_cmp, ivalue
  <2> QED
    BY <2>1, <2>2, <2>3
<1>3. c_cmp(a.v, b.v) = -c_cmp(b.v, a.v) /\ (c_cmp(a.v, b.v) = 0 <=> a.v = b.v)
  BY <1>1 DEF c_cmp
<1> QED
  BY <1>1, <1>2, <1>3 DEF Same

At(c, key) == {i \in 1 .. c.items : Same(c.keys[i], key)}

LEMMA FoundKey ==
  ASSUME NEW c \in CollectionObject, c.t = "Map", Exact(c), NEW key
  PROVE  /\ Mapped(c, key) <=> At(c, key) # {}
         /\ Mapped(c, key) => /\ map_find(c, key) + 1 \in At(c, key)
                              /\ \A i \in At(c, key) : map_find(c, key) + 1 <= i
         /\ map_find(c, key) \in Int
<1>1. /\ c.keys \in Seq(Keys) /\ c.items \in Nat /\ c.items = Len(c.keys)
  BY Tables DEF Exact
<1>4. map_find(c, key) = IF At(c, key) = {} THEN -1 ELSE Min(At(c, key)) - 1
  BY DEF map_find, At
<1>5. At(c, key) # {} => Min(At(c, key)) \in At(c, key) /\ \A i \in At(c, key) : Min(At(c, key)) <= i
  <2>1. At(c, key) \subseteq {i \in Int : i >= 1}
    BY <1>1 DEF At
  <2> QED
    BY <2>1, Minimum
<1>6. At(c, key) \subseteq 1 .. c.items
  BY DEF At
<1>7. CASE At(c, key) = {}
  <2>1. map_find(c, key) = -1
    BY <1>4, <1>7
  <2> QED
    BY <1>7, <2>1 DEF Mapped
<1>8. CASE At(c, key) # {}
  <2>1. PICK n \in 1 .. c.items : n = Min(At(c, key)) /\ n \in At(c, key) /\ \A i \in At(c, key) : n <= i
    BY <1>5, <1>6, <1>8
  <2>2. map_find(c, key) = n - 1
    BY <1>4, <1>8, <2>1
  <2>3. n \in Int /\ n - 1 # -1 /\ n - 1 + 1 = n
    BY <1>1, <2>1
  <2>4. Mapped(c, key) /\ map_find(c, key) + 1 = n /\ map_find(c, key) \in Int
    BY <2>2, <2>3 DEF Mapped
  <2> QED
    BY <1>8, <2>1, <2>4
<1> QED
  BY <1>7, <1>8

(* What a search that ends the program nowhere has found: the first key that *)
(* is the same, which has a cmp, or that all have one and none is.          *)
LEMMA SearchRight ==
  ASSUME NEW c \in CollectionObject, c.t = "Map", Exact(c), NEW key, ~Stops(c.keys, key)
  PROVE  /\ Mapped(c, key) => \E p \in 1 .. Len(c.keys) :
                                 /\ p = map_find(c, key) + 1
                                 /\ TakenFor(c.keys[p], key)
         /\ ~Mapped(c, key) => \A i \in 1 .. Len(c.keys) :
                                 Comparable(c.keys[i]) /\ ~Same(c.keys[i], key)
<1>1. PICK n \in Nat : n = c.items /\ n = Len(c.keys) /\ DOMAIN c.keys = 1 .. n
  BY Tables DEF Exact
<1>2. \A i \in 1 .. n : ~Comparable(c.keys[i]) => \E j \in 1 .. i - 1 : Same(c.keys[j], key)
  BY <1>1 DEF Stops
<1>3. CASE Mapped(c, key)
  <2>1. PICK p \in 1 .. n : p = map_find(c, key) + 1 /\ p \in At(c, key) /\ \A i \in At(c, key) : p <= i
    <3>1. map_find(c, key) + 1 \in At(c, key) /\ \A i \in At(c, key) : map_find(c, key) + 1 <= i
      BY <1>3, FoundKey
    <3>2. At(c, key) \subseteq 1 .. n
      BY <1>1 DEF At
    <3> QED
      BY <3>1, <3>2
  <2>2. Same(c.keys[p], key)
    BY <2>1 DEF At
  <2>3. \A j \in 1 .. p - 1 : ~Same(c.keys[j], key)
    <3> SUFFICES ASSUME NEW j \in 1 .. p - 1, Same(c.keys[j], key) PROVE FALSE
      OBVIOUS
    <3>1. j \in 1 .. c.items /\ ~(p <= j)
      BY <1>1, <2>1
    <3> QED
      BY <2>1, <3>1 DEF At
  <2>4. Comparable(c.keys[p])
    BY <1>2, <2>3
  <2> QED
    BY <1>1, <1>3, <2>1, <2>2, <2>4 DEF TakenFor
<1>4. CASE ~Mapped(c, key)
  <2>1. \A i \in 1 .. n : ~Same(c.keys[i], key)
    <3>1. At(c, key) = {}
      BY <1>4, FoundKey
    <3> QED
      BY <1>1, <3>1 DEF At
  <2>2. ASSUME NEW i \in 1 .. n PROVE Comparable(c.keys[i])
    <3>1. \A j \in 1 .. i - 1 : j \in 1 .. n
      OBVIOUS
    <3> QED
      BY <1>2, <2>1, <3>1
  <2> QED
    BY <1>1, <1>4, <2>1, <2>2
<1> QED
  BY <1>3, <1>4

(* What a map says of a key that is taken for itself. *)
LEMMA AtRight ==
  ASSUME NEW c \in CollectionObject, c.t = "Map", Exact(c), OneEach(c), NEW i \in 1 .. Len(c.keys),
         TakenFor(c.keys[i], c.keys[i])
  PROVE  /\ \A j \in 1 .. Len(c.keys) : c.keys[j] = c.keys[i] => j = i
         /\ map_cl_at(c, c.keys[i]) = Item(c.values[i])
<1>1. PICK n \in Nat : n = c.items /\ n = Len(c.keys) /\ DOMAIN c.keys = 1 .. n
  BY Tables DEF Exact
<1>2. PICK k : k = c.keys[i] /\ Comparable(k) /\ Same(k, k)
  BY DEF TakenFor
<1>3. \A j \in 1 .. n : j < i => Comparable(c.keys[j]) /\ ~Same(c.keys[j], k)
  BY <1>1, <1>2 DEF OneEach
<1>4. \A j \in 1 .. n : j > i => c.keys[j] # k
  <2> SUFFICES ASSUME NEW j \in 1 .. n, j > i, c.keys[j] = k PROVE FALSE
    OBVIOUS
  <2>1. ~Same(c.keys[i], c.keys[j])
    BY <1>1 DEF OneEach
  <2> QED
    BY <1>2, <2>1
<1>5. \A j \in 1 .. n : c.keys[j] = k => j = i
  BY <1>1, <1>2, <1>3, <1>4
<1>6. ~Stops(c.keys, k)
  <2> SUFFICES ASSUME NEW j \in 1 .. n, ~Comparable(c.keys[j]),
                      \A l \in 1 .. (j - 1) : ~Same(c.keys[l], k)
               PROVE  FALSE
    BY <1>1 DEF Stops
  <2>1. ~(j < i) /\ j # i
    BY <1>2, <1>3
  <2>2. i \in 1 .. (j - 1)
    BY <1>1, <2>1
  <2> QED
    BY <1>2, <2>2
<1>7. Mapped(c, k) /\ map_find(c, k) + 1 = i
  <2>1. i \in At(c, k)
    BY <1>1, <1>2 DEF At
  <2>2. Mapped(c, k)
    BY <2>1, FoundKey
  <2>3. PICK p \in 1 .. n : p = map_find(c, k) + 1 /\ p <= i /\ Same(c.keys[p], k)
    <3>1. map_find(c, k) + 1 \in At(c, k) /\ map_find(c, k) + 1 <= i
      BY <2>1, <2>2, FoundKey
    <3> QED
      BY <1>1, <3>1 DEF At
  <2>4. ~(p < i)
    BY <1>3, <2>3
  <2> QED
    BY <1>1, <2>2, <2>3, <2>4
<1> QED
  BY <1>1, <1>2, <1>5, <1>6, <1>7 DEF map_cl_at

LEMMA NotAtRight ==
  ASSUME NEW c \in CollectionObject, c.t = "Map", Exact(c), NEW key,
         \A x \in Range(c.keys) : Comparable(x) /\ ~Same(x, key)
  PROVE  map_cl_at(c, key) = Exception
<1>1. DOMAIN c.keys = 1 .. Len(c.keys) /\ c.items = Len(c.keys)
  BY Tables DEF Exact
<1>2. \A i \in 1 .. Len(c.keys) : Comparable(c.keys[i]) /\ ~Same(c.keys[i], key)
  BY <1>1 DEF Range
<1>3. ~Stops(c.keys, key)
  BY <1>1, <1>2 DEF Stops
<1>4. ~Mapped(c, key)
  <2>1. At(c, key) = {}
    BY <1>1, <1>2 DEF At
  <2> QED
    BY <2>1, FoundKey
<1> QED
  BY <1>3, <1>4 DEF map_cl_at

LEMMA MapPopSound ==
  ASSUME NEW c \in CollectionObject, c.t = "Map", Exact(c), OneEach(c)
  PROVE  Sound(c, map_cl_pop(c).left) /\ Good(map_cl_pop(c).answer)
<1>1. /\ c.keys \in Seq(Keys) /\ c.values \in Seq(Values) /\ "Map" \in Kinds
      /\ DOMAIN c.keys = 1 .. Len(c.keys)
  BY Tables
<1>2. PICK n \in Nat : n = c.items /\ n = Len(c.keys) /\ n = Len(c.values)
  BY Tables DEF Exact
<1>3. CASE n = 0
  <2>1. map_cl_pop(c).left = c /\ map_cl_pop(c).answer = Crash
    BY <1>2, <1>3 DEF map_cl_pop, Outcome
  <2> QED
    BY <2>1, Numbers DEF Sound
<1>4. CASE n # 0
  <2> DEFINE d == MapOf(Front(c.keys), Front(c.values), c.items - 1)
  <2>1. c.keys # << >> /\ c.values # << >>
    BY <1>1, <1>2, <1>4, EmptySeq
  <2>2. /\ Front(c.keys) \in Seq(Keys) /\ Len(Front(c.keys)) = n - 1
        /\ \A i \in 1 .. n - 1 : Front(c.keys)[i] = c.keys[i]
        /\ Front(c.values) \in Seq(Values) /\ Len(Front(c.values)) = n - 1
    BY <1>1, <1>2, <2>1, FrontProperties
  <2>3. n - 1 \in Nat /\ c.items - 1 = n - 1
    BY <1>2, <1>4
  <2>4. /\ d \in CollectionObject /\ d.t = "Map" /\ d.keys = Front(c.keys)
        /\ d.values = Front(c.values) /\ d.items = n - 1
    BY <1>1, <2>2, <2>3, MapRecord
  <2>5. map_cl_pop(c).left = d /\ map_cl_pop(c).answer = Item(c.values[c.items])
    BY <1>2, <1>4 DEF map_cl_pop, Outcome
  <2> HIDE DEF d
  <2>6. Exact(d)
    BY <2>2, <2>4 DEF Exact
  <2>7. OneEach(d)
    <3>1. DOMAIN d.keys = 1 .. n - 1
      BY <2>2, <2>4, LenProperties
    <3>2. ASSUME NEW i \in 1 .. n - 1, NEW j \in 1 .. n - 1, i < j
          PROVE  Comparable(d.keys[i]) /\ ~Same(d.keys[i], d.keys[j])
      <4>1. i \in DOMAIN c.keys /\ j \in DOMAIN c.keys
        BY <1>1, <1>2
      <4>2. Comparable(c.keys[i]) /\ ~Same(c.keys[i], c.keys[j])
        BY <3>2, <4>1 DEF OneEach
      <4> QED
        BY <2>2, <2>4, <4>2
    <3> QED
      BY <3>1, <3>2 DEF OneEach
  <2> QED
    BY <2>4, <2>5, <2>6, <2>7, Numbers DEF Sound
<1> QED
  BY <1>3, <1>4

LEMMA MapRemoveSound ==
  ASSUME NEW c \in CollectionObject, c.t = "Map", Exact(c), OneEach(c), NEW key
  PROVE  Sound(c, map_cl_remove(c, key).left) /\ Good(map_cl_remove(c, key).answer)
<1>1. /\ c.keys \in Seq(Keys) /\ c.values \in Seq(Values) /\ "Map" \in Kinds
      /\ DOMAIN c.keys = 1 .. Len(c.keys)
  BY Tables
<1>2. PICK n \in Nat : n = c.items /\ n = Len(c.keys) /\ n = Len(c.values)
  BY Tables DEF Exact
<1>0. CASE Stops(c.keys, key)
  <2>1. map_cl_remove(c, key).left = c /\ map_cl_remove(c, key).answer = Error
    BY <1>0 DEF map_cl_remove, Outcome
  <2> QED
    BY <2>1, Numbers DEF Sound
<1>3. CASE ~Stops(c.keys, key) /\ ~Mapped(c, key)
  <2>1. map_cl_remove(c, key).left = c /\ map_cl_remove(c, key).answer = c
    BY <1>3 DEF map_cl_remove, Outcome
  <2> QED
    BY <2>1 DEF Sound, Good
<1>4. CASE ~Stops(c.keys, key) /\ Mapped(c, key)
  <2>1. PICK p \in 1 .. n : p = map_find(c, key) + 1
    <3>1. map_find(c, key) + 1 \in At(c, key)
      BY <1>4, FoundKey
    <3> QED
      BY <1>2, <3>1 DEF At
  <2>2. /\ RemoveAt(c.keys, p) \in Seq(Keys) /\ Len(RemoveAt(c.keys, p)) = n - 1
        /\ \A i \in 1 .. n - 1 : RemoveAt(c.keys, p)[i] = IF i < p THEN c.keys[i] ELSE c.keys[i + 1]
    <3>1. PICK ks \in Seq(Keys) : ks = c.keys /\ n = Len(ks)
      BY <1>1, <1>2
    <3>0. n = Len(ks)
      BY <3>1
    <3>2. RemoveAt(ks, p) \in Seq(Keys) /\ Len(RemoveAt(ks, p)) = n - 1
      BY <3>0, Removal
    <3>3. \A i \in 1 .. n - 1 : RemoveAt(ks, p)[i] = IF i < p THEN ks[i] ELSE ks[i + 1]
      BY <3>0, Removal
    <3> QED
      BY <3>1, <3>2, <3>3
  <2>3. /\ RemoveAt(c.values, p) \in Seq(Values) /\ Len(RemoveAt(c.values, p)) = n - 1
    <3>1. PICK vs \in Seq(Values) : vs = c.values /\ n = Len(vs)
      BY <1>1, <1>2
    <3>0. n = Len(vs)
      BY <3>1
    <3>2. RemoveAt(vs, p) \in Seq(Values) /\ Len(RemoveAt(vs, p)) = n - 1
      BY <3>0, Removal
    <3> QED
      BY <3>1, <3>2
  <2> DEFINE d == MapOf(RemoveAt(c.keys, p), RemoveAt(c.values, p), c.items - 1)
  <2>4. n - 1 \in Nat /\ c.items - 1 = n - 1
    BY <1>2
  <2>5. /\ d \in CollectionObject /\ d.t = "Map" /\ d.keys = RemoveAt(c.keys, p)
        /\ d.values = RemoveAt(c.values, p) /\ d.items = n - 1
    BY <1>1, <2>2, <2>3, <2>4, MapRecord
  <2>6. map_cl_remove(c, key).left = d /\ map_cl_remove(c, key).answer = Item(c.values[p])
    BY <1>4, <2>1 DEF map_cl_remove, Outcome
  <2> HIDE DEF d
  <2>7. Exact(d)
    BY <2>2, <2>3, <2>5 DEF Exact
  <2>8. OneEach(d)
    <3>1. DOMAIN d.keys = 1 .. n - 1
      BY <2>2, <2>5, LenProperties
    <3>2. ASSUME NEW i \in 1 .. n - 1, NEW j \in 1 .. n - 1, i < j
          PROVE  Comparable(d.keys[i]) /\ ~Same(d.keys[i], d.keys[j])
      <4> DEFINE from(x) == IF x < p THEN x ELSE x + 1
      <4>1. d.keys[i] = c.keys[from(i)] /\ d.keys[j] = c.keys[from(j)]
        BY <2>2, <2>5
      <4>2. from(i) \in DOMAIN c.keys /\ from(j) \in DOMAIN c.keys
        BY <1>1, <1>2
      <4>3. from(i) < from(j)
        BY <3>2
      <4> HIDE DEF from
      <4> QED
        BY <4>1, <4>2, <4>3 DEF OneEach
    <3> QED
      BY <3>1, <3>2 DEF OneEach
  <2> QED
    BY <2>5, <2>6, <2>7, <2>8, Numbers DEF Sound
<1> QED
  BY <1>0, <1>3, <1>4

LEMMA MapSetSound ==
  ASSUME NEW c \in CollectionObject, c.t = "Map", Exact(c), OneEach(c),
         NEW key \in Keys, NEW v \in Values
  PROVE  Sound(c, map_cl_set(c, key, v).left) /\ Good(map_cl_set(c, key, v).answer)
<1>1. /\ c.keys \in Seq(Keys) /\ c.values \in Seq(Values) /\ "Map" \in Kinds
      /\ DOMAIN c.keys = 1 .. Len(c.keys)
  BY Tables
<1>2. PICK n \in Nat : n = c.items /\ n = Len(c.keys) /\ n = Len(c.values)
  BY Tables DEF Exact
<1>0. CASE Stops(c.keys, key)
  <2>1. map_cl_set(c, key, v).left = c /\ map_cl_set(c, key, v).answer = Error
    BY <1>0 DEF map_cl_set, Outcome
  <2> QED
    BY <2>1, Numbers DEF Sound
<1>3. CASE ~Stops(c.keys, key) /\ Mapped(c, key)
  <2>1. PICK p \in 1 .. n : p = map_find(c, key) + 1
    <3>1. map_find(c, key) + 1 \in At(c, key)
      BY <1>3, FoundKey
    <3> QED
      BY <1>2, <3>1 DEF At
  <2> DEFINE vs == [c.values EXCEPT ![p] = v]
             d == MapOf(c.keys, vs, c.items)
  <2>2. vs \in Seq(Values) /\ Len(vs) = n
    BY <1>1, <1>2, ExceptSeq
  <2>3. map_cl_set(c, key, v).left = d /\ map_cl_set(c, key, v).answer = Nothing
    BY <1>3, <2>1 DEF map_cl_set, Outcome
  <2> HIDE DEF vs
  <2>4. /\ d \in CollectionObject /\ d.t = "Map" /\ d.keys = c.keys /\ d.values = vs /\ d.items = n
    BY <1>1, <1>2, <2>2, MapRecord
  <2> HIDE DEF d
  <2> QED
    BY <1>2, <2>2, <2>3, <2>4, Numbers DEF Sound, Exact, OneEach
<1>4. CASE ~Stops(c.keys, key) /\ ~Mapped(c, key)
  <2> DEFINE d == MapOf(Append(c.keys, key), Append(c.values, v), c.items + 1)
  <2>1. /\ Append(c.keys, key) \in Seq(Keys) /\ Len(Append(c.keys, key)) = n + 1
        /\ \A i \in 1 .. n : Append(c.keys, key)[i] = c.keys[i]
        /\ Append(c.keys, key)[n + 1] = key
    BY <1>1, <1>2, AppendProperties
  <2>2. Append(c.values, v) \in Seq(Values) /\ Len(Append(c.values, v)) = n + 1
    BY <1>1, <1>2, AppendProperties
  <2>3. PICK m \in Nat : m = n + 1 /\ c.items + 1 = m
    BY <1>2
  <2>4. /\ d \in CollectionObject /\ d.t = "Map" /\ d.keys = Append(c.keys, key)
        /\ d.values = Append(c.values, v) /\ d.items = n + 1
    BY <1>1, <2>1, <2>2, <2>3 DEF MapOf, CollectionObject
  <2>5. map_cl_set(c, key, v).left = d /\ map_cl_set(c, key, v).answer = Nothing
    BY <1>4 DEF map_cl_set, Outcome
  <2> HIDE DEF d
  <2>6. Exact(d)
    BY <2>1, <2>2, <2>4 DEF Exact
  <2>7. OneEach(d)
    <3>1. DOMAIN d.keys = 1 .. n + 1
      BY <2>1, <2>4, LenProperties
    <3>2. \A i \in 1 .. n : Comparable(c.keys[i]) /\ ~Same(c.keys[i], key)
      BY <1>2, <1>4, SearchRight
    <3>3. ASSUME NEW i \in 1 .. n + 1, NEW j \in 1 .. n + 1, i < j
          PROVE  Comparable(d.keys[i]) /\ ~Same(d.keys[i], d.keys[j])
      <4>1. CASE i \in 1 .. n /\ j \in 1 .. n
        BY <1>1, <1>2, <2>1, <2>4, <3>3, <4>1 DEF OneEach
      <4>2. CASE i \in 1 .. n /\ j = n + 1
        BY <2>1, <2>4, <3>2, <3>3, <4>2
      <4> QED
        BY <3>3, <4>1, <4>2
    <3> QED
      BY <3>1, <3>3 DEF OneEach
  <2> QED
    BY <2>4, <2>5, <2>6, <2>7, Numbers DEF Sound
<1> QED
  BY <1>0, <1>3, <1>4

-----------------------------------------------------------------------------
(* New lists, and the methods of strings. *)
LEMMA ListGood ==
  ASSUME NEW kind \in {"String", "Vector", "Binary"}, NEW s \in Seq(Element)
  PROVE  Good(List(kind, s))
<1>1. PICK d : d = List(kind, s)
  OBVIOUS
<1>2. PICK n \in Nat : n = Len(s)
  BY LenProperties
<1>3. d.t = kind /\ d = [t |-> kind, value |-> s, items |-> n]
  BY <1>1, <1>2 DEF List
<1>4. kind \in Kinds => d \in CollectionObject /\ Exact(d)
  BY <1>2, <1>3, ListRecord
<1> QED
  BY <1>1, <1>3, <1>4 DEF Good

LEMMA CStringType ==
  ASSUME NEW s \in Seq(Element)
  PROVE  CString(s) \in Seq(Element)
<1>1. PICK n \in Nat : n = Len(s)
  BY LenProperties
<1> DEFINE I == {i \in 1 .. Len(s) : s[i] = Nul}
<1>2. SelectInSeq(s, LAMBDA c : c = Nul) = IF I # {} THEN Min(I) ELSE 0
  BY DEF SelectInSeq
<1>3. CASE I = {}
  <2>1. ~Contains(s, Nul)
    BY <1>3 DEF Contains
  <2> QED
    BY <2>1 DEF CString
<1>4. CASE I # {}
  <2>1. I \subseteq 1 .. n
    BY <1>1
  <2>2. Min(I) \in I
    <3> HIDE DEF I
    <3> QED
      BY <1>4, <2>1, Positions
  <2>0. PICK i \in 1 .. n : i = Min(I)
    <3> HIDE DEF I
    <3> QED
      BY <2>1, <2>2
  <2>3. PICK k \in Int : k = SelectInSeq(s, LAMBDA c : c = Nul) - 1 /\ k <= Len(s)
    <3>1. SelectInSeq(s, LAMBDA c : c = Nul) = i
      BY <1>2, <1>4, <2>0
    <3>2. i - 1 \in Int /\ i - 1 <= Len(s)
      BY <1>1, <2>0
    <3> QED
      BY <3>1, <3>2
  <2>4. SubSeq(s, 1, k) \in Seq(Element)
    <3>1. PICK a \in Int : a = 1 /\ 1 <= a
      OBVIOUS
    <3>2. SubSeq(s, a, k) \in Seq(Element)
      BY <2>3, <3>1, SubSeqInside
    <3> QED
      BY <3>1, <3>2
  <2>5. CString(s) = s \/ CString(s) = SubSeq(s, 1, k)
    BY <2>3 DEF CString
  <2> QED
    BY <2>4, <2>5
<1> QED
  BY <1>3, <1>4

LEMMA StringGood ==
  ASSUME NEW s \in Seq(Element)
  PROVE  Good(String(s))
BY CStringType, ListGood DEF String

LEMMA VectorGood ==
  ASSUME NEW s \in Seq(Element)
  PROVE  Good(Vector(s)) /\ Good(Binary(s))
BY ListGood DEF Vector, Binary

LEMMA FindRange ==
  ASSUME NEW s \in Seq(Element), NEW pattern \in Seq(Element), NEW from \in Nat
  PROVE  /\ Find(s, pattern, from) \in Int
         /\ Find(s, pattern, from) # -1 =>
               /\ from <= Find(s, pattern, from)
               /\ Find(s, pattern, from) + Len(pattern) <= Len(s)
<1>1. PICK n \in Nat : n = Len(s)
  BY LenProperties
<1>2. PICK p \in Nat : p = Len(pattern)
  BY LenProperties
<1> DEFINE Where == {i \in from .. (n - p) : SubSeq(s, i + 1, i + p) = pattern}
<1>3. Find(s, pattern, from) = IF Where = {} THEN -1 ELSE Min(Where)
  BY <1>1, <1>2 DEF Find
<1>4. Where # {} => Min(Where) \in Where
  <2>1. Where \subseteq from .. (n - p) /\ n - p \in Int /\ from \in Int
    OBVIOUS
  <2> HIDE DEF Where
  <2> QED
    BY <2>1, InInterval
<1>5. CASE Where = {}
  BY <1>3, <1>5
<1>6. CASE Where # {}
  <2>1. Find(s, pattern, from) \in from .. (n - p)
    BY <1>3, <1>4, <1>6
  <2> QED
    BY <1>1, <1>2, <2>1
<1> QED
  BY <1>5, <1>6

LEMMA TrimGood ==
  ASSUME NEW c \in CollectionObject, c.t # "Map"
  PROVE  Good(string_trim(c))
<1>1. c.value \in Seq(Element)
  BY Lists
<1>2. PICK n \in Nat : n = Len(c.value) /\ DOMAIN c.value = 1 .. n
  BY <1>1, LenProperties
<1> DEFINE Seen == {i \in DOMAIN c.value : c.value[i] # Space /\ c.value[i] # Newline}
           s == IF Seen = {} THEN << >> ELSE SubSeq(c.value, Min(Seen), Max(Seen))
<1>3. s \in Seq(Element)
  <2>1. CASE Seen = {}
    BY <2>1, EmptySeq
  <2>2. CASE Seen # {}
    <3>1. Seen \subseteq 1 .. n
      BY <1>2
    <3>2. Min(Seen) \in Seen /\ Max(Seen) \in Seen
      <4> HIDE DEF Seen
      <4> QED
        BY <2>2, <3>1, Positions
    <3>3. PICK i, j \in 1 .. n : i = Min(Seen) /\ j = Max(Seen)
      <4> HIDE DEF Seen
      <4> QED
        BY <3>1, <3>2
    <3>4. 1 <= i /\ j <= Len(c.value) /\ i \in Int /\ j \in Int
      BY <1>2
    <3>5. SubSeq(c.value, i, j) \in Seq(Element)
      BY <1>1, <3>4, SubSeqInside
    <3> HIDE DEF Seen
    <3> QED
      BY <2>2, <3>3, <3>5
  <2> QED
    BY <2>1, <2>2
<1>4. string_trim(c) = String(s)
  BY DEF string_trim
<1> HIDE DEF s
<1> QED
  BY <1>3, <1>4, StringGood

LEMMA SubstrGood ==
  ASSUME NEW c \in CollectionObject, c.t # "Map", Len(c.value) <= MaxItems,
         NEW start \in Indices, NEW n \in Indices
  PROVE  Good(string_substr(c, start, n))
<1>1. c.value \in Seq(Element)
  BY Lists
<1>2. PICK l \in Nat : l = Len(c.value)
  BY <1>1, LenProperties
<1>3. start \in Int /\ n \in Int /\ start >= -1 /\ start <= MaxItems /\ Index(n) \in Nat
  <2>1. start \in Int /\ n \in Int /\ start >= -1 /\ start <= MaxItems
    BY ElementsAssumption DEF Indices
  <2> QED
    BY <2>1, IndexRange
<1>4. CASE Index(start) > l
  BY <1>2, <1>4, Numbers DEF string_substr
<1>5. CASE ~(Index(start) > l)
  <2>1. start # -1
    <3>1. SUFFICES ASSUME start = -1 PROVE FALSE
      OBVIOUS
    <3>2. PICK w \in Nat \ {0} : w = 2^SizeBits /\ MaxItems + 1 < w
      BY WidthsAssumption, ElementsAssumption
    <3>3. (-1) % w = w - 1
      BY <3>2
    <3>4. Index(start) = w - 1
      BY <3>1, <3>2, <3>3 DEF Index
    <3>5. l <= MaxItems /\ MaxItems \in Nat
      BY <1>2, ElementsAssumption
    <3> QED
      BY <1>5, <3>2, <3>4, <3>5
  <2>2. start + 1 \in Int /\ start + 1 >= 1
    BY <1>3, <2>1
  <2>3. PICK b : b = Min({start + Index(n), l})
    OBVIOUS
  <2>4. b \in Int /\ b <= l
    <3>1. PICK e \in Int : e = start + Index(n)
      BY <1>3
    <3>2. b = IF e <= l THEN e ELSE l
      BY <2>3, <3>1, MinPair
    <3> QED
      BY <3>2
  <2>5. SubSeq(c.value, start + 1, b) \in Seq(Element)
    BY <1>1, <1>2, <2>2, <2>4, SubSeqInside
  <2>6. string_substr(c, start, n) = String(SubSeq(c.value, start + 1, b))
    BY <1>2, <1>5, <2>3 DEF string_substr
  <2> QED
    BY <2>5, <2>6, StringGood
<1> QED
  BY <1>4, <1>5

LEMMA RepeatGood ==
  ASSUME NEW c \in CollectionObject, c.t # "Map", NEW n \in Int
  PROVE  Good(string_repeat(c, n))
<1>1. c.value \in Seq(Element)
  BY Lists
<1>2. CASE n < 0 /\ c.value # << >>
  BY <1>2, Numbers DEF string_repeat
<1>3. CASE ~(n < 0 /\ c.value # << >>)
  <2>1. PICK k \in Nat : 1 .. n = 1 .. k
    <3>1. CASE n < 0
      <4>1. 1 .. n = 1 .. 0
        BY <3>1
      <4> QED
        BY <4>1
    <3> QED
      BY <3>1
  <2>2. FlattenSeq([i \in 1 .. k |-> c.value]) \in Seq(Element)
    BY <1>1, Flattened
  <2>3. string_repeat(c, n) = String(FlattenSeq([i \in 1 .. k |-> c.value]))
    BY <1>3, <2>1 DEF string_repeat
  <2> QED
    BY <2>2, <2>3, StringGood
<1> QED
  BY <1>2, <1>3

LEMMA ReplaceGood ==
  ASSUME NEW c \in CollectionObject, c.t # "Map", NEW find \in Seq(Element), NEW repl \in Seq(Element)
  PROVE  Good(string_replace_method(c, find, repl))
<1>1. PICK s \in Seq(Element) : s = c.value
  BY Lists
<1>2. PICK n \in Nat : n = Len(s)
  BY LenProperties
<1>3. PICK l \in Nat : l = Len(find)
  BY LenProperties
<1> DEFINE S == 0 .. (n + 1)
           at(x) == Find(s, find, x)
           B == {x \in S : at(x) = -1}
           next(x) == at(x) + l
           head(x) == SubSeq(s, x + 1, at(x)) \o repl \o SubSeq(s, next(x) + 1, Min({next(x) + 1, n}))
           m == [x \in S |-> n + 1 - x]
           p == [x \in S |-> IF x \in B THEN x ELSE next(x) + 1]
           b == [x \in S |-> IF x \in B THEN From(s, x) ELSE << >>]
           h == [q \in S \X Seq(Element) |-> IF q[1] \in B THEN << >> ELSE head(q[1]) \o q[2]]
           Fix(f) == f = [from \in 0 .. (Len(s) + 1) |->
                            IF at(from) = -1 THEN From(s, from)
                            ELSE SubSeq(s, from + 1, at(from)) \o repl
                                   \o SubSeq(s, at(from) + Len(find) + 1, Min({at(from) + Len(find) + 1, Len(s)}))
                                   \o f[at(from) + Len(find) + 1]]
<1>4. ASSUME NEW x \in S
      PROVE  From(s, x) \in Seq(Element)
  <2>1. PICK k \in Int : k = x + 1 /\ 1 <= k
    OBVIOUS
  <2>2. SubSeq(s, k, n) \in Seq(Element)
    BY <1>2, <2>1, SubSeqInside
  <2> QED
    BY <1>2, <2>1, <2>2 DEF From
<1>5. ASSUME NEW x \in S, x \notin B
      PROVE  /\ next(x) + 1 \in S /\ next(x) \in Nat /\ x < next(x) + 1
             /\ head(x) \in Seq(Element)
  <2>1. at(x) \in Int /\ x <= at(x) /\ at(x) + l <= n
    <3>1. at(x) # -1 /\ x \in Nat
      BY <1>5
    <3> QED
      BY <3>1, <1>2, <1>3, FindRange
  <2>2. next(x) \in Nat /\ next(x) + 1 \in S /\ x < next(x) + 1
    BY <2>1
  <2>3. SubSeq(s, x + 1, at(x)) \in Seq(Element)
    <3>1. PICK k \in Int : k = x + 1 /\ 1 <= k
      OBVIOUS
    <3>2. PICK a \in Int : a = at(x) /\ a <= Len(s)
      BY <1>2, <2>1
    <3>3. SubSeq(s, k, a) \in Seq(Element)
      BY <3>1, <3>2, SubSeqInside
    <3> QED
      BY <3>1, <3>2, <3>3
  <2>4. SubSeq(s, next(x) + 1, Min({next(x) + 1, n})) \in Seq(Element)
    <3>1. PICK k \in Int : k = next(x) + 1 /\ 1 <= k
      BY <2>2
    <3>2. PICK a \in Int : a = Min({k, n}) /\ a <= Len(s)
      BY <1>2, <3>1, MinPair
    <3>3. SubSeq(s, k, a) \in Seq(Element)
      BY <3>1, <3>2, SubSeqInside
    <3> QED
      BY <3>1, <3>2, <3>3
  <2> QED
    BY <2>2, <2>3, <2>4, ConcatProperties
<1> HIDE DEF head, at
<1>6. m \in [S -> Nat] /\ p \in [S -> S]
  BY <1>5
<1>7. b \in [S -> Seq(Element)] /\ h \in [S \X Seq(Element) -> Seq(Element)]
  <2>1. << >> \in Seq(Element)
    BY EmptySeq
  <2>2. b \in [S -> Seq(Element)]
    BY <1>4, <2>1
  <2>3. \A x \in S, w \in Seq(Element) : x \notin B => head(x) \o w \in Seq(Element)
    BY <1>5, ConcatProperties
  <2> QED
    BY <2>1, <2>2, <2>3
<1>8. \A x \in S \ B : m[p[x]] < m[x]
  BY <1>5
<1>9. PICK f \in [S -> Seq(Element)] : Recursive(f, S, B, b, p, h)
  <2> HIDE DEF S, B, m, p, b, h
  <2> QED
    BY <1>6, <1>7, <1>8, Recursion
<1>10. Fix(f)
  <2>1. ASSUME NEW x \in S
        PROVE  f[x] = IF at(x) = -1 THEN From(s, x) ELSE head(x) \o f[next(x) + 1]
    <3>1. f[x] = IF x \in B THEN b[x] ELSE h[<<x, f[p[x]]>>]
      BY <1>9 DEF Recursive
    <3>2. CASE at(x) = -1
      BY <3>1, <3>2
    <3>3. CASE at(x) # -1
      <4>1. p[x] = next(x) + 1 /\ next(x) + 1 \in S
        BY <3>3, <1>5
      <4>2. f[next(x) + 1] \in Seq(Element)
        BY <4>1
      <4> QED
        BY <3>1, <3>3, <4>1, <4>2
    <3> QED
      BY <3>2, <3>3
  <2>2. ASSUME NEW x \in S, at(x) # -1
        PROVE  head(x) \o f[next(x) + 1]
                  = SubSeq(s, x + 1, at(x)) \o repl
                       \o SubSeq(s, next(x) + 1, Min({next(x) + 1, n})) \o f[next(x) + 1]
    BY DEF head
  <2>3. f = [x \in S |-> f[x]]
    OBVIOUS
  <2> QED
    BY <1>2, <1>3, <2>1, <2>2, <2>3, Zenon
<1>11. PICK g : g = CHOOSE f_1 : Fix(f_1)
  BY Zenon
<1>12. Fix(g)
  BY <1>10, <1>11, Zenon
<1>13. Descends(S, Seq(Element), B, m, p, g)
  <2>1. \A x \in S : x \in B => g[x] \in Seq(Element)
    BY <1>2, <1>4, <1>12
  <2>2. \A x \in S \ B : g[p[x]] \in Seq(Element) => g[x] \in Seq(Element)
    <3> TAKE x \in S \ B
    <3> HAVE g[p[x]] \in Seq(Element)
    <3>1. p[x] = next(x) + 1
      OBVIOUS
    <3>2. g[x] = head(x) \o g[next(x) + 1]
      BY <1>2, <1>3, <1>12 DEF head
    <3>3. head(x) \in Seq(Element)
      BY <1>5
    <3> QED
      BY <3>1, <3>2, <3>3, ConcatProperties
  <2> HIDE DEF S, B, m, p, Fix
  <2> QED
    BY <1>6, <1>8, <2>1, <2>2 DEF Descends
<1>14. 0 \in S
  OBVIOUS
<1>15. g[0] \in Seq(Element)
  <2> HIDE DEF S, B, m, p, Fix
  <2> QED
    BY <1>13, <1>14, Descent
<1>16. string_replace_method(c, find, repl) = String(g[0])
  BY <1>1, <1>11 DEF string_replace_method, at
<1> QED
  BY <1>15, <1>16, StringGood

-----------------------------------------------------------------------------
(* An object whose counter may have drifted. *)
Loose(c, d) == d \in CollectionObject /\ d.t = c.t /\ OneEach(d)

LEMMA LooseUpdate ==
  ASSUME NEW c \in CollectionObject, c.t # "Map", NEW s \in Seq(Element), NEW n \in Nat
  PROVE  /\ Loose(c, [c EXCEPT !.value = s, !.items = n])
         /\ n = Len(s) => Exact([c EXCEPT !.value = s, !.items = n])
         /\ Loose(c, [c EXCEPT !.value = s])
         /\ c.items = Len(s) => Exact([c EXCEPT !.value = s])
<1>1. c.t \in Kinds /\ c.items \in Nat
  BY Lists
<1>2. PICK d : d = [t |-> c.t, value |-> s, items |-> n]
  OBVIOUS
<1>3. PICK e : e = [t |-> c.t, value |-> s, items |-> c.items]
  OBVIOUS
<1>4. Loose(c, d) /\ (n = Len(s) => Exact(d))
  BY <1>1, <1>2, ListRecord DEF Loose
<1>5. Loose(c, e) /\ (c.items = Len(s) => Exact(e))
  BY <1>1, <1>3, ListRecord DEF Loose
<1> QED
  BY <1>2, <1>3, <1>4, <1>5, ListUpdate, Zenon

LEMMA AddSound ==
  ASSUME NEW c \in CollectionObject, NEW d \in CollectionObject, c.t # "Map", d.t # "Map"
  PROVE  /\ Good(string_add(c, d))
         /\ Loose(c, string_inplace_add(c, d))
         /\ Exact(c) => Exact(string_inplace_add(c, d))
<1>1. c.value \in Seq(Element) /\ d.value \in Seq(Element) /\ c.items \in Nat
  BY Lists
<1>2. PICK k, l \in Nat : k = Len(c.value) /\ l = Len(d.value)
  BY <1>1, LenProperties
<1>3. PICK s \in Seq(Element) : s = c.value \o d.value /\ Len(s) = k + l
  BY <1>1, <1>2, ConcatProperties
<1>4. PICK n \in Nat : n = c.items + Len(d.value)
  BY <1>1, <1>2
<1>5. Good(string_add(c, d))
  BY <1>3, StringGood DEF string_add
<1>6. string_inplace_add(c, d) = [c EXCEPT !.value = s, !.items = n]
  BY <1>3, <1>4 DEF string_inplace_add
<1>7. Exact(c) => n = Len(s)
  <2>1. c.items = k => n = k + l
    BY <1>2, <1>4
  <2> QED
    BY <1>2, <1>3, <2>1 DEF Exact
<1>8. /\ Loose(c, [c EXCEPT !.value = s, !.items = n])
      /\ n = Len(s) => Exact([c EXCEPT !.value = s, !.items = n])
  BY LooseUpdate, Zenon
<1> QED
  BY <1>5, <1>6, <1>7, <1>8

LEMMA SetString ==
  ASSUME NEW c \in CollectionObject, c.t # "Map", NEW i \in Int, NEW e \in Element
  PROVE  /\ Loose(c, string_cl_set(c, i, e).left)
         /\ Good(string_cl_set(c, i, e).answer)
         /\ Exact(c) /\ Len(string_cl_set(c, i, e).left.value) = Len(c.value)
               => Exact(string_cl_set(c, i, e).left)
<1>1. c.value \in Seq(Element) /\ c.items \in Nat /\ Index(i) \in Nat
  BY Lists, IndexRange
<1>2. PICK n \in Nat : n = Len(c.value)
  BY <1>1, LenProperties
<1> DEFINE o == string_cl_set(c, i, e)
           u == SubSeq(c.value, 1, Index(i))
           v == [c.value EXCEPT ![Index(i) + 1] = e]
<1>3. /\ o.left = c \/ (Index(i) <= n /\ o.left = [c EXCEPT !.value = u])
           \/ (Index(i) < n /\ o.left = [c EXCEPT !.value = v])
      /\ o.answer \in {Exception, Crash, Nothing}
  <2>1. Index(i) > n \/ Index(i) = n \/ Index(i) < n
    BY <1>1
  <2> QED
    BY <1>1, <1>2, <2>1 DEF string_cl_set, Outcome
<1>4. Good(o.answer)
  BY <1>3, Numbers
<1>5. CASE o.left = c
  BY <1>4, <1>5, Lists DEF Loose
<1>6. CASE Index(i) <= n /\ o.left = [c EXCEPT !.value = u]
  <2>1. PICK k \in Nat : k = Index(i) /\ k <= Len(c.value)
    BY <1>1, <1>2, <1>6
  <2>2. SubSeq(c.value, 1, k) \in Seq(Element)
    BY <1>1, <2>1, SubSeqInside
  <2>3. PICK w \in Seq(Element) : w = u
    BY <2>1, <2>2
  <2>4. o.left = [c EXCEPT !.value = w]
    BY <1>6, <2>3
  <2>5. o.left.value = w
    <3>1. o.left = [t |-> c.t, value |-> w, items |-> c.items]
      BY <2>4, ListUpdate, Zenon
    <3> HIDE DEF o
    <3> QED
      BY <3>1
  <2> HIDE DEF o, u, v
  <2>6. Loose(c, o.left) /\ (c.items = Len(w) => Exact(o.left))
    BY <1>1, <2>4, LooseUpdate, Zenon
  <2> QED
    BY <1>4, <2>5, <2>6 DEF o, Exact
<1>7. CASE Index(i) < n /\ o.left = [c EXCEPT !.value = v]
  <2>1. Index(i) + 1 \in 1 .. Len(c.value)
    BY <1>1, <1>2, <1>7
  <2>0. v \in Seq(Element) /\ Len(v) = n
    BY <1>1, <1>2, <2>1, ExceptSeq
  <2>2. PICK w \in Seq(Element) : w = v /\ Len(w) = n
    BY <2>0
  <2>3. o.left = [c EXCEPT !.value = w]
    BY <1>7, <2>2
  <2> HIDE DEF o, u, v
  <2>4. Loose(c, o.left) /\ (c.items = Len(w) => Exact(o.left))
    BY <1>1, <2>3, LooseUpdate, Zenon
  <2> QED
    BY <1>2, <1>4, <2>2, <2>4 DEF o, Exact
<1> QED
  BY <1>3, <1>5, <1>6, <1>7

LEMMA Upto ==
  ASSUME NEW s \in Seq(Element), NEW I, I \subseteq 1 .. Len(s)
  PROVE  SubSeq(s, 1, IF I # {} THEN Min(I) ELSE 0) \in Seq(Element)
<1>1. PICK n \in Nat : n = Len(s)
  BY LenProperties
<1>2. PICK k \in Int : k = (IF I # {} THEN Min(I) ELSE 0) /\ k <= Len(s)
  <2>1. CASE I = {}
    BY <1>1, <2>1
  <2>2. CASE I # {}
    <3>1. Min(I) \in 1 .. n
      BY <1>1, <2>2, Positions
    <3> QED
      BY <1>1, <2>2, <3>1
  <2> QED
    BY <2>1, <2>2
<1>3. SubSeq(s, 1, k) \in Seq(Element)
  BY <1>2, SubSeqInside
<1> QED
  BY <1>2, <1>3

LEMMA LineType ==
  ASSUME NEW s \in Seq(Element)
  PROVE  Line(s) \in Seq(Element)
<1> DEFINE I == {i \in 1 .. Len(s) : s[i] = Newline}
<1>1. SubSeq(s, 1, IF I # {} THEN Min(I) ELSE 0) \in Seq(Element)
  BY Upto
<1>2. Line(s) = SubSeq(s, 1, IF I # {} THEN Min(I) ELSE 0)
  BY DEF Line, SelectInSeq
<1> QED
  BY <1>1, <1>2

LEMMA ReadSound ==
  ASSUME NEW c \in CollectionObject, c.t # "Map", NEW input \in Seq(Element), NEW size \in Nat
  PROVE  /\ Loose(c, string_from_fd(c, input, size))
         /\ Loose(c, string_scanf(c, CString(input)))
         /\ Loose(c, string_deserialize(c, input, size).left)
         /\ Good(string_deserialize(c, input, size).answer)
<1>0. Loose(c, c)
  BY Lists DEF Loose
<1>00. 0 \in Nat
  OBVIOUS
<1>1. Loose(c, string_scanf(c, CString(input)))
  BY <1>00, CStringType, LooseUpdate, Zenon DEF string_scanf
<1>2. /\ Loose(c, string_deserialize(c, input, size).left)
      /\ Good(string_deserialize(c, input, size).answer)
  <2>1. PICK s \in Seq(Element) : s = Line(input)
    BY LineType
  <2>2. PICK n \in Nat : n = Len(s)
    BY LenProperties
  <2>3. \/ string_deserialize(c, input, size) = Outcome(c, Crash)
        \/ string_deserialize(c, input, size) = Outcome([c EXCEPT !.value = s, !.items = n], Nothing)
    BY <2>1, <2>2 DEF string_deserialize
  <2>4. Loose(c, [c EXCEPT !.value = s, !.items = n])
    BY LooseUpdate, Zenon
  <2> QED
    BY <1>0, <2>3, <2>4, Numbers DEF Outcome
<1>3. Loose(c, string_from_fd(c, input, size))
  <2>1. CASE size # 0 /\ input = << >>
    BY <1>0, <2>1 DEF string_from_fd
  <2>2. CASE size # 0 /\ input # << >>
    <3>1. PICK n \in Nat : n = Len(input)
      BY LenProperties
    <3>2. PICK k \in Int : k = Min({size, Len(input)}) /\ k <= Len(input)
      BY <3>1, MinPair
    <3>3. PICK u : u = SubSeq(input, 1, k)
      OBVIOUS
    <3>4. u \in Seq(Element)
      <4>0. k <= Len(input)
        BY <3>2
      <4>1. SubSeq(input, 1, k) \in Seq(Element)
        BY <4>0, SubSeqInside
      <4> QED
        BY <3>3, <4>1
    <3>5. PICK w \in Seq(Element) : w = CString(u)
      BY <3>4, CStringType
    <3>6. string_from_fd(c, input, size) = [c EXCEPT !.value = w]
      BY <2>2, <3>2, <3>3, <3>5 DEF string_from_fd
    <3> QED
      BY <1>00, <3>6, LooseUpdate, Zenon
  <2>3. CASE size = 0
    <3> DEFINE I == {i \in 1 .. Len(input) : input[i] \in {Nul, Newline}}
               u == SubSeq(input, 1, IF I # {} THEN Min(I) ELSE 0)
    <3>1. u \in Seq(Element)
      BY Upto
    <3>2. PICK w \in Seq(Element) : /\ w = input \/ w = u
                                /\ string_from_fd(c, input, size)
                                      = [c EXCEPT !.value = w, !.items = @ + Len(w)]
      <4>1. PICK end : end = SelectInSeq(input, LAMBDA e : e \in {Nul, Newline})
        OBVIOUS
      <4>2. end = IF I # {} THEN Min(I) ELSE 0
        BY <4>1 DEF SelectInSeq
      <4>3. PICK w : w = IF end = 0 THEN input ELSE SubSeq(input, 1, end)
        OBVIOUS
      <4>4. w = input \/ w = u
        BY <4>2, <4>3
      <4>5. string_from_fd(c, input, size) = [c EXCEPT !.value = w, !.items = @ + Len(w)]
        BY <2>3, <4>1, <4>3 DEF string_from_fd
      <4> QED
        BY <3>1, <4>4, <4>5, Zenon
    <3>3. PICK n \in Nat : n = c.items + Len(w)
      BY Lists, LenProperties
    <3>4. string_from_fd(c, input, size) = [c EXCEPT !.value = w, !.items = n]
      BY <3>2, <3>3
    <3>5. Loose(c, [c EXCEPT !.value = w, !.items = n])
      BY LooseUpdate, Zenon
    <3> QED
      BY <3>4, <3>5
  <2> QED
    BY <2>1, <2>2, <2>3
<1> QED
  BY <1>1, <1>2, <1>3

-----------------------------------------------------------------------------
(* Folds over the elements of a vector. *)
Dropping(acc, s, o, n) ==
  /\ acc[0] = << >>
  /\ \A k \in 1 .. n : acc[k] = IF Same(s[k], o) THEN acc[k - 1] ELSE Append(acc[k - 1], s[k])

LEMMA WithoutSteps ==
  ASSUME NEW s \in Seq(Element), NEW o, NEW n \in Nat, n = Len(s)
  PROVE  \E acc \in [0 .. n -> Seq(Element)] : Dropping(acc, s, o, n) /\ Without(s, o) = acc[n]
<1> DEFINE V == Seq(Element)
           then(v, e) == IF Same(e, o) THEN v ELSE Append(v, e)
           step == [q \in V \X (1 .. n) |-> then(q[1], s[q[2]])]
           Fix(f) == f = [t \in SUBSET DOMAIN s |->
                            IF t = {} THEN << >> ELSE then(f[t \ {Max(t)}], s[Max(t)])]
<1>1. DOMAIN s = 1 .. n /\ \A k \in 1 .. n : s[k] \in Element
  BY LenProperties, ElementOfSeq
<1>2. \A v \in V, k \in 1 .. n : then(v, s[k]) \in V
  BY <1>1, AppendProperties
<1>3. Folder(n, V, << >>, step)
  BY <1>2, EmptySeq DEF Folder
<1>5. ASSUME NEW g, NEW t \in SUBSET (1 .. n), t # {}, g[t \ {Max(t)}] \in V
      PROVE  step[<<g[t \ {Max(t)}], Max(t)>>] = then(g[t \ {Max(t)}], s[Max(t)])
  <2>1. Max(t) \in t
    BY <1>5, Positions
  <2>2. Max(t) \in 1 .. n
    BY <2>1
  <2> HIDE DEF V, then
  <2> QED
    BY <1>5, <2>2
<1> HIDE DEF then, step
<1>6. \E f : Fix(f)
  <2>0. PICK f \in [SUBSET (1 .. n) -> V] : Folds(f, n, << >>, step)
    <3> HIDE DEF V
    <3> QED
      BY <1>3, Folding
  <2>1. \A t \in SUBSET (1 .. n) : f[t] = IF t = {} THEN << >> ELSE step[<<f[t \ {Max(t)}], Max(t)>>]
    BY <2>0 DEF Folds
  <2>2. f = [t \in SUBSET (1 .. n) |-> f[t]]
    OBVIOUS
  <2> HIDE DEF V
  <2>3. \A t \in SUBSET (1 .. n) : t # {} => f[t] = then(f[t \ {Max(t)}], s[Max(t)])
    BY <1>5, <2>1
  <2>4. Fix(f)
    BY <1>1, <2>1, <2>2, <2>3
  <2> QED
    BY <2>4
<1>7. PICK g : g = CHOOSE f : Fix(f)
  OBVIOUS
<1>8. Fix(g)
  BY <1>6, <1>7
<1>9. Without(s, o) = g[1 .. n]
  BY <1>1, <1>7 DEF Without, FoldLeft, MapThenFoldSet, then
<1>10. FoldsAs(g, n, V, << >>, step)
  BY <1>1, <1>5, <1>8 DEF FoldsAs
<1>11. PICK acc \in [0 .. n -> V] :
            /\ acc[0] = << >>
            /\ \A k \in 1 .. n : acc[k] = step[<<acc[k - 1], k>>]
            /\ acc[n] = g[1 .. n]
  <2> HIDE DEF V
  <2> QED
    BY <1>3, <1>10, FoldSteps DEF Accumulates
<1>12. ASSUME NEW k \in 1 .. n
       PROVE  acc[k] = then(acc[k - 1], s[k])
  <2>1. acc[k - 1] \in V /\ k \in 1 .. n
    OBVIOUS
  <2> HIDE DEF V
  <2>2. step[<<acc[k - 1], k>>] = then(acc[k - 1], s[k])
    BY <2>1 DEF step
  <2> QED
    BY <1>11, <2>2
<1> QED
  BY <1>9, <1>11, <1>12 DEF then, Dropping

LEMMA VectorPush ==
  ASSUME NEW s \in Seq(Element), NEW e \in Element
  PROVE  vector_cl_push(Vector(s), e) = Vector(Append(s, e))
<1>1. PICK u \in Seq(Element) : u = Append(s, e)
  BY AppendProperties
<1>2. PICK n, k \in Nat : n = Len(s) /\ k = Len(u) /\ k = n + 1
  BY <1>1, LenProperties, AppendProperties
<1>3. PICK c : c = [t |-> "Vector", value |-> s, items |-> n]
  OBVIOUS
<1>4. PICK d : d = [c EXCEPT !.value = u]
  OBVIOUS
<1>5. d = [t |-> "Vector", value |-> u, items |-> n]
  BY <1>3, <1>4
<1>6. [d EXCEPT !.items = k] = [t |-> "Vector", value |-> u, items |-> k]
  BY <1>5
<1>7. c.value = s /\ c.items = n /\ c = Vector(s)
  BY <1>2, <1>3 DEF Vector, List
<1>8. vector_cl_push(c, e) = [d EXCEPT !.items = k]
  BY <1>1, <1>2, <1>4, <1>7 DEF vector_cl_push
<1>9. Vector(Append(s, e)) = [t |-> "Vector", value |-> u, items |-> k]
  BY <1>1, <1>2 DEF Vector, List
<1> QED
  BY <1>6, <1>7, <1>8, <1>9

Vectorial == {Vector(s) : s \in Seq(Element)} \union {Error}

LEMMA UniqueSteps ==
  ASSUME NEW c, NEW s \in Seq(Element), s = c.value, NEW n \in Nat, n = Len(s)
  PROVE  \E acc \in [0 .. n -> Vectorial] :
            acc[0] = Vector(<< >>) /\ vector_unique(c) = acc[n]
<1> DEFINE V == Vectorial
           then(v, e) == IF v = Error \/ Stops(v.value, e) THEN Error
                        ELSE IF Holds(v.value, e) THEN v ELSE vector_cl_push(v, e)
           step == [q \in V \X (1 .. n) |-> then(q[1], s[q[2]])]
           Fix(f) == f = [t \in SUBSET DOMAIN s |->
                            IF t = {} THEN Vector(<< >>) ELSE then(f[t \ {Max(t)}], s[Max(t)])]
<1>1. DOMAIN s = 1 .. n /\ \A k \in 1 .. n : s[k] \in Element
  BY LenProperties, ElementOfSeq
<1>2. \A v \in V, k \in 1 .. n : then(v, s[k]) \in V
  <2> SUFFICES ASSUME NEW v \in V, NEW k \in 1 .. n PROVE then(v, s[k]) \in V
    OBVIOUS
  <2>0. CASE v = Error
    BY <2>0 DEF Vectorial
  <2>1. CASE v # Error
    <3>1. PICK w \in Seq(Element) : v = Vector(w)
      BY <2>1 DEF Vectorial
    <3>2. Append(w, s[k]) \in Seq(Element) /\ s[k] \in Element
      BY <1>1, AppendProperties
    <3>3. vector_cl_push(v, s[k]) = Vector(Append(w, s[k]))
      BY <3>1, <3>2, VectorPush, Zenon
    <3>4. vector_cl_push(v, s[k]) \in V
      BY <3>2, <3>3 DEF Vectorial
    <3> QED
      BY <2>1, <3>4 DEF Vectorial
  <2> QED
    BY <2>0, <2>1
<1>3. Folder(n, V, Vector(<< >>), step)
  BY <1>2, EmptySeq DEF Folder, Vectorial
<1>5. ASSUME NEW g, NEW t \in SUBSET (1 .. n), t # {}, g[t \ {Max(t)}] \in V
      PROVE  step[<<g[t \ {Max(t)}], Max(t)>>] = then(g[t \ {Max(t)}], s[Max(t)])
  <2>1. Max(t) \in t
    BY <1>5, Positions
  <2>2. Max(t) \in 1 .. n
    BY <2>1
  <2> HIDE DEF V, then
  <2> QED
    BY <1>5, <2>2
<1> HIDE DEF then, step
<1>6. \E f : Fix(f)
  <2>0. PICK f \in [SUBSET (1 .. n) -> V] : Folds(f, n, Vector(<< >>), step)
    <3> HIDE DEF V
    <3> QED
      BY <1>3, Folding
  <2>1. \A t \in SUBSET (1 .. n) : f[t] = IF t = {} THEN Vector(<< >>) ELSE step[<<f[t \ {Max(t)}], Max(t)>>]
    BY <2>0 DEF Folds
  <2>2. f = [t \in SUBSET (1 .. n) |-> f[t]]
    OBVIOUS
  <2> HIDE DEF V
  <2>3. \A t \in SUBSET (1 .. n) : t # {} => f[t] = then(f[t \ {Max(t)}], s[Max(t)])
    BY <1>5, <2>1
  <2>4. Fix(f)
    BY <1>1, <2>1, <2>2, <2>3
  <2> QED
    BY <2>4
<1>7. PICK g : g = CHOOSE f : Fix(f)
  OBVIOUS
<1>8. Fix(g)
  BY <1>6, <1>7
<1>9. vector_unique(c) = g[1 .. n]
  BY <1>1, <1>7 DEF vector_unique, FoldLeft, MapThenFoldSet, then
<1>10. FoldsAs(g, n, V, Vector(<< >>), step)
  BY <1>1, <1>5, <1>8 DEF FoldsAs
<1>11. PICK acc \in [0 .. n -> V] :
            /\ acc[0] = Vector(<< >>)
            /\ \A k \in 1 .. n : acc[k] = step[<<acc[k - 1], k>>]
            /\ acc[n] = g[1 .. n]
  <2> HIDE DEF V
  <2> QED
    BY <1>3, <1>10, FoldSteps DEF Accumulates
<1> QED
  BY <1>9, <1>11

LEMMA WithoutType ==
  ASSUME NEW s \in Seq(Element), NEW o
  PROVE  Without(s, o) \in Seq(Element)
<1>1. PICK n \in Nat : n = Len(s)
  BY LenProperties
<1>2. PICK acc \in [0 .. n -> Seq(Element)] : Dropping(acc, s, o, n) /\ Without(s, o) = acc[n]
  BY <1>1, WithoutSteps
<1>3. n \in 0 .. n
  OBVIOUS
<1> QED
  BY <1>2, <1>3

LEMMA UniqueGood ==
  ASSUME NEW c \in CollectionObject, c.t # "Map"
  PROVE  Good(vector_unique(c))
<1>1. PICK s \in Seq(Element) : s = c.value
  BY Lists
<1>2. PICK n \in Nat : n = Len(s)
  BY LenProperties
<1>3. PICK acc \in [0 .. n -> Vectorial] : vector_unique(c) = acc[n]
  BY <1>1, <1>2, UniqueSteps
<1>4. n \in 0 .. n
  OBVIOUS
<1>5. vector_unique(c) = Error \/ \E w \in Seq(Element) : vector_unique(c) = Vector(w)
  BY <1>3, <1>4 DEF Vectorial
<1> QED
  BY <1>5, VectorGood, Numbers

(* The right operands of a vector: another one, or an element. *)
Right(x) == (x \in CollectionObject /\ x.t = "Vector") \/ \E e \in Element : x = Item(e)

LEMMA VectorArithmetic ==
  ASSUME NEW c \in CollectionObject, c.t = "Vector", Exact(c), NEW x, Right(x)
  PROVE  /\ Sound(c, vector_add(c, x)) /\ Good(vector_add(c, x))
         /\ vector_sub(c, x) = Error \/ Sound(c, vector_sub(c, x))
         /\ Good(vector_sub(c, x))
<1>1. c.value \in Seq(Element) /\ "Vector" \in Kinds
  BY Lists
<1>2. PICK os \in Seq(Element) : os = Operand(x)
  <2>1. CASE x \in CollectionObject /\ x.t = "Vector"
    BY <2>1, Lists DEF Operand
  <2>2. CASE \E e \in Element : x = Item(e)
    <3>1. PICK e \in Element : x = Item(e)
      BY <2>2
    <3>2. Operand(x) = <<e>>
      BY <3>1 DEF Operand, Item
    <3>3. <<e>> \in Seq(Element)
      OBVIOUS
    <3> QED
      BY <3>2, <3>3
  <2> QED
    BY <2>1, <2>2 DEF Right
<1>3. \A s \in Seq(Element) : Sound(c, Vector(s)) /\ Good(Vector(s))
  <2> TAKE s \in Seq(Element)
  <2>1. PICK k : k = "Vector"
    OBVIOUS
  <2>2. List(k, s) \in CollectionObject /\ List(k, s).t = k /\ Exact(List(k, s)) /\ OneEach(List(k, s))
    BY <1>1, <2>1, ListObjects
  <2> QED
    BY <2>1, <2>2, VectorGood DEF Sound, Vector
<1>4. Sound(c, c) /\ Good(c)
  BY Lists DEF Sound, Good
<1>5. c.value \o os \in Seq(Element) /\ Without(c.value, os[1]) \in Seq(Element)
  BY <1>1, ConcatProperties, WithoutType
<1>6. vector_add(c, x) = Vector(c.value \o os)
  BY <1>2 DEF vector_add
<1>7. vector_sub(c, x) = Error \/ vector_sub(c, x) = c \/ vector_sub(c, x) = Vector(Without(c.value, os[1]))
  BY <1>2 DEF vector_sub
<1> QED
  BY <1>3, <1>4, <1>5, <1>6, <1>7, Numbers

LEMMA ReadBytes ==
  ASSUME NEW c \in CollectionObject, c.t # "Map", Exact(c), NEW buffer, NEW n \in Nat, NEW size \in 1 .. n,
         n <= c.items, buffer = [i \in 1 .. n |-> Byte(ivalue(c.value[i]))]
  PROVE  /\ binary_deserialize(c, buffer, size)
               = Binary([i \in 1 .. size |-> Integer(Byte(ivalue(c.value[i])))])
         /\ Good(binary_deserialize(c, buffer, size))
<1>1. PICK s \in Seq(Element) : s = c.value
  BY Lists
<1>2. PICK l \in Nat : l = Len(s) /\ l = c.items
  BY <1>1, Lists DEF Exact
<1>3. PICK k \in Nat \ {0} : k = size /\ k <= n
  OBVIOUS
<1>4. \A i \in 1 .. k : Integer(Byte(ivalue(s[i]))) \in Element
  <2>1. \A i \in 1 .. l : s[i] \in Element
    BY <1>2, ElementOfSeq
  <2>2. \A i \in 1 .. k : i \in 1 .. l
    BY <1>2, <1>3
  <2> QED
    BY <2>1, <2>2, WholeNumbers
<1> DEFINE v == [i \in 1 .. k |-> Integer(Byte(ivalue(s[i])))]
<1>5. v \in Seq(Element)
  BY <1>4, IsASeq
<1>6. \A i \in 1 .. k : buffer[i] = Byte(ivalue(s[i]))
  BY <1>1, <1>3
<1>7. [i \in 1 .. k |-> Integer(buffer[i])] = v
  BY <1>6
<1>8. binary_deserialize(c, buffer, size) = Binary(v)
  BY <1>3, <1>7 DEF binary_deserialize
<1>9. v = [i \in 1 .. size |-> Integer(Byte(ivalue(c.value[i])))]
  BY <1>1, <1>3
<1> HIDE DEF v
<1> QED
  BY <1>5, <1>8, <1>9, VectorGood

LEMMA BinaryGood ==
  ASSUME NEW c \in CollectionObject, c.t # "Map", Exact(c), NEW size \in 0 .. c.items
  PROVE  Good(binary_deserialize(c, binary_serialize(c, 0), size))
<1>1. PICK n \in Nat : n = c.items
  BY Lists
<1>2. binary_serialize(c, 0) = [i \in 1 .. n |-> Byte(ivalue(c.value[i]))]
  BY <1>1 DEF binary_serialize, Selected
<1>3. CASE size = 0
  <2>1. binary_deserialize(c, binary_serialize(c, 0), size) = c
    BY <1>3 DEF binary_deserialize
  <2> QED
    BY <2>1 DEF Good
<1>4. CASE size # 0
  <2>1. size \in 1 .. n /\ n <= c.items
    BY <1>1, <1>4
  <2> QED
    BY <1>2, <2>1, ReadBytes
<1> QED
  BY <1>3, <1>4

LEMMA MapLists ==
  ASSUME NEW c \in CollectionObject, c.t = "Map"
  PROVE  /\ c.keys \in Seq(Element) /\ c.values \in Seq(Element)
         /\ Good(map_keys(c)) /\ Good(map_values(c))
<1>1. Keys \subseteq Element /\ Values \subseteq Element
  BY ElementsAssumption
<1>2. c.keys \in Seq(Element) /\ c.values \in Seq(Element)
  BY <1>1, Tables, SeqMonotonic
<1> QED
  BY <1>2, VectorGood DEF map_keys, map_values

-----------------------------------------------------------------------------
(* The steps. *)
LEMMA State ==
  ASSUME CInv
  PROVE  /\ me \in CollectionObject /\ op \in CollectionObject /\ op.t = me.t /\ me.t \in Kinds
         /\ Exact(op) /\ OneEach(me) /\ Good(op)
         /\ drifted \in BOOLEAN /\ (drifted => me.t = "String") /\ (~drifted => Exact(me))
         /\ (me.t # "String" => Exact(me) /\ Good(me))
BY DEF CInv, TypeOK, CollectionObject, Good, Is

LEMMA SoundKeeps ==
  ASSUME CInv, NEW left, NEW answer, Keeps(Outcome(left, answer)), Sound(me, left), Good(answer)
  PROVE  Preserved
<1>1. Outcome(left, answer).left = left /\ Outcome(left, answer).answer = answer
  BY DEF Outcome
<1> QED
  BY <1>1, KeepsInv, GoodKept DEF Sound

LEMMA SoundOutcome ==
  ASSUME CInv, NEW outcome, Keeps(outcome), Sound(me, outcome.left), Good(outcome.answer)
  PROVE  Preserved
BY KeepsInv, GoodKept DEF Sound

LEMMA GoodAnswer ==
  ASSUME CInv, NEW answer, Answers(answer), Good(answer)
  PROVE  Preserved
BY AnswersInv, GoodKept

LEMMA RefusedInv ==
  ASSUME CInv, NEW slot, Refused(slot)
  PROVE  Preserved
BY GoodAnswer, Numbers DEF Refused

LEMMA PushInv ==
  ASSUME CInv, NEW e \in Elements, cl_push(e)
  PROVE  Preserved
<1>0. e \in Element
  BY ElementsAssumption
<1>1. CASE Refused("cl_push")
  BY <1>1, RefusedInv
<1>2. ASSUME Is("Vector") \/ Is("Binary") PROVE Sound(me, vector_cl_push(me, e)) /\ Sound(me, me)
  <2>1. me \in CollectionObject /\ me.t # "Map" /\ Exact(me) /\ OneEach(me)
    BY <1>2, State DEF Is
  <2> QED
    BY <1>0, <2>1, PushSound DEF Sound
<1>3. CASE Is("Vector") /\ Keeps(Outcome(vector_cl_push(me, e), Nothing))
  BY <1>2, <1>3, SoundKeeps, Numbers
<1>4. CASE Is("Binary") /\ Keeps(binary_cl_push_reference(me, e))
  <2>1. Keeps(Outcome(vector_cl_push(me, e), Nothing)) \/ Keeps(Outcome(me, Error))
    BY <1>4 DEF binary_cl_push_reference
  <2> QED
    BY <1>2, <1>4, <2>1, SoundKeeps, Numbers
<1> QED
  BY <1>1, <1>3, <1>4 DEF cl_push

LEMMA VectorPopInv ==
  ASSUME CInv, Is("Vector"), Keeps(vector_cl_pop(me))
  PROVE  Preserved
<1>1. Sound(me, vector_cl_pop(me).left) /\ Good(vector_cl_pop(me).answer)
  BY State, PopSound DEF Is
<1> QED
  BY <1>1, SoundOutcome

LEMMA MapPopInv ==
  ASSUME CInv, Is("Map"), Keeps(map_cl_pop(me))
  PROVE  Preserved
<1>1. Sound(me, map_cl_pop(me).left) /\ Good(map_cl_pop(me).answer)
  BY State, MapPopSound DEF Is
<1> QED
  BY <1>1, SoundOutcome

LEMMA VectorRemoveInv ==
  ASSUME CInv, Is("Vector"), NEW i \in Indices, Keeps(vector_cl_remove(me, i))
  PROVE  Preserved
<1>0. i \in Int
  BY ElementsAssumption DEF Indices
<1>1. Sound(me, vector_cl_remove(me, i).left) /\ Good(vector_cl_remove(me, i).answer)
  BY <1>0, State, RemoveSound DEF Is
<1> QED
  BY <1>1, SoundOutcome

LEMMA MapRemoveInv ==
  ASSUME CInv, Is("Map"), NEW k \in Keys, Keeps(map_cl_remove(me, k))
  PROVE  Preserved
<1>1. Sound(me, map_cl_remove(me, k).left) /\ Good(map_cl_remove(me, k).answer)
  BY State, MapRemoveSound DEF Is
<1> QED
  BY <1>1, SoundOutcome

LEMMA PopInv ==
  ASSUME CInv, cl_pop
  PROVE  Preserved
BY RefusedInv, VectorPopInv, MapPopInv DEF cl_pop

LEMMA RemoveInv ==
  ASSUME CInv, cl_remove
  PROVE  Preserved
BY RefusedInv, VectorRemoveInv, MapRemoveInv DEF cl_remove

LEMMA AtInv ==
  ASSUME CInv, cl_at
  PROVE  Preserved
<1>1. ASSUME NEW i, Is("String"), Answers(string_cl_at(me, i)) PROVE Preserved
  <2>1. Good(string_cl_at(me, i))
    BY Numbers DEF string_cl_at
  <2> QED
    BY <1>1, <2>1, GoodAnswer
<1>2. ASSUME NEW i, Answers(vector_cl_at(me, i)) PROVE Preserved
  <2>1. Good(vector_cl_at(me, i))
    BY Numbers DEF vector_cl_at
  <2> QED
    BY <1>2, <2>1, GoodAnswer
<1>3. ASSUME NEW k, Answers(map_cl_at(me, k)) PROVE Preserved
  <2>1. Good(map_cl_at(me, k))
    BY Numbers DEF map_cl_at
  <2> QED
    BY <1>3, <2>1, GoodAnswer
<1> QED
  BY <1>1, <1>2, <1>3 DEF cl_at, binary_cl_at

LEMMA SetInv ==
  ASSUME CInv, cl_set
  PROVE  Preserved
<1>0. Indices \subseteq Int /\ Characters \subseteq Element /\ Elements \subseteq Element
  BY ElementsAssumption DEF Indices
<1>1. ASSUME Is("String"), NEW i \in Indices, NEW e \in Characters,
             Settle(string_cl_set(me, i, e)),
             drifted' = (drifted \/ Len(me'.value) # Len(me.value))
      PROVE  Preserved
  <2>1. PICK o : o = string_cl_set(me, i, e)
    OBVIOUS
  <2>2. Loose(me, o.left) /\ Good(o.answer)
        /\ (Exact(me) /\ Len(o.left.value) = Len(me.value) => Exact(o.left))
    BY <1>0, <1>1, <2>1, State, SetString DEF Is
  <2>3. me' = o.left /\ Settle(o)
    BY <1>1, <2>1 DEF Settle
  <2>4. drifted' \in BOOLEAN /\ (drifted' => Is("String")) /\ (~drifted' => Exact(o.left))
    BY <1>1, <2>2, <2>3, State
  <2> QED
    BY <2>2, <2>3, <2>4, StepInv, GoodKept DEF Loose
<1>2. ASSUME Is("Vector") \/ Is("Binary"), NEW i \in Indices, NEW v \in Elements,
             Keeps(vector_cl_set(me, i, v))
      PROVE  Preserved
  <2>1. Sound(me, vector_cl_set(me, i, v).left) /\ Good(vector_cl_set(me, i, v).answer)
    BY <1>0, <1>2, State, SetSound DEF Is
  <2> QED
    BY <1>2, <2>1, SoundOutcome
<1>3. ASSUME Is("Binary"), NEW i \in Indices, NEW v \in Elements,
             Keeps(binary_cl_set_reference(me, i, v))
      PROVE  Preserved
  <2>1. Sound(me, me)
    BY <1>3, State DEF Sound, Is
  <2>2. Keeps(Outcome(me, Error)) \/ Keeps(vector_cl_set(me, i, v))
    BY <1>3 DEF binary_cl_set_reference
  <2> QED
    BY <1>2, <1>3, <2>1, <2>2, SoundKeeps, Numbers
<1>4. ASSUME Is("Map"), NEW k \in Keys, NEW v \in Values, Keeps(map_cl_set(me, k, v))
      PROVE  Preserved
  <2>1. Sound(me, map_cl_set(me, k, v).left) /\ Good(map_cl_set(me, k, v).answer)
    BY <1>4, State, MapSetSound DEF Is
  <2> QED
    BY <1>4, <2>1, SoundOutcome
<1> QED
  BY <1>1, <1>2, <1>3, <1>4 DEF cl_set

LEMMA AssignInv ==
  ASSUME CInv, assign
  PROVE  Preserved
<1>0. PICK x \in {op, Number(1)} :
         \/ Is("String") /\ Settle(string_assign(me, x)) /\ drifted' = (x = op \/ drifted)
         \/ Is("Vector") /\ Keeps(vector_assign(me, x))
         \/ Is("Binary") /\ Keeps(binary_assign(me, x))
         \/ Is("Map") /\ Keeps(map_assign(me, x))
  BY DEF assign
<1>00. 0 \in Nat
  OBVIOUS
<1>1. Good(x)
  BY <1>0, State, Numbers
<1>2. CASE Is("String") /\ Settle(string_assign(me, x)) /\ drifted' = (x = op \/ drifted)
  <2>1. CASE x.t = "String"
    <3>1. x = op
      BY <1>0, <2>1 DEF Number
    <3>2. PICK s \in Seq(Element) : s = op.value
      BY <1>2, State, Lists DEF Is
    <3>3. PICK d : d = [me EXCEPT !.value = s]
      OBVIOUS
    <3>4. string_assign(me, x) = Outcome(d, Nothing)
      BY <2>1, <3>1, <3>2, <3>3 DEF string_assign
    <3>5. Loose(me, d)
      <4>1. me.items \in Nat /\ me \in CollectionObject /\ me.t # "Map"
        BY <1>2, State, Lists DEF Is
      <4>2. Loose(me, [me EXCEPT !.value = s])
        BY <1>00, <4>1, LooseUpdate, Zenon
      <4> QED
        BY <3>3, <4>2
    <3>6. Outcome(d, Nothing).left = d /\ Outcome(d, Nothing).answer = Nothing
      BY DEF Outcome
    <3>7. drifted' = TRUE
      BY <1>2, <3>1
    <3>8. Settle(Outcome(d, Nothing)) /\ Kept(Nothing)
      BY <1>2, <3>4, Numbers, GoodKept
    <3> QED
      BY <1>2, <3>5, <3>6, <3>7, <3>8, StepInv DEF Loose
  <2>2. CASE x.t # "String"
    <3>1. string_assign(me, x) = Outcome(me, x) /\ x # op
      BY <1>2, <2>2, State DEF string_assign, Is
    <3>2. drifted' = drifted
      BY <1>2, <3>1, State
    <3>3. Outcome(me, x).left = me /\ Outcome(me, x).answer = x
      BY DEF Outcome
    <3>4. Settle(Outcome(me, x)) /\ Kept(x)
      BY <1>1, <1>2, <3>1, GoodKept
    <3> QED
      BY <1>2, <3>2, <3>3, <3>4, State, StepInv
  <2> QED
    BY <2>1, <2>2
<1>3. CASE (Is("Vector") \/ Is("Binary")) /\ Keeps(Outcome(vector_free(me), x))
  <2>1. Sound(me, vector_free(me))
    BY <1>3, State, FreeSound DEF Is
  <2> QED
    BY <1>1, <1>3, <2>1, SoundKeeps
<1>4. CASE Is("Map") /\ Keeps(Outcome(map_free(me), x))
  <2>1. Sound(me, map_free(me))
    BY <1>4, State, FreeSound DEF Is
  <2> QED
    BY <1>1, <1>4, <2>1, SoundKeeps
<1> QED
  BY <1>0, <1>2, <1>3, <1>4 DEF vector_assign, binary_assign, binary_free, map_assign

LEMMA CloneInv ==
  ASSUME CInv, clone
  PROVE  Preserved
<1>1. CASE Is("String")
  <2>1. Good(string_clone(me))
    BY <1>1, State, Lists, StringGood DEF string_clone, Is
  <2> QED
    BY <1>1, <2>1, GoodAnswer DEF clone
<1>2. CASE ~Is("String")
  BY <1>2, State, GoodAnswer DEF clone, Is
<1> QED
  BY <1>1, <1>2

LEMMA ArithInv ==
  ASSUME CInv, arith
  PROVE  Preserved
<1>1. CASE Refused("add")
  BY <1>1, RefusedInv
<1>2. CASE Is("String") /\ Answers(string_add(me, op))
  BY <1>2, State, AddSound, GoodAnswer DEF Is
<1>3. CASE Is("String") /\ Keeps(Outcome(string_inplace_add(me, op), Nothing))
  <2>1. PICK d : d = string_inplace_add(me, op)
    OBVIOUS
  <2>2. Loose(me, d) /\ (Exact(me) => Exact(d))
    BY <1>3, <2>1, State, AddSound DEF Is
  <2>3. Outcome(d, Nothing).left = d /\ Outcome(d, Nothing).answer = Nothing
    BY DEF Outcome
  <2>4. Keeps(Outcome(d, Nothing)) /\ Kept(Nothing) /\ (~drifted => Exact(d))
    BY <1>3, <2>1, <2>2, Numbers, GoodKept, State
  <2> QED
    BY <2>2, <2>3, <2>4, KeepsInv DEF Loose
<1>4. ASSUME Is("Vector"), NEW x \in {op} \union {Item(e) : e \in Elements},
             \/ Answers(vector_add(me, x))
             \/ Answers(vector_sub(me, x))
             \/ Keeps(Outcome(vector_inplace_add(me, x), Nothing))
             \/ \E outcome \in vector_inplace_sub(me, x) : Keeps(outcome)
      PROVE  Preserved
  <2>1. Right(x)
    BY <1>4, State, ElementsAssumption DEF Right, Is
  <2>2. /\ Sound(me, vector_add(me, x)) /\ Good(vector_add(me, x))
        /\ vector_sub(me, x) = Error \/ Sound(me, vector_sub(me, x))
        /\ Good(vector_sub(me, x))
    BY <1>4, <2>1, State, VectorArithmetic DEF Is
  <2>3. Sound(me, me)
    BY <1>4, State DEF Sound, Is
  <2>4. CASE Answers(vector_add(me, x)) \/ Answers(vector_sub(me, x))
    BY <2>2, <2>4, GoodAnswer
  <2>5. CASE Keeps(Outcome(vector_inplace_add(me, x), Nothing))
    BY <2>2, <2>5, SoundKeeps, Numbers DEF vector_inplace_add
  <2>6. CASE \E outcome \in vector_inplace_sub(me, x) : Keeps(outcome)
    <3>1. \/ Keeps(Outcome(me, Crash)) \/ Keeps(Outcome(me, Nothing)) \/ Keeps(Outcome(me, Error))
          \/ vector_sub(me, x) # Error /\ Keeps(Outcome(vector_sub(me, x), Nothing))
      BY <2>6 DEF vector_inplace_sub, Becomes
    <3> QED
      BY <2>2, <2>3, <3>1, SoundKeeps, Numbers
  <2> QED
    BY <1>4, <2>4, <2>5, <2>6
<1> QED
  BY <1>1, <1>2, <1>3, <1>4 DEF arith

LEMMA TextType ==
  ASSUME NEW S, S \subseteq Element, NEW b \in Nat, NEW w \in BoundedSeq(S, b)
  PROVE  w \in Seq(Element)
<1>1. PICK n \in 0 .. b : w \in [1 .. n -> S]
  BY DEF BoundedSeq, SeqOf
<1>2. n \in Nat
  OBVIOUS
<1>3. w \in [1 .. n -> Element]
  BY <1>1
<1> QED
  BY <1>2, <1>3, SeqDef

LEMMA WordType ==
  ASSUME NEW w, w \in Words \/ w \in Texts
  PROVE  w \in Seq(Element)
<1>1. Characters \subseteq Element /\ MaxItems \in Nat
  BY ElementsAssumption
<1>2. PICK S : S = Characters \ {Nul}
  OBVIOUS
<1>3. PICK b \in Nat : b = 2
  OBVIOUS
<1>4. S \subseteq Element
  BY <1>1, <1>2
<1>5. w \in BoundedSeq(S, b) \/ w \in BoundedSeq(Characters, MaxItems)
  BY <1>2, <1>3 DEF Words, Texts
<1> QED
  BY <1>1, <1>4, <1>5, TextType

LEMMA StringMethodInv ==
  ASSUME CInv, string_call_method
  PROVE  Preserved
<1>1. Is("String") /\ me \in CollectionObject /\ me.t # "Map" /\ me.t = "String" /\ Len(me.value) <= MaxItems
  BY State DEF string_call_method, Is, CInv, Bounded
<1>2. ASSUME NEW answer, answer.t # "String", Answers(answer) PROVE Preserved
  <2>1. Kept(answer)
    BY <1>1, <1>2 DEF Kept
  <2> QED
    BY <1>2, <2>1, AnswersInv
<1>3. CASE WrongArguments \/ Answers(string_length(me))
  BY <1>3, GoodAnswer, Numbers DEF WrongArguments, string_length
<1>4. CASE Answers(string_trim(me))
  BY <1>1, <1>4, TrimGood, GoodAnswer
<1>5. ASSUME NEW w \in Words,
             \/ Answers(string_find(me, w))
             \/ Answers(string_split(me, w))
             \/ \E r \in Words : Answers(string_replace_method(me, w, r))
             \/ \E compiles, captures \in BOOLEAN :
                   Answers(string_regexp(me, w, compiles, captures))
      PROVE  Preserved
  <2>1. CASE Answers(string_find(me, w))
    BY <2>1, GoodAnswer, Numbers DEF string_find
  <2>2. CASE Answers(string_split(me, w))
    <3>1. string_split(me, w).t # "String"
      BY DEF string_split, Hang, Vector, List
    <3> QED
      BY <1>2, <2>2, <3>1
  <2>3. ASSUME NEW r \in Words, Answers(string_replace_method(me, w, r)) PROVE Preserved
    <3>1. w \in Seq(Element) /\ r \in Seq(Element)
      BY WordType
    <3>2. Good(string_replace_method(me, w, r))
      BY <1>1, <3>1, ReplaceGood
    <3> QED
      BY <2>3, <3>2, GoodAnswer
  <2>4. ASSUME NEW compiles \in BOOLEAN, NEW captures \in BOOLEAN,
               Answers(string_regexp(me, w, compiles, captures)) PROVE Preserved
    <3>1. string_regexp(me, w, compiles, captures).t # "String"
      BY DEF string_regexp, Hang, Vector, List, Exception, Number
    <3> QED
      BY <1>2, <2>4, <3>1
  <2> QED
    BY <1>5, <2>1, <2>2, <2>3, <2>4
<1>6. ASSUME NEW i \in Indices, NEW n \in Indices, Answers(string_substr(me, i, n)) PROVE Preserved
  BY <1>1, <1>6, SubstrGood, GoodAnswer
<1>7. ASSUME NEW n \in Indices, Answers(string_repeat(me, n)) PROVE Preserved
  <2>1. n \in Int
    BY ElementsAssumption DEF Indices
  <2> QED
    BY <1>1, <1>7, <2>1, RepeatGood, GoodAnswer
<1> QED
  BY <1>3, <1>4, <1>5, <1>6, <1>7 DEF string_call_method

LEMMA VectorMethodInv ==
  ASSUME CInv, vector_call_method
  PROVE  Preserved
<1>1. Is("Vector") /\ me \in CollectionObject /\ me.t # "Map"
  BY State DEF vector_call_method, Is
<1>2. CASE WrongArguments \/ Answers(Number(me.items))
  BY <1>2, GoodAnswer, Numbers DEF WrongArguments
<1>3. CASE Keeps(vector_cl_pop(me))
  BY <1>1, <1>3, VectorPopInv
<1>4. CASE \E i \in Indices : Keeps(vector_cl_remove(me, i))
  BY <1>1, <1>4, VectorRemoveInv
<1>5. CASE \E e \in Elements : Answers(vector_contains(me, e))
  <2>1. \A e : Good(vector_contains(me, e))
    BY Numbers, Zenon DEF vector_contains
  <2> QED
    BY <1>5, <2>1, GoodAnswer, Zenon
<1>6. CASE Answers(vector_unique(me))
  BY <1>1, <1>6, GoodAnswer, UniqueGood
<1>7. CASE Answers(vector_min(me)) \/ Answers(vector_max(me))
  <2>1. Good(vector_min(me)) /\ Good(vector_max(me))
    BY Numbers, Zenon DEF vector_min, vector_max
  <2> QED
    BY <1>7, <2>1, GoodAnswer
<1> QED
  BY <1>2, <1>3, <1>4, <1>5, <1>6, <1>7 DEF vector_call_method

LEMMA MapMethodInv ==
  ASSUME CInv, map_call_method
  PROVE  Preserved
<1>1. Is("Map") /\ me \in CollectionObject /\ me.t = "Map"
  BY State DEF map_call_method, Is
<1>2. CASE WrongArguments \/ Answers(Number(me.items))
  BY <1>2, GoodAnswer, Numbers DEF WrongArguments
<1>3. CASE Keeps(map_cl_pop(me))
  BY <1>1, <1>3, MapPopInv
<1>4. ASSUME NEW k \in Keys, Keeps(map_cl_remove(me, k)) \/ Answers(map_has(me, k))
      PROVE  Preserved
  BY <1>1, <1>4, MapRemoveInv, GoodAnswer, Numbers DEF map_has
<1>5. CASE Answers(map_keys(me)) \/ Answers(map_values(me))
  BY <1>1, <1>5, MapLists, GoodAnswer
<1> QED
  BY <1>2, <1>3, <1>4, <1>5 DEF map_call_method

LEMMA StreamInv ==
  ASSUME CInv, stream
  PROVE  Preserved
<1>1. ASSUME Is("String"), NEW left, NEW answer, Settle(Outcome(left, answer)), drifted' = TRUE,
             Loose(me, left), Good(answer)
      PROVE  Preserved
  <2>1. Outcome(left, answer).left = left /\ Outcome(left, answer).answer = answer
    BY DEF Outcome
  <2> QED
    BY <1>1, <2>1, StepInv, GoodKept DEF Loose
<1>2. ASSUME Is("String"), NEW input \in Texts, NEW size \in 0 .. 2, drifted' = TRUE,
             \/ Settle(Outcome(string_from_fd(me, input, size), Nothing))
             \/ size = 0 /\ Settle(Outcome(string_scanf(me, CString(input)), Nothing))
             \/ Newline \in Range(input) /\ Settle(string_deserialize(me, input, size))
      PROVE  Preserved
  <2>1. me \in CollectionObject /\ me.t # "Map" /\ input \in Seq(Element) /\ size \in Nat
    BY <1>2, State, WordType DEF Is
  <2>2. /\ Loose(me, string_from_fd(me, input, size))
        /\ Loose(me, string_scanf(me, CString(input)))
        /\ Loose(me, string_deserialize(me, input, size).left)
        /\ Good(string_deserialize(me, input, size).answer)
    BY <2>1, ReadSound
  <2>3. PICK o : o = string_deserialize(me, input, size)
    OBVIOUS
  <2>4. CASE Settle(o)
    <3>1. o = Outcome(o.left, o.answer)
      BY <2>3 DEF string_deserialize, Outcome
    <3> QED
      BY <1>1, <1>2, <2>2, <2>3, <2>4, <3>1
  <2> QED
    BY <1>1, <1>2, <2>2, <2>3, <2>4, Numbers
<1>3. ASSUME Is("Binary"), NEW size \in 0 .. me.items,
             Answers(binary_deserialize(me, binary_serialize(me, 0), size))
      PROVE  Preserved
  BY <1>3, State, BinaryGood, GoodAnswer DEF Is
<1> QED
  BY <1>2, <1>3 DEF stream

LEMMA EmptySound ==
  ASSUME NEW kind \in Kinds
  PROVE  Sound([t |-> kind], Empty(kind))
<1>0. << >> \in Seq(Element) /\ << >> \in Seq(Keys) /\ << >> \in Seq(Values) /\ Len(<< >>) = 0
  BY EmptySeq
<1>1. CASE kind = "Map"
  <2> DEFINE d == MapOf(<< >>, << >>, 0)
  <2>1. Empty(kind) = d
    BY <1>0, <1>1 DEF Empty, Map
  <2>2. d \in CollectionObject /\ d.t = "Map" /\ d.keys = << >> /\ d.values = << >> /\ d.items = 0
    BY <1>0, <1>1 DEF MapOf, CollectionObject
  <2> HIDE DEF d
  <2>3. Exact(d) /\ OneEach(d)
    BY <1>0, <2>2 DEF Exact, OneEach
  <2> QED
    BY <1>1, <2>1, <2>2, <2>3 DEF Sound
<1>2. CASE kind # "Map"
  <2>1. Empty(kind) = List(kind, << >>)
    BY <1>2 DEF Empty
  <2> QED
    BY <1>0, <1>2, <2>1, ListObjects DEF Sound
<1> QED
  BY <1>1, <1>2

LEMMA InitInv ==
  ASSUME Init
  PROVE  CInv
<1>1. PICK kind \in Kinds : me = Empty(kind) /\ op = me
  BY DEF Init
<1>2. me \in CollectionObject /\ Exact(me) /\ OneEach(me) /\ Exact(op)
  BY <1>1, EmptySound DEF Sound
<1>3. me.items = 0 /\ Bounded(me, MaxItems)
  BY <1>1, EmptySeq, ElementsAssumption DEF Empty, Map, MapOf, List, Bounded
<1>4. TypeOK
  <2>1. me.items <= MaxItems
    BY <1>3, ElementsAssumption
  <2>2. drifted = FALSE /\ status = "running" /\ op = me
    BY <1>1 DEF Init
  <2> QED
    BY <1>2, <2>1, <2>2 DEF TypeOK
<1> QED
  BY <1>2, <1>3, <1>4 DEF Init, CInv

LEMMA NextInv ==
  ASSUME CInv, Next
  PROVE  Preserved
BY PushInv, PopInv, RemoveInv, AtInv, SetInv, AssignInv, CloneInv, ArithInv, StringMethodInv,
   VectorMethodInv, MapMethodInv, StreamInv DEF Next

LEMMA StutterInv ==
  ASSUME CInv, UNCHANGED vars
  PROVE  Preserved
BY DEF CInv, TypeOK, CollectionObject, Bounded, Is, Exact, OneEach, vars, Preserved

(* CInv holds through every operation a script can call, whatever the       *)
(* operands: no step of any of the four types leaves a collection whose     *)
(* counter, keys and values disagree.                                      *)
THEOREM Invariance == Spec => []CInv
<1>1. Init => CInv
  BY InitInv
<1>2. CInv /\ [Next]_vars => CInv'
  BY NextInv, StutterInv DEF Preserved
<1> QED
  BY <1>1, <1>2, PTL DEF Spec

(* Collections stay sequences of elements, and within the bound (TypeOK).   *)
THEOREM TypeCorrect == Spec => []TypeOK
<1>1. CInv => TypeOK
  BY DEF CInv
<1> QED
  BY <1>1, Invariance, PTL

-----------------------------------------------------------------------------
(* What the collector is given. *)
LEMMA ListChildren ==
  ASSUME NEW c \in CollectionObject, c.t # "Map", Exact(c), c.items <= MaxItems
  PROVE  LET none == Min({i \in 0 .. (2 * MaxItems) : vector_traverse(c, i) = Nothing})
         IN  [i \in 1 .. none |-> vector_traverse(c, i - 1)] = [i \in DOMAIN c.value |-> Item(c.value[i])]
<1>1. PICK n \in Nat : n = c.items /\ n = Len(c.value) /\ DOMAIN c.value = 1 .. n
  BY Lists DEF Exact
<1>2. n <= MaxItems /\ MaxItems \in Nat
  BY <1>1, ElementsAssumption
<1> DEFINE None == {i \in 0 .. (2 * MaxItems) : vector_traverse(c, i) = Nothing}
<1>3. \A i \in Nat : vector_traverse(c, i) = IF i >= n THEN Nothing ELSE Item(c.value[i + 1])
  BY <1>1 DEF vector_traverse
<1>4. \A v : Item(v) # Nothing
  BY DEF Item, Nothing
<1>5. None = n .. (2 * MaxItems)
  BY <1>2, <1>3, <1>4
<1>6. Min(None) = n
  <2>1. n \in None /\ None \in SUBSET Int /\ \A k \in None : n <= k
    BY <1>2, <1>5
  <2> HIDE DEF None
  <2> QED
    BY <2>1, MinOf
<1>7. \A i \in 1 .. n : vector_traverse(c, i - 1) = Item(c.value[i])
  BY <1>3
<1> QED
  BY <1>1, <1>6, <1>7

LEMMA MapChildren ==
  ASSUME NEW c \in CollectionObject, c.t = "Map", Exact(c), c.items <= MaxItems
  PROVE  LET none == Min({i \in 0 .. (2 * MaxItems) : map_traverse(c, i) = Nothing})
             content == c.keys \o c.values
         IN  [i \in 1 .. none |-> map_traverse(c, i - 1)] = [i \in DOMAIN content |-> Item(content[i])]
<1>1. PICK n \in Nat : n = c.items /\ n = Len(c.keys) /\ n = Len(c.values)
  BY Tables DEF Exact
<1>2. n <= MaxItems /\ MaxItems \in Nat
  BY <1>1, ElementsAssumption
<1> DEFINE None == {i \in 0 .. (2 * MaxItems) : map_traverse(c, i) = Nothing}
           content == c.keys \o c.values
<1>3. \A i \in Nat : map_traverse(c, i) = IF i < n THEN Item(c.keys[i + 1])
                                         ELSE IF i < 2 * n THEN Item(c.values[i - n + 1]) ELSE Nothing
  <2> TAKE i \in Nat
  <2>1. (i - n < n) <=> (i < 2 * n)
    OBVIOUS
  <2> QED
    BY <1>1, <2>1 DEF map_traverse
<1>4. \A v : Item(v) # Nothing
  BY DEF Item, Nothing
<1>5. None = (2 * n) .. (2 * MaxItems)
  <2>1. \A i \in 0 .. (2 * MaxItems) : map_traverse(c, i) = Nothing <=> i >= 2 * n
    <3> TAKE i \in 0 .. (2 * MaxItems)
    <3>1. i \in Nat
      BY <1>2
    <3> QED
      BY <1>3, <1>4, <3>1
  <2> QED
    BY <1>2, <2>1
<1>6. Min(None) = 2 * n
  <2>1. 2 * n \in None /\ None \in SUBSET Int /\ \A k \in None : 2 * n <= k
    BY <1>2, <1>5
  <2>2. PICK m \in None : m = 2 * n
    BY <2>1
  <2> HIDE DEF None
  <2> QED
    BY <2>1, <2>2, MinOf
<1>7. /\ DOMAIN content = 1 .. 2 * n
      /\ \A i \in 1 .. 2 * n : content[i] = IF i <= n THEN c.keys[i] ELSE c.values[i - n]
  <2>1. PICK ks, vs \in Seq(Element) : ks = c.keys /\ vs = c.values
    BY MapLists
  <2>0. PICK m \in Nat : n = Len(ks) /\ m = Len(vs) /\ m = n
    BY <1>1, <2>1
  <2>5. ks \o vs \in Seq(Element) /\ Len(ks \o vs) = Len(ks) + Len(vs)
    BY ConcatProperties
  <2>6. \A i \in 1 .. Len(ks) + Len(vs) : (ks \o vs)[i] = IF i <= Len(ks) THEN ks[i] ELSE vs[i - Len(ks)]
    BY ConcatProperties
  <2>2. DOMAIN (ks \o vs) = 1 .. n + m
    BY <2>0, <2>5, LenProperties
  <2>3. \A i \in 1 .. n + m : (ks \o vs)[i] = IF i <= n THEN ks[i] ELSE vs[i - n]
    BY <2>0, <2>6
  <2>4. n + m = 2 * n /\ content = ks \o vs
    BY <2>0, <2>1
  <2> HIDE DEF content
  <2> QED
    BY <2>1, <2>2, <2>3, <2>4
<1> HIDE DEF content
<1>8. \A i \in 1 .. 2 * n : map_traverse(c, i - 1) = Item(content[i])
  <2> TAKE i \in 1 .. 2 * n
  <2>1. i - 1 \in Nat /\ i - 1 < 2 * n /\ (i - 1 < n <=> i <= n) /\ i - 1 + 1 = i /\ i - 1 - n + 1 = i - n
    OBVIOUS
  <2>2. map_traverse(c, i - 1) = IF i <= n THEN Item(c.keys[i]) ELSE Item(c.values[i - n])
    BY <1>3, <2>1
  <2> QED
    BY <1>7, <2>2
<1> QED
  BY <1>6, <1>7, <1>8 DEF content

(* The counter is the length of the sequence, and the collector is given    *)
(* every child once (ItemsExact).                                          *)
THEOREM CountersExact == Spec => []ItemsExact
<1>1. ASSUME CInv PROVE ItemsExact
  <2>1. ~drifted => Exact(me)
    BY <1>1, State
  <2>2. TraversesAll
    <3> SUFFICES ASSUME ~Is("String") PROVE TraversesAll
      BY DEF TraversesAll
    <3>0. me \in CollectionObject /\ Exact(me) /\ me.items <= MaxItems /\ me.t \in Kinds /\ me.t # "String"
      BY <1>1, State DEF CInv, TypeOK, Is
    <3>1. CASE me.t = "Map"
      BY <3>0, <3>1, MapChildren DEF TraversesAll, Content, Is
    <3>2. CASE me.t # "Map"
      <4>1. me.t = "Vector" \/ me.t = "Binary"
        BY <3>0, <3>2, ElementsAssumption
      <4> QED
        BY <3>0, <3>2, <4>1, ListChildren DEF TraversesAll, Content, Is, binary_traverse
    <3> QED
      BY <3>1, <3>2
  <2> QED
    BY <2>1, <2>2 DEF ItemsExact
<1> QED
  BY <1>1, Invariance, PTL

-----------------------------------------------------------------------------
(* Indices and keys. *)
LEMMA IndexWraps ==
  ASSUME NEW i \in Indices
  PROVE  /\ i \in Int /\ -1 <= i /\ i <= MaxItems
         /\ i >= 0 => Index(i) = i
         /\ i = -1 => Index(i) > MaxItems
         /\ Index(i) \in Nat
<1>1. i \in Int /\ -1 <= i /\ i <= MaxItems
  BY ElementsAssumption DEF Indices
<1>2. PICK w \in Nat \ {0} : w = 2^SizeBits /\ MaxItems + 1 < w
  BY WidthsAssumption, ElementsAssumption
<1>3. i >= 0 => i % w = i
  BY <1>1, <1>2, ElementsAssumption
<1>4. (-1) % w = w - 1
  BY <1>2
<1> QED
  BY <1>1, <1>2, <1>3, <1>4, ElementsAssumption DEF Index

LEMMA ListAccess ==
  ASSUME NEW c \in CollectionObject, c.t # "Map", Exact(c), c.items <= MaxItems, NEW i \in Indices
  PROVE  /\ vector_cl_at(c, i) = IF i + 1 \in DOMAIN c.value THEN Item(c.value[i + 1]) ELSE Exception
         /\ string_cl_at(c, i) = IF i + 1 \in DOMAIN c.value THEN Item(c.value[i + 1]) ELSE Exception
<1>1. PICK n \in Nat : n = c.items /\ n = Len(c.value) /\ DOMAIN c.value = 1 .. n /\ n <= MaxItems
  BY Lists DEF Exact
<1>2. CASE i + 1 \in 1 .. n
  <2>1. Index(i) = i /\ i < n /\ i \in Int
    BY <1>2, IndexWraps
  <2> QED
    BY <1>1, <1>2, <2>1 DEF vector_cl_at, string_cl_at, Outside
<1>3. CASE i + 1 \notin 1 .. n
  <2>1. Index(i) >= n
    <3>1. i = -1 \/ i >= n
      BY <1>3, IndexWraps
    <3> QED
      BY <1>1, <3>1, IndexWraps, ElementsAssumption
  <2>2. Outside(c, i)
    BY <1>1, <2>1 DEF Outside
  <2> QED
    BY <1>1, <1>3, <2>2 DEF vector_cl_at, string_cl_at
<1> QED
  BY <1>2, <1>3

LEMMA MapAccess ==
  ASSUME NEW c \in CollectionObject, c.t = "Map", Exact(c), OneEach(c), NEW k,
         k \in Range(c.keys), TakenFor(k, k)
  PROVE  map_cl_at(c, k) = Item(c.values[SelectLastInSeq(c.keys, LAMBDA x : x = k)])
<1>1. PICK n \in Nat : n = Len(c.keys) /\ DOMAIN c.keys = 1 .. n
  BY Tables
<1>2. PICK i \in 1 .. Len(c.keys) : c.keys[i] = k
  BY <1>1 DEF Range
<1>3. /\ map_cl_at(c, k) = Item(c.values[i])
      /\ \A j \in 1 .. Len(c.keys) : c.keys[j] = k => j = i
  BY <1>2, AtRight
<1> DEFINE I == {j \in 1 .. Len(c.keys) : c.keys[j] = k}
<1>4. I = {i}
  BY <1>2, <1>3
<1>5. Max(I) = i
  <2>1. i \in I /\ I \in SUBSET Int /\ \A j \in I : j <= i
    BY <1>1, <1>2, <1>4
  <2> HIDE DEF I
  <2> QED
    BY <2>1, MaxOf
<1>6. SelectLastInSeq(c.keys, LAMBDA x : x = k) = IF I # {} THEN Max(I) ELSE 0
  BY DEF SelectLastInSeq
<1>7. SelectLastInSeq(c.keys, LAMBDA x : x = k) = i
  BY <1>4, <1>5, <1>6
<1> QED
  BY <1>3, <1>7

LEMMA SetAccess ==
  ASSUME NEW c \in CollectionObject, c.t = "Map", Exact(c), OneEach(c), NEW k \in Keys, NEW v \in Values,
         TakenFor(k, k), map_cl_set(c, k, v).answer = Nothing
  PROVE  map_cl_at(map_cl_set(c, k, v).left, k) = Item(v)
<1>1. /\ c.keys \in Seq(Keys) /\ c.values \in Seq(Values)
  BY Tables
<1>2. PICK n \in Nat : n = c.items /\ n = Len(c.keys) /\ n = Len(c.values)
  BY Tables DEF Exact
<1>3. ~Stops(c.keys, k)
  <2> SUFFICES ASSUME Stops(c.keys, k) PROVE FALSE
    OBVIOUS
  <2>1. map_cl_set(c, k, v).answer = Error
    BY DEF map_cl_set, Outcome
  <2> QED
    BY <2>1 DEF Error, Nothing
<1> DEFINE d == map_cl_set(c, k, v).left
<1>4. CASE Mapped(c, k)
  <2>1. PICK p \in 1 .. n : p = map_find(c, k) + 1
    BY <1>2, <1>3, <1>4, SearchRight
  <2>2. /\ d.keys = c.keys /\ d.items = c.items
        /\ d.values = [c.values EXCEPT ![map_find(c, k) + 1] = v]
    BY <1>3, <1>4 DEF map_cl_set, Outcome, MapOf
  <2>3. DOMAIN c.values = 1 .. n
    BY <1>2, Tables
  <2>4. d.values[map_find(c, k) + 1] = v
    <3> HIDE DEF d
    <3> QED
      BY <2>1, <2>2, <2>3
  <2>5. map_find(d, k) = map_find(c, k) /\ Mapped(d, k) /\ ~Stops(d.keys, k)
    <3> HIDE DEF d
    <3> QED
      BY <1>3, <1>4, <2>2, Zenon DEF Mapped, map_find
  <2> HIDE DEF d
  <2> QED
    BY <2>4, <2>5 DEF map_cl_at, d
<1>5. CASE ~Mapped(c, k)
  <2>1. d.keys = Append(c.keys, k) /\ d.values = Append(c.values, v) /\ d.t = "Map"
    BY <1>3, <1>5 DEF map_cl_set, Outcome, MapOf
  <2>2. Sound(c, d)
    BY MapSetSound
  <2> HIDE DEF d
  <2>3. d.keys[n + 1] = k /\ d.values[n + 1] = v /\ n + 1 \in 1 .. Len(d.keys)
    <3>1. Len(Append(c.keys, k)) = n + 1 /\ Append(c.keys, k)[n + 1] = k
      <4>1. PICK ks \in Seq(Keys) : ks = c.keys /\ n = Len(ks)
        BY <1>1, <1>2
      <4>2. Len(Append(ks, k)) = Len(ks) + 1 /\ Append(ks, k)[Len(ks) + 1] = k
        BY AppendProperties
      <4> QED
        BY <4>1, <4>2
    <3>2. Append(c.values, v)[n + 1] = v
      <4>1. PICK vs \in Seq(Values) : vs = c.values /\ n = Len(vs)
        BY <1>1, <1>2
      <4>2. Append(vs, v)[Len(vs) + 1] = v
        BY AppendProperties
      <4> QED
        BY <4>1, <4>2
    <3>3. n + 1 \in 1 .. n + 1
      OBVIOUS
    <3> QED
      BY <2>1, <3>1, <3>2, <3>3
  <2>4. map_cl_at(d, d.keys[n + 1]) = Item(d.values[n + 1])
    BY <2>1, <2>2, <2>3, AtRight DEF Sound
  <2> QED
    BY <2>3, <2>4 DEF d
<1> QED
  BY <1>4, <1>5

(* An index answers the element it stands for and a key the value beside    *)
(* it, an exception is raised when there is none, and what is mapped under  *)
(* a key that compares as itself is what it answers then (AccessExact).     *)
THEOREM AccessRight == Spec => []AccessExact
<1>1. ASSUME CInv PROVE AccessExact
  <2>0. me \in CollectionObject /\ me.items <= MaxItems /\ OneEach(me) /\ (~drifted => Exact(me))
    BY <1>1, State DEF CInv, TypeOK
  <2>1. CASE Is("Map")
    <3>1. me.t = "Map" /\ Exact(me)
      BY <1>1, <2>1, State DEF Is
    <3> QED
      BY <2>0, <2>1, <3>1, MapAccess, NotAtRight, SetAccess DEF AccessExact
  <2>2. CASE ~Is("Map")
    <3>1. me.t # "Map"
      BY <2>2 DEF Is
    <3> QED
      BY <2>0, <2>2, <3>1, ListAccess DEF AccessExact, binary_cl_at
  <2> QED
    BY <2>1, <2>2
<1> QED
  BY <1>1, Invariance, PTL

-----------------------------------------------------------------------------
(* Writing and reading. *)
LEMMA BinaryTrip ==
  ASSUME NEW c \in CollectionObject, c.t = "Binary", Exact(c), NEW size \in 1 .. c.items
  PROVE  binary_deserialize(c, binary_serialize(c, size), size)
            = Binary([i \in 1 .. size |-> Integer(Byte(ivalue(c.value[i])))])
<1>1. PICK n \in Nat : n = c.items
  BY Lists
<1>2. PICK k \in Nat \ {0} : k = size /\ k <= n
  BY <1>1
<1>3. binary_serialize(c, size) = [i \in 1 .. k |-> Byte(ivalue(c.value[i]))]
  BY <1>1, <1>2 DEF binary_serialize, Selected
<1>4. k <= c.items /\ size \in 1 .. k
  BY <1>1, <1>2
<1> QED
  BY <1>3, <1>4, ReadBytes

LEMMA StringTrip ==
  ASSUME NEW c \in CollectionObject, c.t = "String", Exact(c), Line(c.value) = c.value
  PROVE  string_deserialize(c, string_serialize(c, 0), 0) = Outcome(c, Nothing)
<1>1. PICK s \in Seq(Element) : s = c.value
  BY Lists
<1>2. PICK n \in Nat : n = Len(s) /\ n = c.items /\ DOMAIN s = 1 .. n
  BY <1>1, Lists DEF Exact
<1>3. string_serialize(c, 0) = s
  <2>1. string_serialize(c, 0) = [i \in 1 .. n |-> IF i <= n THEN s[i] ELSE Nul]
    BY <1>1, <1>2 DEF string_serialize, Selected
  <2>2. s = [i \in 1 .. n |-> s[i]]
    BY <1>2, LenProperties
  <2> QED
    BY <2>1, <2>2
<1>4. [c EXCEPT !.value = s, !.items = n] = c
  <2>1. PICK k, v, i : c = [t |-> k, value |-> v, items |-> i]
    BY Lists
  <2>2. v = s /\ i = n
    BY <1>1, <1>2, <2>1
  <2>3. PICK d : d = [c EXCEPT !.value = s]
    OBVIOUS
  <2>4. d = [t |-> k, value |-> s, items |-> i]
    BY <2>1, <2>3
  <2>5. [d EXCEPT !.items = n] = [t |-> k, value |-> s, items |-> n]
    BY <2>4
  <2> QED
    BY <2>1, <2>2, <2>3, <2>5
<1> QED
  BY <1>1, <1>2, <1>3, <1>4 DEF string_deserialize

(* What a binary or a string writes it reads again (RoundTrip).            *)
THEOREM RoundTripRight == Spec => []RoundTrip
<1>1. ASSUME CInv PROVE RoundTrip
  <2>1. me \in CollectionObject /\ (~drifted => Exact(me)) /\ (me.t # "String" => Exact(me))
    BY <1>1, State
  <2> QED
    BY <2>1, BinaryTrip, StringTrip DEF RoundTrip, Is
<1> QED
  BY <1>1, Invariance, PTL

-----------------------------------------------------------------------------
(* The order of lists whose elements are plain, place by place. *)
PlainLists(a, b) ==
  /\ a \in Seq(Element) /\ b \in Seq(Element)
  /\ Len(a) = Len(b) => \A i \in 1 .. Len(a) : Plain(a[i], b[i])

PlainTexts(a, b) ==
  /\ a \in Seq(Element) /\ b \in Seq(Element)
  /\ \A i \in DOMAIN a \cap DOMAIN b : Plain(a[i], b[i])

LEMMA PlainContent ==
  ASSUME NEW a \in Seq(Element), NEW b \in Seq(Element), Ordered(a, b)
  PROVE  PlainLists(a, b) /\ (Is("String") => PlainTexts(a, b))
<1>1. DOMAIN a = 1 .. Len(a) /\ DOMAIN b = 1 .. Len(b)
  BY LenProperties
<1>2. ASSUME NEW i \in DOMAIN a \cap DOMAIN b, a[i].t = b[i].t PROVE Plain(a[i], b[i])
  <2>1. a[i] \in Range(a) /\ b[i] \in Range(b)
    BY DEF Range
  <2> QED
    BY <1>2, <2>1 DEF Ordered, Plain
<1> QED
  BY <1>1, <1>2, Zenon DEF Ordered, PlainLists, PlainTexts

LEMMA FirstDifference ==
  ASSUME NEW a, NEW b, PlainLists(a, b), Len(a) = Len(b)
  PROVE  /\ first_difference(a, b) = -first_difference(b, a)
         /\ first_difference(a, b) = 0 <=> a = b
<1>1. PICK n \in Nat : n = Len(a) /\ n = Len(b) /\ DOMAIN a = 1 .. n /\ DOMAIN b = 1 .. n
  BY LenProperties DEF PlainLists
<1>2. \A i \in 1 .. n : a[i] \in Element /\ b[i] \in Element /\ Plain(a[i], b[i]) /\ Plain(b[i], a[i])
  <2> TAKE i \in 1 .. n
  <2>1. a[i] \in Element /\ b[i] \in Element
    BY <1>1, ElementOfSeq DEF PlainLists
  <2>2. Plain(a[i], b[i])
    BY <1>1 DEF PlainLists
  <2> QED
    BY <2>1, <2>2, PlainBoth
<1> DEFINE Differ == {i \in 1 .. n : a[i] # b[i]}
<1>3. {i \in DOMAIN a : ~Same(a[i], b[i])} = Differ /\ {i \in DOMAIN b : ~Same(b[i], a[i])} = Differ
  <2>1. \A i \in 1 .. n : (Same(a[i], b[i]) <=> a[i] = b[i]) /\ (Same(b[i], a[i]) <=> a[i] = b[i])
    BY <1>2, AlikeOrder
  <2> QED
    BY <1>1, <2>1
<1>4. /\ first_difference(a, b) = IF Differ = {} THEN 0 ELSE element_cmp(a[Min(Differ)], b[Min(Differ)])
      /\ first_difference(b, a) = IF Differ = {} THEN 0 ELSE element_cmp(b[Min(Differ)], a[Min(Differ)])
  BY <1>3 DEF first_difference
<1>5. CASE Differ = {}
  <2>1. \A i \in 1 .. n : a[i] = b[i]
    BY <1>5
  <2>2. a = b
    BY <1>1, <2>1, SeqEqual DEF PlainLists
  <2>3. first_difference(a, b) = 0 /\ first_difference(b, a) = 0
    BY <1>4, <1>5
  <2>4. PICK z \in Int : z = 0 /\ z = -z
    OBVIOUS
  <2>5. first_difference(a, b) = z /\ first_difference(b, a) = z /\ z = 0
    BY <2>3, <2>4
  <2> HIDE DEF Differ
  <2>6. first_difference(a, b) = -first_difference(b, a)
    BY <2>4, <2>5
  <2> QED
    BY <2>2, <2>3, <2>6
<1>6. CASE Differ # {}
  <2>1. Min(Differ) \in Differ
    <3>1. Differ \subseteq 1 .. n
      OBVIOUS
    <3> HIDE DEF Differ
    <3> QED
      BY <1>6, <3>1, Positions
  <2>2. PICK i \in 1 .. n : i = Min(Differ) /\ a[i] # b[i]
    BY <2>1
  <2>3. a # b
    BY <2>2
  <2>4. element_cmp(a[i], b[i]) = -element_cmp(b[i], a[i]) /\ element_cmp(a[i], b[i]) # 0
    <3>1. a[i] \in Element /\ b[i] \in Element /\ Plain(a[i], b[i])
      BY <1>2
    <3>2. element_cmp(a[i], b[i]) = -element_cmp(b[i], a[i]) /\ (Same(a[i], b[i]) <=> a[i] = b[i])
      BY <3>1, AlikeOrder
    <3> QED
      BY <2>2, <3>2 DEF Same
  <2> HIDE DEF Differ
  <2> QED
    BY <1>4, <1>6, <2>2, <2>3, <2>4
<1> QED
  BY <1>5, <1>6

LEMMA ListOrder ==
  ASSUME NEW a, NEW b, PlainLists(a, b)
  PROVE  list_cmp(a, b) = -list_cmp(b, a) /\ (list_cmp(a, b) = 0 <=> a = b)
<1>1. PICK m, n \in Nat : m = Len(a) /\ n = Len(b)
  BY LenProperties DEF PlainLists
<1>2. CASE m = n
  <2>1. Len(a) = Len(b)
    BY <1>1, <1>2
  <2> QED
    BY <2>1, FirstDifference DEF list_cmp
<1>3. CASE m # n
  <2>1. a # b
    BY <1>1, <1>3
  <2>2. list_cmp(a, b) = (IF m > n THEN 1 ELSE -1) /\ list_cmp(b, a) = (IF n > m THEN 1 ELSE -1)
    BY <1>1, <1>3 DEF list_cmp
  <2> QED
    BY <1>3, <2>1, <2>2
<1> QED
  BY <1>2, <1>3

LEMMA PrefixEqual ==
  ASSUME NEW a \in Seq(Element), NEW b \in Seq(Element), NEW k \in Nat, k <= Len(a), k <= Len(b)
  PROVE  SubSeq(a, 1, k) = SubSeq(b, 1, k) <=> \A j \in 1 .. k : a[j] = b[j]
<1>1. PICK u, v : u = SubSeq(a, 1, k) /\ v = SubSeq(b, 1, k)
  OBVIOUS
<1>2. /\ u \in Seq(Element) /\ Len(u) = (IF 1 <= k THEN k - 1 + 1 ELSE 0)
      /\ \A i \in 1 .. k - 1 + 1 : u[i] = a[1 + i - 1]
  <2>1. 1 \in Int /\ k \in Int
    OBVIOUS
  <2> QED
    BY <1>1, <2>1, SubSeqInside
<1>3. /\ v \in Seq(Element) /\ Len(v) = (IF 1 <= k THEN k - 1 + 1 ELSE 0)
      /\ \A i \in 1 .. k - 1 + 1 : v[i] = b[1 + i - 1]
  <2>1. 1 \in Int /\ k \in Int
    OBVIOUS
  <2> QED
    BY <1>1, <2>1, SubSeqInside
<1>4. Len(u) = k /\ Len(v) = k
  BY <1>2, <1>3
<1>5. \A i \in 1 .. k : u[i] = a[i] /\ v[i] = b[i]
  BY <1>2, <1>3
<1>6. u = v <=> \A i \in 1 .. k : u[i] = v[i]
  BY <1>2, <1>3, <1>4, SeqEqual
<1> QED
  BY <1>1, <1>5, <1>6

(* One text comes after another. *)
After(a, b) ==
  \/ IsPrefix(b, a)
  \/ \E i \in DOMAIN a \cap DOMAIN b : SubSeq(a, 1, i - 1) = SubSeq(b, 1, i - 1) /\ a[i].v > b[i].v

LEMMA TextOrder ==
  ASSUME NEW a \in Seq(Element), NEW b \in Seq(Element), PlainTexts(a, b), a # b
  PROVE  After(a, b) <=> ~After(b, a)
<1>1. PICK m, n \in Nat : m = Len(a) /\ n = Len(b) /\ DOMAIN a = 1 .. m /\ DOMAIN b = 1 .. n
  BY LenProperties
<1>2. /\ \A i \in 1 .. m : a[i].v \in Int
      /\ \A i \in 1 .. n : b[i].v \in Int
      /\ \A i \in 1 .. m : i \in 1 .. n /\ a[i] # b[i] => a[i].v # b[i].v
  <2>1. (\A i \in 1 .. m : a[i] \in Element) /\ (\A i \in 1 .. n : b[i] \in Element)
    BY <1>1, ElementOfSeq
  <2>2. \A e \in Element : e.v \in Int
    BY ConversionsAssumption DEF Element
  <2>3. \A i \in 1 .. m : i \in 1 .. n => Plain(a[i], b[i])
    BY <1>1 DEF PlainTexts
  <2> QED
    BY <2>1, <2>2, <2>3, AlikeOrder
<1>3. PICK l \in Nat : l = (IF m <= n THEN m ELSE n) /\ DOMAIN a \cap DOMAIN b = 1 .. l /\ l <= m /\ l <= n
  BY <1>1
<1>4. ASSUME NEW k \in 0 .. l
      PROVE  (SubSeq(a, 1, k) = SubSeq(b, 1, k)) <=> \A j \in 1 .. k : a[j] = b[j]
  <2>1. k \in Nat /\ k <= Len(a) /\ k <= Len(b)
    BY <1>1, <1>3
  <2> QED
    BY <2>1, PrefixEqual
<1>5. /\ IsPrefix(b, a) <=> n <= m /\ \A j \in 1 .. n : a[j] = b[j]
      /\ IsPrefix(a, b) <=> m <= n /\ \A j \in 1 .. m : a[j] = b[j]
  <2>1. n <= m => (SubSeq(a, 1, n) = SubSeq(b, 1, n) <=> \A j \in 1 .. n : a[j] = b[j])
    BY <1>3, <1>4
  <2>2. m <= n => (SubSeq(a, 1, m) = SubSeq(b, 1, m) <=> \A j \in 1 .. m : a[j] = b[j])
    BY <1>3, <1>4
  <2>3. IsPrefix(b, a) <=> n <= m /\ SubSeq(a, 1, n) = SubSeq(b, 1, n)
    BY <1>1 DEF IsPrefix
  <2>4. IsPrefix(a, b) <=> m <= n /\ SubSeq(a, 1, m) = SubSeq(b, 1, m)
    BY <1>1 DEF IsPrefix
  <2> QED
    BY <2>1, <2>2, <2>3, <2>4
<1>6. /\ After(a, b) <=> (n <= m /\ \A j \in 1 .. n : a[j] = b[j])
                           \/ \E i \in 1 .. l : (\A j \in 1 .. i - 1 : a[j] = b[j]) /\ a[i].v > b[i].v
      /\ After(b, a) <=> (m <= n /\ \A j \in 1 .. m : a[j] = b[j])
                           \/ \E i \in 1 .. l : (\A j \in 1 .. i - 1 : a[j] = b[j]) /\ b[i].v > a[i].v
  <2>1. \A i \in 1 .. l : (SubSeq(a, 1, i - 1) = SubSeq(b, 1, i - 1)) <=> \A j \in 1 .. i - 1 : a[j] = b[j]
    <3> TAKE i \in 1 .. l
    <3>1. i - 1 \in 0 .. l
      OBVIOUS
    <3> QED
      BY <1>4, <3>1
  <2>2. DOMAIN a \cap DOMAIN b = 1 .. l /\ DOMAIN b \cap DOMAIN a = 1 .. l
    BY <1>3
  <2> QED
    BY <1>5, <2>1, <2>2 DEF After
<1> DEFINE Differ == {i \in 1 .. l : a[i] # b[i]}
<1>7. CASE Differ = {}
  <2>1. \A i \in 1 .. l : a[i] = b[i]
    BY <1>7
  <2>2. m # n
    <3> SUFFICES ASSUME m = n PROVE FALSE
      OBVIOUS
    <3>1. Len(a) = Len(b) /\ \A i \in 1 .. Len(a) : a[i] = b[i]
      BY <1>1, <1>3, <2>1
    <3> QED
      BY <3>1, SeqEqual
  <2>3. \A i \in 1 .. l : ~(a[i].v > b[i].v) /\ ~(b[i].v > a[i].v)
    <3> TAKE i \in 1 .. l
    <3>1. a[i].v \in Int /\ b[i].v \in Int /\ a[i] = b[i]
      BY <1>2, <1>3, <2>1
    <3> QED
      BY <3>1
  <2> QED
    BY <1>3, <1>6, <2>1, <2>2, <2>3
<1>8. CASE Differ # {}
  <2>1. Min(Differ) \in Differ /\ \A k \in Differ : Min(Differ) <= k
    <3>1. Differ \subseteq 1 .. l
      OBVIOUS
    <3> HIDE DEF Differ
    <3> QED
      BY <1>8, <3>1, Positions
  <2>2. PICK i \in 1 .. l : a[i] # b[i] /\ \A k \in 1 .. l : a[k] # b[k] => i <= k
    BY <2>1
  <2>3. i \in 1 .. m /\ i \in 1 .. n /\ a[i].v \in Int /\ b[i].v \in Int /\ i \in Int
    BY <1>2, <1>3
  <2>4. \A j \in 1 .. i - 1 : a[j] = b[j]
    <3> TAKE j \in 1 .. i - 1
    <3>1. j \in 1 .. l /\ j < i
      BY <2>2
    <3> QED
      BY <2>2, <3>1
  <2>5. ASSUME NEW k \in 1 .. l, \A j \in 1 .. k - 1 : a[j] = b[j], a[k] # b[k]
        PROVE  k = i
    <3>1. i <= k
      BY <2>2, <2>5
    <3>2. ~(i < k)
      <4> SUFFICES ASSUME i < k PROVE FALSE
        OBVIOUS
      <4>1. i \in 1 .. k - 1
        OBVIOUS
      <4> QED
        BY <2>2, <2>5, <4>1
    <3> QED
      BY <3>1, <3>2
  <2>6. \A k \in 1 .. l : a[k].v \in Int /\ b[k].v \in Int
    BY <1>2, <1>3
  <2>7. /\ After(a, b) <=> a[i].v > b[i].v
        /\ After(b, a) <=> b[i].v > a[i].v
    <3>1. ~(\A j \in 1 .. n : a[j] = b[j]) /\ ~(\A j \in 1 .. m : a[j] = b[j])
      BY <2>2, <2>3
    <3>2. \A k \in 1 .. l : (\A j \in 1 .. k - 1 : a[j] = b[j]) /\ (a[k].v > b[k].v \/ b[k].v > a[k].v) => k = i
      <4> TAKE k \in 1 .. l
      <4>1. (a[k].v > b[k].v \/ b[k].v > a[k].v) => a[k] # b[k]
        BY <2>6
      <4> QED
        BY <2>5, <4>1
    <3>3. (\E k \in 1 .. l : (\A j \in 1 .. k - 1 : a[j] = b[j]) /\ a[k].v > b[k].v) <=> a[i].v > b[i].v
      BY <2>2, <2>4, <3>2
    <3>4. (\E k \in 1 .. l : (\A j \in 1 .. k - 1 : a[j] = b[j]) /\ b[k].v > a[k].v) <=> b[i].v > a[i].v
      BY <2>2, <2>4, <3>2
    <3> QED
      BY <1>6, <3>1, <3>3, <3>4
  <2> QED
    BY <1>2, <2>2, <2>3, <2>7
<1> QED
  BY <1>7, <1>8

LEMMA Joined ==
  ASSUME NEW k \in Seq(Element), NEW v \in Seq(Element), NEW n \in Nat, n = Len(k), n = Len(v)
  PROVE  /\ Len(k \o v) = n + n /\ DOMAIN (k \o v) = 1 .. n + n
         /\ \A i \in 1 .. n : (k \o v)[i] = k[i] /\ (k \o v)[n + i] = v[i]
<1>1. /\ k \o v \in Seq(Element) /\ Len(k \o v) = Len(k) + Len(v)
      /\ \A i \in 1 .. Len(k) + Len(v) : (k \o v)[i] = IF i <= Len(k) THEN k[i] ELSE v[i - Len(k)]
  BY ConcatProperties
<1>2. PICK w : w = k \o v
  OBVIOUS
<1>3. /\ w \in Seq(Element) /\ Len(w) = n + n
      /\ \A i \in 1 .. n + n : w[i] = IF i <= n THEN k[i] ELSE v[i - n]
  BY <1>1, <1>2
<1>4. DOMAIN w = 1 .. n + n
  BY <1>3, LenProperties
<1>5. ASSUME NEW i \in 1 .. n PROVE w[i] = k[i] /\ w[n + i] = v[i]
  <2>1. i \in 1 .. n + n /\ i <= n
    OBVIOUS
  <2>2. PICK j \in Int : j = n + i
    OBVIOUS
  <2>5. j \in 1 .. n + n /\ ~(j <= n) /\ j - n = i
    BY <2>2
  <2>3. w[i] = k[i]
    BY <1>3, <2>1
  <2>4. w[j] = v[j - n]
    BY <1>3, <2>5
  <2> QED
    BY <2>2, <2>3, <2>4, <2>5
<1> QED
  BY <1>2, <1>3, <1>4, <1>5

Interleaves(p, k, v, n) ==
  /\ p \in Seq(Element) /\ Len(p) = 2 * n
  /\ \A i \in 1 .. n : p[2 * i - 1] = k[i] /\ p[2 * i] = v[i]

LEMMA PairsOf ==
  ASSUME NEW k \in Seq(Element), NEW v \in Seq(Element), NEW n \in Nat, NEW m,
         n = Len(k), n = Len(v)
  PROVE  Interleaves(Pairs(MapOf(k, v, m)), k, v, n)
<1>1. PICK p : p = Pairs(MapOf(k, v, m))
  OBVIOUS
<1>2. p = [i \in 1 .. 2 * n |-> IF i % 2 = 1 THEN k[(i + 1) \div 2] ELSE v[i \div 2]]
  BY <1>1 DEF Pairs, MapOf
<1>3. \A i \in 1 .. n : k[i] \in Element /\ v[i] \in Element
  BY ElementOfSeq
<1>4. \A i \in 1 .. 2 * n : \/ i % 2 = 1 /\ (i + 1) \div 2 \in 1 .. n
                            \/ i % 2 # 1 /\ i \div 2 \in 1 .. n
  OBVIOUS
<1>5. \A i \in 1 .. 2 * n : p[i] \in Element
  BY <1>2, <1>3, <1>4
<1>6. p \in Seq(Element) /\ Len(p) = 2 * n
  BY <1>2, <1>5, SeqDef
<1>7. \A i \in 1 .. n : p[2 * i - 1] = k[i] /\ p[2 * i] = v[i]
  <2> TAKE i \in 1 .. n
  <2>1. (2 * i - 1) % 2 = 1 /\ ((2 * i - 1) + 1) \div 2 = i /\ 2 * i - 1 \in 1 .. 2 * n
    OBVIOUS
  <2>2. (2 * i) % 2 # 1 /\ (2 * i) \div 2 = i /\ 2 * i \in 1 .. 2 * n
    OBVIOUS
  <2> QED
    BY <1>2, <2>1, <2>2
<1> QED
  BY <1>1, <1>6, <1>7 DEF Interleaves

LEMMA MapOrder ==
  ASSUME NEW a, NEW b,
         NEW ka \in Seq(Element), NEW va \in Seq(Element), NEW x \in Nat, a = MapOf(ka, va, x), Len(ka) = Len(va),
         NEW kb \in Seq(Element), NEW vb \in Seq(Element), NEW y \in Nat, b = MapOf(kb, vb, y), Len(kb) = Len(vb),
         PlainLists(ka \o va, kb \o vb)
  PROVE  /\ map_cmp(a, b) = -map_cmp(b, a)
         /\ map_cmp(a, b) = 0 <=> a.keys \o a.values = b.keys \o b.values
<1>3. a.keys = ka /\ a.values = va /\ b.keys = kb /\ b.values = vb
  BY DEF MapOf
<1>5. PICK m, n \in Nat : m = Len(ka) /\ n = Len(kb) /\ m = Len(va) /\ n = Len(vb)
  BY LenProperties
<1>6. a.t = "Map" /\ b.t = "Map" /\ a.keys = ka /\ b.keys = kb
  BY DEF MapOf
<1>7. Len(ka \o va) = m + m /\ Len(kb \o vb) = n + n
  <2>1. Len(ka \o va) = Len(ka) + Len(va) /\ Len(kb \o vb) = Len(kb) + Len(vb)
    BY ConcatProperties
  <2> QED
    BY <1>5, <2>1
<1>8. CASE m # n
  <2>1. ka \o va # kb \o vb
    BY <1>7, <1>8
  <2>2. map_cmp(a, b) = (IF m > n THEN 1 ELSE -1) /\ map_cmp(b, a) = (IF n > m THEN 1 ELSE -1)
    BY <1>5, <1>6, <1>8 DEF map_cmp
  <2>3. map_cmp(a, b) # 0 /\ map_cmp(a, b) = -map_cmp(b, a)
    BY <1>8, <2>2
  <2> QED
    BY <1>3, <2>1, <2>3
<1>9. CASE m = n
  <2>1. PICK p, q : p = Pairs(a) /\ q = Pairs(b)
    OBVIOUS
  <2>2. map_cmp(a, b) = list_cmp(p, q) /\ map_cmp(b, a) = list_cmp(q, p)
    BY <1>5, <1>6, <1>9, <2>1 DEF map_cmp
  <2>3. /\ p \in Seq(Element) /\ Len(p) = 2 * n
        /\ \A i \in 1 .. n : p[2 * i - 1] = ka[i] /\ p[2 * i] = va[i]
    <3>1. n = Len(ka) /\ n = Len(va)
      BY <1>5, <1>9
    <3>2. Interleaves(Pairs(MapOf(ka, va, x)), ka, va, n)
      BY <3>1, PairsOf
    <3> QED
      BY <2>1, <3>2 DEF Interleaves
  <2>4. /\ q \in Seq(Element) /\ Len(q) = 2 * n
        /\ \A i \in 1 .. n : q[2 * i - 1] = kb[i] /\ q[2 * i] = vb[i]
    <3>1. n = Len(kb) /\ n = Len(vb)
      BY <1>5, <1>9
    <3>2. Interleaves(Pairs(MapOf(kb, vb, y)), kb, vb, n)
      BY <3>1, PairsOf
    <3> QED
      BY <2>1, <3>2 DEF Interleaves
  <2>5. list_cmp(p, q) = -list_cmp(q, p) /\ (list_cmp(p, q) = 0 <=> p = q)
    <3>1. \A i \in 1 .. n : Plain(ka[i], kb[i]) /\ Plain(va[i], vb[i])
      <4>1. n = Len(ka) /\ n = Len(va) /\ n = Len(kb) /\ n = Len(vb)
        BY <1>5, <1>9
      <4>2. Len(ka \o va) = n + n /\ \A i \in 1 .. n : (ka \o va)[i] = ka[i] /\ (ka \o va)[n + i] = va[i]
        BY <4>1, Joined, Zenon
      <4>3. Len(kb \o vb) = n + n /\ \A i \in 1 .. n : (kb \o vb)[i] = kb[i] /\ (kb \o vb)[n + i] = vb[i]
        BY <4>1, Joined, Zenon
      <4> TAKE i \in 1 .. n
      <4>4. i \in 1 .. n + n /\ n + i \in 1 .. n + n
        OBVIOUS
      <4>5. /\ Plain((ka \o va)[i], (kb \o vb)[i])
            /\ Plain((ka \o va)[n + i], (kb \o vb)[n + i])
        BY <4>2, <4>3, <4>4 DEF PlainLists
      <4> QED
        BY <4>2, <4>3, <4>5
    <3>2. \A j \in 1 .. 2 * n : \E i \in 1 .. n : j = 2 * i - 1 \/ j = 2 * i
      <4> TAKE j \in 1 .. 2 * n
      <4>1. CASE j % 2 = 1
        <5>1. (j + 1) \div 2 \in 1 .. n /\ j = 2 * ((j + 1) \div 2) - 1
          BY <4>1
        <5> QED
          BY <5>1
      <4>2. CASE j % 2 # 1
        <5>1. j \div 2 \in 1 .. n /\ j = 2 * (j \div 2)
          BY <4>2
        <5> QED
          BY <5>1
      <4> QED
        BY <4>1, <4>2
    <3>3. ASSUME NEW j \in 1 .. 2 * n PROVE Plain(p[j], q[j])
      <4>1. PICK i \in 1 .. n : j = 2 * i - 1 \/ j = 2 * i
        BY <3>2
      <4> QED
        BY <2>3, <2>4, <3>1, <4>1
    <3>4. PlainLists(p, q)
      BY <2>3, <2>4, <3>3 DEF PlainLists
    <3> QED
      BY <3>4, ListOrder
  <2>6. ka \o va = kb \o vb => ka = kb /\ va = vb
    <3> SUFFICES ASSUME ka \o va = kb \o vb PROVE ka = kb /\ va = vb
      OBVIOUS
    <3>1. /\ \A i \in 1 .. n : (ka \o va)[i] = ka[i] /\ (ka \o va)[n + i] = va[i]
          /\ \A i \in 1 .. n : (kb \o vb)[i] = kb[i] /\ (kb \o vb)[n + i] = vb[i]
      <4>1. n = Len(ka) /\ n = Len(va) /\ n = Len(kb) /\ n = Len(vb)
        BY <1>5, <1>9
      <4>2. \A i \in 1 .. n : (ka \o va)[i] = ka[i] /\ (ka \o va)[n + i] = va[i]
        BY <4>1, Joined
      <4>3. \A i \in 1 .. n : (kb \o vb)[i] = kb[i] /\ (kb \o vb)[n + i] = vb[i]
        BY <4>1, Joined
      <4> QED
        BY <4>2, <4>3
    <3>2. \A i \in 1 .. n : ka[i] = kb[i] /\ va[i] = vb[i]
      BY <3>1
    <3>3. ka = kb
      BY <1>5, <1>9, <3>2, SeqEqual
    <3>4. va = vb
      BY <1>5, <1>9, <3>2, SeqEqual
    <3> QED
      BY <3>3, <3>4
  <2>7. p = q => ka = kb /\ va = vb
    <3> SUFFICES ASSUME p = q PROVE ka = kb /\ va = vb
      OBVIOUS
    <3>1. \A i \in 1 .. n : ka[i] = kb[i] /\ va[i] = vb[i]
      BY <2>3, <2>4
    <3>2. ka = kb
      BY <1>5, <1>9, <3>1, SeqEqual
    <3>3. va = vb
      BY <1>5, <1>9, <3>1, SeqEqual
    <3> QED
      BY <3>2, <3>3
  <2>8. ka = kb /\ va = vb => p = q
    BY <2>1 DEF Pairs, MapOf
  <2> QED
    BY <1>3, <2>2, <2>5, <2>6, <2>7, <2>8
<1> QED
  BY <1>8, <1>9

LEMMA StringOrder ==
  ASSUME NEW a, NEW b, PlainTexts(a.value, b.value)
  PROVE  string_cmp(a, b) = -string_cmp(b, a) /\ (string_cmp(a, b) = 0 <=> a.value = b.value)
<1>1. PICK s, u \in Seq(Element) : s = a.value /\ u = b.value /\ PlainTexts(s, u)
  BY DEF PlainTexts
<1>2. /\ string_cmp(a, b) = IF s = u THEN 0 ELSE IF After(s, u) THEN 1 ELSE -1
      /\ string_cmp(b, a) = IF u = s THEN 0 ELSE IF After(u, s) THEN 1 ELSE -1
  BY <1>1 DEF string_cmp, After
<1>3. CASE s = u
  <2>1. PICK z \in Int : z = 0 /\ z = -z
    OBVIOUS
  <2>2. string_cmp(a, b) = z /\ string_cmp(b, a) = z /\ z = 0
    BY <1>2, <1>3, <2>1
  <2> QED
    BY <1>1, <1>3, <2>1, <2>2
<1>4. CASE s # u
  <2>1. After(s, u) <=> ~After(u, s)
    <3>1. PlainTexts(u, s)
      BY <1>1, PlainBoth DEF PlainTexts
    <3> QED
      BY <1>1, <1>4, TextOrder
  <2>2. \/ string_cmp(a, b) = 1 /\ string_cmp(b, a) = -1
        \/ string_cmp(a, b) = -1 /\ string_cmp(b, a) = 1
    BY <1>2, <1>4, <2>1
  <2>3. string_cmp(a, b) # 0 /\ string_cmp(a, b) = -string_cmp(b, a)
    BY <2>2
  <2> QED
    BY <1>1, <1>4, <2>3
<1> QED
  BY <1>3, <1>4

(* cmp of two collections of a type, of elements that agree in type place   *)
(* by place, is an order, and zero only for the same content (CmpOrders).   *)
THEOREM OrderRight == Spec => []CmpOrders
<1>1. ASSUME CInv, Ordered(Content(me), Content(op)) PROVE CmpOrders
  <2>1. /\ me \in CollectionObject /\ op \in CollectionObject /\ op.t = me.t /\ me.t \in Kinds
        /\ Exact(op) /\ (me.t # "String" => Exact(me))
    BY <1>1, State
  <2>2. me.t \in {"String", "Vector", "Binary", "Map"}
    BY <2>1, ElementsAssumption
  <2>3. me.t # "Map" => /\ me.value \in Seq(Element) /\ op.value \in Seq(Element)
                        /\ Content(me) = me.value /\ Content(op) = op.value
    BY <2>1, Lists DEF Content
  <2>4. ASSUME me.t # "Map"
        PROVE  /\ PlainLists(me.value, op.value)
               /\ me.t = "String" => PlainTexts(me.value, op.value)
    BY <1>1, <2>3, <2>4, PlainContent DEF Is
  <2>5. ASSUME me.t = "Vector" \/ me.t = "Binary"
        PROVE  /\ list_cmp(me.value, op.value) = -list_cmp(op.value, me.value)
               /\ list_cmp(me.value, op.value) = 0 <=> Content(me) = Content(op)
    <3>1. PlainLists(me.value, op.value) /\ Content(me) = me.value /\ Content(op) = op.value
      BY <2>3, <2>4, <2>5
    <3> QED
      BY <3>1, ListOrder
  <2>6. ASSUME me.t = "String"
        PROVE  /\ string_cmp(me, op) = -string_cmp(op, me)
               /\ string_cmp(me, op) = 0 <=> Content(me) = Content(op)
    <3>1. PlainTexts(me.value, op.value) /\ Content(me) = me.value /\ Content(op) = op.value
      BY <2>3, <2>4, <2>6
    <3> QED
      BY <3>1, StringOrder
  <2>7. ASSUME me.t = "Map"
        PROVE  /\ map_cmp(me, op) = -map_cmp(op, me)
               /\ map_cmp(me, op) = 0 <=> Content(me) = Content(op)
    <3>1. PICK ka, va \in Seq(Element), x \in Nat :
             me = MapOf(ka, va, x) /\ Len(ka) = Len(va) /\ Content(me) = ka \o va
      <4>1. me = MapOf(me.keys, me.values, me.items) /\ me.items \in Nat
        BY <2>1, <2>7, Tables DEF MapOf
      <4>2. Len(me.keys) = Len(me.values)
        BY <2>1, <2>7 DEF Exact
      <4> QED
        BY <2>1, <2>7, <4>1, <4>2, MapLists DEF Content
    <3>2. PICK kb, vb \in Seq(Element), y \in Nat :
             op = MapOf(kb, vb, y) /\ Len(kb) = Len(vb) /\ Content(op) = kb \o vb
      <4>1. op = MapOf(op.keys, op.values, op.items) /\ op.items \in Nat
        BY <2>1, <2>7, Tables DEF MapOf
      <4>2. Len(op.keys) = Len(op.values)
        BY <2>1, <2>7 DEF Exact
      <4> QED
        BY <2>1, <2>7, <4>1, <4>2, MapLists DEF Content
    <3>3. PlainLists(ka \o va, kb \o vb)
      <4>1. ka \o va \in Seq(Element) /\ kb \o vb \in Seq(Element)
        BY ConcatProperties
      <4> QED
        BY <1>1, <3>1, <3>2, <4>1, PlainContent
    <3>4. /\ map_cmp(me, op) = -map_cmp(op, me)
          /\ map_cmp(me, op) = 0 <=> me.keys \o me.values = op.keys \o op.values
      BY <3>1, <3>2, <3>3, MapOrder, Zenon
    <3>5. Content(me) = me.keys \o me.values /\ Content(op) = op.keys \o op.values
      BY <2>1, <2>7 DEF Content
    <3> QED
      BY <3>4, <3>5
  <2>8. /\ me.t = "Vector" => /\ vector_cmp(me, op) = list_cmp(me.value, op.value)
                              /\ vector_cmp(op, me) = list_cmp(op.value, me.value)
        /\ me.t = "Binary" => /\ binary_cmp(me, op) = list_cmp(me.value, op.value)
                              /\ binary_cmp(op, me) = list_cmp(op.value, me.value)
    BY <2>1 DEF vector_cmp, binary_cmp
  <2>9. CASE me.t = "Vector"
    BY <2>5, <2>8, <2>9 DEF CmpOrders, Is
  <2>10. CASE me.t = "Binary"
    BY <2>5, <2>8, <2>10 DEF CmpOrders, Is
  <2>11. CASE me.t = "String"
    BY <2>6, <2>11 DEF CmpOrders, Is
  <2>12. CASE me.t = "Map"
    BY <2>7, <2>12 DEF CmpOrders, Is
  <2> QED
    BY <2>2, <2>9, <2>10, <2>11, <2>12
<1>2. CInv => CmpOrders
  BY <1>1 DEF CmpOrders
<1> QED
  BY <1>2, Invariance, PTL

-----------------------------------------------------------------------------
(* A map as a dictionary of the keys that compare as themselves. *)
Own(x) == TakenFor(x, x)

Mapping(c) == [k \in {x \in Range(c.keys) : Own(x)} |-> map_cl_at(c, k).v]

Tabular(c) == c \in CollectionObject /\ c.t = "Map" /\ Exact(c) /\ OneEach(c)

Enters(T, ks, vs, n) ==
  /\ DOMAIN T = {x \in {ks[i] : i \in 1 .. n} : Own(x)}
  /\ \A i \in 1 .. n : Own(ks[i]) => T[ks[i]] = vs[i]

LEMMA Entries ==
  ASSUME NEW c, Tabular(c)
  PROVE  /\ Enters(Mapping(c), c.keys, c.values, Len(c.keys))
         /\ \A i, j \in 1 .. Len(c.keys) : Own(c.keys[i]) /\ c.keys[j] = c.keys[i] => j = i
<1>1. DOMAIN c.keys = 1 .. Len(c.keys)
  BY Tables DEF Tabular
<1>2. Range(c.keys) = {c.keys[i] : i \in 1 .. Len(c.keys)}
  BY <1>1 DEF Range
<1>3. ASSUME NEW i \in 1 .. Len(c.keys), Own(c.keys[i])
      PROVE  /\ Mapping(c)[c.keys[i]] = c.values[i]
             /\ \A j \in 1 .. Len(c.keys) : c.keys[j] = c.keys[i] => j = i
  <2>1. /\ map_cl_at(c, c.keys[i]) = Item(c.values[i])
        /\ \A j \in 1 .. Len(c.keys) : c.keys[j] = c.keys[i] => j = i
    BY <1>3, AtRight DEF Tabular, Own
  <2>2. c.keys[i] \in {x \in Range(c.keys) : Own(x)}
    BY <1>2, <1>3
  <2>3. map_cl_at(c, c.keys[i]).v = c.values[i]
    BY <2>1 DEF Item
  <2> QED
    BY <2>1, <2>2, <2>3 DEF Mapping
<1>4. DOMAIN Mapping(c) = {x \in {c.keys[i] : i \in 1 .. Len(c.keys)} : Own(x)}
  BY <1>2 DEF Mapping
<1> QED
  BY <1>3, <1>4 DEF Enters

(* The same of a map of which the keys, the values and their number n are    *)
(* known.                                                                   *)
Entered(c, n) ==
  /\ DOMAIN Mapping(c) = {x \in {c.keys[i] : i \in 1 .. n} : Own(x)}
  /\ \A i \in 1 .. n : Own(c.keys[i]) => Mapping(c)[c.keys[i]] = c.values[i]
  /\ \A i, j \in 1 .. n : Own(c.keys[i]) /\ c.keys[j] = c.keys[i] => j = i

LEMMA EntriesOf ==
  ASSUME NEW c, Tabular(c), NEW n, n = Len(c.keys)
  PROVE  Entered(c, n)
BY Entries DEF Enters, Entered

LEMMA ClearStep ==
  ASSUME NEW c, c.keys = << >>
  PROVE  Mapping(c) = << >>
<1>1. {x \in Range(c.keys) : Own(x)} = {}
  BY DEF Range
<1>2. PICK f : f = Mapping(c) /\ f = [k \in {} |-> map_cl_at(c, k).v]
  BY <1>1 DEF Mapping
<1>3. f \in [1 .. 0 -> Int]
  BY <1>2
<1>4. f \in Seq(Int) /\ Len(f) = 0
  BY <1>3, SeqDef, LenProperties
<1> QED
  BY <1>2, <1>4, EmptySeq

(* What a mapping under k makes of a dictionary: the value of a key that is  *)
(* taken for it, or a new key's, changes.                                   *)
Gains(S, T, k, v) ==
  \/ T = S
  \/ \E x \in DOMAIN S : TakenFor(x, k) /\ T = [S EXCEPT ![x] = v]
  \/ /\ TakenFor(k, k) /\ \A x \in DOMAIN S : ~TakenFor(x, k)
     /\ T = [x \in DOMAIN S \union {k} |-> IF x = k THEN v ELSE S[x]]

Loses(S, T) ==
  T = S \/ \E k \in DOMAIN S : T = [x \in DOMAIN S \ {k} |-> S[x]]

LEMMA PutStep ==
  ASSUME NEW c, Tabular(c), NEW k \in Keys, NEW v \in Values, NEW d, d = map_cl_set(c, k, v).left
  PROVE  Gains(Mapping(c), Mapping(d), k, v)
<1>1. Tabular(d)
  BY MapSetSound DEF Tabular, Sound
<1>2. PICK n \in Nat : n = Len(c.keys) /\ n = Len(c.values) /\ n = c.items
  BY Tables DEF Tabular, Exact
<1>3. /\ c.keys \in Seq(Keys) /\ c.values \in Seq(Values)
      /\ DOMAIN c.keys = 1 .. n /\ DOMAIN c.values = 1 .. n
  BY <1>2, Tables DEF Tabular
<1>4. /\ DOMAIN Mapping(c) = {x \in {c.keys[i] : i \in 1 .. n} : Own(x)}
      /\ \A i \in 1 .. n : Own(c.keys[i]) => Mapping(c)[c.keys[i]] = c.values[i]
      /\ \A i, j \in 1 .. n : Own(c.keys[i]) /\ c.keys[j] = c.keys[i] => j = i
  <2>1. Entered(c, n)
    BY <1>2, EntriesOf
  <2> QED
    BY <2>1 DEF Entered
<1>5. CASE Stops(c.keys, k)
  <2>1. d = c
    BY <1>5 DEF map_cl_set, Outcome
  <2> QED
    BY <2>1 DEF Gains
<1>6. CASE ~Stops(c.keys, k) /\ Mapped(c, k)
  <2>1. PICK p \in 1 .. n : p = map_find(c, k) + 1 /\ TakenFor(c.keys[p], k)
    BY <1>2, <1>6, SearchRight DEF Tabular
  <2>2. d.keys = c.keys /\ d.values = [c.values EXCEPT ![p] = v]
    BY <1>6, <2>1 DEF map_cl_set, MapOf, Outcome
  <2>3. /\ DOMAIN Mapping(d) = {x \in {c.keys[i] : i \in 1 .. n} : Own(x)}
        /\ \A i \in 1 .. n : Own(c.keys[i]) => Mapping(d)[c.keys[i]] = d.values[i]
    <3>1. n = Len(d.keys)
      BY <1>2, <2>2
    <3>2. Entered(d, n)
      BY <1>1, <3>1, EntriesOf
    <3> QED
      BY <2>2, <3>2 DEF Entered
  <2>4. \A i \in 1 .. n : d.values[i] = IF i = p THEN v ELSE c.values[i]
    BY <1>3, <2>2
  <2>5. \A x \in DOMAIN Mapping(c) : \E i \in 1 .. n : x = c.keys[i] /\ Own(c.keys[i])
    BY <1>4
  <2>6. DOMAIN Mapping(d) = DOMAIN Mapping(c)
    BY <1>4, <2>3
  <2>7. CASE Own(c.keys[p])
    <3>1. c.keys[p] \in DOMAIN Mapping(c)
      BY <1>4, <2>7
    <3>2. \A x \in DOMAIN Mapping(c) : Mapping(d)[x] = IF x = c.keys[p] THEN v ELSE Mapping(c)[x]
      <4> TAKE x \in DOMAIN Mapping(c)
      <4>1. PICK i \in 1 .. n : x = c.keys[i] /\ Own(c.keys[i])
        BY <2>5
      <4>2. Mapping(d)[x] = d.values[i] /\ Mapping(c)[x] = c.values[i]
        BY <1>4, <2>3, <4>1
      <4>3. x = c.keys[p] <=> i = p
        BY <1>4, <4>1
      <4> QED
        BY <2>4, <4>2, <4>3
    <3>3. Mapping(d) = [Mapping(c) EXCEPT ![c.keys[p]] = v]
      BY <2>6, <3>1, <3>2 DEF Mapping
    <3> QED
      BY <2>1, <3>1, <3>3 DEF Gains
  <2>8. CASE ~Own(c.keys[p])
    <3>1. \A x \in DOMAIN Mapping(c) : Mapping(d)[x] = Mapping(c)[x]
      <4> TAKE x \in DOMAIN Mapping(c)
      <4>1. PICK i \in 1 .. n : x = c.keys[i] /\ Own(c.keys[i])
        BY <2>5
      <4>2. i # p
        BY <2>8, <4>1
      <4> QED
        BY <1>4, <2>3, <2>4, <4>1, <4>2
    <3>2. Mapping(d) = Mapping(c)
      BY <2>6, <3>1 DEF Mapping
    <3> QED
      BY <3>2 DEF Gains
  <2> QED
    BY <2>7, <2>8
<1>7. CASE ~Stops(c.keys, k) /\ ~Mapped(c, k)
  <2>1. d.keys = Append(c.keys, k) /\ d.values = Append(c.values, v)
    BY <1>7 DEF map_cl_set, MapOf, Outcome
  <2>2. /\ Len(d.keys) = n + 1 /\ d.keys[n + 1] = k /\ d.values[n + 1] = v
        /\ \A i \in 1 .. n : d.keys[i] = c.keys[i] /\ d.values[i] = c.values[i]
    BY <1>2, <1>3, <2>1, AppendProperties
  <2>3. /\ DOMAIN Mapping(d) = {x \in {d.keys[i] : i \in 1 .. n + 1} : Own(x)}
        /\ \A i \in 1 .. n + 1 : Own(d.keys[i]) => Mapping(d)[d.keys[i]] = d.values[i]
    <3>1. n + 1 = Len(d.keys)
      BY <2>2
    <3>2. Entered(d, n + 1)
      BY <1>1, <3>1, EntriesOf
    <3> QED
      BY <3>2 DEF Entered
  <2>4. \A i \in 1 .. n : ~TakenFor(c.keys[i], k)
    BY <1>2, <1>7, SearchRight DEF Tabular, TakenFor
  <2>5. {d.keys[i] : i \in 1 .. n + 1} = {c.keys[i] : i \in 1 .. n} \union {k}
    BY <2>2
  <2>6. \A x \in DOMAIN Mapping(c) : ~TakenFor(x, k) /\ Mapping(d)[x] = Mapping(c)[x] /\ (Own(k) => x # k)
    <3> TAKE x \in DOMAIN Mapping(c)
    <3>1. PICK i \in 1 .. n : x = c.keys[i] /\ Own(c.keys[i])
      BY <1>4
    <3>2. Mapping(d)[x] = d.values[i] /\ Mapping(c)[x] = c.values[i]
      BY <1>4, <2>2, <2>3, <3>1
    <3> QED
      BY <2>2, <2>4, <3>1, <3>2 DEF Own
  <2>7. CASE Own(k)
    <3>1. DOMAIN Mapping(d) = DOMAIN Mapping(c) \union {k}
      BY <1>4, <2>3, <2>5, <2>7
    <3>2. Mapping(d)[k] = v
      BY <2>2, <2>3, <2>7
    <3> DEFINE e(x) == IF x = k THEN v ELSE Mapping(c)[x]
    <3>3. \A x \in DOMAIN Mapping(d) : Mapping(d)[x] = e(x)
      BY <2>6, <2>7, <3>1, <3>2
    <3>4. Mapping(d) = [x \in DOMAIN Mapping(c) \union {k} |-> e(x)]
      BY <3>1, <3>3 DEF Mapping
    <3> QED
      BY <2>6, <2>7, <3>4 DEF Gains, Own
  <2>8. CASE ~Own(k)
    <3>1. DOMAIN Mapping(d) = DOMAIN Mapping(c)
      BY <1>4, <2>3, <2>5, <2>8
    <3>2. Mapping(d) = Mapping(c)
      BY <2>6, <3>1 DEF Mapping
    <3> QED
      BY <3>2 DEF Gains
  <2> QED
    BY <2>7, <2>8
<1> QED
  BY <1>5, <1>6, <1>7

LEMMA PopStep ==
  ASSUME NEW c, Tabular(c), NEW d, d = map_cl_pop(c).left
  PROVE  Loses(Mapping(c), Mapping(d))
<1>1. Tabular(d)
  BY MapPopSound DEF Tabular, Sound
<1>2. PICK n \in Nat : n = Len(c.keys) /\ n = Len(c.values) /\ n = c.items
  BY Tables DEF Tabular, Exact
<1>3. /\ c.keys \in Seq(Keys) /\ c.values \in Seq(Values)
      /\ DOMAIN c.keys = 1 .. n /\ DOMAIN c.values = 1 .. n
  BY <1>2, Tables DEF Tabular
<1>4. /\ DOMAIN Mapping(c) = {x \in {c.keys[i] : i \in 1 .. n} : Own(x)}
      /\ \A i \in 1 .. n : Own(c.keys[i]) => Mapping(c)[c.keys[i]] = c.values[i]
      /\ \A i, j \in 1 .. n : Own(c.keys[i]) /\ c.keys[j] = c.keys[i] => j = i
  <2>1. Entered(c, n)
    BY <1>2, EntriesOf
  <2> QED
    BY <2>1 DEF Entered
<1>5. CASE n = 0
  BY <1>2, <1>5 DEF map_cl_pop, Outcome, Loses
<1>6. CASE n # 0
  <2>1. d.keys = Front(c.keys) /\ d.values = Front(c.values)
    BY <1>2, <1>6 DEF map_cl_pop, MapOf, Outcome
  <2>2. c.keys # << >> /\ c.values # << >>
    BY <1>2, <1>3, <1>6, EmptySeq
  <2>3. /\ Len(d.keys) = n - 1
        /\ \A i \in 1 .. n - 1 : d.keys[i] = c.keys[i] /\ d.values[i] = c.values[i]
    <3>1. /\ Len(Front(c.keys)) = Len(c.keys) - 1
          /\ \A i \in 1 .. Len(c.keys) - 1 : Front(c.keys)[i] = c.keys[i]
      BY <1>3, <2>2, FrontProperties
    <3>2. \A i \in 1 .. Len(c.values) - 1 : Front(c.values)[i] = c.values[i]
      BY <1>3, <2>2, FrontProperties
    <3> QED
      BY <1>2, <2>1, <3>1, <3>2
  <2>4. /\ DOMAIN Mapping(d) = {x \in {c.keys[i] : i \in 1 .. n - 1} : Own(x)}
        /\ \A i \in 1 .. n - 1 : Own(c.keys[i]) => Mapping(d)[c.keys[i]] = c.values[i]
    <3>1. n - 1 = Len(d.keys)
      BY <2>3
    <3>2. {d.keys[i] : i \in 1 .. n - 1} = {c.keys[i] : i \in 1 .. n - 1}
      BY <2>3
    <3>3. Entered(d, n - 1)
      BY <1>1, <3>1, EntriesOf
    <3>4. \A i \in 1 .. n - 1 : Own(c.keys[i]) => Mapping(d)[c.keys[i]] = c.values[i]
      BY <2>3, <3>3 DEF Entered
    <3> QED
      BY <3>2, <3>3, <3>4 DEF Entered
  <2>5. 1 .. n = (1 .. n - 1) \union {n} /\ n \notin 1 .. n - 1
    BY <1>6
  <2>7. {c.keys[i] : i \in 1 .. n} = {c.keys[i] : i \in 1 .. n - 1} \union {c.keys[n]}
    BY <2>5
  <2>8. \A x \in DOMAIN Mapping(d) : Mapping(d)[x] = Mapping(c)[x]
    <3> TAKE x \in DOMAIN Mapping(d)
    <3>1. PICK i \in 1 .. n - 1 : x = c.keys[i] /\ Own(c.keys[i])
      BY <2>4
    <3> QED
      BY <1>4, <2>4, <2>5, <3>1
  <2>9. CASE ~Own(c.keys[n])
    <3>1. DOMAIN Mapping(d) = DOMAIN Mapping(c)
      BY <1>4, <2>4, <2>7, <2>9
    <3> QED
      BY <2>8, <3>1 DEF Mapping, Loses
  <2>10. CASE Own(c.keys[n])
    <3>1. \A i \in 1 .. n - 1 : c.keys[i] # c.keys[n]
      BY <1>4, <2>5, <2>10
    <3>2. DOMAIN Mapping(d) = DOMAIN Mapping(c) \ {c.keys[n]}
      BY <1>4, <2>4, <2>7, <3>1
    <3>3. c.keys[n] \in DOMAIN Mapping(c)
      BY <1>4, <2>7, <2>10
    <3>4. Mapping(d) = [x \in DOMAIN Mapping(c) \ {c.keys[n]} |-> Mapping(c)[x]]
      BY <2>8, <3>2 DEF Mapping
    <3> QED
      BY <3>3, <3>4 DEF Loses
  <2> QED
    BY <2>9, <2>10
<1> QED
  BY <1>5, <1>6

LEMMA DropStep ==
  ASSUME NEW c, Tabular(c), NEW k \in Keys, NEW d, d = map_cl_remove(c, k).left
  PROVE  Loses(Mapping(c), Mapping(d))
<1>1. Tabular(d)
  BY MapRemoveSound DEF Tabular, Sound
<1>2. PICK n \in Nat : n = Len(c.keys) /\ n = Len(c.values) /\ n = c.items
  BY Tables DEF Tabular, Exact
<1>3. /\ c.keys \in Seq(Keys) /\ c.values \in Seq(Values)
      /\ DOMAIN c.keys = 1 .. n /\ DOMAIN c.values = 1 .. n
  BY <1>2, Tables DEF Tabular
<1>4. /\ DOMAIN Mapping(c) = {x \in {c.keys[i] : i \in 1 .. n} : Own(x)}
      /\ \A i \in 1 .. n : Own(c.keys[i]) => Mapping(c)[c.keys[i]] = c.values[i]
      /\ \A i, j \in 1 .. n : Own(c.keys[i]) /\ c.keys[j] = c.keys[i] => j = i
  <2>1. Entered(c, n)
    BY <1>2, EntriesOf
  <2> QED
    BY <2>1 DEF Entered
<1>5. CASE Stops(c.keys, k) \/ ~Mapped(c, k)
  <2>1. d = c
    BY <1>5 DEF map_cl_remove, Outcome
  <2> QED
    BY <2>1 DEF Loses
<1>6. CASE ~Stops(c.keys, k) /\ Mapped(c, k)
  <2>1. PICK p \in 1 .. n : p = map_find(c, k) + 1
    BY <1>2, <1>6, SearchRight DEF Tabular
  <2>2. d.keys = RemoveAt(c.keys, p) /\ d.values = RemoveAt(c.values, p)
    BY <1>6, <2>1 DEF map_cl_remove, MapOf, Outcome
  <2>3. /\ Len(d.keys) = n - 1
        /\ \A i \in 1 .. n - 1 : d.keys[i] = IF i < p THEN c.keys[i] ELSE c.keys[i + 1]
    <3>1. PICK ks \in Seq(Keys) : ks = c.keys /\ n = Len(ks)
      BY <1>2, <1>3
    <3>0. n = Len(ks)
      BY <3>1
    <3>2. Len(RemoveAt(ks, p)) = n - 1
      BY <3>0, Removal
    <3>3. \A i \in 1 .. n - 1 : RemoveAt(ks, p)[i] = IF i < p THEN ks[i] ELSE ks[i + 1]
      BY <3>0, Removal
    <3> QED
      BY <2>2, <3>1, <3>2, <3>3
  <2>4. \A i \in 1 .. n - 1 : d.values[i] = IF i < p THEN c.values[i] ELSE c.values[i + 1]
    <3>1. PICK vs \in Seq(Values) : vs = c.values /\ n = Len(vs)
      BY <1>2, <1>3
    <3>0. n = Len(vs)
      BY <3>1
    <3>3. \A i \in 1 .. n - 1 : RemoveAt(vs, p)[i] = IF i < p THEN vs[i] ELSE vs[i + 1]
      BY <3>0, Removal
    <3> QED
      BY <2>2, <3>1, <3>3
  <2> DEFINE from(i) == IF i < p THEN i ELSE i + 1
  <2>5. /\ \A i \in 1 .. n - 1 : from(i) \in 1 .. n /\ from(i) # p
        /\ \A j \in 1 .. n : j # p => \E i \in 1 .. n - 1 : j = from(i)
    <3>1. ASSUME NEW i \in 1 .. n - 1 PROVE from(i) \in 1 .. n /\ from(i) # p
      OBVIOUS
    <3>2. ASSUME NEW j \in 1 .. n, j # p PROVE \E i \in 1 .. n - 1 : j = from(i)
      <4>1. CASE j < p
        <5>1. j \in 1 .. n - 1 /\ from(j) = j
          BY <4>1
        <5> QED
          BY <5>1
      <4>2. CASE ~(j < p)
        <5>1. j - 1 \in 1 .. n - 1 /\ from(j - 1) = j
          BY <3>2, <4>2
        <5> QED
          BY <5>1
      <4> QED
        BY <4>1, <4>2
    <3> QED
      BY <3>1, <3>2
  <2>6. \A i \in 1 .. n - 1 : d.keys[i] = c.keys[from(i)] /\ d.values[i] = c.values[from(i)]
    BY <2>3, <2>4
  <2> HIDE DEF from
  <2>7. /\ DOMAIN Mapping(d) = {x \in {d.keys[i] : i \in 1 .. n - 1} : Own(x)}
        /\ \A i \in 1 .. n - 1 : Own(d.keys[i]) => Mapping(d)[d.keys[i]] = d.values[i]
    <3>1. n - 1 = Len(d.keys)
      BY <2>3
    <3>2. Entered(d, n - 1)
      BY <1>1, <3>1, EntriesOf
    <3> QED
      BY <3>2 DEF Entered
  <2>8. \A x \in DOMAIN Mapping(d) : x \in DOMAIN Mapping(c) /\ Mapping(d)[x] = Mapping(c)[x]
    <3> TAKE x \in DOMAIN Mapping(d)
    <3>1. PICK i \in 1 .. n - 1 : x = d.keys[i] /\ Own(d.keys[i])
      BY <2>7
    <3>2. PICK j \in 1 .. n : j = from(i)
      BY <2>5
    <3> QED
      BY <1>4, <2>6, <2>7, <3>1, <3>2
  <2>9. \A x \in DOMAIN Mapping(c) : x # c.keys[p] => x \in DOMAIN Mapping(d)
    <3> SUFFICES ASSUME NEW x \in DOMAIN Mapping(c), x # c.keys[p] PROVE x \in DOMAIN Mapping(d)
      OBVIOUS
    <3>1. PICK j \in 1 .. n : x = c.keys[j] /\ Own(c.keys[j])
      BY <1>4
    <3>2. PICK i \in 1 .. n - 1 : j = from(i)
      BY <2>5, <3>1
    <3> QED
      BY <2>6, <2>7, <3>1, <3>2
  <2>10. CASE Own(c.keys[p])
    <3>1. c.keys[p] \in DOMAIN Mapping(c)
      BY <1>4, <2>10
    <3>2. c.keys[p] \notin DOMAIN Mapping(d)
      <4> SUFFICES ASSUME c.keys[p] \in DOMAIN Mapping(d) PROVE FALSE
        OBVIOUS
      <4>1. PICK i \in 1 .. n - 1 : c.keys[p] = d.keys[i]
        BY <2>7
      <4>2. from(i) \in 1 .. n /\ from(i) # p /\ c.keys[from(i)] = c.keys[p]
        BY <2>5, <2>6, <4>1
      <4> QED
        BY <1>4, <2>10, <4>2
    <3>3. DOMAIN Mapping(d) = DOMAIN Mapping(c) \ {c.keys[p]}
      BY <2>8, <2>9, <3>2
    <3>4. Mapping(d) = [x \in DOMAIN Mapping(c) \ {c.keys[p]} |-> Mapping(c)[x]]
      BY <2>8, <3>3 DEF Mapping
    <3> QED
      BY <3>1, <3>4 DEF Loses
  <2>11. CASE ~Own(c.keys[p])
    <3>1. c.keys[p] \notin DOMAIN Mapping(c)
      BY <2>11 DEF Mapping
    <3>2. DOMAIN Mapping(d) = DOMAIN Mapping(c)
      BY <2>8, <2>9, <3>1
    <3> QED
      BY <2>8, <3>2 DEF Mapping, Loses
  <2> QED
    BY <2>10, <2>11
<1> QED
  BY <1>5, <1>6

(* What a step may make of a map. *)
MapStep ==
  \/ me' = me
  \/ me' = map_free(me)
  \/ me' = map_cl_pop(me).left
  \/ \E k \in Keys : me' = map_cl_remove(me, k).left
  \/ \E k \in Keys, v \in Values : me' = map_cl_set(me, k, v).left

LEMMA MapSteps ==
  ASSUME Is("Map"), Next
  PROVE  MapStep
<1>1. \A outcome : Settle(outcome) => me' = outcome.left
  BY DEF Settle
<1>2. \A outcome : Keeps(outcome) => me' = outcome.left
  BY <1>1 DEF Keeps
<1>3. \A answer : Answers(answer) => me' = me
  BY <1>2 DEF Answers, Outcome
<1>4. \A kind : Is(kind) => kind = "Map"
  BY DEF Is
<1>5. ASSUME NEW e \in Elements, cl_push(e) PROVE MapStep
  BY <1>3, <1>4, <1>5 DEF cl_push, Refused, MapStep
<1>6. ASSUME cl_pop PROVE MapStep
  BY <1>2, <1>3, <1>4, <1>6 DEF cl_pop, Refused, MapStep
<1>7. ASSUME cl_remove PROVE MapStep
  BY <1>2, <1>3, <1>4, <1>7 DEF cl_remove, Refused, MapStep
<1>8. ASSUME cl_at PROVE MapStep
  BY <1>3, <1>4, <1>8 DEF cl_at, MapStep
<1>9. ASSUME cl_set PROVE MapStep
  <2>1. PICK k \in Keys, v \in Values : Keeps(map_cl_set(me, k, v))
    BY <1>4, <1>9 DEF cl_set
  <2> QED
    BY <1>2, <2>1 DEF MapStep
<1>10. ASSUME assign PROVE MapStep
  <2>1. PICK x : Keeps(map_assign(me, x))
    BY <1>4, <1>10 DEF assign
  <2>2. map_assign(me, x).left = map_free(me)
    BY DEF map_assign, Outcome
  <2> QED
    BY <1>2, <2>1, <2>2 DEF MapStep
<1>11. ASSUME clone PROVE MapStep
  BY <1>3, <1>11 DEF clone, MapStep
<1>12. ASSUME arith PROVE MapStep
  BY <1>3, <1>4, <1>12 DEF arith, Refused, MapStep
<1>13. ASSUME map_call_method PROVE MapStep
  <2>1. CASE \E answer : Answers(answer)
    BY <1>3, <2>1 DEF MapStep
  <2>2. CASE Keeps(map_cl_pop(me))
    BY <1>2, <2>2 DEF MapStep
  <2>3. CASE \E k \in Keys : Keeps(map_cl_remove(me, k))
    BY <1>2, <2>3 DEF MapStep
  <2> QED
    BY <1>13, <2>1, <2>2, <2>3 DEF map_call_method, WrongArguments
<1>14. ~string_call_method /\ ~vector_call_method /\ ~stream
  BY <1>4 DEF string_call_method, vector_call_method, stream
<1> QED
  BY <1>5, <1>6, <1>7, <1>8, <1>9, <1>10, <1>11, <1>12, <1>13, <1>14 DEF Next

LEMMA DictOf ==
  /\ Is("Map") => Dict = Mapping(me)
  /\ Is("Map")' => Dict' = Mapping(me')
  /\ ~Is("Map") => Dict = << >>
  /\ ~Is("Map")' => Dict' = << >>
<1>1. (Is("Map") => Dict = Mapping(me)) /\ (~Is("Map") => Dict = << >>)
  BY DEF Dict, Mapping, Own
<1>2. (Is("Map")' => Dict' = Mapping(me')) /\ (~Is("Map")' => Dict' = << >>)
  BY DEF Dict, Mapping, Own, Is, map_cl_at, Mapped, map_find, Stops
<1> QED
  BY <1>1, <1>2

LEMMA TakesPairs ==
  ASSUME NEW x \in Keys, NEW k \in Keys
  PROVE  <<x, k>> \in Takes <=> TakenFor(x, k)
BY DEF Takes

LEMMA MapRefines ==
  ASSUME CInv, Is("Map"), Is("Map")', MapStep
  PROVE  [D!Next]_Dict
<1>1. Tabular(me)
  BY State DEF Is, Tabular
<1>2. me' = me => Mapping(me') = Mapping(me)
  OBVIOUS
<1>3. ASSUME me' = map_free(me) PROVE D!Clear
  <2>1. Mapping(me') = << >>
    BY <1>3, ClearStep DEF map_free, MapOf
  <2> QED
    BY <2>1, DictOf DEF D!Clear
<1>4. ASSUME me' = map_cl_pop(me).left PROVE Mapping(me') = Mapping(me) \/ \E k \in DOMAIN Dict : D!Drop(k)
  <2>1. Loses(Mapping(me), Mapping(me'))
    BY <1>1, <1>4, PopStep
  <2> QED
    BY <2>1, DictOf DEF D!Drop, Loses
<1>5. ASSUME NEW y \in Keys, me' = map_cl_remove(me, y).left
      PROVE  Mapping(me') = Mapping(me) \/ \E k \in DOMAIN Dict : D!Drop(k)
  <2>1. Loses(Mapping(me), Mapping(me'))
    BY <1>1, <1>5, DropStep
  <2> QED
    BY <2>1, DictOf DEF D!Drop, Loses
<1>6. ASSUME NEW k \in Keys, NEW v \in Values, me' = map_cl_set(me, k, v).left
      PROVE  Mapping(me') = Mapping(me) \/ D!Put(k, v)
  <2>1. Gains(Mapping(me), Mapping(me'), k, v)
    BY <1>1, <1>6, PutStep
  <2>2. DOMAIN Mapping(me) \subseteq Keys
    <3>1. DOMAIN Mapping(me) \subseteq Range(me.keys)
      BY DEF Mapping
    <3>2. me.keys \in Seq(Keys) /\ DOMAIN me.keys = 1 .. Len(me.keys)
      BY <1>1, Tables DEF Tabular
    <3>3. \A i \in 1 .. Len(me.keys) : me.keys[i] \in Keys
      BY <3>2, ElementOfSeq
    <3> QED
      BY <3>1, <3>2, <3>3 DEF Range
  <2>3. \A x \in DOMAIN Mapping(me) \union {k} : <<x, k>> \in Takes <=> TakenFor(x, k)
    <3> SUFFICES ASSUME NEW x \in Keys PROVE <<x, k>> \in Takes <=> TakenFor(x, k)
      BY <2>2
    <3> QED
      BY TakesPairs
  <2>4. Dict = Mapping(me) /\ Dict' = Mapping(me')
    BY DictOf
  <2> QED
    BY <2>1, <2>3, <2>4 DEF D!Put, Gains
<1>7. Mapping(me') = Mapping(me) => UNCHANGED Dict
  BY DictOf
<1> QED
  BY <1>2, <1>3, <1>4, <1>5, <1>6, <1>7 DEF MapStep, D!Next

(* A map is a dictionary of the keys that compare as themselves: every step  *)
(* stores a value under one of them, drops one, clears it or leaves it as   *)
(* it was (ImplementsDictionary).                                          *)
THEOREM Implements == Spec => ImplementsDictionary
<1>1. Init => D!Init
  <2> SUFFICES ASSUME Init PROVE D!Init
    OBVIOUS
  <2>1. PICK kind \in Kinds : me = Empty(kind)
    BY DEF Init
  <2>2. CASE Is("Map")
    <3>1. me.keys = << >>
      BY <2>1, <2>2 DEF Is, Empty, List, Map, MapOf
    <3> QED
      BY <2>2, <3>1, ClearStep, DictOf DEF D!Init
  <2>3. CASE ~Is("Map")
    BY <2>3, DictOf DEF D!Init
  <2> QED
    BY <2>2, <2>3
<1>2. CInv /\ [Next]_vars => [D!Next]_Dict
  <2> SUFFICES ASSUME CInv, [Next]_vars PROVE [D!Next]_Dict
    OBVIOUS
  <2>1. me'.t = me.t
    BY NextInv DEF Preserved, vars
  <2>2. CASE ~Is("Map")
    <3>1. ~Is("Map")'
      BY <2>1, <2>2 DEF Is
    <3> QED
      BY <2>2, <3>1, DictOf
  <2>3. CASE Is("Map")
    <3>1. Is("Map")'
      BY <2>1, <2>3 DEF Is
    <3>2. MapStep
      BY <2>3, MapSteps DEF MapStep, vars
    <3> QED
      BY <2>3, <3>1, <3>2, MapRefines
  <2> QED
    BY <2>2, <2>3
<1> QED
  BY <1>1, <1>2, Invariance, PTL DEF Spec, ImplementsDictionary, D!Spec
=============================================================================
