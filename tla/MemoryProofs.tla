---------------------------- MODULE MemoryProofs ----------------------------
(***************************************************************************)
(* Proofs about Memory.  What every operator leaves of a heap is stated    *)
(* first: the clones, the objects a heap keeps when it is renumbered, the  *)
(* tables and loops of frames.  Sound, the invariant of all that, is then  *)
(* kept by every statement.                                                *)
(***************************************************************************)
EXTENDS Memory, Foundations

-----------------------------------------------------------------------------
(* Heaps: what an object has to be to fit in one, and the two ways in which *)
(* a heap is changed, an object that is added and an object that is changed *)
(* in its place.                                                            *)
Thing == [kind : Kinds, number : Nat, items : Seq(Nat), referenced : BOOLEAN]

Allowed(n, kind, items) ==
  /\ \A j \in 1 .. Len(items) : items[j] \in 1 .. n
  /\ kind = "number" => items = <<>>
  /\ kind = "reference" => Len(items) <= 1
  /\ kind = "map" => Len(items) % 2 = 0

Fits(n, x) == x \in Thing /\ Allowed(n, x.kind, x.items)

LEMMA HeapIs ==
  ASSUME NEW h
  PROVE  h \in Heaps <=> h \in Seq(Thing) /\ \A o \in 1 .. Len(h) : Fits(Len(h), h[o])
<1>1. h \in Heaps <=> /\ h \in Seq(Thing)
                      /\ \A o \in DOMAIN h :
                           /\ Range(h[o].items) \subseteq DOMAIN h
                           /\ h[o].kind = "number" => h[o].items = <<>>
                           /\ h[o].kind = "reference" => Len(h[o].items) <= 1
                           /\ h[o].kind = "map" => Len(h[o].items) % 2 = 0
  BY DEF Heaps, Thing
<1>2. ASSUME h \in Seq(Thing)
      PROVE  DOMAIN h = 1 .. Len(h) /\ Len(h) \in Nat
             /\ \A o \in 1 .. Len(h) : /\ h[o] \in Thing
                                       /\ DOMAIN h[o].items = 1 .. Len(h[o].items)
  <2>1. DOMAIN h = 1 .. Len(h) /\ Len(h) \in Nat
    BY <1>2, LenProperties
  <2>2. ASSUME NEW o \in 1 .. Len(h)
        PROVE  h[o] \in Thing /\ DOMAIN h[o].items = 1 .. Len(h[o].items)
    <3>1. h[o] \in Thing
      BY <1>2, ElementOfSeq
    <3>2. h[o].items \in Seq(Nat)
      BY <3>1 DEF Thing
    <3> QED
      BY <3>1, <3>2, LenProperties
  <2> QED
    BY <2>1, <2>2
<1>3. ASSUME h \in Seq(Thing), NEW o \in 1 .. Len(h)
      PROVE  Range(h[o].items) \subseteq DOMAIN h
               <=> \A j \in 1 .. Len(h[o].items) : h[o].items[j] \in 1 .. Len(h)
  BY <1>2, <1>3 DEF Range
<1> QED
  BY Zenon, <1>1, <1>2, <1>3 DEF Fits, Allowed

LEMMA HeapTypes ==
  ASSUME NEW h \in Heaps
  PROVE  /\ h \in Seq(Thing) /\ Len(h) \in Nat /\ DOMAIN h = 1 .. Len(h)
         /\ \A o \in 1 .. Len(h) : /\ Fits(Len(h), h[o]) /\ h[o] \in Thing
                                   /\ h[o].items \in Seq(Nat)
                                   /\ Len(h[o].items) \in Nat
                                   /\ DOMAIN h[o].items = 1 .. Len(h[o].items)
<1>1. h \in Seq(Thing) /\ \A o \in 1 .. Len(h) : Fits(Len(h), h[o])
  BY HeapIs
<1>2. Len(h) \in Nat /\ DOMAIN h = 1 .. Len(h)
  BY <1>1, LenProperties
<1>3. ASSUME NEW o \in 1 .. Len(h)
      PROVE  /\ h[o] \in Thing /\ h[o].items \in Seq(Nat) /\ Len(h[o].items) \in Nat
             /\ DOMAIN h[o].items = 1 .. Len(h[o].items)
  <2>1. h[o].items \in Seq(Nat) /\ h[o] \in Thing
    BY Zenon, <1>1 DEF Fits, Allowed, Thing
  <2> QED
    BY <2>1, LenProperties
<1> QED
  BY <1>1, <1>2, <1>3

LEMMA FitsMore ==
  ASSUME NEW m \in Nat, NEW n \in Nat, m <= n, NEW x, Fits(m, x)
  PROVE  Fits(n, x)
<1>1. \A i \in 1 .. m : i \in 1 .. n
  OBVIOUS
<1>2. \A j \in 1 .. Len(x.items) : x.items[j] \in 1 .. n
  BY <1>1 DEF Fits, Allowed
<1> QED
  BY Zenon, <1>2 DEF Fits, Allowed

LEMMA Retyped ==
  ASSUME NEW S, NEW T, NEW s \in Seq(S), \A j \in 1 .. Len(s) : s[j] \in T
  PROVE  s \in Seq(T)
<1>1. Len(s) \in Nat /\ s \in [1 .. Len(s) -> S]
  BY LenProperties
<1>2. s \in [1 .. Len(s) -> T]
  BY <1>1
<1>3. s \in UNION {[1 .. n -> T] : n \in Nat}
  BY Zenon, <1>1, <1>2
<1>4. Seq(T) = UNION {[1 .. n -> T] : n \in Nat}
  BY SeqDef
<1> QED
  BY <1>3, <1>4

(* Items that are objects of the heap.                                      *)
LEMMA ItemsOf ==
  ASSUME NEW n \in Nat, NEW s \in Seq(1 .. n)
  PROVE  /\ s \in Seq(Nat) /\ Len(s) \in Nat
         /\ \A j \in 1 .. Len(s) : s[j] \in 1 .. n
<1>1. s \in Seq(Nat)
  <2>1. 1 .. n \subseteq Nat
    OBVIOUS
  <2> QED
    BY <2>1, SeqMonotonic
<1> QED
  BY <1>1, LenProperties, ElementOfSeq

LEMMA HeapItems ==
  ASSUME NEW h \in Heaps, NEW o \in 1 .. Len(h)
  PROVE  h[o].items \in Seq(1 .. Len(h))
<1>1. /\ h[o].items \in Seq(Nat) /\ Len(h[o].items) \in Nat
      /\ \A j \in 1 .. Len(h[o].items) : h[o].items[j] \in 1 .. Len(h)
  BY Zenon, HeapTypes DEF Fits, Allowed
<1>2. PICK s, S : s = h[o].items /\ S = 1 .. Len(h)
  OBVIOUS
<1>3. s \in Seq(Nat) /\ \A j \in 1 .. Len(s) : s[j] \in S
  BY <1>1, <1>2
<1>4. s \in Seq(S)
  BY <1>3, Retyped
<1> QED
  BY <1>2, <1>4

LEMMA Grown ==
  ASSUME NEW h \in Heaps, NEW x, Fits(Len(h), x)
  PROVE  /\ Append(h, x) \in Heaps /\ Len(Append(h, x)) = Len(h) + 1
         /\ \A o \in 1 .. Len(h) : Append(h, x)[o] = h[o]
         /\ Append(h, x)[Len(h) + 1] = x
<1>0. PICK g : g = Append(h, x)
  BY Zenon
<1>1. h \in Seq(Thing) /\ Len(h) \in Nat /\ x \in Thing
      /\ \A o \in 1 .. Len(h) : Fits(Len(h), h[o])
  BY Zenon, HeapTypes DEF Fits, Allowed
<1>2. /\ g \in Seq(Thing) /\ Len(g) = Len(h) + 1
      /\ \A o \in 1 .. Len(h) : g[o] = h[o]
      /\ g[Len(h) + 1] = x
  BY <1>0, <1>1, AppendProperties
<1>3. \A o \in 1 .. Len(g) : Fits(Len(g), g[o])
  <2> TAKE o \in 1 .. Len(g)
  <2>1. Fits(Len(h), g[o])
    BY <1>1, <1>2
  <2> QED
    BY <1>1, <1>2, <2>1, FitsMore
<1> QED
  BY Zenon, <1>0, <1>2, <1>3, HeapIs

Put(h, p, x) == [h EXCEPT ![p] = x]

LEMMA Changed ==
  ASSUME NEW h \in Heaps, NEW p \in 1 .. Len(h), NEW x, Fits(Len(h), x)
  PROVE  /\ Put(h, p, x) \in Heaps /\ Len(Put(h, p, x)) = Len(h)
         /\ \A o \in 1 .. Len(h) : Put(h, p, x)[o] = IF o = p THEN x ELSE h[o]
<1>1. h \in Seq(Thing) /\ x \in Thing /\ \A o \in 1 .. Len(h) : Fits(Len(h), h[o])
  BY Zenon, HeapTypes DEF Fits, Allowed
<1>2. PICK g : g = Put(h, p, x)
  OBVIOUS
<1>3. /\ g \in Seq(Thing) /\ Len(g) = Len(h)
      /\ \A o \in 1 .. Len(h) : g[o] = IF o = p THEN x ELSE h[o]
  BY <1>1, <1>2, ExceptSeq DEF Put
<1>4. \A o \in 1 .. Len(g) : Fits(Len(g), g[o])
  BY <1>1, <1>3
<1> QED
  BY <1>2, <1>3, <1>4, HeapIs

LEMMA ThingExcept ==
  ASSUME NEW y \in Thing, NEW s
  PROVE  /\ [y EXCEPT !.referenced = s]
              = [kind |-> y.kind, number |-> y.number, items |-> y.items, referenced |-> s]
         /\ [y EXCEPT !.items = s]
              = [kind |-> y.kind, number |-> y.number, items |-> s, referenced |-> y.referenced]
         /\ [y EXCEPT !.number = s]
              = [kind |-> y.kind, number |-> s, items |-> y.items, referenced |-> y.referenced]
<1>1. [y EXCEPT !.referenced = s]
         = [kind |-> y.kind, number |-> y.number, items |-> y.items, referenced |-> s]
  BY DEF Thing
<1>2. [y EXCEPT !.items = s]
         = [kind |-> y.kind, number |-> y.number, items |-> s, referenced |-> y.referenced]
  BY DEF Thing
<1>3. [y EXCEPT !.number = s]
         = [kind |-> y.kind, number |-> s, items |-> y.items, referenced |-> y.referenced]
  BY DEF Thing
<1> QED
  BY <1>1, <1>2, <1>3

LEMMA ObjectFits ==
  ASSUME NEW n \in Nat, NEW kind \in Kinds, NEW number \in Nat, NEW items \in Seq(Nat),
         Allowed(n, kind, items)
  PROVE  /\ Fits(n, Object(kind, number, items))
         /\ Object(kind, number, items).kind = kind /\ Object(kind, number, items).number = number
         /\ Object(kind, number, items).items = items
         /\ ~Object(kind, number, items).referenced
<1>0. PICK x : x = Object(kind, number, items)
  OBVIOUS
<1>1. x.kind = kind /\ x.number = number /\ x.items = items /\ ~x.referenced
  BY <1>0 DEF Object
<1>2. x \in Thing
  BY <1>0 DEF Object, Thing
<1>3. Fits(n, x)
  BY <1>1, <1>2 DEF Fits, Allowed
<1> QED
  BY <1>0, <1>1, <1>3

Results == [heap : Heaps, object : Nat]

LEMMA ResultIs ==
  ASSUME NEW h, NEW o
  PROVE  /\ Result(h, o).heap = h /\ Result(h, o).object = o
         /\ h \in Heaps /\ o \in Nat => Result(h, o) \in Results
BY DEF Result, Results

(* An object is created.                                                    *)
LEMMA CreatedRight ==
  ASSUME NEW h \in Heaps, NEW x, Fits(Len(h), x), NEW r, r = Created(h, x)
  PROVE  /\ r \in Results /\ r.heap \in Heaps
         /\ r.object = Len(h) + 1 /\ Len(r.heap) = Len(h) + 1
         /\ \A o \in 1 .. Len(h) : r.heap[o] = h[o]
         /\ r.heap[Len(h) + 1] = x
<1>1. r.heap = Append(h, x) /\ r.object = Len(h) + 1
  BY Zenon, ResultIs DEF Created
<1>2. PICK g : g = Append(h, x)
  BY Zenon
<1>3. /\ g \in Heaps /\ Len(g) = Len(h) + 1
      /\ \A o \in 1 .. Len(h) : g[o] = h[o]
      /\ g[Len(h) + 1] = x
  BY <1>2, Grown
<1>4. Len(h) + 1 \in Nat
  BY HeapTypes
<1>5. r \in Results
  <2>1. r = Result(g, Len(h) + 1)
    BY <1>2 DEF Created
  <2> QED
    BY <1>3, <1>4, <2>1, ResultIs
<1> QED
  BY <1>1, <1>2, <1>3, <1>5

-----------------------------------------------------------------------------
(* What a change of a flag, and of a collection that is emptied, leaves.    *)
LEMMA MarkedRight ==
  ASSUME NEW h \in Heaps, NEW p \in 1 .. Len(h), NEW g, g = Marked(h, p)
  PROVE  /\ g \in Heaps /\ Len(g) = Len(h)
         /\ \A o \in 1 .. Len(h) : /\ g[o].kind = h[o].kind /\ g[o].number = h[o].number
                                   /\ g[o].items = h[o].items
                                   /\ g[o].referenced <=> o = p \/ h[o].referenced
<1> DEFINE x == [h[p] EXCEPT !.referenced = TRUE]
<1>1. Fits(Len(h), h[p]) /\ h[p] \in Thing
  BY HeapTypes
<1>2. x = [kind |-> h[p].kind, number |-> h[p].number, items |-> h[p].items, referenced |-> TRUE]
  <2>1. PICK t : t = TRUE
    BY Zenon
  <2>2. [h[p] EXCEPT !.referenced = t]
          = [kind |-> h[p].kind, number |-> h[p].number, items |-> h[p].items, referenced |-> t]
    BY Zenon, <1>1, ThingExcept
  <2> QED
    BY <2>1, <2>2
<1>3. Fits(Len(h), x)
  BY Zenon, <1>1, <1>2 DEF Fits, Allowed, Thing
<1>4. g = [h EXCEPT ![p] = x]
  BY DEF Marked
<1>5. /\ g \in Heaps /\ Len(g) = Len(h)
      /\ \A o \in 1 .. Len(h) : g[o] = IF o = p THEN x ELSE h[o]
  <2> HIDE DEF x
  <2>1. g = Put(h, p, x)
    BY <1>4 DEF Put
  <2> QED
    BY <1>3, <2>1, Changed
<1>6. \A o \in 1 .. Len(h) : h[o].referenced \in BOOLEAN
  BY Zenon, HeapTypes DEF Thing
<1> QED
  BY <1>2, <1>5, <1>6

LEMMA FreeRight ==
  ASSUME NEW h \in Heaps, NEW p \in 1 .. Len(h), NEW g, g = ob_free(h, p)
  PROVE  /\ g \in Heaps /\ Len(g) = Len(h)
         /\ \A o \in 1 .. Len(h) : /\ g[o].kind = h[o].kind /\ g[o].number = h[o].number
                                   /\ g[o].referenced = h[o].referenced
                                   /\ g[o].items = IF o = p /\ h[o].kind \in Collections THEN <<>> ELSE h[o].items
<1>1. CASE h[p].kind \in Collections
  <2> DEFINE x == [h[p] EXCEPT !.items = <<>>]
  <2>1. Fits(Len(h), h[p]) /\ h[p] \in Thing
    BY HeapTypes
  <2>2. x = [kind |-> h[p].kind, number |-> h[p].number, items |-> <<>>, referenced |-> h[p].referenced]
    BY Zenon, <2>1, ThingExcept
  <2>3. Fits(Len(h), x)
    <3>1. <<>> \in Seq(Nat) /\ Len(<<>>) = 0
      BY EmptySeq
    <3>2. x.kind = h[p].kind /\ x.items = <<>> /\ Len(x.items) = 0
      BY <2>2, <3>1
    <3>3. x \in Thing
      <4> HIDE DEF x
      <4> QED
        BY <2>1, <2>2, <3>1 DEF Thing
    <3> HIDE DEF x
    <3> QED
      BY <1>1, <3>2, <3>3 DEF Fits, Allowed, Collections
  <2>4. g = [h EXCEPT ![p] = x]
    BY <1>1 DEF ob_free
  <2>5. /\ g \in Heaps /\ Len(g) = Len(h)
        /\ \A o \in 1 .. Len(h) : g[o] = IF o = p THEN x ELSE h[o]
    <3> HIDE DEF x
    <3>1. g = Put(h, p, x)
      BY <2>4 DEF Put
    <3> QED
      BY <2>3, <3>1, Changed
  <2> QED
    BY <1>1, <2>2, <2>5
<1>2. CASE h[p].kind \notin Collections
  BY <1>2 DEF ob_free
<1> QED
  BY <1>1, <1>2

-----------------------------------------------------------------------------
(* Where references lead.                                                   *)
Next1(h, t) == IF Refers(h, t) THEN h[t].items[1] ELSE t

LEMMA NextInside ==
  ASSUME NEW h \in Heaps, NEW t \in 1 .. Len(h)
  PROVE  Next1(h, t) \in 1 .. Len(h)
<1>1. CASE Refers(h, t)
  <2>1. h[t].items \in Seq(Nat) /\ h[t].items # <<>>
    BY <1>1, HeapTypes DEF Refers
  <2>2. Len(h[t].items) \in Nat \ {0}
    BY <2>1, EmptySeq
  <2>3. h[t].items[1] \in 1 .. Len(h)
    <3>1. Fits(Len(h), h[t])
      BY HeapTypes
    <3>2. 1 \in 1 .. Len(h[t].items)
      BY <2>2
    <3> QED
      BY <3>1, <3>2 DEF Fits, Allowed
  <2> QED
    BY <1>1, <2>3 DEF Next1
<1> QED
  BY <1>1 DEF Next1

LedSteps(h, o, led) == led[0] = o /\ \A n \in 1 .. Len(h) : led[n] = Next1(h, led[n - 1])

LEMMA ReferredSteps ==
  ASSUME NEW h \in Heaps, NEW o \in 1 .. Len(h)
  PROVE  \E led \in [0 .. Len(h) -> 1 .. Len(h)] : LedSteps(h, o, led) /\ Referred(h, o) = led[Len(h)]
<1> DEFINE N == Len(h)
           V == 1 .. N
           step == [q \in V \X (1 .. N) |-> Next1(h, q[1])]
           Fix(f) == f = [n \in 0 .. N |->
                            IF n = 0 THEN o
                            ELSE IF Refers(h, f[n - 1]) THEN h[f[n - 1]].items[1] ELSE f[n - 1]]
<1>1. N \in Nat
  BY HeapTypes
<1>2. step \in [V \X (1 .. N) -> V]
  BY Zenon, NextInside
<1>3. PICK f \in [0 .. N -> V] : CountsTo(f, N, o, step)
  <2> HIDE DEF step
  <2> QED
    BY Zenon, <1>1, <1>2, Counting
<1>4. \A n \in 1 .. N : f[n] = Next1(h, f[n - 1])
  <2> TAKE n \in 1 .. N
  <2>1. f[n - 1] \in V /\ f[n] = step[<<f[n - 1], n>>]
    <3>1. n - 1 \in 0 .. N
      BY <1>1
    <3> HIDE DEF V, step
    <3> QED
      BY <1>3, <3>1 DEF CountsTo
  <2> QED
    BY <2>1
<1>5. Fix(f)
  <2>1. f = [n \in 0 .. N |-> f[n]]
    OBVIOUS
  <2>2. f[0] = o
    BY <1>3 DEF CountsTo
  <2>3. \A n \in 0 .. N : n # 0 => f[n] = IF Refers(h, f[n - 1]) THEN h[f[n - 1]].items[1] ELSE f[n - 1]
    BY <1>1, <1>4 DEF Next1
  <2> QED
    BY <2>1, <2>2, <2>3
<1>6. PICK g : g = CHOOSE k : Fix(k)
  OBVIOUS
<1>7. Fix(g)
  BY Zenon, <1>5, <1>6
<1>8. Referred(h, o) = g[N]
  BY <1>6 DEF Referred
<1>9. g[0] = o /\ \A n \in 1 .. N : g[n] = Next1(h, g[n - 1])
  <2>1. 0 \in 0 .. N /\ \A n \in 1 .. N : n \in 0 .. N /\ n # 0
    BY <1>1
  <2> QED
    BY Zenon, <1>7, <2>1 DEF Next1
<1>10. \A n \in 0 .. N : g[n] \in V
  <2> DEFINE S == {n \in Nat : g[n] \in V}
  <2>1. 0 \in S
    BY <1>9
  <2>2. \A n \in 1 .. N : n - 1 \in S => n \in S
    <3> TAKE n \in 1 .. N
    <3>1. n \in Nat
      BY <1>1
    <3>2. g[n - 1] \in V => Next1(h, g[n - 1]) \in V
      BY Zenon, NextInside
    <3> QED
      BY <1>9, <3>1, <3>2
  <2>3. \A n \in 0 .. N : n \in S
    <3> HIDE DEF S
    <3> QED
      BY Zenon, <1>1, <2>1, <2>2, UpTo
  <2> QED
    BY <2>3
<1>11. g \in [0 .. N -> V]
  <2>1. g = [n \in 0 .. N |-> g[n]]
    BY <1>7
  <2> QED
    BY <1>10, <2>1
<1> QED
  BY Zenon, <1>8, <1>9, <1>11 DEF LedSteps

-----------------------------------------------------------------------------
(* Clones.  A heap that has been copied from holds the old objects as they  *)
(* were; the new ones are not marked, a new collection holds new objects    *)
(* only, each of them is held once, and no one holds the ones in R.         *)
New(h, g) == Len(h) + 1 .. Len(g)

Copies(h, g, R) ==
  /\ h \in Heaps /\ g \in Heaps /\ Len(h) <= Len(g)
  /\ \A k \in 1 .. Len(h) : g[k] = h[k]
  /\ \A k \in New(h, g) : ~g[k].referenced
  /\ \A k \in New(h, g) : \A j \in 1 .. Len(g[k].items) : g[k].items[j] < k
  /\ \A k \in New(h, g) : g[k].kind \in Collections =>
        \A j \in 1 .. Len(g[k].items) : g[k].items[j] > Len(h) /\ g[k].items[j] \notin R
  /\ \A k, m \in New(h, g) : g[k].kind \in Collections /\ g[m].kind \in Collections =>
        \A i \in 1 .. Len(g[k].items), j \in 1 .. Len(g[m].items) :
           g[k].items[i] = g[m].items[j] => k = m /\ i = j
  /\ R \subseteq New(h, g)

Cloned(h, o, r) ==
  /\ r \in Results
  /\ Copies(h, r.heap, {r.object})
  /\ r.object = Len(r.heap) /\ r.object > Len(h)
  /\ r.heap[r.object].kind = h[o].kind
  /\ h[o].kind \notin Collections =>
        r.heap[r.object].number = h[o].number /\ r.heap[r.object].items = h[o].items

Cloners == {v \in [Places -> Results] : \A place \in Places : Cloned(place[1], place[2], v[place])}

LEMMA PlaceIs ==
  ASSUME NEW h, NEW o
  PROVE  <<h, o>> \in Places <=> h \in Heaps /\ o \in 1 .. Len(h)
<1>1. ASSUME h \in Heaps, o \in 1 .. Len(h)
      PROVE  <<h, o>> \in Places
  <2>1. o \in Nat /\ DOMAIN h = 1 .. Len(h)
    BY <1>1, HeapTypes
  <2> QED
    BY <1>1, <2>1 DEF Places
<1>2. ASSUME <<h, o>> \in Places
      PROVE  h \in Heaps /\ o \in 1 .. Len(h)
  <2>1. h \in Heaps /\ o \in DOMAIN h
    BY <1>2 DEF Places
  <2> QED
    BY <2>1, HeapTypes
<1> QED
  BY <1>1, <1>2

LEMMA CopyNothing ==
  ASSUME NEW h \in Heaps
  PROVE  Copies(h, h, {})
<1>1. New(h, h) = {}
  <2>1. Len(h) \in Nat
    BY HeapTypes
  <2> QED
    BY <2>1 DEF New
<1>2. Len(h) <= Len(h)
  BY HeapTypes
<1> QED
  BY <1>1, <1>2 DEF Copies

(* An object that is no collection is copied as it is.                      *)
LEMMA CopyPlain ==
  ASSUME NEW h \in Heaps, NEW o \in 1 .. Len(h), h[o].kind \notin Collections,
         NEW r, r = Created(h, Object(h[o].kind, h[o].number, h[o].items))
  PROVE  Cloned(h, o, r)
<1> DEFINE x == Object(h[o].kind, h[o].number, h[o].items)
<1>1. Fits(Len(h), h[o]) /\ h[o] \in Thing /\ Len(h) \in Nat
  BY HeapTypes
<1>2. PICK y : y = x
  OBVIOUS
<1>3. /\ Fits(Len(h), y) /\ y.kind = h[o].kind /\ y.number = h[o].number
      /\ y.items = h[o].items /\ ~y.referenced
  <2> HIDE DEF x
  <2>1. /\ h[o].kind \in Kinds /\ h[o].number \in Nat /\ h[o].items \in Seq(Nat)
        /\ Allowed(Len(h), h[o].kind, h[o].items)
    BY <1>1 DEF Fits, Thing
  <2>2. y = Object(h[o].kind, h[o].number, h[o].items)
    BY <1>2 DEF x
  <2> QED
    BY <1>1, <2>1, <2>2, ObjectFits
<1>4. r = Created(h, y)
  BY <1>2
<1> HIDE DEF x
<1>5. PICK g : g = r.heap
  OBVIOUS
<1>6. /\ g \in Heaps /\ Len(g) = Len(h) + 1 /\ r \in Results
      /\ \A k \in 1 .. Len(h) : g[k] = h[k]
      /\ g[Len(h) + 1] = y /\ r.object = Len(h) + 1
  BY <1>3, <1>4, <1>5, CreatedRight
<1>7. New(h, g) = {Len(h) + 1}
  BY <1>1, <1>6 DEF New
<1>8. Copies(h, g, {Len(h) + 1})
  <2>1. \A j \in 1 .. Len(y.items) : y.items[j] < Len(h) + 1
    BY <1>1, <1>3 DEF Fits, Allowed
  <2>2. y.kind \notin Collections /\ ~y.referenced
    BY <1>3
  <2> QED
    BY <1>1, <1>6, <1>7, <2>1, <2>2 DEF Copies
<1> QED
  BY <1>1, <1>3, <1>5, <1>6, <1>8 DEF Cloned

LEMMA CopyTrans ==
  ASSUME NEW h, NEW g, NEW f, NEW R, NEW x, Copies(h, g, R), Copies(g, f, {x})
  PROVE  Copies(h, f, R \union {x})
<1>1. /\ h \in Heaps /\ g \in Heaps /\ f \in Heaps
      /\ Len(h) \in Nat /\ Len(g) \in Nat /\ Len(f) \in Nat /\ Len(h) <= Len(g) /\ Len(g) <= Len(f)
  BY HeapTypes DEF Copies
<1>2. New(h, f) = New(h, g) \union New(g, f)
  BY <1>1 DEF New
<1>3. \A k \in New(h, g) : k \in 1 .. Len(g) /\ f[k] = g[k]
  BY <1>1 DEF New, Copies
<1>4. \A k \in 1 .. Len(h) : f[k] = h[k]
  BY <1>1 DEF Copies
<1>5. \A k \in New(h, f) : ~f[k].referenced
  BY <1>2, <1>3 DEF Copies
<1>6. \A k \in New(h, f) : \A j \in 1 .. Len(f[k].items) : f[k].items[j] < k
  BY <1>2, <1>3 DEF Copies
<1>7. \A k \in New(g, f) : f[k].kind \in Collections =>
        \A j \in 1 .. Len(f[k].items) : f[k].items[j] > Len(g) /\ f[k].items[j] # x
  BY DEF Copies
<1>8. \A k \in New(h, g) : f[k].kind \in Collections =>
        \A j \in 1 .. Len(f[k].items) : /\ f[k].items[j] > Len(h) /\ f[k].items[j] \notin R
                                        /\ f[k].items[j] <= Len(g)
  <2> TAKE k \in New(h, g)
  <2> SUFFICES ASSUME f[k].kind \in Collections, NEW j \in 1 .. Len(f[k].items)
               PROVE  f[k].items[j] > Len(h) /\ f[k].items[j] \notin R /\ f[k].items[j] <= Len(g)
    OBVIOUS
  <2>1. f[k] = g[k] /\ k \in 1 .. Len(g)
    BY <1>3
  <2>2. g[k].items[j] > Len(h) /\ g[k].items[j] \notin R
    BY <2>1 DEF Copies
  <2>3. g[k].items[j] \in 1 .. Len(g)
    <3>1. Fits(Len(g), g[k])
      BY <1>1, <2>1, HeapTypes
    <3> QED
      BY <2>1, <3>1 DEF Fits, Allowed
  <2> QED
    BY <1>1, <2>1, <2>2, <2>3
<1>9. R \subseteq New(h, g) /\ x \in New(g, f)
  BY DEF Copies
<1>10. \A k \in New(h, f) : f[k].kind \in Collections =>
        \A j \in 1 .. Len(f[k].items) : f[k].items[j] > Len(h) /\ f[k].items[j] \notin R \union {x}
  <2> TAKE k \in New(h, f)
  <2> SUFFICES ASSUME f[k].kind \in Collections, NEW j \in 1 .. Len(f[k].items)
               PROVE  f[k].items[j] > Len(h) /\ f[k].items[j] \notin R \union {x}
    OBVIOUS
  <2>0. f[k].items[j] \in Nat
    <3>1. k \in 1 .. Len(f)
      BY <1>1 DEF New
    <3>2. Fits(Len(f), f[k])
      BY <1>1, <3>1, HeapTypes
    <3> QED
      BY <3>2 DEF Fits, Allowed
  <2>1. PICK i : i = f[k].items[j] /\ i \in Nat
    BY <2>0
  <2>2. CASE k \in New(h, g)
    <3>1. i > Len(h) /\ i \notin R /\ i <= Len(g)
      BY <1>8, <2>1, <2>2
    <3> QED
      BY <1>1, <1>9, <2>1, <3>1 DEF New
  <2>3. CASE k \in New(g, f)
    <3>1. i > Len(g) /\ i # x
      BY <1>7, <2>1, <2>3
    <3> QED
      BY <1>1, <1>9, <2>1, <3>1 DEF New
  <2> QED
    BY <1>2, <2>2, <2>3
<1>11. ASSUME NEW k \in New(h, f), NEW m \in New(h, f), f[k].kind \in Collections, f[m].kind \in Collections,
              NEW i \in 1 .. Len(f[k].items), NEW j \in 1 .. Len(f[m].items), f[k].items[i] = f[m].items[j]
       PROVE  k = m /\ i = j
  <2>0. f[k].items[i] \in Nat
    <3>1. k \in 1 .. Len(f)
      BY <1>1 DEF New
    <3>2. Fits(Len(f), f[k])
      BY <1>1, <3>1, HeapTypes
    <3> QED
      BY <3>2 DEF Fits, Allowed
  <2>1. CASE k \in New(h, g) /\ m \in New(h, g)
    <3>1. f[k] = g[k] /\ f[m] = g[m]
      BY <1>3, <2>1
    <3> QED
      BY <1>11, <2>1, <3>1 DEF Copies
  <2>2. CASE k \in New(g, f) /\ m \in New(g, f)
    BY <1>11, <2>2 DEF Copies
  <2>3. CASE k \in New(h, g) /\ m \in New(g, f)
    <3>1. f[k].items[i] <= Len(g) /\ f[m].items[j] > Len(g)
      BY Zenon, <1>7, <1>8, <1>11, <2>3
    <3> QED
      BY <1>1, <1>11, <2>0, <3>1
  <2>4. CASE k \in New(g, f) /\ m \in New(h, g)
    <3>1. f[m].items[j] <= Len(g) /\ f[k].items[i] > Len(g)
      BY Zenon, <1>7, <1>8, <1>11, <2>4
    <3> QED
      BY <1>1, <1>11, <2>0, <3>1
  <2> QED
    BY <1>2, <2>1, <2>2, <2>3, <2>4
<1>12. R \union {x} \subseteq New(h, f)
  BY <1>2, <1>9
<1> QED
  BY <1>1, <1>4, <1>5, <1>6, <1>10, <1>11, <1>12 DEF Copies

-----------------------------------------------------------------------------
(* The clones of a sequence of objects, and the collection that holds them. *)
Distinct(s) == \A i, j \in 1 .. Len(s) : s[i] = s[j] => i = j

AllCloned(h, items, k, s) ==
  /\ s.heap \in Heaps /\ s.items \in Seq(Nat) /\ Len(s.items) = k
  /\ Copies(h, s.heap, Range(s.items))
  /\ Distinct(s.items)
  /\ \A j \in 1 .. k : s.heap[s.items[j]].kind = h[items[j]].kind

LEMMA RangeIs ==
  ASSUME NEW S, NEW s \in Seq(S)
  PROVE  \A x : x \in Range(s) <=> \E j \in 1 .. Len(s) : x = s[j]
<1>1. DOMAIN s = 1 .. Len(s)
  BY LenProperties
<1> QED
  BY <1>1 DEF Range

Paired(kind, k) == kind = "map" => k % 2 = 0

Collected(h, s, kind, r) ==
  /\ h \in Heaps /\ kind \in Collections
  /\ \E items : \E k \in Nat : AllCloned(h, items, k, s) /\ Paired(kind, k)
  /\ r = Created(s.heap, Object(kind, 0, s.items))

Collecting(h, s, kind, r) ==
  /\ r \in Results /\ r.object = Len(s.heap) + 1 /\ Len(r.heap) = Len(s.heap) + 1
  /\ Copies(h, r.heap, {r.object}) /\ r.object > Len(h)
  /\ \A o \in 1 .. Len(s.heap) : r.heap[o] = s.heap[o]
  /\ r.heap[r.object].kind = kind /\ r.heap[r.object].items = s.items

LEMMA CopyCollection ==
  ASSUME NEW h, NEW s, NEW kind, NEW r, Collected(h, s, kind, r)
  PROVE  Collecting(h, s, kind, r)
<1> DEFINE g == s.heap
           N == Len(g) + 1
<1>b. PICK items : \E k \in Nat : AllCloned(h, items, k, s) /\ Paired(kind, k)
  BY DEF Collected
<1>0. PICK k \in Nat : AllCloned(h, items, k, s) /\ Paired(kind, k)
  BY <1>b
<1>a. h \in Heaps /\ kind \in Collections /\ r = Created(g, Object(kind, 0, s.items))
  BY DEF Collected
<1>1. /\ g \in Heaps /\ s.items \in Seq(Nat) /\ Len(s.items) = k
      /\ Copies(h, g, Range(s.items))
      /\ Len(h) \in Nat /\ Len(g) \in Nat /\ Len(h) <= Len(g)
  BY <1>0, HeapTypes DEF AllCloned, Copies
<1>2. \A j \in 1 .. k : s.items[j] \in New(h, g)
  <2>1. Range(s.items) \subseteq New(h, g)
    BY <1>1 DEF Copies
  <2> QED
    BY <1>1, <2>1, RangeIs
<1>3. \A j \in 1 .. k : s.items[j] \in 1 .. Len(g) /\ s.items[j] > Len(h) /\ s.items[j] < N
  BY <1>1, <1>2 DEF New
<1>4. PICK x : x = Object(kind, 0, s.items)
  OBVIOUS
<1>5. Fits(Len(g), x) /\ x.kind = kind /\ x.items = s.items /\ ~x.referenced
  <2>1. Allowed(Len(g), kind, s.items)
    BY <1>0, <1>1, <1>3, <1>a DEF Allowed, Collections, Paired
  <2>2. kind \in Kinds /\ 0 \in Nat
    BY <1>a DEF Kinds
  <2> HIDE DEF g
  <2> QED
    BY <1>1, <1>4, <2>1, <2>2, ObjectFits
<1> HIDE DEF g
<1>6. /\ r \in Results /\ r.heap \in Heaps
      /\ r.object = N /\ Len(r.heap) = N
      /\ \A o \in 1 .. Len(g) : r.heap[o] = g[o]
      /\ r.heap[N] = x
  <2>1. r = Created(g, x)
    BY <1>4, <1>a
  <2> QED
    BY <1>1, <1>5, <2>1, CreatedRight
<1>7. PICK f : f = r.heap
  OBVIOUS
<1>8. New(h, f) = New(h, g) \union {N} /\ N \notin New(h, g)
  BY <1>1, <1>6, <1>7 DEF New
<1>9. \A o \in New(h, g) : o \in 1 .. Len(g) /\ f[o] = g[o]
  BY <1>1, <1>6, <1>7 DEF New
<1>10. \A o \in New(h, f) : ~f[o].referenced
  BY <1>1, <1>5, <1>6, <1>7, <1>8, <1>9 DEF Copies
<1>11. \A o \in New(h, f) : \A j \in 1 .. Len(f[o].items) : f[o].items[j] < o
  <2>1. \A j \in 1 .. Len(f[N].items) : f[N].items[j] < N
    BY Zenon, <1>1, <1>3, <1>5, <1>6, <1>7
  <2> QED
    BY <1>1, <1>8, <1>9, <2>1 DEF Copies
<1>12. ASSUME NEW o \in New(h, f), f[o].kind \in Collections, NEW j \in 1 .. Len(f[o].items)
       PROVE  f[o].items[j] > Len(h) /\ f[o].items[j] \notin {N}
  <2>1. CASE o = N
    <3>1. f[o].items = s.items
      BY <1>5, <1>6, <1>7, <2>1
    <3>2. j \in 1 .. k
      BY <1>1, <1>12, <3>1
    <3>3. s.items[j] > Len(h) /\ s.items[j] < N /\ s.items[j] \in Nat
      BY <1>3, <3>2
    <3> QED
      BY <1>1, <3>1, <3>3
  <2>2. CASE o \in New(h, g)
    <3>1. f[o] = g[o] /\ o \in 1 .. Len(g)
      BY <1>9, <2>2
    <3>2. g[o].items[j] > Len(h)
      BY <1>1, <1>12, <2>2, <3>1 DEF Copies
    <3>3. g[o].items[j] \in 1 .. Len(g)
      <4>1. Fits(Len(g), g[o])
        BY <1>1, <3>1, HeapTypes
      <4> QED
        BY <1>12, <3>1, <4>1 DEF Fits, Allowed
    <3> QED
      BY <1>1, <3>1, <3>2, <3>3
  <2> QED
    BY <1>8, <2>1, <2>2
<1>13. ASSUME NEW o \in New(h, g), f[o].kind \in Collections, NEW i \in 1 .. Len(f[o].items),
              NEW j \in 1 .. Len(f[N].items)
       PROVE  f[o].items[i] # f[N].items[j]
  <2>1. g[o].items[i] \notin Range(s.items)
    BY Zenon, <1>1, <1>9, <1>13 DEF Copies
  <2>2. f[N].items[j] \in Range(s.items)
    <3>1. f[N].items = s.items
      BY <1>5, <1>6, <1>7
    <3> QED
      BY Zenon, <1>1, <1>13, <3>1, RangeIs
  <2> QED
    BY <1>9, <1>13, <2>1, <2>2
<1>14. ASSUME NEW o \in New(h, f), NEW m \in New(h, f), f[o].kind \in Collections, f[m].kind \in Collections,
              NEW i \in 1 .. Len(f[o].items), NEW j \in 1 .. Len(f[m].items), f[o].items[i] = f[m].items[j]
       PROVE  o = m /\ i = j
  <2>1. CASE o = N /\ m = N
    <3>1. f[N].items = s.items /\ Distinct(s.items)
      BY <1>0, <1>5, <1>6, <1>7 DEF AllCloned
    <3> QED
      BY <1>14, <2>1, <3>1 DEF Distinct
  <2>2. CASE o \in New(h, g) /\ m \in New(h, g)
    <3>1. f[o] = g[o] /\ f[m] = g[m]
      BY <1>9, <2>2
    <3>2. g[o].kind \in Collections /\ g[m].kind \in Collections
          /\ i \in 1 .. Len(g[o].items) /\ j \in 1 .. Len(g[m].items) /\ g[o].items[i] = g[m].items[j]
      BY <1>14, <3>1
    <3> QED
      BY <1>1, <2>2, <3>2 DEF Copies
  <2>3. CASE o = N /\ m \in New(h, g)
    BY <1>13, <1>14, <2>3
  <2>4. CASE o \in New(h, g) /\ m = N
    BY Zenon, <1>13, <1>14, <2>4
  <2> QED
    BY <1>8, <2>1, <2>2, <2>3, <2>4
<1>15. \A o \in 1 .. Len(h) : f[o] = h[o]
  <2> TAKE o \in 1 .. Len(h)
  <2>1. o \in 1 .. Len(g) /\ g[o] = h[o]
    BY <1>1 DEF Copies
  <2> QED
    BY <1>6, <1>7, <2>1
<1>16. Copies(h, f, {N})
  BY <1>1, <1>6, <1>7, <1>8, <1>10, <1>11, <1>12, <1>14, <1>15, <1>a DEF Copies
<1>17. /\ r.object = Len(g) + 1 /\ Len(r.heap) = Len(g) + 1 /\ r \in Results
       /\ \A o \in 1 .. Len(g) : r.heap[o] = g[o]
  BY <1>6
<1>18. Copies(h, r.heap, {r.object})
  BY <1>6, <1>7, <1>16
<1>19. r.object > Len(h)
  BY <1>1, <1>6
<1>20. r.heap[r.object].kind = kind /\ r.heap[r.object].items = s.items
  BY <1>5, <1>6
<1> QED
  BY <1>17, <1>18, <1>19, <1>20 DEF g, Collecting

Grows(h) == {s \in [heap : Heaps, items : Seq(Nat)] : Len(h) <= Len(s.heap)}

OneMore(v, s, o) ==
  [heap |-> v[<<s.heap, o>>].heap, items |-> Append(s.items, v[<<s.heap, o>>].object)]

ClonesRun(v, h, items, acc) ==
  /\ acc[0] = [heap |-> h, items |-> <<>>]
  /\ \A k \in 1 .. Len(items) : acc[k] = OneMore(v, acc[k - 1], items[k])

LEMMA OneMoreGrows ==
  ASSUME NEW v \in Cloners, NEW h \in Heaps, NEW o \in 1 .. Len(h), NEW s \in Grows(h)
  PROVE  OneMore(v, s, o) \in Grows(h) /\ <<s.heap, o>> \in Places
<1>1. s.heap \in Heaps /\ s.items \in Seq(Nat) /\ Len(h) <= Len(s.heap) /\ Len(h) \in Nat /\ Len(s.heap) \in Nat
  BY HeapTypes DEF Grows
<1>2. <<s.heap, o>> \in Places
  <2>1. o \in 1 .. Len(s.heap)
    BY <1>1
  <2> QED
    BY Zenon, <1>1, <2>1, PlaceIs
<1>3. Cloned(s.heap, o, v[<<s.heap, o>>])
  BY <1>2 DEF Cloners
<1>4. PICK r : r = v[<<s.heap, o>>]
  OBVIOUS
<1>5. r.heap \in Heaps /\ r.object \in Nat /\ Len(s.heap) <= Len(r.heap)
  BY <1>3, <1>4 DEF Cloned, Copies, Results
<1>6. Append(s.items, r.object) \in Seq(Nat)
  BY <1>1, <1>5, AppendProperties
<1>7. Len(r.heap) \in Nat
  BY <1>5, HeapTypes
<1>8. OneMore(v, s, o) = [heap |-> r.heap, items |-> Append(s.items, r.object)]
  BY <1>4 DEF OneMore
<1> QED
  BY <1>1, <1>2, <1>5, <1>6, <1>7, <1>8 DEF Grows

LEMMA ClonesSteps ==
  ASSUME NEW v \in Cloners, NEW h \in Heaps, NEW items \in Seq(1 .. Len(h)), NEW n \in Nat, n = Len(items)
  PROVE  \E acc \in [0 .. n -> Grows(h)] : ClonesRun(v, h, items, acc) /\ Clones(v, h, items) = acc[n]
<1> DEFINE V == Grows(h)
           base == [heap |-> h, items |-> <<>>]
           then(s, o) == OneMore(v, s, o)
           step == [q \in V \X (1 .. n) |-> then(q[1], items[q[2]])]
           Fix(f) == f = [t \in SUBSET DOMAIN items |->
                            IF t = {} THEN base ELSE then(f[t \ {Max(t)}], items[Max(t)])]
<1>1. DOMAIN items = 1 .. n /\ \A k \in 1 .. n : items[k] \in 1 .. Len(h)
  BY LenProperties, ElementOfSeq
<1>2. \A s \in V, k \in 1 .. n : then(s, items[k]) \in V
  BY Zenon, <1>1, OneMoreGrows
<1>3. base \in V
  <2>1. <<>> \in Seq(Nat) /\ Len(h) <= Len(h)
    BY EmptySeq, HeapTypes
  <2> QED
    BY <2>1 DEF Grows
<1> HIDE DEF V, base
<1>4. Folder(n, V, base, step)
  BY <1>2, <1>3 DEF Folder
<1>5. ASSUME NEW g, NEW t \in SUBSET (1 .. n), t # {}, g[t \ {Max(t)}] \in V
      PROVE  step[<<g[t \ {Max(t)}], Max(t)>>] = then(g[t \ {Max(t)}], items[Max(t)])
  <2>1. Max(t) \in t
    BY Zenon, <1>5, Positions
  <2>2. Max(t) \in 1 .. n
    BY Zenon, <2>1
  <2> HIDE DEF then
  <2> QED
    BY <1>5, <2>2
<1> HIDE DEF then, step
<1>6. \E f : Fix(f)
  <2>0. PICK f \in [SUBSET (1 .. n) -> V] : Folds(f, n, base, step)
    BY Zenon, <1>4, Folding
  <2>1. \A t \in SUBSET (1 .. n) : f[t] = IF t = {} THEN base ELSE step[<<f[t \ {Max(t)}], Max(t)>>]
    BY Zenon, <2>0 DEF Folds
  <2>2. f = [t \in SUBSET (1 .. n) |-> f[t]]
    OBVIOUS
  <2>3. \A t \in SUBSET (1 .. n) : t # {} => f[t] = then(f[t \ {Max(t)}], items[Max(t)])
    BY Zenon, <1>5, <2>1
  <2>4. Fix(f)
    BY Zenon, <1>1, <2>1, <2>2, <2>3
  <2> QED
    BY Zenon, <2>4
<1>7. PICK g : g = CHOOSE f : Fix(f)
  BY Zenon
<1>8. Fix(g)
  BY Zenon, <1>6, <1>7
<1>9. Clones(v, h, items) = g[1 .. n]
  BY <1>1, <1>7 DEF Clones, FoldLeft, MapThenFoldSet, then, OneMore, base
<1>10. FoldsAs(g, n, V, base, step)
  BY Zenon, <1>1, <1>5, <1>8 DEF FoldsAs
<1>11. PICK acc \in [0 .. n -> V] :
            /\ acc[0] = base
            /\ \A k \in 1 .. n : acc[k] = step[<<acc[k - 1], k>>]
            /\ acc[n] = g[1 .. n]
  <2>1. Folded(n, V, base, step, g)
    BY <1>4, <1>10, FoldRun
  <2> QED
    BY Zenon, <2>1 DEF Folded, Accumulates
<1>12. ASSUME NEW k \in 1 .. n
       PROVE  acc[k] = then(acc[k - 1], items[k])
  <2>1. acc[k - 1] \in V /\ k \in 1 .. n
    OBVIOUS
  <2>2. step[<<acc[k - 1], k>>] = then(acc[k - 1], items[k])
    BY <2>1 DEF step
  <2> QED
    BY <1>11, <2>2
<1> QED
  BY Zenon, <1>9, <1>11, <1>12 DEF then, ClonesRun, V, base

(* The clones of a sequence.                                                *)
LEMMA OneMoreRight ==
  ASSUME NEW v \in Cloners, NEW h \in Heaps, NEW items \in Seq(1 .. Len(h)), NEW k \in 1 .. Len(items),
         NEW s, AllCloned(h, items, k - 1, s)
  PROVE  AllCloned(h, items, k, OneMore(v, s, items[k]))
<1>1. /\ s.heap \in Heaps /\ s.items \in Seq(Nat) /\ Len(s.items) = k - 1
      /\ Copies(h, s.heap, Range(s.items)) /\ Len(h) \in Nat /\ Len(s.heap) \in Nat /\ Len(h) <= Len(s.heap)
      /\ k \in Nat /\ \A i \in 1 .. Len(h) : s.heap[i] = h[i]
  <2>1. Len(items) \in Nat
    BY LenProperties
  <2> QED
    BY <2>1, HeapTypes DEF AllCloned, Copies
<1>2. PICK o : o = items[k] /\ o \in 1 .. Len(h)
  BY ElementOfSeq
<1>3. <<s.heap, o>> \in Places
  BY <1>1, <1>2, PlaceIs
<1>4. PICK r : r = v[<<s.heap, o>>]
  OBVIOUS
<1>5. Cloned(s.heap, o, r)
  BY <1>3, <1>4 DEF Cloners
<1>6. /\ r.heap \in Heaps /\ r.object \in Nat /\ r.object = Len(r.heap) /\ r.object > Len(s.heap)
      /\ Copies(s.heap, r.heap, {r.object}) /\ r.heap[r.object].kind = h[o].kind
      /\ \A i \in 1 .. Len(s.heap) : r.heap[i] = s.heap[i]
  BY Zenon, <1>1, <1>2, <1>5 DEF Cloned, Results, Copies
<1>7. PICK new : new = Append(s.items, r.object)
  BY Zenon
<1>8. /\ new \in Seq(Nat) /\ Len(new) = k
      /\ \A j \in 1 .. k - 1 : new[j] = s.items[j]
      /\ new[k] = r.object
  BY <1>1, <1>6, <1>7, AppendProperties
<1>9. \A j \in 1 .. k - 1 : s.items[j] \in New(h, s.heap)
  <2>1. Range(s.items) \subseteq New(h, s.heap)
    BY <1>1 DEF Copies
  <2> QED
    BY Zenon, <1>1, <2>1, RangeIs
<1>10. \A j \in 1 .. k - 1 : s.items[j] \in 1 .. Len(s.heap)
  <2> TAKE j \in 1 .. k - 1
  <2>1. PICK i : i = s.items[j]
    OBVIOUS
  <2>2. i \in New(h, s.heap)
    BY <1>9, <2>1
  <2>3. i \in 1 .. Len(s.heap)
    BY <1>1, <2>2 DEF New
  <2> QED
    BY <2>1, <2>3
<1>11. Range(new) = Range(s.items) \union {r.object}
  <2>1. \A x : x \in Range(new) <=> \E j \in 1 .. k : x = new[j]
    <3>1. new \in Seq(Nat) /\ Len(new) = k
      BY <1>8
    <3> QED
      BY Zenon, <3>1, RangeIs
  <2>2. \A x : x \in Range(s.items) <=> \E j \in 1 .. k - 1 : x = s.items[j]
    <3>1. PICK it : it = s.items
      OBVIOUS
    <3>2. it \in Seq(Nat) /\ Len(it) = k - 1
      BY <1>1, <3>1
    <3>3. \A x : x \in Range(it) <=> \E j \in 1 .. k - 1 : x = it[j]
      BY <3>2, RangeIs
    <3> QED
      BY <3>1, <3>3
  <2>3. \A x : x \in Range(new) <=> x = r.object \/ x \in Range(s.items)
    <3>1. \A j : j \in 1 .. k <=> j = k \/ j \in 1 .. k - 1
      BY <1>1
    <3> TAKE x
    <3>2. ASSUME x \in Range(new) PROVE x = r.object \/ x \in Range(s.items)
      <4>1. PICK j \in 1 .. k : x = new[j]
        BY <2>1, <3>2
      <4>2. CASE j = k
        BY <1>8, <4>1, <4>2
      <4>3. CASE j \in 1 .. k - 1
        BY Zenon, <1>8, <2>2, <4>1, <4>3
      <4> QED
        BY <3>1, <4>2, <4>3
    <3>3. ASSUME x = r.object PROVE x \in Range(new)
      BY <1>8, <2>1, <3>1, <3>3
    <3>4. ASSUME x \in Range(s.items) PROVE x \in Range(new)
      <4>1. PICK j \in 1 .. k - 1 : x = s.items[j]
        BY Zenon, <2>2, <3>4
      <4>2. j \in 1 .. k /\ x = new[j]
        BY <1>8, <3>1, <4>1
      <4> QED
        BY <2>1, <4>2
    <3> QED
      BY <3>2, <3>3, <3>4
  <2> QED
    BY <2>3
<1>12. Copies(h, r.heap, Range(new))
  <2>1. PICK g, f, R, x : g = s.heap /\ f = r.heap /\ R = Range(s.items) /\ x = r.object
    OBVIOUS
  <2>2. Copies(h, g, R) /\ Copies(g, f, {x})
    BY <1>1, <1>6, <2>1
  <2>3. Copies(h, f, R \union {x})
    BY Zenon, <2>2, CopyTrans
  <2> QED
    BY <1>11, <2>1, <2>3
<1>13. Distinct(new)
  <2> SUFFICES ASSUME NEW i \in 1 .. k, NEW j \in 1 .. k, new[i] = new[j] PROVE i = j
    BY <1>8 DEF Distinct
  <2>1. CASE i \in 1 .. k - 1 /\ j \in 1 .. k - 1
    BY Zenon, <1>1, <1>8, <2>1 DEF AllCloned, Distinct
  <2>2. CASE i = k /\ j \in 1 .. k - 1
    BY <1>1, <1>6, <1>8, <1>10, <2>2
  <2>3. CASE i \in 1 .. k - 1 /\ j = k
    BY <1>1, <1>6, <1>8, <1>10, <2>3
  <2> QED
    BY <1>1, <2>1, <2>2, <2>3
<1>14. \A j \in 1 .. k : r.heap[new[j]].kind = h[items[j]].kind
  <2> TAKE j \in 1 .. k
  <2>1. CASE j = k
    BY Zenon, <1>2, <1>6, <1>8, <2>1
  <2>2. CASE j \in 1 .. k - 1
    BY Zenon, <1>6, <1>8, <1>10, <2>2 DEF AllCloned
  <2> QED
    BY <1>1, <2>1, <2>2
<1>15. OneMore(v, s, items[k]) = [heap |-> r.heap, items |-> new]
  BY <1>2, <1>4, <1>7 DEF OneMore
<1> QED
  BY <1>6, <1>8, <1>12, <1>13, <1>14, <1>15 DEF AllCloned

LEMMA ClonesRight ==
  ASSUME NEW v \in Cloners, NEW h \in Heaps, NEW items \in Seq(1 .. Len(h))
  PROVE  AllCloned(h, items, Len(items), Clones(v, h, items))
<1>1. PICK n \in Nat : n = Len(items)
  BY LenProperties
<1>2. PICK acc \in [0 .. n -> Grows(h)] : ClonesRun(v, h, items, acc) /\ Clones(v, h, items) = acc[n]
  BY <1>1, ClonesSteps
<1> DEFINE S == {k \in Nat : AllCloned(h, items, k, acc[k])}
<1>3. 0 \in S
  <2>1. acc[0] = [heap |-> h, items |-> <<>>]
    BY <1>2 DEF ClonesRun
  <2>2. <<>> \in Seq(Nat) /\ Len(<<>>) = 0 /\ Range(<<>>) = {}
    BY EmptySeq DEF Range
  <2>3. Copies(h, h, {})
    BY CopyNothing
  <2> QED
    BY <2>1, <2>2, <2>3 DEF AllCloned, Distinct
<1>4. \A k \in 1 .. n : k - 1 \in S => k \in S
  <2> TAKE k \in 1 .. n
  <2> HAVE k - 1 \in S
  <2>1. acc[k] = OneMore(v, acc[k - 1], items[k])
    BY <1>1, <1>2 DEF ClonesRun
  <2>2. AllCloned(h, items, k, acc[k])
    BY Zenon, <1>1, <2>1, OneMoreRight
  <2> QED
    BY <2>2
<1>5. \A k \in 0 .. n : k \in S
  <2> HIDE DEF S
  <2> QED
    BY Zenon, <1>3, <1>4, UpTo
<1>6. n \in S
  BY <1>5
<1> QED
  BY <1>1, <1>2, <1>6

-----------------------------------------------------------------------------
(* Clones to any depth.                                                     *)
CloneOf(all, h, o) ==
  IF h[o].kind \in Collections THEN Created(all.heap, Object(h[o].kind, 0, all.items))
  ELSE Created(h, Object(h[o].kind, h[o].number, h[o].items))

Shallow == [place \in Places |-> CloneOf([heap |-> place[1], items |-> <<>>], place[1], place[2])]

Deeper(v) ==
  [place \in Places |->
     CloneOf(Clones(v, place[1], place[1][place[2]].items), place[1], place[2])]

LEMMA CloneOfRight ==
  ASSUME NEW h \in Heaps, NEW o \in 1 .. Len(h), NEW k \in Nat, NEW all,
         AllCloned(h, h[o].items, k, all), Paired(h[o].kind, k)
  PROVE  Cloned(h, o, CloneOf(all, h, o))
<1>1. PICK r : r = CloneOf(all, h, o)
  OBVIOUS
<1>2. CASE h[o].kind \in Collections
  <2>1. PICK kind \in Collections : kind = h[o].kind
    BY <1>2
  <2>2. r = Created(all.heap, Object(kind, 0, all.items))
    BY <1>1, <2>1 DEF CloneOf
  <2>3. PICK items : items = h[o].items
    OBVIOUS
  <2>4. AllCloned(h, items, k, all) /\ Paired(kind, k)
    BY <2>1, <2>3
  <2>7. Collected(h, all, kind, r)
    BY <2>2, <2>4 DEF Collected
  <2>8. Collecting(h, all, kind, r)
    BY <2>7, CopyCollection
  <2>5. /\ r \in Results /\ r.object = Len(all.heap) + 1 /\ Len(r.heap) = Len(all.heap) + 1
        /\ Copies(h, r.heap, {r.object}) /\ r.object > Len(h)
    BY <2>8 DEF Collecting
  <2>6. kind = r.heap[r.object].kind
    BY <2>8 DEF Collecting
  <2> QED
    BY <1>1, <2>1, <2>5, <2>6 DEF Cloned
<1>3. CASE h[o].kind \notin Collections
  <2>1. r = Created(h, Object(h[o].kind, h[o].number, h[o].items))
    BY <1>1, <1>3 DEF CloneOf
  <2> QED
    BY <1>1, <1>3, <2>1, CopyPlain
<1> QED
  BY <1>2, <1>3

LEMMA PlacesAre ==
  ASSUME NEW place \in Places
  PROVE  place[1] \in Heaps /\ place[2] \in 1 .. Len(place[1]) /\ place = <<place[1], place[2]>>
<1>1. place \in Heaps \X Nat /\ place[2] \in DOMAIN place[1]
  BY DEF Places
<1> QED
  BY <1>1, HeapTypes

LEMMA ClonersAre ==
  ASSUME NEW v, v = [place \in Places |-> v[place]],
         \A h \in Heaps : \A o \in 1 .. Len(h) : Cloned(h, o, v[<<h, o>>])
  PROVE  v \in Cloners
<1>1. ASSUME NEW place \in Places PROVE v[place] \in Results /\ Cloned(place[1], place[2], v[place])
  <2>1. PICK h, o : h = place[1] /\ o = place[2] /\ place = <<h, o>> /\ h \in Heaps /\ o \in 1 .. Len(h)
    BY PlacesAre
  <2>2. Cloned(h, o, v[<<h, o>>])
    BY <2>1
  <2> QED
    BY <2>1, <2>2 DEF Cloned
<1>2. v \in [Places -> Results]
  BY <1>1
<1> QED
  BY Zenon, <1>1, <1>2 DEF Cloners

LEMMA ShallowClones == Shallow \in Cloners
<1>1. Shallow = [place \in Places |-> Shallow[place]]
  BY DEF Shallow
<1>2. ASSUME NEW h \in Heaps, NEW o \in 1 .. Len(h) PROVE Cloned(h, o, Shallow[<<h, o>>])
  <2>1. <<h, o>> \in Places
    BY PlaceIs
  <2>2. PICK all : all = [heap |-> h, items |-> <<>>]
    BY Zenon
  <2>3. Shallow[<<h, o>>] = CloneOf(all, h, o)
    BY <2>1, <2>2 DEF Shallow
  <2>4. AllCloned(h, h[o].items, 0, all)
    <3>1. <<>> \in Seq(Nat) /\ Len(<<>>) = 0 /\ Range(<<>>) = {}
      BY EmptySeq DEF Range
    <3>2. Copies(h, h, {})
      BY CopyNothing
    <3> QED
      BY <2>2, <3>1, <3>2 DEF AllCloned, Distinct
  <2>5. Paired(h[o].kind, 0)
    BY DEF Paired
  <2> QED
    BY <2>3, <2>4, <2>5, CloneOfRight
<1> QED
  BY Zenon, <1>1, <1>2, ClonersAre

LEMMA DeeperClones ==
  ASSUME NEW v \in Cloners
  PROVE  Deeper(v) \in Cloners
<1>1. Deeper(v) = [place \in Places |-> Deeper(v)[place]]
  BY DEF Deeper
<1>2. ASSUME NEW h \in Heaps, NEW o \in 1 .. Len(h) PROVE Cloned(h, o, Deeper(v)[<<h, o>>])
  <2>1. <<h, o>> \in Places
    BY PlaceIs
  <2>2. PICK items, all : items = h[o].items /\ all = Clones(v, h, items)
    OBVIOUS
  <2>3. Deeper(v)[<<h, o>>] = CloneOf(all, h, o)
    BY <2>1, <2>2 DEF Deeper
  <2>4. items \in Seq(1 .. Len(h)) /\ Len(items) \in Nat /\ Paired(h[o].kind, Len(items))
    BY Zenon, <2>2, HeapItems, HeapTypes DEF Fits, Allowed, Paired
  <2>5. AllCloned(h, items, Len(items), all)
    BY <2>2, <2>4, ClonesRight
  <2> QED
    BY <2>2, <2>3, <2>4, <2>5, CloneOfRight
<1> QED
  BY Zenon, <1>1, <1>2, ClonersAre

LEMMA ClonesAre ==
  clones[0] = Shallow /\ \A d \in Nat \ {0} : clones[d - 1] \in Cloners /\ clones[d] = Deeper(clones[d - 1])
<1> DEFINE p == [n \in Nat |-> IF n = 0 THEN 0 ELSE n - 1]
           base == [n \in Nat |-> Shallow]
           m == [n \in Nat |-> n]
           then == [q \in Nat \X Cloners |-> Deeper(q[2])]
           Fix(f) == f = [depth \in Nat |->
              [place \in Places |->
                 LET h == place[1]
                     o == place[2]
                     all == IF depth = 0 THEN [heap |-> h, items |-> <<>>]
                            ELSE Clones(f[depth - 1], h, h[o].items)
                 IN IF h[o].kind \in Collections THEN Created(all.heap, Object(h[o].kind, 0, all.items))
                    ELSE Created(h, Object(h[o].kind, h[o].number, h[o].items))]]
           Law(f) == f = [d \in Nat |-> IF d = 0 THEN Shallow ELSE Deeper(f[d - 1])]
<1>1. \A f : Fix(f) <=> Law(f)
  <2> TAKE f
  <2> DEFINE At(d) == [place \in Places |->
                 LET h == place[1]
                     o == place[2]
                     all == IF d = 0 THEN [heap |-> h, items |-> <<>>]
                            ELSE Clones(f[d - 1], h, h[o].items)
                 IN IF h[o].kind \in Collections THEN Created(all.heap, Object(h[o].kind, 0, all.items))
                    ELSE Created(h, Object(h[o].kind, h[o].number, h[o].items))]
  <2>1. At(0) = Shallow
    BY DEF Shallow, CloneOf
  <2>2. \A d \in Nat \ {0} : At(d) = Deeper(f[d - 1])
    BY DEF Deeper, CloneOf
  <2>3. Fix(f) <=> f = [d \in Nat |-> At(d)]
    OBVIOUS
  <2> HIDE DEF At, Fix
  <2>4. \A d \in Nat : At(d) = IF d = 0 THEN Shallow ELSE Deeper(f[d - 1])
    BY <2>1, <2>2
  <2> QED
    BY <2>3, <2>4
<1>2. \E f \in [Nat -> Cloners] : Recursive(f, Nat, {0}, base, p, then)
  <2>1. m \in [Nat -> Nat] /\ base \in [Nat -> Cloners] /\ p \in [Nat -> Nat]
    BY ShallowClones
  <2>2. then \in [Nat \X Cloners -> Cloners]
    BY DeeperClones
  <2>3. \A x \in Nat \ {0} : m[p[x]] < m[x]
    OBVIOUS
  <2> HIDE DEF m, p, base, then
  <2> QED
    BY Zenon, <2>1, <2>2, <2>3, Recursion
<1>3. PICK f \in [Nat -> Cloners] : Recursive(f, Nat, {0}, base, p, then)
  BY Zenon, <1>2
<1>4. \A d \in Nat : f[d] = IF d = 0 THEN Shallow ELSE Deeper(f[d - 1])
  <2> TAKE d \in Nat
  <2>1. CASE d = 0
    BY Zenon, <1>3, <2>1 DEF Recursive
  <2>2. CASE d # 0
    <3>1. d - 1 \in Nat /\ p[d] = d - 1 /\ f[d - 1] \in Cloners
      BY <2>2
    <3>2. then[<<d, f[d - 1]>>] = Deeper(f[d - 1])
      BY <3>1
    <3>3. f[d] = then[<<d, f[p[d]]>>]
      BY Zenon, <1>3, <2>2 DEF Recursive
    <3> QED
      BY <2>2, <3>1, <3>2, <3>3
  <2> QED
    BY <2>1, <2>2
<1>5. Law(f)
  <2>1. f = [d \in Nat |-> f[d]]
    OBVIOUS
  <2> QED
    BY <1>4, <2>1
<1>6. clones = CHOOSE g : Fix(g)
  BY DEF clones
<1> HIDE DEF Fix, Law
<1>7. Law(clones)
  BY <1>1, <1>5, <1>6
<1>8. clones[0] = Shallow /\ \A d \in Nat \ {0} : clones[d] = Deeper(clones[d - 1])
  BY <1>7 DEF Law
<1> DEFINE T == {n \in Nat : clones[n] \in Cloners}
<1>9. T = Nat
  <2>1. ASSUME NEW n \in Nat, \A k \in 0 .. n - 1 : k \in T PROVE n \in T
    <3>1. CASE n = 0
      BY <1>8, <3>1, ShallowClones
    <3>2. CASE n # 0
      <4>1. n - 1 \in 0 .. n - 1 /\ n \in Nat \ {0}
        BY <3>2
      <4>2. clones[n - 1] \in Cloners
        BY <2>1, <4>1
      <4> QED
        BY <1>8, <4>1, <4>2, DeeperClones
    <3> QED
      BY <3>1, <3>2
  <2>2. T \in SUBSET Nat
    OBVIOUS
  <2> HIDE DEF T
  <2> QED
    BY <2>1, <2>2, NatSet
<1>10. \A d \in Nat \ {0} : clones[d - 1] \in Cloners
  <2> TAKE d \in Nat \ {0}
  <2>1. d - 1 \in Nat
    OBVIOUS
  <2> QED
    BY <1>9, <2>1
<1> QED
  BY <1>8, <1>10

LEMMA EveryDepth == \A d \in Nat : clones[d] \in Cloners
<1> TAKE d \in Nat
<1>1. d + 1 \in Nat \ {0} /\ (d + 1) - 1 = d
  OBVIOUS
<1> QED
  BY <1>1, ClonesAre

(* What ob_clone and the clones of a sequence of objects leave.             *)
LEMMA CloneRight ==
  ASSUME NEW h \in Heaps, NEW o \in 1 .. Len(h)
  PROVE  Cloned(h, o, ob_clone(h, o))
<1>1. Len(h) \in Nat /\ clones[Len(h)] \in Cloners
  BY HeapTypes, EveryDepth
<1>2. PICK v \in Cloners : v = clones[Len(h)]
  BY <1>1
<1>3. <<h, o>> \in Places
  BY PlaceIs
<1>4. Cloned(h, o, v[<<h, o>>])
  BY <1>3 DEF Cloners
<1> QED
  BY <1>2, <1>4 DEF ob_clone

LEMMA CloneItemsRight ==
  ASSUME NEW h \in Heaps, NEW items \in Seq(1 .. Len(h))
  PROVE  AllCloned(h, items, Len(items), CloneItems(h, items))
<1>1. Len(h) \in Nat /\ clones[Len(h)] \in Cloners
  BY HeapTypes, EveryDepth
<1> QED
  BY <1>1, ClonesRight DEF CloneItems

-----------------------------------------------------------------------------
(* The objects that can be reached, in the order in which they are met.     *)
Joins(seen, o) == IF o \in Range(seen) THEN seen ELSE Append(seen, o)

JoinRun(met, objects, f) ==
  f[0] = met /\ \A n \in 1 .. Len(objects) : f[n] = Joins(f[n - 1], objects[n])

LEMMA Appended ==
  ASSUME NEW S, NEW u \in Seq(S), NEW o \in S
  PROVE  /\ Append(u, o) \in Seq(S) /\ Len(u) \in Nat /\ Len(Append(u, o)) = Len(u) + 1
         /\ Append(u, o)[Len(u) + 1] = o /\ \A i \in 1 .. Len(u) : Append(u, o)[i] = u[i]
BY AppendProperties, LenProperties

LEMMA JoinsInside ==
  ASSUME NEW S, NEW seen \in Seq(S), NEW o \in S
  PROVE  Joins(seen, o) \in Seq(S)
<1>1. Append(seen, o) \in Seq(S)
  BY AppendProperties
<1> QED
  BY <1>1 DEF Joins

LEMMA Stepwise ==
  ASSUME NEW n \in Nat, NEW V, NEW g, g[0] \in V, \A k \in 1 .. n : g[k - 1] \in V => g[k] \in V
  PROVE  \A k \in 0 .. n : g[k] \in V
<1> DEFINE S == {k \in Nat : g[k] \in V}
<1>1. 0 \in S
  OBVIOUS
<1>2. \A k \in 1 .. n : k - 1 \in S => k \in S
  OBVIOUS
<1>3. \A k \in 0 .. n : k \in S
  <2> HIDE DEF S
  <2> QED
    BY <1>1, <1>2, UpTo
<1> QED
  BY <1>3

LEMMA JoinSteps ==
  ASSUME NEW S, NEW met \in Seq(S), NEW objects \in Seq(S)
  PROVE  \E f \in [0 .. Len(objects) -> Seq(S)] :
            JoinRun(met, objects, f) /\ Join(met, objects) = f[Len(objects)]
<1> DEFINE N == Len(objects)
           V == Seq(S)
           step == [q \in V \X (1 .. N) |-> Joins(q[1], objects[q[2]])]
           Fix(f) == f = [n \in 0 .. N |->
                            IF n = 0 THEN met
                            ELSE LET seen == f[n - 1]
                                 IN IF objects[n] \in Range(seen) THEN seen ELSE Append(seen, objects[n])]
           Law(f) == f = [n \in 0 .. N |-> IF n = 0 THEN met ELSE Joins(f[n - 1], objects[n])]
<1>1. N \in Nat /\ \A k \in 1 .. N : objects[k] \in S
  BY LenProperties, ElementOfSeq
<1>2. step \in [V \X (1 .. N) -> V]
  BY Zenon, <1>1, JoinsInside
<1>3. PICK f \in [0 .. N -> V] : CountsTo(f, N, met, step)
  <2> HIDE DEF step
  <2> QED
    BY Zenon, <1>1, <1>2, Counting
<1>4. \A n \in 1 .. N : f[n] = Joins(f[n - 1], objects[n])
  <2> TAKE n \in 1 .. N
  <2>1. f[n - 1] \in V /\ f[n] = step[<<f[n - 1], n>>]
    <3>1. n - 1 \in 0 .. N
      BY <1>1
    <3> HIDE DEF V, step
    <3> QED
      BY Zenon, <1>3, <3>1 DEF CountsTo
  <2> QED
    BY <2>1
<1>5. \A g : Fix(g) <=> Law(g)
  BY DEF Joins
<1>6. Law(f)
  <2>1. f = [n \in 0 .. N |-> f[n]]
    OBVIOUS
  <2>2. f[0] = met
    BY <1>3 DEF CountsTo
  <2>3. \A n \in 0 .. N : n # 0 => f[n] = Joins(f[n - 1], objects[n])
    BY <1>1, <1>4
  <2> QED
    BY <2>1, <2>2, <2>3
<1>7. PICK g : g = CHOOSE k : Fix(k)
  BY Zenon
<1>8. Join(met, objects) = g[N]
  BY <1>7 DEF Join
<1> HIDE DEF Fix, Law
<1>9. Law(g)
  BY <1>5, <1>6, <1>7
<1>10. g[0] = met /\ \A n \in 1 .. N : g[n] = Joins(g[n - 1], objects[n])
  <2>1. 0 \in 0 .. N /\ \A n \in 1 .. N : n \in 0 .. N /\ n # 0
    BY <1>1
  <2> QED
    BY Zenon, <1>9, <2>1 DEF Law
<1>11. \A n \in 0 .. N : g[n] \in V
  <2>1. \A n \in 1 .. N : g[n - 1] \in V => g[n] \in V
    BY Zenon, <1>1, <1>10, JoinsInside
  <2> HIDE DEF V
  <2>2. g[0] \in V
    BY <1>10 DEF V
  <2> QED
    BY Zenon, <1>1, <2>1, <2>2, Stepwise
<1>12. g \in [0 .. N -> V]
  <2>1. g = [n \in 0 .. N |-> g[n]]
    BY <1>9 DEF Law
  <2> QED
    BY <1>11, <2>1
<1> QED
  BY Zenon, <1>8, <1>10, <1>12 DEF JoinRun

Extends(m, u) == Len(m) <= Len(u) /\ \A k \in 1 .. Len(m) : u[k] = m[k]

(* What has been joined after k of the objects.                             *)
Joined(S, met, objects, k, u) ==
  /\ u \in Seq(S) /\ Distinct(u) /\ Extends(met, u)
  /\ \A j \in 1 .. k : objects[j] \in Range(u)
  /\ \A x \in Range(u) : x \in Range(met) \/ \E j \in 1 .. k : x = objects[j]

LEMMA JoinsRight ==
  ASSUME NEW S, NEW met \in Seq(S), NEW objects \in Seq(S), NEW k \in 1 .. Len(objects),
         NEW u, Joined(S, met, objects, k - 1, u)
  PROVE  Joined(S, met, objects, k, Joins(u, objects[k]))
<1>1. Len(objects) \in Nat /\ objects[k] \in S /\ Len(met) \in Nat
  BY LenProperties, ElementOfSeq
<1>2. /\ u \in Seq(S) /\ Distinct(u) /\ Extends(met, u) /\ Len(u) \in Nat
      /\ \A j \in 1 .. k - 1 : objects[j] \in Range(u)
      /\ \A x \in Range(u) : x \in Range(met) \/ \E j \in 1 .. k - 1 : x = objects[j]
  BY LenProperties DEF Joined
<1>3. \A j : j \in 1 .. k <=> j = k \/ j \in 1 .. k - 1
  BY <1>1
<1>4. PICK o : o = objects[k] /\ o \in S
  BY <1>1
<1>5. CASE o \in Range(u)
  <2>1. Joins(u, o) = u
    BY <1>5 DEF Joins
  <2> QED
    BY <1>2, <1>3, <1>4, <1>5, <2>1 DEF Joined
<1>6. CASE o \notin Range(u)
  <2>1. PICK w : w = Append(u, o) /\ w = Joins(u, o)
    BY Zenon, <1>6 DEF Joins
  <2>2. w \in Seq(S) /\ Len(w) = Len(u) + 1 /\ w[Len(u) + 1] = o /\ \A i \in 1 .. Len(u) : w[i] = u[i]
    <3>1. /\ Append(u, o) \in Seq(S) /\ Len(Append(u, o)) = Len(u) + 1
          /\ Append(u, o)[Len(u) + 1] = o /\ \A i \in 1 .. Len(u) : Append(u, o)[i] = u[i]
      BY <1>2, <1>4, Appended
    <3> QED
      BY <2>1, <3>1
  <2>3. \A x : x \in Range(u) <=> \E i \in 1 .. Len(u) : x = u[i]
    BY <1>2, RangeIs
  <2>4. \A x : x \in Range(w) <=> \E i \in 1 .. Len(w) : x = w[i]
    BY <2>2, RangeIs
  <2>5. \A i : i \in 1 .. Len(w) <=> i = Len(u) + 1 \/ i \in 1 .. Len(u)
    BY <1>2, <2>2
  <2>6. \A x : x \in Range(w) <=> x = o \/ x \in Range(u)
    <3> TAKE x
    <3>1. ASSUME x \in Range(w) PROVE x = o \/ x \in Range(u)
      <4>1. PICK i \in 1 .. Len(w) : x = w[i]
        BY <2>4, <3>1
      <4>2. CASE i = Len(u) + 1
        BY <2>2, <4>1, <4>2
      <4>3. CASE i \in 1 .. Len(u)
        BY <2>2, <2>3, <4>1, <4>3
      <4> QED
        BY <2>5, <4>2, <4>3
    <3>2. ASSUME x = o PROVE x \in Range(w)
      BY <2>2, <2>4, <2>5, <3>2
    <3>3. ASSUME x \in Range(u) PROVE x \in Range(w)
      <4>1. PICK i \in 1 .. Len(u) : x = u[i]
        BY <2>3, <3>3
      <4>2. i \in 1 .. Len(w) /\ x = w[i]
        BY <2>2, <2>5, <4>1
      <4> QED
        BY <2>4, <4>2
    <3> QED
      BY <3>1, <3>2, <3>3
  <2>7. Distinct(w)
    <3> SUFFICES ASSUME NEW i \in 1 .. Len(w), NEW j \in 1 .. Len(w), w[i] = w[j] PROVE i = j
      BY DEF Distinct
    <3>1. CASE i \in 1 .. Len(u) /\ j \in 1 .. Len(u)
      BY <1>2, <2>2, <3>1 DEF Distinct
    <3>2. CASE i = Len(u) + 1 /\ j \in 1 .. Len(u)
      BY Zenon, <1>6, <2>2, <2>3, <3>2
    <3>3. CASE i \in 1 .. Len(u) /\ j = Len(u) + 1
      BY Zenon, <1>6, <2>2, <2>3, <3>3
    <3> QED
      BY Zenon, <2>5, <3>1, <3>2, <3>3
  <2>8. Extends(met, w)
    BY <1>1, <1>2, <2>2 DEF Extends
  <2>9. \A j \in 1 .. k : objects[j] \in Range(w)
    BY <1>2, <1>3, <1>4, <2>6
  <2>10. \A x \in Range(w) : x \in Range(met) \/ \E j \in 1 .. k : x = objects[j]
    BY <1>2, <1>3, <1>4, <2>6
  <2> QED
    BY <1>4, <2>1, <2>2, <2>7, <2>8, <2>9, <2>10 DEF Joined
<1> QED
  BY <1>5, <1>6

LEMMA JoinRight ==
  ASSUME NEW S, NEW met \in Seq(S), Distinct(met), NEW objects \in Seq(S)
  PROVE  Joined(S, met, objects, Len(objects), Join(met, objects))
<1>1. PICK n \in Nat : n = Len(objects)
  BY LenProperties
<1>2. PICK f \in [0 .. n -> Seq(S)] : JoinRun(met, objects, f) /\ Join(met, objects) = f[n]
  BY <1>1, JoinSteps
<1> DEFINE T == {k \in Nat : Joined(S, met, objects, k, f[k])}
<1>3. 0 \in T
  <2>1. f[0] = met
    BY <1>2 DEF JoinRun
  <2>2. Extends(met, met)
    <3>1. Len(met) \in Nat
      BY LenProperties
    <3> QED
      BY <3>1 DEF Extends
  <2> QED
    BY <2>1, <2>2 DEF Joined
<1>4. \A k \in 1 .. n : k - 1 \in T => k \in T
  <2> TAKE k \in 1 .. n
  <2> HAVE k - 1 \in T
  <2>1. f[k] = Joins(f[k - 1], objects[k])
    BY <1>1, <1>2 DEF JoinRun
  <2>2. Joined(S, met, objects, k, f[k])
    BY Zenon, <1>1, <2>1, JoinsRight
  <2> QED
    BY <2>2
<1>5. \A k \in 0 .. n : k \in T
  <2> HIDE DEF T
  <2> QED
    BY Zenon, <1>3, <1>4, UpTo
<1>6. n \in T
  BY <1>5
<1> QED
  BY <1>1, <1>2, <1>6

(* Objects that are all different come first and in their order.            *)
First(n, k, u) ==
  /\ k <= n => Len(u) = k
  /\ \A i \in 1 .. n : i <= k => i <= Len(u) /\ u[i] = i

LEMMA FirstStep ==
  ASSUME NEW S, NEW u \in Seq(S), NEW o \in S, NEW n \in Nat, NEW k \in Nat \ {0},
         First(n, k - 1, u), k <= n => o = k
  PROVE  First(n, k, Joins(u, o))
<1>1. PICK w : w = Append(u, o)
  BY Zenon
<1>2. /\ Len(u) \in Nat /\ Len(w) = Len(u) + 1 /\ w[Len(u) + 1] = o
      /\ \A i \in 1 .. Len(u) : w[i] = u[i]
  <2>1. /\ Append(u, o) \in Seq(S) /\ Len(u) \in Nat /\ Len(Append(u, o)) = Len(u) + 1
        /\ Append(u, o)[Len(u) + 1] = o /\ \A i \in 1 .. Len(u) : Append(u, o)[i] = u[i]
    BY Appended
  <2> QED
    BY <1>1, <2>1
<1>3. CASE k <= n
  <2>1. Len(u) = k - 1 /\ o = k /\ \A i \in 1 .. k - 1 : u[i] = i
    BY <1>3 DEF First
  <2>2. o \notin Range(u)
    <3>1. \A i \in 1 .. Len(u) : o # u[i]
      BY <2>1
    <3>2. \A x : x \in Range(u) <=> \E i \in 1 .. Len(u) : x = u[i]
      BY RangeIs
    <3> QED
      BY <3>1, <3>2
  <2>3. Joins(u, o) = w
    BY <1>1, <2>2 DEF Joins
  <2>4. Len(w) = k /\ \A i \in 1 .. k : w[i] = i
    BY <1>2, <2>1
  <2> QED
    BY <1>3, <2>3, <2>4 DEF First
<1>4. CASE ~(k <= n)
  <2>1. \A i \in 1 .. n : i <= Len(u) /\ u[i] = i
    BY <1>4 DEF First
  <2>2. \A i \in 1 .. n : i <= Len(w) /\ w[i] = i
    BY <1>2, <2>1
  <2>3. Joins(u, o) = u \/ Joins(u, o) = w
    BY <1>1 DEF Joins
  <2> QED
    BY <1>4, <2>1, <2>2, <2>3 DEF First
<1> QED
  BY <1>3, <1>4

LEMMA JoinFirst ==
  ASSUME NEW S, NEW objects \in Seq(S), NEW n \in Nat, n <= Len(objects),
         \A k \in 1 .. n : objects[k] = k
  PROVE  n <= Len(Join(<<>>, objects)) /\ \A k \in 1 .. n : Join(<<>>, objects)[k] = k
<1>1. PICK N \in Nat : N = Len(objects)
  BY LenProperties
<1>2. PICK empty \in Seq(S) : empty = <<>> /\ Len(empty) = 0
  BY Zenon, EmptySeq
<1>3. PICK f \in [0 .. N -> Seq(S)] : JoinRun(empty, objects, f) /\ Join(empty, objects) = f[N]
  BY <1>1, JoinSteps
<1> DEFINE T == {k \in Nat : First(n, k, f[k])}
<1>4. 0 \in T
  BY <1>2, <1>3 DEF JoinRun, First
<1>5. \A k \in 1 .. N : k - 1 \in T => k \in T
  <2> TAKE k \in 1 .. N
  <2> HAVE k - 1 \in T
  <2>1. f[k] = Joins(f[k - 1], objects[k]) /\ k - 1 \in 0 .. N
    BY <1>1, <1>3 DEF JoinRun
  <2>2. PICK u \in Seq(S) : u = f[k - 1]
    BY <2>1
  <2>3. PICK o : o = objects[k] /\ o \in S
    BY <1>1, ElementOfSeq
  <2>4. First(n, k - 1, u) /\ (k <= n => o = k)
    BY <2>2, <2>3
  <2>5. First(n, k, Joins(u, o))
    BY <2>3, <2>4, FirstStep
  <2> QED
    BY <2>1, <2>2, <2>3, <2>5
<1>6. \A k \in 0 .. N : k \in T
  <2> HIDE DEF T
  <2> QED
    BY Zenon, <1>4, <1>5, UpTo
<1>7. First(n, N, f[N])
  <2>1. N \in T
    BY <1>6
  <2> QED
    BY <2>1
<1>8. N >= n
  BY <1>1
<1>9. \A i \in 1 .. n : i <= Len(f[N]) /\ f[N][i] = i
  BY <1>7, <1>8 DEF First
<1>10. n <= Len(f[N])
  <2>1. CASE n = 0
    <3>1. f[N] \in Seq(S)
      OBVIOUS
    <3> QED
      BY <2>1, <3>1, LenProperties
  <2>2. CASE n # 0
    <3>1. n \in 1 .. n
      BY <2>2
    <3> QED
      BY <1>9, <3>1
  <2> QED
    BY <2>1, <2>2
<1> QED
  BY <1>2, <1>3, <1>9, <1>10

LEMMA DistinctShort ==
  ASSUME NEW N \in Nat, NEW u \in Seq(1 .. N), Distinct(u)
  PROVE  Len(u) \in Nat /\ Len(u) <= N
<1>1. Len(u) \in Nat /\ \A i \in 1 .. Len(u) : u[i] \in 1 .. N
  BY LenProperties, ElementOfSeq
<1> DEFINE f == [i \in 1 .. Len(u) |-> u[i]]
<1>2. f \in Injection(1 .. Len(u), 1 .. N)
  BY Zenon, <1>1 DEF Injection, IsInjective, Distinct
<1>3. IsFiniteSet(1 .. N) /\ Cardinality(1 .. N) = N
  BY FS_Interval
<1>4. Cardinality(1 .. Len(u)) <= Cardinality(1 .. N)
  <2> HIDE DEF f
  <2> QED
    BY <1>2, <1>3, FS_Injection
<1>5. Cardinality(1 .. Len(u)) = Len(u)
  <2>1. PICK n \in Nat : n = Len(u)
    BY <1>1
  <2>2. Cardinality(1 .. n) = n
    BY FS_Interval
  <2> QED
    BY <2>1, <2>2
<1> QED
  BY <1>1, <1>3, <1>4, <1>5

Visits(h, met, n) == IF n <= Len(met) THEN Join(met, h[met[n]].items) ELSE met

VisitRun(h, roots, f) ==
  f[0] = Join(<<>>, roots) /\ \A n \in 1 .. Len(h) : f[n] = Visits(h, f[n - 1], n)

Mets(h) == {u \in Seq(1 .. Len(h)) : Distinct(u)}

LEMMA VisitJoins ==
  ASSUME NEW h \in Heaps, NEW met \in Mets(h), NEW n \in 1 .. Len(met)
  PROVE  /\ h[met[n]].items \in Seq(1 .. Len(h)) /\ met[n] \in 1 .. Len(h)
         /\ Joined(1 .. Len(h), met, h[met[n]].items, Len(h[met[n]].items), Join(met, h[met[n]].items))
<1>1. met \in Seq(1 .. Len(h)) /\ Distinct(met)
  BY DEF Mets
<1>2. met[n] \in 1 .. Len(h)
  BY <1>1, ElementOfSeq
<1>3. h[met[n]].items \in Seq(1 .. Len(h))
  BY <1>2, HeapItems
<1>4. PICK S, items : S = 1 .. Len(h) /\ items = h[met[n]].items
  OBVIOUS
<1>5. Joined(S, met, items, Len(items), Join(met, items))
  <2>1. met \in Seq(S) /\ items \in Seq(S)
    BY <1>1, <1>3, <1>4
  <2> QED
    BY <1>1, <2>1, JoinRight
<1> QED
  BY <1>2, <1>3, <1>4, <1>5

LEMMA VisitsInside ==
  ASSUME NEW h \in Heaps, NEW met \in Mets(h), NEW n \in 1 .. Len(h)
  PROVE  Visits(h, met, n) \in Mets(h)
<1>1. CASE n <= Len(met)
  <2>1. n \in 1 .. Len(met)
    <3>1. Len(met) \in Nat
      BY LenProperties DEF Mets
    <3> QED
      BY <1>1, <3>1
  <2>2. Join(met, h[met[n]].items) \in Mets(h)
    BY <2>1, VisitJoins DEF Joined, Mets
  <2> QED
    BY <1>1, <2>2 DEF Visits
<1>2. CASE ~(n <= Len(met))
  BY <1>2 DEF Visits
<1> QED
  BY <1>1, <1>2

LEMMA RootsJoin ==
  ASSUME NEW h \in Heaps, NEW roots \in Seq(1 .. Len(h))
  PROVE  Join(<<>>, roots) \in Mets(h) /\ Joined(1 .. Len(h), <<>>, roots, Len(roots), Join(<<>>, roots))
<1>1. PICK S : S = 1 .. Len(h)
  OBVIOUS
<1>2. PICK empty \in Seq(S) : empty = <<>> /\ Len(empty) = 0
  BY Zenon, EmptySeq
<1>3. Distinct(empty)
  BY <1>2 DEF Distinct
<1>4. Joined(S, empty, roots, Len(roots), Join(empty, roots))
  BY <1>1, <1>3, JoinRight
<1> QED
  BY <1>1, <1>2, <1>4 DEF Joined, Mets

LEMMA VisitSteps ==
  ASSUME NEW h \in Heaps, NEW roots \in Seq(1 .. Len(h))
  PROVE  \E f \in [0 .. Len(h) -> Mets(h)] : VisitRun(h, roots, f) /\ Met(h, roots) = f[Len(h)]
<1> DEFINE N == Len(h)
           V == Mets(h)
           base == Join(<<>>, roots)
           step == [q \in V \X (1 .. N) |-> Visits(h, q[1], q[2])]
           Fix(f) == f = [n \in 0 .. N |->
                            IF n = 0 THEN Join(<<>>, roots)
                            ELSE LET met == f[n - 1]
                                 IN IF n <= Len(met) THEN Join(met, h[met[n]].items) ELSE met]
           Law(f) == f = [n \in 0 .. N |-> IF n = 0 THEN base ELSE Visits(h, f[n - 1], n)]
<1>1. N \in Nat
  BY HeapTypes
<1>2. step \in [V \X (1 .. N) -> V] /\ base \in V
  BY VisitsInside, RootsJoin
<1>3. PICK f \in [0 .. N -> V] : CountsTo(f, N, base, step)
  <2> HIDE DEF step, base
  <2> QED
    BY Zenon, <1>1, <1>2, Counting
<1>4. \A n \in 1 .. N : f[n] = Visits(h, f[n - 1], n)
  <2> TAKE n \in 1 .. N
  <2>1. f[n - 1] \in V /\ f[n] = step[<<f[n - 1], n>>]
    <3>1. n - 1 \in 0 .. N
      BY <1>1
    <3> HIDE DEF V, step
    <3> QED
      BY Zenon, <1>3, <3>1 DEF CountsTo
  <2> QED
    BY <2>1
<1>5. \A g : Fix(g) <=> Law(g)
  BY DEF Visits
<1>6. Law(f)
  <2>1. f = [n \in 0 .. N |-> f[n]]
    OBVIOUS
  <2>2. f[0] = base
    BY <1>3 DEF CountsTo
  <2>3. \A n \in 0 .. N : n # 0 => f[n] = Visits(h, f[n - 1], n)
    BY <1>1, <1>4
  <2> QED
    BY <2>1, <2>2, <2>3
<1>7. PICK g : g = CHOOSE k : Fix(k)
  OBVIOUS
<1>8. Met(h, roots) = g[N]
  BY <1>7 DEF Met
<1> HIDE DEF Fix, Law
<1>9. Law(g)
  BY <1>5, <1>6, <1>7
<1>10. g[0] = base /\ \A n \in 1 .. N : g[n] = Visits(h, g[n - 1], n)
  <2>1. 0 \in 0 .. N /\ \A n \in 1 .. N : n \in 0 .. N /\ n # 0
    BY <1>1
  <2> QED
    BY Zenon, <1>9, <2>1 DEF Law
<1>11. \A n \in 0 .. N : g[n] \in V
  <2>1. \A n \in 1 .. N : g[n - 1] \in V => g[n] \in V
    BY <1>1, <1>10, VisitsInside
  <2>2. g[0] \in V
    BY <1>2, <1>10
  <2> HIDE DEF V
  <2> QED
    BY Zenon, <1>1, <2>1, <2>2, Stepwise
<1>12. g \in [0 .. N -> V]
  <2>1. g = [n \in 0 .. N |-> g[n]]
    BY <1>9 DEF Law
  <2> QED
    BY <1>11, <2>1
<1> QED
  BY Zenon, <1>8, <1>10, <1>12 DEF VisitRun

(* A set that has the roots and the items of what it has.                   *)
Closed(h, C) ==
  \A o \in 1 .. Len(h) : o \in C => \A j \in 1 .. Len(h[o].items) : h[o].items[j] \in C
Rooted(roots, C) == \A j \in 1 .. Len(roots) : roots[j] \in C

Visited(h, roots, n, u) ==
  /\ u \in Mets(h) /\ Extends(Join(<<>>, roots), u) /\ Rooted(roots, Range(u))
  /\ \A k \in 1 .. Len(u) : k <= n =>
       \A j \in 1 .. Len(h[u[k]].items) : h[u[k]].items[j] \in Range(u)
  /\ \A C : Rooted(roots, C) /\ Closed(h, C) => \A x \in Range(u) : x \in C

LEMMA ExtendsMore ==
  ASSUME NEW S, NEW a \in Seq(S), NEW b \in Seq(S), NEW c \in Seq(S), Extends(a, b), Extends(b, c)
  PROVE  Extends(a, c) /\ \A x \in Range(b) : x \in Range(c)
<1>1. Len(a) \in Nat /\ Len(b) \in Nat /\ Len(c) \in Nat
  BY LenProperties
<1>2. Extends(a, c)
  BY <1>1 DEF Extends
<1>3. ASSUME NEW x \in Range(b) PROVE x \in Range(c)
  <2>1. PICK j \in 1 .. Len(b) : x = b[j]
    BY RangeIs
  <2>2. j \in 1 .. Len(c) /\ x = c[j]
    BY <1>1, <2>1 DEF Extends
  <2> QED
    BY <2>2, RangeIs
<1> QED
  BY <1>2, <1>3

LEMMA VisitsRight ==
  ASSUME NEW h \in Heaps, NEW roots \in Seq(1 .. Len(h)), NEW n \in 1 .. Len(h),
         NEW u, Visited(h, roots, n - 1, u)
  PROVE  Visited(h, roots, n, Visits(h, u, n))
<1>1. /\ u \in Mets(h) /\ Len(h) \in Nat /\ Len(u) \in Nat /\ u \in Seq(1 .. Len(h))
      /\ Join(<<>>, roots) \in Seq(1 .. Len(h))
  BY HeapTypes, LenProperties, RootsJoin DEF Visited, Mets
<1>2. CASE n <= Len(u)
  <2>1. n \in 1 .. Len(u)
    BY <1>1, <1>2
  <2>2. PICK o, items, w : o = u[n] /\ items = h[o].items /\ w = Join(u, items)
    OBVIOUS
  <2>3. items \in Seq(1 .. Len(h)) /\ o \in 1 .. Len(h) /\ Joined(1 .. Len(h), u, items, Len(items), w)
    BY <1>1, <2>1, <2>2, VisitJoins
  <2>4. w = Visits(h, u, n)
    BY <1>2, <2>2 DEF Visits
  <2>5. /\ w \in Seq(1 .. Len(h)) /\ Distinct(w) /\ Extends(u, w) /\ Len(w) \in Nat
        /\ \A j \in 1 .. Len(items) : items[j] \in Range(w)
        /\ \A x \in Range(w) : x \in Range(u) \/ \E j \in 1 .. Len(items) : x = items[j]
    <3>1. w \in Seq(1 .. Len(h))
      BY <2>3 DEF Joined
    <3> QED
      BY <2>3, <3>1, LenProperties DEF Joined
  <2>6. Extends(Join(<<>>, roots), w) /\ \A x \in Range(u) : x \in Range(w)
    <3>1. Extends(Join(<<>>, roots), u)
      BY DEF Visited
    <3> QED
      BY <1>1, <2>5, <3>1, ExtendsMore
  <2>7. Rooted(roots, Range(w))
    BY <2>6 DEF Visited, Rooted
  <2>8. ASSUME NEW k \in 1 .. Len(w), k <= n, NEW j \in 1 .. Len(h[w[k]].items)
        PROVE  h[w[k]].items[j] \in Range(w)
    <3>1. k \in 1 .. Len(u) /\ w[k] = u[k]
      <4>1. PICK m \in Nat : m = Len(u) /\ n <= m
        BY <1>1, <1>2
      <4>2. \A i \in 1 .. m : w[i] = u[i]
        BY <2>5, <4>1 DEF Extends
      <4>3. k \in 1 .. m
        BY <2>5, <2>8, <4>1
      <4> QED
        BY <4>1, <4>2, <4>3
    <3>2. CASE k = n
      BY Zenon, <2>2, <2>5, <2>8, <3>1, <3>2
    <3>3. CASE k # n
      <4>1. k <= n - 1
        BY <1>1, <2>8, <3>3
      <4>2. h[u[k]].items[j] \in Range(u)
        BY <2>8, <3>1, <4>1 DEF Visited
      <4> QED
        BY Zenon, <2>6, <3>1, <4>2
    <3> QED
      BY <3>2, <3>3
  <2>9. ASSUME NEW C, Rooted(roots, C), Closed(h, C), NEW x \in Range(w)
        PROVE  x \in C
    <3>1. \A y \in Range(u) : y \in C
      BY <2>9 DEF Visited
    <3>2. o \in Range(u)
      BY Zenon, <1>1, <2>1, <2>2, RangeIs
    <3>3. \A j \in 1 .. Len(items) : items[j] \in C
      BY Zenon, <2>2, <2>3, <2>9, <3>1, <3>2 DEF Closed
    <3> QED
      BY <2>5, <3>1, <3>3
  <2>10. w \in Mets(h)
    BY <2>5 DEF Mets
  <2> QED
    BY <2>4, <2>6, <2>7, <2>8, <2>9, <2>10 DEF Visited
<1>3. CASE ~(n <= Len(u))
  <2>1. Visits(h, u, n) = u
    BY <1>3 DEF Visits
  <2>2. \A k \in 1 .. Len(u) : k <= n - 1
    BY <1>1, <1>3
  <2> QED
    BY <2>1, <2>2 DEF Visited
<1> QED
  BY <1>2, <1>3

(* All that can be reached is met, each object once, and nothing else.      *)
Meets(h, roots, u) ==
  /\ u \in Seq(1 .. Len(h)) /\ Distinct(u) /\ Len(u) \in Nat /\ Len(u) <= Len(h)
  /\ Extends(Join(<<>>, roots), u) /\ Rooted(roots, Range(u)) /\ Closed(h, Range(u))
  /\ \A C : Rooted(roots, C) /\ Closed(h, C) => \A x \in Range(u) : x \in C

LEMMA MetRight ==
  ASSUME NEW h \in Heaps, NEW roots \in Seq(1 .. Len(h))
  PROVE  Meets(h, roots, Met(h, roots))
<1>1. PICK N \in Nat : N = Len(h)
  BY HeapTypes
<1>2. PICK f \in [0 .. N -> Mets(h)] : VisitRun(h, roots, f) /\ Met(h, roots) = f[N]
  BY <1>1, VisitSteps
<1> DEFINE T == {k \in Nat : Visited(h, roots, k, f[k])}
<1>3. 0 \in T
  <2>1. PICK u : u = Join(<<>>, roots)
    OBVIOUS
  <2>2. f[0] = u
    BY <1>2, <2>1 DEF VisitRun
  <2>3. u \in Mets(h) /\ Joined(1 .. Len(h), <<>>, roots, Len(roots), u)
    BY <2>1, RootsJoin
  <2>4. Range(<<>>) = {}
    BY DEF Range
  <2>5. \A x \in Range(u) : \E j \in 1 .. Len(roots) : x = roots[j]
    BY <2>3, <2>4 DEF Joined
  <2>6. Rooted(roots, Range(u))
    BY <2>3 DEF Joined, Rooted
  <2>7. Extends(u, u)
    <3>1. Len(u) \in Nat
      BY <2>3, LenProperties DEF Mets
    <3> QED
      BY <3>1 DEF Extends
  <2>8. \A k \in 1 .. Len(u) : ~(k <= 0)
    OBVIOUS
  <2>9. Visited(h, roots, 0, u)
    BY <2>1, <2>3, <2>5, <2>6, <2>7, <2>8 DEF Visited, Rooted
  <2> QED
    BY <2>2, <2>9
<1>4. \A k \in 1 .. N : k - 1 \in T => k \in T
  <2> TAKE k \in 1 .. N
  <2> HAVE k - 1 \in T
  <2>1. f[k] = Visits(h, f[k - 1], k)
    BY <1>1, <1>2 DEF VisitRun
  <2>2. Visited(h, roots, k, f[k])
    BY <1>1, <2>1, VisitsRight
  <2> QED
    BY <2>2
<1>5. \A k \in 0 .. N : k \in T
  <2> HIDE DEF T
  <2> QED
    BY Zenon, <1>3, <1>4, UpTo
<1>6. PICK u : u = f[N] /\ Visited(h, roots, N, u)
  <2>1. N \in T
    BY <1>5
  <2> QED
    BY <2>1
<1>7. u \in Seq(1 .. N) /\ Distinct(u)
  BY <1>1, <1>6 DEF Visited, Mets
<1>8. Len(u) \in Nat /\ Len(u) <= N
  BY <1>7, DistinctShort
<1>9. Closed(h, Range(u))
  <2> SUFFICES ASSUME NEW o \in 1 .. Len(h), o \in Range(u), NEW j \in 1 .. Len(h[o].items)
               PROVE  h[o].items[j] \in Range(u)
    BY DEF Closed
  <2>1. PICK k \in 1 .. Len(u) : o = u[k]
    BY <1>7, RangeIs
  <2>2. k <= N
    BY <1>8
  <2> QED
    BY Zenon, <1>6, <2>1, <2>2 DEF Visited
<1> QED
  BY <1>1, <1>2, <1>6, <1>7, <1>8, <1>9 DEF Visited, Meets

-----------------------------------------------------------------------------
(* Tables of frames.                                                        *)
Byte == Names \union {"HTMPOBJ", "HANONYMOUSIDENTIFIER"} \union Nat

LabelRight(l, v) ==
  \/ \E name \in Names : l = Identifier(name)
  \/ l = Temporary(v)
  \/ \E k \in Nat : l = <<"HANONYMOUSIDENTIFIER", k>>

TableRight(n, t) ==
  /\ Coherent(Byte, Nat, t)
  /\ \A p \in 1 .. Len(t.map) : /\ t.map[p].value \in 1 .. n
                                /\ LabelRight(t.map[p].label, t.map[p].value)

LEMMA SameTrees ==
  /\ NULL = Tree!NULL
  /\ \A t, l : find(t, l) = Tree!find(t, l)
  /\ \A t, l, v : insert(t, l, v) = Tree!insert(t, l, v)
  /\ \A t, l, v : replace(t, l, v) = Tree!replace(t, l, v)
  /\ \A t, l : remove(t, l) = Tree!remove(t, l)
  /\ EmptyTable = Tree!EmptyTable
  /\ \A t : Shadowed(t) = Tree!Shadowed(t)
<1>1. NULL = Tree!NULL
  BY DEF NULL, Tree!NULL
<1>2. \A t, l : at_find(t, l) = Tree!at_find(t, l)
  BY <1>1 DEF at_find, Tree!at_find
<1>3. \A t, l : find(t, l) = Tree!find(t, l)
  BY <1>1, <1>2 DEF find, Tree!find
<1>4. \A t, l, v : insert(t, l, v) = Tree!insert(t, l, v)
  <2>1. \A l : Prefixes(l) = Tree!Prefixes(l)
    BY DEF Prefixes, Tree!Prefixes
  <2> QED
    BY Zenon, <1>1, <2>1 DEF insert, Tree!insert, at_insert, Tree!at_insert
<1>5. \A t, l, v : replace(t, l, v) = Tree!replace(t, l, v)
  BY <1>1, <1>2 DEF replace, Tree!replace
<1>6. \A t, l : remove(t, l) = Tree!remove(t, l)
  <2>1. \A t, l : at_remove(t, l) = Tree!at_remove(t, l)
    BY <1>1, <1>2 DEF at_remove, Tree!at_remove
  <2>2. \A t, p : Erased(t, p) = Tree!Erased(t, p)
    BY DEF Erased, Tree!Erased
  <2>3. \A s, p : RemoveAt(s, p) = Tree!RemoveAt(s, p)
    BY DEF RemoveAt, Tree!RemoveAt
  <2> QED
    BY <1>1, <1>2, <2>1, <2>2, <2>3 DEF remove, Tree!remove
<1>7. EmptyTable = Tree!EmptyTable
  BY <1>1 DEF EmptyTable, Tree!EmptyTable, EmptyTree, Tree!EmptyTree
<1>8. \A t : Shadowed(t) = Tree!Shadowed(t)
  BY <1>2 DEF Shadowed, Tree!Shadowed
<1> QED
  BY <1>1, <1>3, <1>4, <1>5, <1>6, <1>7, <1>8

(* The forms of labels.                                                     *)
LEMMA LabelForms ==
  /\ \A name \in Names : /\ Identifier(name) \in TreeLabel(Byte) /\ ~IsTemporary(Identifier(name))
                         /\ Len(Identifier(name)) = 1 /\ Identifier(name)[1] = name
  /\ \A o \in Nat : Temporary(o) \in TreeLabel(Byte) /\ IsTemporary(Temporary(o)) /\ Temporary(o)[2] = o
  /\ \A k \in Nat : /\ <<"HANONYMOUSIDENTIFIER", k>> \in TreeLabel(Byte)
                    /\ ~IsTemporary(<<"HANONYMOUSIDENTIFIER", k>>)
<1>1. Names \subseteq Byte /\ Nat \subseteq Byte /\ "HTMPOBJ" \in Byte /\ "HANONYMOUSIDENTIFIER" \in Byte
  BY DEF Byte
<1>2. ASSUME NEW name \in Names
      PROVE  /\ Identifier(name) \in TreeLabel(Byte) /\ ~IsTemporary(Identifier(name))
             /\ Len(Identifier(name)) = 1 /\ Identifier(name)[1] = name
  <2>1. <<name>> \in Seq(Byte) /\ <<name>> # <<>> /\ Len(<<name>>) = 1 /\ <<name>>[1] = name
    BY <1>1
  <2> QED
    BY <2>1 DEF Identifier, IsTemporary, TreeLabel
<1>3. ASSUME NEW o \in Nat
      PROVE  Temporary(o) \in TreeLabel(Byte) /\ IsTemporary(Temporary(o)) /\ Temporary(o)[2] = o
  <2>1. <<"HTMPOBJ", o>> \in Seq(Byte) /\ <<"HTMPOBJ", o>> # <<>> /\ Len(<<"HTMPOBJ", o>>) = 2
    BY <1>1
  <2> QED
    BY <2>1 DEF Temporary, IsTemporary, TreeLabel
<1>4. ASSUME NEW o \in Nat
      PROVE  /\ <<"HANONYMOUSIDENTIFIER", o>> \in TreeLabel(Byte)
             /\ ~IsTemporary(<<"HANONYMOUSIDENTIFIER", o>>)
  <2>1. <<"HANONYMOUSIDENTIFIER", o>> \in Seq(Byte) /\ <<"HANONYMOUSIDENTIFIER", o>> # <<>>
    BY <1>1
  <2>2. "HANONYMOUSIDENTIFIER" # "HTMPOBJ"
    OBVIOUS
  <2> QED
    BY <2>1, <2>2 DEF IsTemporary, TreeLabel
<1> QED
  BY <1>2, <1>3, <1>4

LEMMA TableMore ==
  ASSUME NEW m \in Nat, NEW n \in Nat, m <= n, NEW t, TableRight(m, t)
  PROVE  TableRight(n, t)
<1>1. \A i \in 1 .. m : i \in 1 .. n
  OBVIOUS
<1> QED
  BY <1>1 DEF TableRight

LEMMA TableFind ==
  ASSUME NEW n \in Nat, NEW t, TableRight(n, t), NEW l \in TreeLabel(Byte)
  PROVE  /\ l \in TreeLabels(t) => find(t, l) \in 1 .. n
         /\ l \notin TreeLabels(t) => find(t, l) = NULL
         /\ find(t, l) # NULL <=> l \in TreeLabels(t)
<1>1. Coherent(Byte, Nat, t)
  BY DEF TableRight
<1>2. find(t, l) = IF l \in TreeLabels(t) THEN Contents(t)[l] ELSE NULL
  BY <1>1, FindRight, SameTrees
<1>3. ASSUME l \in TreeLabels(t) PROVE Contents(t)[l] \in 1 .. n
  <2>1. PICK p \in 1 .. Len(t.map) : t.map[p].label = l
    BY <1>3 DEF TreeLabels
  <2>2. Contents(t)[l] = t.map[p].value
    BY <1>1, <2>1, ContentsAt
  <2> QED
    BY <2>2 DEF TableRight
<1>4. \A i \in 1 .. n : i # NULL
  BY DEF NULL
<1> QED
  BY <1>2, <1>3, <1>4

LEMMA TableInsert ==
  ASSUME NEW n \in Nat, NEW t, TableRight(n, t), NEW l \in TreeLabel(Byte) \ TreeLabels(t),
         NEW v \in 1 .. n, LabelRight(l, v)
  PROVE  TableRight(n, insert(t, l, v)) /\ TreeLabels(insert(t, l, v)) = TreeLabels(t) \union {l}
<1>1. Coherent(Byte, Nat, t) /\ v \in Nat /\ t \in TreeTable(Byte, Nat) /\ Len(t.map) \in Nat
  BY TableTypes DEF TableRight, Coherent
<1>2. PICK u : u = insert(t, l, v)
  OBVIOUS
<1>3. u = Tree!insert(t, l, v)
  BY <1>2, SameTrees
<1>4. Coherent(Byte, Nat, u)
  BY Zenon, <1>1, <1>3, InsertRight
<1>5. /\ Len(u.map) = Len(t.map) + 1
      /\ \A p \in 1 .. Len(t.map) : u.map[p] = t.map[p]
      /\ u.map[Len(t.map) + 1] = [label |-> l, value |-> v]
  BY <1>1, <1>3, InsertShape
<1>6. \A p : p \in 1 .. Len(u.map) <=> p = Len(t.map) + 1 \/ p \in 1 .. Len(t.map)
  BY <1>1, <1>5
<1>7. u.map[Len(t.map) + 1].label = l /\ u.map[Len(t.map) + 1].value = v
  BY <1>5
<1>8. \A p \in 1 .. Len(u.map) : u.map[p].value \in 1 .. n /\ LabelRight(u.map[p].label, u.map[p].value)
  <2> TAKE p \in 1 .. Len(u.map)
  <2>1. CASE p = Len(t.map) + 1
    BY <1>7, <2>1
  <2>2. CASE p \in 1 .. Len(t.map)
    BY Zenon, <1>5, <2>2 DEF TableRight
  <2> QED
    BY <1>6, <2>1, <2>2
<1>9. TreeLabels(u) = TreeLabels(t) \union {l}
  <2>1. ASSUME NEW x \in TreeLabels(u) PROVE x \in TreeLabels(t) \union {l}
    <3>1. PICK p \in 1 .. Len(u.map) : x = u.map[p].label
      BY DEF TreeLabels
    <3>2. CASE p = Len(t.map) + 1
      BY <1>7, <3>1, <3>2
    <3>3. CASE p \in 1 .. Len(t.map)
      BY Zenon, <1>5, <3>1, <3>3 DEF TreeLabels
    <3> QED
      BY <1>6, <3>2, <3>3
  <2>2. ASSUME NEW x \in TreeLabels(t) PROVE x \in TreeLabels(u)
    <3>1. PICK p \in 1 .. Len(t.map) : x = t.map[p].label
      BY DEF TreeLabels
    <3>2. p \in 1 .. Len(u.map) /\ x = u.map[p].label
      BY Zenon, <1>5, <1>6, <3>1
    <3> QED
      BY Zenon, <3>2 DEF TreeLabels
  <2>3. l \in TreeLabels(u)
    <3>1. Len(t.map) + 1 \in 1 .. Len(u.map)
      BY <1>6
    <3> QED
      BY <1>7, <3>1 DEF TreeLabels
  <2> QED
    BY <2>1, <2>2, <2>3
<1> QED
  BY <1>2, <1>4, <1>8, <1>9 DEF TableRight

LEMMA TableReplace ==
  ASSUME NEW n \in Nat, NEW t, TableRight(n, t), NEW name \in Names, Identifier(name) \in TreeLabels(t),
         NEW v \in 1 .. n
  PROVE  /\ TableRight(n, replace(t, Identifier(name), v))
         /\ TreeLabels(replace(t, Identifier(name), v)) = TreeLabels(t)
<1>0. PICK l : l = Identifier(name) /\ l \in TreeLabels(t)
  OBVIOUS
<1>1. Coherent(Byte, Nat, t) /\ v \in Nat
  BY DEF TableRight
<1>2. PICK u : u = replace(t, l, v)
  OBVIOUS
<1>3. u = Tree!replace(t, l, v)
  BY <1>2, SameTrees
<1>4. Coherent(Byte, Nat, u)
  BY <1>0, <1>1, <1>3, ReplaceRight
<1>5. /\ Len(u.map) = Len(t.map)
      /\ \A p \in 1 .. Len(t.map) : /\ u.map[p].label = t.map[p].label
                                    /\ u.map[p].value = IF t.map[p].label = l THEN v ELSE t.map[p].value
  BY <1>0, <1>1, <1>3, ReplaceShape
<1>6. \A p \in 1 .. Len(u.map) : u.map[p].value \in 1 .. n /\ LabelRight(u.map[p].label, u.map[p].value)
  <2> TAKE p \in 1 .. Len(u.map)
  <2>1. CASE t.map[p].label = l
    <3>1. u.map[p].label = l /\ u.map[p].value = v
      BY <1>5, <2>1
    <3>2. LabelRight(l, v)
      BY <1>0 DEF LabelRight
    <3> QED
      BY <3>1, <3>2
  <2>2. CASE t.map[p].label # l
    BY <1>5, <2>2 DEF TableRight
  <2> QED
    BY <2>1, <2>2
<1>7. TreeLabels(u) = TreeLabels(t)
  BY Zenon, <1>5 DEF TreeLabels
<1> QED
  BY <1>0, <1>2, <1>4, <1>6, <1>7 DEF TableRight

LEMMA TableRemove ==
  ASSUME NEW n \in Nat, NEW t, TableRight(n, t), NEW l \in TreeLabels(t)
  PROVE  TableRight(n, remove(t, l)) /\ TreeLabels(remove(t, l)) = TreeLabels(t) \ {l}
<1>1. Coherent(Byte, Nat, t) /\ t \in TreeTable(Byte, Nat) /\ Len(t.map) \in Nat
  BY TableTypes DEF TableRight, Coherent
<1>2. PICK u : u = remove(t, l)
  OBVIOUS
<1>3. u = Tree!remove(t, l)
  BY <1>2, SameTrees
<1>4. Coherent(Byte, Nat, u) /\ DOMAIN Contents(u) = TreeLabels(t) \ {l}
  <2>1. Coherent(Byte, Nat, u)
    BY Zenon, <1>1, <1>3, RemoveRight
  <2>2. DOMAIN Contents(u) = TreeLabels(t) \ {l}
    <3>0. Coherent(Byte, Nat, t)
      BY <1>1
    <3>1. Contents(u) = [k \in TreeLabels(t) \ {l} |-> Contents(t)[k]]
      BY <3>0, <1>3, RemoveRight
    <3> QED
      BY <3>1
  <2> QED
    BY <2>1, <2>2
<1>5. PICK q \in 1 .. Len(t.map) :
        /\ Len(u.map) = Len(t.map) - 1
        /\ \A p \in 1 .. Len(t.map) - 1 : u.map[p] = IF p < q THEN t.map[p] ELSE t.map[p + 1]
  <2>1. t.tree[l] \in 1 .. Len(t.map)
    BY <1>1, <1>3, RemoveShape
  <2>2. Len(u.map) = Len(t.map) - 1
    BY <1>1, <1>3, RemoveShape
  <2>3. \A p \in 1 .. Len(t.map) - 1 : u.map[p] = IF p < t.tree[l] THEN t.map[p] ELSE t.map[p + 1]
    BY <1>1, <1>3, RemoveShape
  <2> QED
    BY Zenon, <2>1, <2>2, <2>3
<1>6. \A p \in 1 .. Len(u.map) : u.map[p].value \in 1 .. n /\ LabelRight(u.map[p].label, u.map[p].value)
  <2> TAKE p \in 1 .. Len(u.map)
  <2>1. PICK r \in 1 .. Len(t.map) : u.map[p] = t.map[r]
    <3>1. p \in 1 .. Len(t.map) /\ p + 1 \in 1 .. Len(t.map) /\ p \in 1 .. Len(t.map) - 1
      BY <1>1, <1>5
    <3> QED
      BY <1>5, <3>1
  <2> QED
    BY <2>1 DEF TableRight
<1>7. TreeLabels(u) = TreeLabels(t) \ {l}
  <2>1. DOMAIN Contents(u) = TreeLabels(u)
    BY <1>4, ContentsAt
  <2> QED
    BY <1>4, <2>1
<1> QED
  BY <1>2, <1>4, <1>6, <1>7 DEF TableRight

-----------------------------------------------------------------------------
(* The states a statement may leave.                                        *)
Loop == [names : Seq(Names), over : Nat, index : Nat, size : Nat]
Frame == [table : TreeTable(Byte, Nat), loops : Seq(Loop)]

(* A loop walks an object of the heap that is no structure; the temporaries *)
(* of a frame are the objects its loops walk, and no two walk the same.     *)
LoopsRight(h, f) ==
  /\ \A i \in 1 .. Len(f.loops) :
       f.loops[i].over \in 1 .. Len(h) /\ h[f.loops[i].over].kind # "structure"
  /\ \A i, j \in 1 .. Len(f.loops) : f.loops[i].over = f.loops[j].over => i = j
  /\ \A o \in Nat : Temporary(o) \in TreeLabels(f.table)
                      <=> \E i \in 1 .. Len(f.loops) : f.loops[i].over = o

FrameRight(h, f) == f \in Frame /\ TableRight(Len(h), f.table) /\ LoopsRight(h, f)

(* A reference leads to an object of a lower rank, so that none leads back  *)
(* to itself; what a collection holds may.                                  *)
RefsFall(h) ==
  \E M \in Nat : \E rank \in [1 .. Len(h) -> 0 .. M] :
    \A o \in 1 .. Len(h) : h[o].kind = "reference" =>
       \A j \in 1 .. Len(h[o].items) : rank[h[o].items[j]] < rank[o]

Sound(h, fs) ==
  /\ h \in Heaps /\ 5 <= Len(h) /\ h[Prototype].kind = "structure" /\ RefsFall(h)
  /\ fs \in Seq(Frame) /\ 1 <= Len(fs)
  /\ \A i \in 1 .. Len(fs) : FrameRight(h, fs[i])

(* What every statement does to the heap before it is renumbered.           *)
RefsKept(h, g) ==
  /\ \A o \in 1 .. Len(h) : h[o].kind = "reference" => g[o].items = h[o].items
  /\ \A o \in Len(h) + 1 .. Len(g) : g[o].kind = "reference" =>
       \A j \in 1 .. Len(g[o].items) : g[o].items[j] < o

Grew(h, g) ==
  /\ h \in Heaps /\ g \in Heaps /\ Len(h) <= Len(g)
  /\ \A o \in 1 .. Len(h) : g[o].kind = h[o].kind
  /\ RefsKept(h, g)

LEMMA RefsSame ==
  ASSUME NEW h, NEW g, Len(h) \in Nat, Len(g) = Len(h),
         \A o \in 1 .. Len(h) : h[o].kind = "reference" => g[o].items = h[o].items
  PROVE  RefsKept(h, g)
BY DEF RefsKept

LEMMA RefsCopied ==
  ASSUME NEW h, NEW g, NEW R, Copies(h, g, R)
  PROVE  RefsKept(h, g)
<1>1. \A o \in 1 .. Len(h) : g[o] = h[o]
  BY DEF Copies
<1>2. \A o \in Len(h) + 1 .. Len(g) : \A j \in 1 .. Len(g[o].items) : g[o].items[j] < o
  BY DEF Copies, New
<1> QED
  BY <1>1, <1>2 DEF RefsKept

LEMMA RefsAdded ==
  ASSUME NEW h, NEW g, Len(h) \in Nat, Len(g) = Len(h) + 1, \A o \in 1 .. Len(h) : g[o] = h[o],
         \A j \in 1 .. Len(g[Len(g)].items) : g[Len(g)].items[j] \in 1 .. Len(h)
  PROVE  RefsKept(h, g)
<1>1. \A o \in Len(h) + 1 .. Len(g) : o = Len(g)
  OBVIOUS
<1>2. \A x \in 1 .. Len(h) : x < Len(g)
  OBVIOUS
<1> QED
  BY <1>1, <1>2 DEF RefsKept

LEMMA RefsFallOn ==
  ASSUME NEW h, NEW g, Grew(h, g), RefsFall(h)
  PROVE  RefsFall(g)
<1>1. PICK N, L : N = Len(h) /\ L = Len(g)
  OBVIOUS
<1>2. /\ h \in Heaps /\ g \in Heaps /\ N \in Nat /\ L \in Nat /\ N <= L /\ RefsKept(h, g)
      /\ \A o \in 1 .. N : g[o].kind = h[o].kind
  BY <1>1, HeapTypes DEF Grew
<1>0. PICK M \in Nat : \E rank \in [1 .. N -> 0 .. M] :
        \A o \in 1 .. N : h[o].kind = "reference" =>
           \A j \in 1 .. Len(h[o].items) : rank[h[o].items[j]] < rank[o]
  BY <1>1 DEF RefsFall
<1>3. PICK rank \in [1 .. N -> 0 .. M] :
        \A o \in 1 .. N : h[o].kind = "reference" =>
           \A j \in 1 .. Len(h[o].items) : rank[h[o].items[j]] < rank[o]
  BY <1>0
<1>4. PICK more : more = [o \in 1 .. L |-> IF o \in 1 .. N THEN rank[o] ELSE M + o]
  OBVIOUS
<1>5. more \in [1 .. L -> 0 .. M + L]
  BY <1>2, <1>3, <1>4
<1>6. ASSUME NEW o \in 1 .. L, g[o].kind = "reference", NEW j \in 1 .. Len(g[o].items)
      PROVE  more[g[o].items[j]] < more[o]
  <2>1. PICK x : x = g[o].items[j]
    OBVIOUS
  <2>2. x \in 1 .. L
    BY <1>1, <1>2, <2>1, HeapTypes DEF Fits, Allowed
  <2>3. CASE o \in 1 .. N
    <3>1. h[o].kind = "reference" /\ g[o].items = h[o].items
      BY <1>1, <1>2, <1>6, <2>3 DEF RefsKept
    <3>2. rank[x] < rank[o]
      BY <1>3, <2>1, <2>3, <3>1
    <3>3. x \in 1 .. N
      BY <1>1, <1>2, <2>1, <2>3, <3>1, HeapTypes DEF Fits, Allowed
    <3>4. more[x] = rank[x] /\ more[o] = rank[o]
      BY <1>2, <1>4, <2>2, <2>3, <3>3
    <3> QED
      BY <2>1, <3>2, <3>4
  <2>4. CASE o \notin 1 .. N
    <3>1. o \in N + 1 .. L
      BY <1>2, <2>4
    <3>2. x < o
      BY <1>1, <1>2, <1>6, <2>1, <3>1 DEF RefsKept
    <3>3. more[o] = M + o
      BY <1>4, <2>4
    <3>4. CASE x \in 1 .. N
      <4>1. more[x] = rank[x] /\ rank[x] \in 0 .. M
        BY <1>3, <1>4, <2>2, <3>4
      <4> QED
        BY <1>3, <2>1, <3>1, <3>3, <4>1
    <3>5. CASE x \notin 1 .. N
      <4>1. more[x] = M + x
        BY <1>4, <2>2, <3>5
      <4> QED
        BY <1>3, <2>1, <2>2, <3>2, <3>3, <4>1
    <3> QED
      BY <3>4, <3>5
  <2> QED
    BY <2>3, <2>4
<1>7. M + L \in Nat
  BY <1>2, <1>3
<1> QED
  BY <1>1, <1>5, <1>6, <1>7 DEF RefsFall

LEMMA GrewTrans ==
  ASSUME NEW h, NEW g, NEW f, Grew(h, g), Grew(g, f)
  PROVE  Grew(h, f)
<1>1. Len(h) \in Nat /\ Len(g) \in Nat /\ Len(f) \in Nat
  BY HeapTypes DEF Grew
<1>2. \A o \in 1 .. Len(h) : o \in 1 .. Len(g)
  BY <1>1 DEF Grew
<1>3. RefsKept(h, f)
  <2>1. \A o \in 1 .. Len(h) : h[o].kind = "reference" => f[o].items = h[o].items
    BY <1>2 DEF Grew, RefsKept
  <2>2. ASSUME NEW o \in Len(h) + 1 .. Len(f), f[o].kind = "reference"
        PROVE  \A j \in 1 .. Len(f[o].items) : f[o].items[j] < o
    <3>1. CASE o \in Len(h) + 1 .. Len(g)
      <4>1. o \in 1 .. Len(g)
        BY <1>1, <3>1
      <4>2. g[o].kind = "reference" /\ f[o].items = g[o].items
        BY <2>2, <4>1 DEF Grew, RefsKept
      <4> QED
        BY <3>1, <4>2 DEF Grew, RefsKept
    <3>2. CASE o \in Len(g) + 1 .. Len(f)
      BY <2>2, <3>2 DEF Grew, RefsKept
    <3> QED
      BY <1>1, <3>1, <3>2
  <2> QED
    BY <2>1, <2>2 DEF RefsKept
<1> QED
  BY <1>1, <1>2, <1>3 DEF Grew

LEMMA FrameMore ==
  ASSUME NEW h, NEW g, Grew(h, g), NEW f, FrameRight(h, f)
  PROVE  FrameRight(g, f)
<1>1. Len(h) \in Nat /\ Len(g) \in Nat /\ Len(h) <= Len(g)
  BY HeapTypes DEF Grew
<1>2. TableRight(Len(g), f.table)
  BY <1>1, TableMore DEF FrameRight
<1>3. \A i \in 1 .. Len(f.loops) :
        f.loops[i].over \in 1 .. Len(g) /\ g[f.loops[i].over].kind # "structure"
  <2> TAKE i \in 1 .. Len(f.loops)
  <2>1. PICK o : o = f.loops[i].over
    OBVIOUS
  <2>2. o \in 1 .. Len(h) /\ h[o].kind # "structure"
    BY <2>1 DEF FrameRight, LoopsRight
  <2>3. o \in 1 .. Len(g) /\ g[o].kind = h[o].kind
    BY <1>1, <2>2 DEF Grew
  <2> QED
    BY <2>1, <2>2, <2>3
<1> QED
  BY <1>2, <1>3 DEF FrameRight, LoopsRight

LEMMA SoundMore ==
  ASSUME NEW h, NEW g, Grew(h, g), NEW fs, Sound(h, fs)
  PROVE  Sound(g, fs)
<1>1. Len(h) \in Nat /\ Len(g) \in Nat /\ Len(h) <= Len(g) /\ 5 <= Len(h)
  BY HeapTypes DEF Grew, Sound
<1>2. Prototype \in 1 .. Len(h)
  BY <1>1 DEF Prototype
<1>3. g \in Heaps /\ 5 <= Len(g) /\ g[Prototype].kind = "structure"
  BY <1>1, <1>2 DEF Grew, Sound
<1>4. \A i \in 1 .. Len(fs) : FrameRight(g, fs[i])
  BY FrameMore DEF Sound
<1>5. RefsFall(g)
  BY RefsFallOn DEF Sound
<1> QED
  BY <1>3, <1>4, <1>5 DEF Sound

(* Frames are changed one at a time.                                        *)
PutFrame(fs, i, f) == [fs EXCEPT ![i] = f]

LEMMA SoundPut ==
  ASSUME NEW h, NEW fs, Sound(h, fs), NEW i \in 1 .. Len(fs), NEW f, FrameRight(h, f)
  PROVE  /\ Sound(h, PutFrame(fs, i, f)) /\ Len(PutFrame(fs, i, f)) = Len(fs)
         /\ \A j \in 1 .. Len(fs) : PutFrame(fs, i, f)[j] = IF j = i THEN f ELSE fs[j]
<1>1. PICK gs : gs = PutFrame(fs, i, f)
  OBVIOUS
<1>2. fs \in Seq(Frame) /\ f \in Frame
  BY DEF Sound, FrameRight
<1>3. /\ gs \in Seq(Frame) /\ Len(gs) = Len(fs)
      /\ \A j \in 1 .. Len(fs) : gs[j] = IF j = i THEN f ELSE fs[j]
  BY <1>1, <1>2, ExceptSeq DEF PutFrame
<1>4. \A j \in 1 .. Len(gs) : FrameRight(h, gs[j])
  BY <1>3 DEF Sound
<1>5. Sound(h, gs)
  BY <1>3, <1>4 DEF Sound
<1> QED
  BY <1>1, <1>3, <1>5

-----------------------------------------------------------------------------
(* What the frames hold.                                                    *)
Values(f) == [i \in DOMAIN f.table.map |-> f.table.map[i].value]

HeldRun(fs, acc) ==
  /\ acc[0] = <<Literal, Null, Void, Failure, Prototype>>
  /\ \A k \in 1 .. Len(fs) : acc[k] = acc[k - 1] \o Values(fs[k])

LEMMA ValuesAre ==
  ASSUME NEW f \in Frame
  PROVE  /\ Values(f) \in Seq(Nat) /\ Len(Values(f)) = Len(f.table.map) /\ Len(f.table.map) \in Nat
         /\ \A i \in 1 .. Len(f.table.map) : Values(f)[i] = f.table.map[i].value
<1>1. f.table \in TreeTable(Byte, Nat)
  BY DEF Frame
<1>2. f.table.map \in Seq(TreePair(Byte, Nat)) /\ Len(f.table.map) \in Nat
      /\ \A p \in 1 .. Len(f.table.map) : f.table.map[p].value \in Nat
  BY <1>1, TableTypes
<1>3. DOMAIN f.table.map = 1 .. Len(f.table.map)
  BY <1>2, LenProperties
<1>4. Values(f) \in [1 .. Len(f.table.map) -> Nat]
  BY <1>2, <1>3 DEF Values
<1>5. Values(f) \in Seq(Nat)
  <2>1. Values(f) \in UNION {[1 .. n -> Nat] : n \in Nat}
    BY Zenon, <1>2, <1>4
  <2> QED
    BY <2>1, SeqDef
<1>6. DOMAIN Values(f) = 1 .. Len(Values(f)) /\ Len(Values(f)) \in Nat
  BY <1>5, LenProperties
<1>7. 1 .. Len(Values(f)) = 1 .. Len(f.table.map)
  BY <1>4, <1>6
<1>8. Len(Values(f)) = Len(f.table.map)
  BY <1>2, <1>6, <1>7
<1> QED
  BY <1>2, <1>3, <1>5, <1>8 DEF Values

LEMMA Concatenated ==
  ASSUME NEW S, NEW a \in Seq(S), NEW b \in Seq(S)
  PROVE  /\ a \o b \in Seq(S) /\ Len(a \o b) = Len(a) + Len(b) /\ Len(a) \in Nat /\ Len(b) \in Nat
         /\ \A i \in 1 .. Len(a) : (a \o b)[i] = a[i]
         /\ \A i \in 1 .. Len(b) : (a \o b)[Len(a) + i] = b[i]
<1>1. Len(a) \in Nat /\ Len(b) \in Nat
  BY LenProperties
<1>2. /\ a \o b \in Seq(S) /\ Len(a \o b) = Len(a) + Len(b)
      /\ \A i \in 1 .. Len(a) + Len(b) : (a \o b)[i] = IF i <= Len(a) THEN a[i] ELSE b[i - Len(a)]
  BY ConcatProperties
<1>3. \A i \in 1 .. Len(a) : (a \o b)[i] = a[i]
  BY <1>1, <1>2
<1>4. \A i \in 1 .. Len(b) : (a \o b)[Len(a) + i] = b[i]
  BY <1>1, <1>2
<1> QED
  BY <1>1, <1>2, <1>3, <1>4

LEMMA MoreHeld ==
  ASSUME NEW held \in Seq(Nat), NEW f \in Frame
  PROVE  held \o Values(f) \in Seq(Nat)
BY ValuesAre, Concatenated

LEMMA FirstHeld ==
  /\ <<Literal, Null, Void, Failure, Prototype>> \in Seq(Nat)
  /\ Len(<<Literal, Null, Void, Failure, Prototype>>) = 5
  /\ \A k \in 1 .. 5 : <<Literal, Null, Void, Failure, Prototype>>[k] = k
<1>1. 1 .. 5 = {1, 2, 3, 4, 5}
  OBVIOUS
<1> QED
  BY <1>1 DEF Literal, Null, Void, Failure, Prototype

LEMMA HeldSteps ==
  ASSUME NEW fs \in Seq(Frame), NEW n \in Nat, n = Len(fs)
  PROVE  \E acc \in [0 .. n -> Seq(Nat)] : HeldRun(fs, acc) /\ Held(fs) = acc[n]
<1> DEFINE V == Seq(Nat)
           base == <<Literal, Null, Void, Failure, Prototype>>
           then(held, f) == held \o Values(f)
           step == [q \in V \X (1 .. n) |-> then(q[1], fs[q[2]])]
           Fix(f) == f = [t \in SUBSET DOMAIN fs |->
                            IF t = {} THEN base ELSE then(f[t \ {Max(t)}], fs[Max(t)])]
<1>1. DOMAIN fs = 1 .. n /\ \A k \in 1 .. n : fs[k] \in Frame
  BY LenProperties, ElementOfSeq
<1>2. \A s \in V, k \in 1 .. n : then(s, fs[k]) \in V
  BY <1>1, MoreHeld
<1>3. base \in V
  BY FirstHeld
<1> HIDE DEF V, base
<1>4. Folder(n, V, base, step)
  BY <1>2, <1>3 DEF Folder
<1>5. ASSUME NEW g, NEW t \in SUBSET (1 .. n), t # {}, g[t \ {Max(t)}] \in V
      PROVE  step[<<g[t \ {Max(t)}], Max(t)>>] = then(g[t \ {Max(t)}], fs[Max(t)])
  <2>1. Max(t) \in t
    BY Zenon, <1>5, Positions
  <2>2. Max(t) \in 1 .. n
    BY Zenon, <2>1
  <2> HIDE DEF then
  <2> QED
    BY <1>5, <2>2
<1> HIDE DEF then, step
<1>6. \E f : Fix(f)
  <2>0. PICK f \in [SUBSET (1 .. n) -> V] : Folds(f, n, base, step)
    BY Zenon, <1>4, Folding
  <2>1. \A t \in SUBSET (1 .. n) : f[t] = IF t = {} THEN base ELSE step[<<f[t \ {Max(t)}], Max(t)>>]
    BY Zenon, <2>0 DEF Folds
  <2>2. f = [t \in SUBSET (1 .. n) |-> f[t]]
    OBVIOUS
  <2>3. \A t \in SUBSET (1 .. n) : t # {} => f[t] = then(f[t \ {Max(t)}], fs[Max(t)])
    BY Zenon, <1>5, <2>1
  <2>4. Fix(f)
    BY Zenon, <1>1, <2>1, <2>2, <2>3
  <2> QED
    BY Zenon, <2>4
<1>7. PICK g : g = CHOOSE f : Fix(f)
  BY Zenon
<1>8. Fix(g)
  BY Zenon, <1>6, <1>7
<1>9. Held(fs) = g[1 .. n]
  BY <1>1, <1>7 DEF Held, Values, FoldLeft, MapThenFoldSet, then, base
<1>10. FoldsAs(g, n, V, base, step)
  BY Zenon, <1>1, <1>5, <1>8 DEF FoldsAs
<1>11. PICK acc \in [0 .. n -> V] :
            /\ acc[0] = base
            /\ \A k \in 1 .. n : acc[k] = step[<<acc[k - 1], k>>]
            /\ acc[n] = g[1 .. n]
  <2>1. Folded(n, V, base, step, g)
    BY <1>4, <1>10, FoldRun
  <2> QED
    BY <2>1 DEF Folded, Accumulates
<1>12. ASSUME NEW k \in 1 .. n
       PROVE  acc[k] = then(acc[k - 1], fs[k])
  <2>1. acc[k - 1] \in V /\ k \in 1 .. n
    OBVIOUS
  <2>2. step[<<acc[k - 1], k>>] = then(acc[k - 1], fs[k])
    BY <2>1 DEF step
  <2> QED
    BY <1>11, <2>2
<1> QED
  BY Zenon, <1>9, <1>11, <1>12 DEF then, HeldRun, V, base

HeldUpTo(h, fs, k, u) ==
  /\ u \in Seq(1 .. Len(h)) /\ 5 <= Len(u)
  /\ \A i \in 1 .. 5 : u[i] = i
  /\ \A i \in 1 .. k : \A j \in 1 .. Len(fs[i].table.map) : fs[i].table.map[j].value \in Range(u)

LEMMA HeldMore ==
  ASSUME NEW h, NEW fs, Sound(h, fs), NEW k \in 1 .. Len(fs), NEW u, HeldUpTo(h, fs, k - 1, u)
  PROVE  HeldUpTo(h, fs, k, u \o Values(fs[k]))
<1>1. /\ u \in Seq(1 .. Len(h)) /\ 5 <= Len(u) /\ Len(u) \in Nat
      /\ \A i \in 1 .. 5 : u[i] = i
      /\ \A i \in 1 .. k - 1 : \A j \in 1 .. Len(fs[i].table.map) : fs[i].table.map[j].value \in Range(u)
  BY LenProperties DEF HeldUpTo
<1>2. fs[k] \in Frame /\ TableRight(Len(h), fs[k].table) /\ k \in Nat
  <2>1. Len(fs) \in Nat
    BY LenProperties DEF Sound
  <2> QED
    BY <2>1 DEF Sound, FrameRight
<1>3. PICK v : v = Values(fs[k])
  OBVIOUS
<1>4. /\ v \in Seq(Nat) /\ Len(v) = Len(fs[k].table.map) /\ Len(fs[k].table.map) \in Nat
      /\ \A i \in 1 .. Len(fs[k].table.map) : v[i] = fs[k].table.map[i].value
  BY Zenon, <1>2, <1>3, ValuesAre
<1>5. \A i \in 1 .. Len(v) : v[i] \in 1 .. Len(h)
  BY Zenon, <1>2, <1>4 DEF TableRight
<1>6. PICK S : S = 1 .. Len(h)
  OBVIOUS
<1>7. v \in Seq(S)
  BY Zenon, <1>4, <1>5, <1>6, Retyped
<1>8. PICK w : w = u \o v
  BY Zenon
<1>9. /\ w \in Seq(S) /\ Len(w) = Len(u) + Len(v) /\ Len(v) \in Nat
      /\ \A i \in 1 .. Len(u) : w[i] = u[i]
      /\ \A i \in 1 .. Len(v) : w[Len(u) + i] = v[i]
  <2>1. u \in Seq(S)
    BY <1>1, <1>6
  <2> QED
    BY <1>7, <1>8, <2>1, Concatenated
<1>a. PICK a \in Nat, b \in Nat : a = Len(u) /\ b = Len(v)
  BY <1>1, <1>9
<1>b. Len(w) = a + b /\ 5 <= a
  BY <1>1, <1>9, <1>a
<1>c. \A i \in 1 .. a : w[i] = u[i]
  BY <1>9, <1>a
<1>d. \A i \in 1 .. b : w[a + i] = v[i]
  BY <1>9, <1>a
<1>10. 5 <= Len(w) /\ \A i \in 1 .. 5 : w[i] = i
  <2>1. \A i \in 1 .. 5 : i \in 1 .. a /\ u[i] = i
    BY <1>1, <1>b
  <2> QED
    BY <1>b, <1>c, <2>1
<1>11. \A x \in Range(u) : x \in Range(w)
  <2> TAKE x \in Range(u)
  <2>1. PICK i \in 1 .. Len(u) : x = u[i]
    BY <1>1, RangeIs
  <2>2. i \in 1 .. Len(w) /\ x = w[i]
    BY <1>a, <1>b, <1>c, <2>1
  <2> QED
    BY Zenon, <1>9, <2>2, RangeIs
<1>12. ASSUME NEW i \in 1 .. k, NEW j \in 1 .. Len(fs[i].table.map)
       PROVE  fs[i].table.map[j].value \in Range(w)
  <2>1. CASE i = k
    <3>0. j \in 1 .. b /\ v[j] = fs[i].table.map[j].value
      BY <1>4, <1>12, <1>a, <2>1
    <3>1. a + j \in 1 .. Len(w) /\ w[a + j] = fs[i].table.map[j].value
      BY <1>b, <1>d, <3>0
    <3> QED
      BY Zenon, <1>9, <3>1, RangeIs
  <2>2. CASE i # k
    <3>1. i \in 1 .. k - 1
      BY <1>2, <2>2
    <3>2. fs[i].table.map[j].value \in Range(u)
      BY Zenon, <1>1, <1>12, <3>1
    <3> QED
      BY <1>11, <3>2
  <2> QED
    BY <2>1, <2>2
<1> QED
  BY Zenon, <1>3, <1>6, <1>8, <1>9, <1>10, <1>12 DEF HeldUpTo

LEMMA HeldRight ==
  ASSUME NEW h, NEW fs, Sound(h, fs)
  PROVE  HeldUpTo(h, fs, Len(fs), Held(fs))
<1>1. PICK n \in Nat : n = Len(fs)
  BY LenProperties DEF Sound
<1>2. fs \in Seq(Frame) /\ Len(h) \in Nat /\ 5 <= Len(h)
  BY HeapTypes DEF Sound
<1>3. PICK acc \in [0 .. n -> Seq(Nat)] : HeldRun(fs, acc) /\ Held(fs) = acc[n]
  BY Zenon, <1>1, <1>2, HeldSteps
<1> DEFINE T == {k \in Nat : HeldUpTo(h, fs, k, acc[k])}
<1>4. 0 \in T
  <2>1. PICK u : u = <<Literal, Null, Void, Failure, Prototype>>
    BY Zenon
  <2>2. u \in Seq(Nat) /\ Len(u) = 5 /\ \A k \in 1 .. 5 : u[k] = k
    BY <2>1, FirstHeld
  <2>3. u \in Seq(1 .. Len(h))
    <3>1. PICK S : S = 1 .. Len(h)
      OBVIOUS
    <3>2. \A j \in 1 .. Len(u) : u[j] \in S
      BY <1>2, <2>2, <3>1
    <3>3. u \in Seq(S)
      BY Zenon, <2>2, <3>2, Retyped
    <3> QED
      BY <3>1, <3>3
  <2>4. acc[0] = u
    BY <1>3, <2>1 DEF HeldRun
  <2>5. HeldUpTo(h, fs, 0, u)
    BY <2>2, <2>3 DEF HeldUpTo
  <2> QED
    BY <2>4, <2>5
<1>5. \A k \in 1 .. n : k - 1 \in T => k \in T
  <2> TAKE k \in 1 .. n
  <2> HAVE k - 1 \in T
  <2>1. acc[k] = acc[k - 1] \o Values(fs[k])
    BY Zenon, <1>1, <1>3 DEF HeldRun
  <2>2. HeldUpTo(h, fs, k, acc[k])
    BY <1>1, <2>1, HeldMore
  <2> QED
    BY <2>2
<1>6. \A k \in 0 .. n : k \in T
  <2> HIDE DEF T
  <2> QED
    BY Zenon, <1>4, <1>5, UpTo
<1>7. n \in T
  BY <1>6
<1> QED
  BY <1>1, <1>3, <1>7

-----------------------------------------------------------------------------
(* Objects are numbered anew.                                               *)
NewOf(live) == [o \in Range(live) |-> CHOOSE n \in DOMAIN live : live[n] = o]
LabelOf(new, l) == IF IsTemporary(l) THEN Temporary(new[l[2]]) ELSE l
KeptOf(tree) ==
  {c \in DOMAIN tree : c = <<>> \/ \E d \in DOMAIN tree : tree[d] # NULL /\ c \in Prefixes(d)}
TreeOf(new, tree) ==
  [c \in {LabelOf(new, d) : d \in KeptOf(tree)} |->
     tree[CHOOSE d \in KeptOf(tree) : LabelOf(new, d) = c]]
MapOf(new, map) ==
  [i \in DOMAIN map |-> [label |-> LabelOf(new, map[i].label), value |-> new[map[i].value]]]
TableOf(new, t) == [map |-> MapOf(new, t.map), tree |-> TreeOf(new, t.tree)]
LoopsOf(new, loops) == [i \in DOMAIN loops |-> [loops[i] EXCEPT !.over = new[loops[i].over]]]
FrameOf(new, f) == [table |-> TableOf(new, f.table), loops |-> LoopsOf(new, f.loops)]
ItemsIn(new, items) == [i \in DOMAIN items |-> new[items[i]]]
ObjectOf(new, x) == [x EXCEPT !.items = ItemsIn(new, x.items)]

HeapOf(new, live, h) == [n \in DOMAIN live |-> ObjectOf(new, h[live[n]])]
FramesOf(new, fs) == [i \in DOMAIN fs |-> FrameOf(new, fs[i])]

LEMMA RenumberedIs ==
  ASSUME NEW s, NEW live
  PROVE  /\ Renumbered(s, live).heap = HeapOf(NewOf(live), live, s.heap)
         /\ Renumbered(s, live).frames = FramesOf(NewOf(live), s.frames)
<1>1. Renumbered(s, live).heap = HeapOf(NewOf(live), live, s.heap)
  BY DEF Renumbered, NewOf, HeapOf, ObjectOf, ItemsIn
<1>2. Renumbered(s, live).frames = FramesOf(NewOf(live), s.frames)
  BY DEF Renumbered, NewOf, FramesOf, FrameOf, TableOf, MapOf, TreeOf, KeptOf, LabelOf, LoopsOf
<1> QED
  BY <1>1, <1>2

(* The new numbers of the objects in live.                                  *)
Numbers(live, new, L) ==
  /\ L = Len(live) /\ L \in Nat /\ new = NewOf(live)
  /\ \A o \in Range(live) : new[o] \in 1 .. L /\ live[new[o]] = o
  /\ \A n \in 1 .. L : live[n] \in Range(live) /\ new[live[n]] = n

LEMMA NumbersRight ==
  ASSUME NEW S, NEW live \in Seq(S), Distinct(live)
  PROVE  Numbers(live, NewOf(live), Len(live))
<1>1. Len(live) \in Nat /\ DOMAIN live = 1 .. Len(live)
  BY LenProperties
<1>2. PICK new : new = NewOf(live)
  OBVIOUS
<1>3. ASSUME NEW o \in Range(live) PROVE new[o] \in 1 .. Len(live) /\ live[new[o]] = o
  <2>1. \E n \in 1 .. Len(live) : live[n] = o
    <3>1. PICK n \in 1 .. Len(live) : o = live[n]
      BY RangeIs
    <3> QED
      BY <3>1
  <2>2. new[o] = CHOOSE n \in 1 .. Len(live) : live[n] = o
    BY <1>1, <1>2 DEF NewOf
  <2> QED
    BY <2>1, <2>2
<1>4. ASSUME NEW n \in 1 .. Len(live) PROVE live[n] \in Range(live) /\ new[live[n]] = n
  <2>1. live[n] \in Range(live)
    BY RangeIs
  <2>2. new[live[n]] \in 1 .. Len(live) /\ live[new[live[n]]] = live[n]
    BY <1>3, <2>1
  <2> QED
    BY <2>1, <2>2 DEF Distinct
<1> QED
  BY <1>1, <1>2, <1>3, <1>4 DEF Numbers

LEMMA Mapped ==
  ASSUME NEW S, NEW s \in Seq(S), NEW T, NEW f, DOMAIN f = DOMAIN s, \A i \in DOMAIN s : f[i] \in T,
         f = [i \in DOMAIN f |-> f[i]]
  PROVE  /\ f \in Seq(T) /\ Len(f) = Len(s) /\ Len(s) \in Nat /\ DOMAIN s = 1 .. Len(s)
<1>1. Len(s) \in Nat /\ DOMAIN s = 1 .. Len(s)
  BY LenProperties
<1>2. f \in [1 .. Len(s) -> T]
  BY <1>1
<1>3. f \in Seq(T)
  <2>1. f \in UNION {[1 .. n -> T] : n \in Nat}
    BY Zenon, <1>1, <1>2
  <2> QED
    BY <2>1, SeqDef
<1>4. DOMAIN f = 1 .. Len(f) /\ Len(f) \in Nat
  BY <1>3, LenProperties
<1>5. 1 .. Len(f) = 1 .. Len(s)
  BY <1>2, <1>4
<1>6. Len(f) = Len(s)
  BY <1>1, <1>4, <1>5
<1> QED
  BY <1>1, <1>3, <1>6

-----------------------------------------------------------------------------
(* The new numbers keep what makes a state sound.                           *)
Renumbering(h, fs, live, new, L) ==
  /\ Sound(h, fs) /\ live \in Seq(1 .. Len(h)) /\ Numbers(live, new, L) /\ 5 <= L
  /\ \A k \in 1 .. 5 : live[k] = k
  /\ Closed(h, Range(live))
  /\ \A i \in 1 .. Len(fs) : \A j \in 1 .. Len(fs[i].table.map) : fs[i].table.map[j].value \in Range(live)

LEMMA LiveRight ==
  ASSUME NEW h, NEW fs, Sound(h, fs), NEW live, live = Met(h, Held(fs))
  PROVE  Renumbering(h, fs, live, NewOf(live), Len(live))
<1>1. h \in Heaps /\ Len(fs) \in Nat
  BY LenProperties DEF Sound
<1>2. PICK roots : roots = Held(fs)
  OBVIOUS
<1>3. HeldUpTo(h, fs, Len(fs), roots)
  BY <1>2, HeldRight
<1>4. /\ roots \in Seq(1 .. Len(h)) /\ 5 <= Len(roots) /\ \A i \in 1 .. 5 : roots[i] = i
      /\ \A i \in 1 .. Len(fs) : \A j \in 1 .. Len(fs[i].table.map) : fs[i].table.map[j].value \in Range(roots)
  BY <1>3 DEF HeldUpTo
<1>5. Meets(h, roots, live)
  BY <1>1, <1>2, <1>4, MetRight
<1>6. /\ live \in Seq(1 .. Len(h)) /\ Distinct(live) /\ Len(live) \in Nat
      /\ Extends(Join(<<>>, roots), live) /\ Rooted(roots, Range(live)) /\ Closed(h, Range(live))
  BY <1>5 DEF Meets
<1>7. Numbers(live, NewOf(live), Len(live))
  BY <1>6, NumbersRight
<1>8. 5 <= Len(Join(<<>>, roots)) /\ \A k \in 1 .. 5 : Join(<<>>, roots)[k] = k
  BY Zenon, <1>4, JoinFirst
<1>9. 5 <= Len(live) /\ \A k \in 1 .. 5 : live[k] = k
  <2>1. Join(<<>>, roots) \in Seq(1 .. Len(h))
    BY <1>1, <1>4, RootsJoin DEF Mets
  <2>2. Len(Join(<<>>, roots)) \in Nat
    BY <2>1, LenProperties
  <2>3. PICK m \in Nat : m = Len(Join(<<>>, roots))
    BY <2>2
  <2>4. 5 <= m /\ m <= Len(live) /\ \A k \in 1 .. m : live[k] = Join(<<>>, roots)[k]
    BY <1>6, <1>8, <2>3 DEF Extends
  <2>5. \A k \in 1 .. 5 : k \in 1 .. m
    BY <2>4
  <2>6. PICK q \in Nat : q = Len(live)
    BY <1>6
  <2>7. 5 <= q
    BY <2>4, <2>6
  <2>8. \A k \in 1 .. 5 : live[k] = k
    BY <1>8, <2>4, <2>5
  <2> QED
    BY <2>6, <2>7, <2>8
<1>10. \A x \in Range(roots) : x \in Range(live)
  <2> TAKE x \in Range(roots)
  <2>1. PICK j \in 1 .. Len(roots) : x = roots[j]
    BY <1>4, RangeIs
  <2> QED
    BY <1>6, <2>1 DEF Rooted
<1> QED
  BY Zenon, <1>4, <1>6, <1>7, <1>9, <1>10 DEF Renumbering

LEMMA ObjectOfIs ==
  ASSUME NEW x \in Thing, NEW new, NEW T, \A j \in 1 .. Len(x.items) : new[x.items[j]] \in T
  PROVE  /\ ObjectOf(new, x).kind = x.kind /\ ObjectOf(new, x).number = x.number
         /\ ObjectOf(new, x).referenced = x.referenced
         /\ ObjectOf(new, x).items \in Seq(T)
         /\ Len(ObjectOf(new, x).items) = Len(x.items)
         /\ \A j \in 1 .. Len(x.items) : ObjectOf(new, x).items[j] = new[x.items[j]]
         /\ T = Nat => ObjectOf(new, x) \in Thing
<1>1. x.items \in Seq(Nat)
  BY DEF Thing
<1>2. PICK s : s = ItemsIn(new, x.items)
  OBVIOUS
<1>3. s = [i \in DOMAIN x.items |-> new[x.items[i]]]
  BY <1>2 DEF ItemsIn
<1>4. DOMAIN x.items = 1 .. Len(x.items)
  BY <1>1, LenProperties
<1>5. s \in Seq(T) /\ Len(s) = Len(x.items)
  <2>1. DOMAIN s = DOMAIN x.items /\ s = [i \in DOMAIN s |-> s[i]]
    BY <1>3
  <2>2. \A i \in DOMAIN x.items : s[i] \in T
    BY <1>3, <1>4
  <2> QED
    BY <1>1, <2>1, <2>2, Mapped
<1>6. \A j \in 1 .. Len(x.items) : s[j] = new[x.items[j]]
  BY <1>3, <1>4
<1>7. [x EXCEPT !.items = s] = [kind |-> x.kind, number |-> x.number, items |-> s, referenced |-> x.referenced]
  BY Zenon, ThingExcept
<1>8. ObjectOf(new, x) = [kind |-> x.kind, number |-> x.number, items |-> s, referenced |-> x.referenced]
  BY <1>2, <1>7 DEF ObjectOf
<1>9. T = Nat => ObjectOf(new, x) \in Thing
  BY <1>5, <1>8 DEF Thing
<1> QED
  BY <1>5, <1>6, <1>8, <1>9

(* A heap in the new numbers.                                               *)
NewHeap(h, live, new, L, g) ==
  /\ g \in Heaps /\ Len(g) = L
  /\ \A n \in 1 .. L :
       /\ live[n] \in 1 .. Len(h)
       /\ g[n].kind = h[live[n]].kind /\ g[n].number = h[live[n]].number
       /\ g[n].referenced = h[live[n]].referenced /\ Len(g[n].items) = Len(h[live[n]].items)
       /\ \A j \in 1 .. Len(g[n].items) : g[n].items[j] = new[h[live[n]].items[j]]
                                          /\ h[live[n]].items[j] \in Range(live)

LEMMA NewHeapRight ==
  ASSUME NEW h, NEW fs, NEW live, NEW new, NEW L, Renumbering(h, fs, live, new, L)
  PROVE  NewHeap(h, live, new, L, HeapOf(new, live, h))
<1>1. /\ h \in Heaps /\ live \in Seq(1 .. Len(h)) /\ Numbers(live, new, L)
      /\ Closed(h, Range(live))
  BY DEF Renumbering, Sound
<1>2. /\ L = Len(live) /\ L \in Nat
      /\ \A o \in Range(live) : new[o] \in 1 .. L /\ live[new[o]] = o
      /\ \A n \in 1 .. L : live[n] \in Range(live) /\ new[live[n]] = n
  BY <1>1 DEF Numbers
<1>3. DOMAIN live = 1 .. L /\ \A n \in 1 .. L : live[n] \in 1 .. Len(h)
  BY <1>1, <1>2, LenProperties, ElementOfSeq
<1>4. PICK g : g = HeapOf(new, live, h)
  OBVIOUS
<1>5. g = [n \in 1 .. L |-> ObjectOf(new, h[live[n]])]
  BY <1>3, <1>4 DEF HeapOf
<1>6. ASSUME NEW n \in 1 .. L
      PROVE  /\ h[live[n]] \in Thing /\ Allowed(Len(h), h[live[n]].kind, h[live[n]].items)
             /\ \A j \in 1 .. Len(h[live[n]].items) :
                  h[live[n]].items[j] \in Range(live) /\ new[h[live[n]].items[j]] \in 1 .. L
  <2>1. live[n] \in Range(live) /\ live[n] \in 1 .. Len(h)
    BY <1>2, <1>3
  <2>2. Fits(Len(h), h[live[n]])
    BY <1>1, <2>1, HeapTypes
  <2>3. \A j \in 1 .. Len(h[live[n]].items) : h[live[n]].items[j] \in Range(live)
    BY <1>1, <2>1 DEF Closed
  <2> QED
    BY <1>2, <2>2, <2>3 DEF Fits
<1>7. ASSUME NEW n \in 1 .. L
      PROVE  /\ g[n].kind = h[live[n]].kind /\ g[n].number = h[live[n]].number
             /\ g[n].referenced = h[live[n]].referenced /\ Len(g[n].items) = Len(h[live[n]].items)
             /\ \A j \in 1 .. Len(h[live[n]].items) : g[n].items[j] = new[h[live[n]].items[j]]
             /\ g[n] \in Thing
  <2>1. PICK x : x = h[live[n]]
    OBVIOUS
  <2>2. x \in Thing /\ \A j \in 1 .. Len(x.items) : new[x.items[j]] \in Nat
    BY <1>2, <1>6, <2>1
  <2>3. PICK T : T = Nat
    BY Zenon
  <2>4. \A j \in 1 .. Len(x.items) : new[x.items[j]] \in T
    BY <2>2, <2>3
  <2>5. /\ ObjectOf(new, x).kind = x.kind /\ ObjectOf(new, x).number = x.number
        /\ ObjectOf(new, x).referenced = x.referenced
        /\ Len(ObjectOf(new, x).items) = Len(x.items)
        /\ \A j \in 1 .. Len(x.items) : ObjectOf(new, x).items[j] = new[x.items[j]]
        /\ ObjectOf(new, x) \in Thing
    BY Zenon, <2>2, <2>3, <2>4, ObjectOfIs
  <2>6. g[n] = ObjectOf(new, x)
    BY <1>5, <2>1
  <2> QED
    BY <2>1, <2>5, <2>6
<1>8. g \in Seq(Thing) /\ Len(g) = L
  <2>1. DOMAIN g = DOMAIN live /\ g = [n \in DOMAIN g |-> g[n]] /\ \A n \in DOMAIN live : g[n] \in Thing
    BY <1>3, <1>5, <1>7
  <2> QED
    BY <1>1, <1>2, <2>1, Mapped
<1>9. ASSUME NEW n \in 1 .. L
      PROVE  Fits(L, g[n])
  <2>1. PICK a, b : a = g[n].items /\ b = h[live[n]].items
    OBVIOUS
  <2>2. a \in Seq(Nat) /\ b \in Seq(Nat) /\ Len(a) = Len(b)
    BY Zenon, <1>6, <1>7, <2>1 DEF Thing
  <2>3. b = <<>> => a = <<>>
    BY <2>2, EmptySeq
  <2>4. \A j \in 1 .. Len(a) : a[j] \in 1 .. L
    <3> TAKE j \in 1 .. Len(a)
    <3>1. j \in 1 .. Len(h[live[n]].items)
      BY <2>1, <2>2
    <3>2. a[j] = new[h[live[n]].items[j]]
      BY <1>7, <2>1, <3>1
    <3> QED
      BY <1>6, <3>1, <3>2
  <2>5. Allowed(L, g[n].kind, a)
    BY Zenon, <1>6, <1>7, <2>1, <2>2, <2>3, <2>4 DEF Allowed
  <2> QED
    BY <1>7, <2>1, <2>5 DEF Fits
<1>10. g \in Heaps
  BY <1>8, <1>9, HeapIs
<1> QED
  BY <1>3, <1>4, <1>6, <1>7, <1>8, <1>10 DEF NewHeap

-----------------------------------------------------------------------------
(* A table in the new numbers.                                              *)
Renaming(n, t, live, new, L) ==
  /\ n \in Nat /\ TableRight(n, t) /\ Numbers(live, new, L)
  /\ \A p \in 1 .. Len(t.map) : t.map[p].value \in Range(live)

LEMMA LabelOfIs ==
  ASSUME NEW new
  PROVE  /\ \A name \in Names : LabelOf(new, Identifier(name)) = Identifier(name)
         /\ \A o \in Nat : LabelOf(new, Temporary(o)) = Temporary(new[o])
         /\ \A k \in Nat : LabelOf(new, <<"HANONYMOUSIDENTIFIER", k>>) = <<"HANONYMOUSIDENTIFIER", k>>
<1>1. \A name \in Names : LabelOf(new, Identifier(name)) = Identifier(name)
  <2>1. \A name \in Names : ~IsTemporary(Identifier(name))
    BY LabelForms
  <2> QED
    BY <2>1 DEF LabelOf
<1>2. \A o \in Nat : LabelOf(new, Temporary(o)) = Temporary(new[o])
  <2>1. \A o \in Nat : IsTemporary(Temporary(o)) /\ Temporary(o)[2] = o
    BY LabelForms
  <2> QED
    BY <2>1 DEF LabelOf
<1>3. \A k \in Nat : LabelOf(new, <<"HANONYMOUSIDENTIFIER", k>>) = <<"HANONYMOUSIDENTIFIER", k>>
  <2>1. \A k \in Nat : ~IsTemporary(<<"HANONYMOUSIDENTIFIER", k>>)
    BY Zenon, LabelForms
  <2> QED
    BY Zenon, <2>1 DEF LabelOf
<1> QED
  BY <1>1, <1>2, <1>3

(* A label and its value in the new numbers.                                *)
LEMMA NewLabel ==
  ASSUME NEW l, NEW v, LabelRight(l, v), v \in Nat, NEW new, new[v] \in Nat
  PROVE  /\ l \in TreeLabel(Byte) /\ LabelOf(new, l) \in TreeLabel(Byte)
         /\ LabelRight(LabelOf(new, l), new[v])
         /\ IsTemporary(l) => l = Temporary(v)
         /\ \A o \in Nat : LabelOf(new, l) = Temporary(o) => l = Temporary(v) /\ o = new[v]
         /\ Len(l) <= 2
<1>1. CASE \E name \in Names : l = Identifier(name)
  <2>1. PICK name \in Names : l = Identifier(name)
    BY <1>1
  <2>2. LabelOf(new, l) = l /\ l \in TreeLabel(Byte) /\ ~IsTemporary(l) /\ Len(l) = 1
    BY <2>1, LabelForms, LabelOfIs
  <2>3. \A o \in Nat : l # Temporary(o)
    BY <2>2, LabelForms
  <2> QED
    BY <2>1, <2>2, <2>3 DEF LabelRight
<1>2. CASE \E k \in Nat : l = <<"HANONYMOUSIDENTIFIER", k>>
  <2>1. PICK k \in Nat : l = <<"HANONYMOUSIDENTIFIER", k>>
    BY <1>2
  <2>2. LabelOf(new, l) = l /\ l \in TreeLabel(Byte) /\ ~IsTemporary(l)
    BY <2>1, LabelForms, LabelOfIs
  <2>3. \A o \in Nat : l # Temporary(o)
    BY <2>2, LabelForms
  <2>4. Len(l) = 2
    BY <2>1
  <2> QED
    BY <2>1, <2>2, <2>3, <2>4 DEF LabelRight
<1>3. CASE l = Temporary(v)
  <2>1. LabelOf(new, l) = Temporary(new[v]) /\ l \in TreeLabel(Byte) /\ IsTemporary(l)
        /\ Temporary(new[v]) \in TreeLabel(Byte)
    BY <1>3, LabelForms, LabelOfIs
  <2>2. \A o \in Nat : Temporary(new[v]) = Temporary(o) => o = new[v]
    BY LabelForms
  <2>3. Len(l) = 2
    BY <1>3 DEF Temporary
  <2>4. LabelRight(LabelOf(new, l), new[v])
    BY <2>1 DEF LabelRight
  <2> QED
    BY <1>3, <2>1, <2>2, <2>3, <2>4
<1> QED
  BY <1>1, <1>2, <1>3 DEF LabelRight

LEMMA RenamingTypes ==
  ASSUME NEW n, NEW t, NEW live, NEW new, NEW L, Renaming(n, t, live, new, L)
  PROVE  /\ t \in TreeTable(Byte, Nat) /\ PairsFound(t) /\ ChainsRight(t)
         /\ t.map \in Seq(TreePair(Byte, Nat)) /\ Len(t.map) \in Nat /\ DOMAIN t.map = 1 .. Len(t.map)
         /\ DOMAIN t.tree \subseteq Seq(Byte) /\ \A c \in DOMAIN t.tree : t.tree[c] \in Nat
         /\ L \in Nat
         /\ \A o \in Range(live) : new[o] \in 1 .. L /\ live[new[o]] = o
         /\ \A p \in 1 .. Len(t.map) :
              /\ LabelRight(t.map[p].label, t.map[p].value) /\ t.map[p].value \in Nat
              /\ t.map[p].value \in Range(live) /\ new[t.map[p].value] \in Nat
<1>1. t \in TreeTable(Byte, Nat) /\ PairsFound(t) /\ ChainsRight(t)
  BY DEF Renaming, TableRight, Coherent
<1>2. /\ t.map \in Seq(TreePair(Byte, Nat)) /\ Len(t.map) \in Nat
      /\ DOMAIN t.tree \subseteq Seq(Byte) /\ \A c \in DOMAIN t.tree : t.tree[c] \in Nat
      /\ \A p \in 1 .. Len(t.map) : t.map[p].value \in Nat
  BY <1>1, TableTypes
<1>3. DOMAIN t.map = 1 .. Len(t.map)
  BY <1>2, LenProperties
<1>4. L \in Nat /\ \A o \in Range(live) : new[o] \in 1 .. L /\ live[new[o]] = o
  BY DEF Renaming, Numbers
<1>5. \A p \in 1 .. Len(t.map) : /\ LabelRight(t.map[p].label, t.map[p].value)
                                 /\ t.map[p].value \in Range(live)
  BY DEF Renaming, TableRight
<1>6. \A p \in 1 .. Len(t.map) : new[t.map[p].value] \in Nat
  BY <1>4, <1>5
<1> QED
  BY <1>1, <1>2, <1>3, <1>4, <1>5, <1>6

(* The chains that are kept: a temporary among them is the label of a pair. *)
LEMMA KeptLabels ==
  ASSUME NEW n, NEW t, NEW live, NEW new, NEW L, Renaming(n, t, live, new, L),
         NEW c \in KeptOf(t.tree)
  PROVE  /\ c \in DOMAIN t.tree
         /\ IsTemporary(c) => \E p \in 1 .. Len(t.map) : c = Temporary(t.map[p].value)
<1>1. c \in DOMAIN t.tree
  BY DEF KeptOf
<1>2. c \in Seq(Byte)
  BY <1>1, RenamingTypes
<1>3. SUFFICES ASSUME IsTemporary(c)
               PROVE  \E p \in 1 .. Len(t.map) : c = Temporary(t.map[p].value)
  BY <1>1
<1>4. Len(c) = 2
  BY <1>3 DEF IsTemporary
<1>5. c # <<>>
  BY <1>4, EmptySeq
<1>6. PICK d \in DOMAIN t.tree : t.tree[d] # NULL /\ c \in Prefixes(d)
  BY <1>5 DEF KeptOf
<1>7. PICK p : p = t.tree[d]
  OBVIOUS
<1>8. p \in 1 .. Len(t.map) /\ t.map[p].label = d
  <2>1. ChainsRight(t) /\ NULL = Tree!NULL
    BY RenamingTypes, SameTrees
  <2> QED
    BY <1>6, <1>7, <2>1 DEF ChainsRight
<1>9. /\ LabelRight(d, t.map[p].value) /\ t.map[p].value \in Nat /\ new[t.map[p].value] \in Nat
  BY <1>8, RenamingTypes
<1>10. Len(d) <= 2 /\ d \in TreeLabel(Byte) /\ (IsTemporary(d) => d = Temporary(t.map[p].value))
  <2>1. PICK v : v = t.map[p].value
    OBVIOUS
  <2>2. LabelRight(d, v) /\ v \in Nat /\ new[v] \in Nat
    BY <1>9, <2>1
  <2>3. Len(d) <= 2 /\ d \in TreeLabel(Byte) /\ (IsTemporary(d) => d = Temporary(v))
    BY <2>2, NewLabel
  <2> QED
    BY <2>1, <2>3
<1>11. d \in Seq(Byte)
  BY <1>10 DEF TreeLabel
<1>12. c = d
  <2>1. PICK k \in 0 .. Len(d) : c = SubSeq(d, 1, k)
    BY <1>6 DEF Prefixes
  <2>2. Len(d) \in Nat
    BY <1>11, LenProperties
  <2>3. Len(SubSeq(d, 1, k)) = IF 1 <= k THEN k - 1 + 1 ELSE 0
    BY <1>11, <2>2, SubSeqInside
  <2>4. k = 2 /\ Len(d) = 2
    <3>1. PICK m \in Nat : m = Len(d)
      BY <2>2
    <3>2. k \in 0 .. m /\ m <= 2
      BY <1>10, <3>1
    <3>3. 2 = IF 1 <= k THEN k - 1 + 1 ELSE 0
      BY <1>4, <2>1, <2>3
    <3> QED
      BY <3>1, <3>2, <3>3
  <2>5. \A i \in 1 .. 2 : c[i] = d[i]
    <3>1. \A i \in 1 .. k - 1 + 1 : SubSeq(d, 1, k)[i] = d[1 + i - 1]
      BY <1>11, <2>2, SubSeqInside
    <3> QED
      BY <2>1, <2>4, <3>1
  <2> QED
    BY <1>2, <1>4, <1>11, <2>4, <2>5, SeqEqual
<1> QED
  BY <1>3, <1>8, <1>10, <1>12

LEMMA LabelOfInjective ==
  ASSUME NEW n, NEW t, NEW live, NEW new, NEW L, Renaming(n, t, live, new, L),
         NEW c \in KeptOf(t.tree), NEW d \in KeptOf(t.tree), LabelOf(new, c) = LabelOf(new, d)
  PROVE  c = d
<1>1. \A o \in Range(live) : new[o] \in 1 .. L /\ live[new[o]] = o
  BY RenamingTypes
<1>2. ASSUME NEW e \in KeptOf(t.tree), IsTemporary(e)
      PROVE  \E o \in Range(live) : /\ e = Temporary(o) /\ LabelOf(new, e) = Temporary(new[o])
                                    /\ new[o] \in Nat /\ IsTemporary(LabelOf(new, e))
                                    /\ LabelOf(new, e)[2] = new[o]
  <2>1. PICK p \in 1 .. Len(t.map) : e = Temporary(t.map[p].value)
    BY <1>2, KeptLabels
  <2>2. PICK o : o = t.map[p].value
    OBVIOUS
  <2>3. o \in Range(live) /\ o \in Nat /\ new[o] \in Nat
    BY <2>2, RenamingTypes
  <2>4. LabelOf(new, e) = Temporary(new[o])
    BY <2>1, <2>2, <2>3, LabelOfIs
  <2> QED
    BY <2>1, <2>2, <2>3, <2>4, LabelForms
<1>3. CASE ~IsTemporary(c) /\ ~IsTemporary(d)
  BY <1>3 DEF LabelOf
<1>4. CASE IsTemporary(c) /\ ~IsTemporary(d)
  <2>1. IsTemporary(LabelOf(new, c))
    BY <1>2, <1>4
  <2> QED
    BY <1>4, <2>1 DEF LabelOf
<1>5. CASE ~IsTemporary(c) /\ IsTemporary(d)
  <2>1. IsTemporary(LabelOf(new, d))
    BY <1>2, <1>5
  <2> QED
    BY <1>5, <2>1 DEF LabelOf
<1>6. CASE IsTemporary(c) /\ IsTemporary(d)
  <2>1. PICK a \in Range(live) : c = Temporary(a) /\ LabelOf(new, c)[2] = new[a]
    BY <1>2, <1>6
  <2>2. PICK b \in Range(live) : d = Temporary(b) /\ LabelOf(new, d)[2] = new[b]
    BY <1>2, <1>6
  <2>3. new[a] = new[b]
    BY <2>1, <2>2
  <2>4. a = b
    BY <1>1, <2>3
  <2> QED
    BY <2>1, <2>2, <2>4
<1> QED
  BY <1>3, <1>4, <1>5, <1>6

LEMMA NewTree ==
  ASSUME NEW n, NEW t, NEW live, NEW new, NEW L, Renaming(n, t, live, new, L),
         NEW c \in KeptOf(t.tree)
  PROVE  /\ LabelOf(new, c) \in DOMAIN TreeOf(new, t.tree)
         /\ TreeOf(new, t.tree)[LabelOf(new, c)] = t.tree[c]
         /\ LabelOf(new, c) \in Seq(Byte) /\ t.tree[c] \in Nat
<1>1. TreeOf(new, t.tree)[LabelOf(new, c)]
        = t.tree[CHOOSE d \in KeptOf(t.tree) : LabelOf(new, d) = LabelOf(new, c)]
      /\ LabelOf(new, c) \in DOMAIN TreeOf(new, t.tree)
  BY DEF TreeOf
<1>2. PICK e : e = CHOOSE d \in KeptOf(t.tree) : LabelOf(new, d) = LabelOf(new, c)
  OBVIOUS
<1>3. e \in KeptOf(t.tree) /\ LabelOf(new, e) = LabelOf(new, c)
  BY <1>2
<1>4. e = c
  BY <1>3, LabelOfInjective
<1>5. c \in DOMAIN t.tree /\ c \in Seq(Byte) /\ t.tree[c] \in Nat
  BY KeptLabels, RenamingTypes
<1>6. LabelOf(new, c) \in Seq(Byte)
  <2>1. CASE ~IsTemporary(c)
    BY <1>5, <2>1 DEF LabelOf
  <2>2. CASE IsTemporary(c)
    <3>1. PICK p \in 1 .. Len(t.map) : c = Temporary(t.map[p].value)
      BY <2>2, KeptLabels
    <3>2. t.map[p].value \in Nat /\ new[t.map[p].value] \in Nat
      BY RenamingTypes
    <3>3. LabelOf(new, c) = Temporary(new[t.map[p].value])
      BY <3>1, <3>2, LabelOfIs
    <3>4. LabelOf(new, c) \in TreeLabel(Byte)
      BY <3>2, <3>3, LabelForms
    <3> QED
      BY <3>4 DEF TreeLabel
  <2> QED
    BY <2>1, <2>2
<1> QED
  BY Zenon, <1>1, <1>2, <1>4, <1>5, <1>6

(* The table: the same pairs in the same order.                             *)
NewTable(t, live, new, L, u) ==
  /\ TableRight(L, u) /\ Len(u.map) = Len(t.map) /\ Len(t.map) \in Nat
  /\ \A p \in 1 .. Len(t.map) : /\ u.map[p].label = LabelOf(new, t.map[p].label)
                                /\ u.map[p].value = new[t.map[p].value]
                                /\ t.map[p].value \in Range(live)

LEMMA NewTableRight ==
  ASSUME NEW n, NEW t, NEW live, NEW new, NEW L, Renaming(n, t, live, new, L)
  PROVE  NewTable(t, live, new, L, TableOf(new, t))
<1>1. /\ PairsFound(t) /\ ChainsRight(t)
      /\ t.map \in Seq(TreePair(Byte, Nat)) /\ Len(t.map) \in Nat /\ DOMAIN t.map = 1 .. Len(t.map)
      /\ DOMAIN t.tree \subseteq Seq(Byte) /\ L \in Nat
  BY RenamingTypes
<1>2. PICK u : u = TableOf(new, t)
  OBVIOUS
<1>3. u.map = MapOf(new, t.map) /\ u.tree = TreeOf(new, t.tree)
      /\ u = [map |-> u.map, tree |-> u.tree]
  BY <1>2 DEF TableOf
<1>4. PICK m : m = MapOf(new, t.map)
  OBVIOUS
<1>5. /\ DOMAIN m = DOMAIN t.map /\ m = [i \in DOMAIN m |-> m[i]]
      /\ \A p \in 1 .. Len(t.map) :
           m[p] = [label |-> LabelOf(new, t.map[p].label), value |-> new[t.map[p].value]]
  BY <1>1, <1>4 DEF MapOf
<1>6. ASSUME NEW p \in 1 .. Len(t.map)
      PROVE  /\ m[p].label = LabelOf(new, t.map[p].label) /\ m[p].value = new[t.map[p].value]
             /\ t.map[p].value \in Range(live)
             /\ m[p].value \in 1 .. L /\ LabelRight(m[p].label, m[p].value)
             /\ m[p] \in TreePair(Byte, Nat)
  <2>1. PICK l, v : l = t.map[p].label /\ v = t.map[p].value
    BY Zenon
  <2>2. LabelRight(l, v) /\ v \in Nat /\ v \in Range(live) /\ new[v] \in Nat
    BY <2>1, RenamingTypes
  <2>3. new[v] \in 1 .. L
    BY <2>2, RenamingTypes
  <2>4. LabelOf(new, l) \in TreeLabel(Byte) /\ LabelRight(LabelOf(new, l), new[v])
    BY <2>2, NewLabel
  <2>5. m[p] = [label |-> LabelOf(new, l), value |-> new[v]]
    BY <1>5, <2>1
  <2> QED
    BY <2>1, <2>2, <2>3, <2>4, <2>5 DEF TreePair
<1>7. m \in Seq(TreePair(Byte, Nat)) /\ Len(m) = Len(t.map)
  <2>1. \A i \in DOMAIN t.map : m[i] \in TreePair(Byte, Nat)
    BY <1>1, <1>6
  <2> QED
    BY <1>1, <1>5, <2>1, Mapped
<1>8. PICK w : w = TreeOf(new, t.tree)
  OBVIOUS
<1>9. ASSUME NEW c \in DOMAIN w
      PROVE  \E d \in KeptOf(t.tree) : c = LabelOf(new, d) /\ w[c] = t.tree[d]
                                       /\ c \in Seq(Byte) /\ w[c] \in Nat
  <2>1. PICK d \in KeptOf(t.tree) : c = LabelOf(new, d)
    BY <1>8 DEF TreeOf
  <2> QED
    BY <1>8, <2>1, NewTree
<1>10. w \in UNION {[C -> Nat] : C \in SUBSET Seq(Byte)}
  <2>1. w = [c \in DOMAIN w |-> w[c]]
    BY <1>8 DEF TreeOf
  <2>2. w \in [DOMAIN w -> Nat] /\ DOMAIN w \in SUBSET Seq(Byte)
    BY <1>9, <2>1
  <2> QED
    BY <2>2
<1>11. u \in TreeTable(Byte, Nat)
  BY <1>3, <1>4, <1>7, <1>8, <1>10 DEF TreeTable
<1>12. PairsFound(u)
  <2> SUFFICES ASSUME NEW p \in 1 .. Len(t.map)
               PROVE  m[p].label \in DOMAIN w /\ w[m[p].label] = p
    BY <1>3, <1>4, <1>7, <1>8 DEF PairsFound
  <2>1. PICK d : d = t.map[p].label
    OBVIOUS
  <2>2. d \in DOMAIN t.tree /\ t.tree[d] = p
    BY <1>1, <2>1 DEF PairsFound
  <2>3. d \in KeptOf(t.tree)
    <3>1. d \in Tree!Prefixes(d)
      BY <1>1, <2>2, OwnPrefix
    <3>2. d \in Prefixes(d)
      BY <3>1 DEF Prefixes, Tree!Prefixes
    <3>3. t.tree[d] # NULL
      BY <2>2 DEF NULL
    <3> QED
      BY <2>2, <3>2, <3>3 DEF KeptOf
  <2>4. LabelOf(new, d) \in DOMAIN w /\ w[LabelOf(new, d)] = p
    BY <1>8, <2>2, <2>3, NewTree
  <2> QED
    BY <1>6, <2>1, <2>4
<1>13. ChainsRight(u)
  <2> SUFFICES ASSUME NEW c \in DOMAIN w, w[c] # Tree!NULL
               PROVE  w[c] \in 1 .. Len(t.map) /\ m[w[c]].label = c
    BY <1>3, <1>4, <1>7, <1>8 DEF ChainsRight
  <2>1. PICK d \in KeptOf(t.tree) : c = LabelOf(new, d) /\ w[c] = t.tree[d]
    BY <1>9
  <2>2. d \in DOMAIN t.tree
    BY KeptLabels
  <2>3. t.tree[d] \in 1 .. Len(t.map) /\ t.map[t.tree[d]].label = d
    BY <1>1, <2>1, <2>2 DEF ChainsRight
  <2> QED
    BY <1>6, <2>1, <2>3
<1>14. TableRight(L, u)
  BY <1>3, <1>4, <1>6, <1>7, <1>11, <1>12, <1>13 DEF TableRight, Coherent
<1> QED
  BY <1>1, <1>2, <1>3, <1>4, <1>6, <1>7, <1>14 DEF NewTable

(* The temporaries.                                                         *)
LEMMA NewTemporaries ==
  ASSUME NEW n, NEW t, NEW live, NEW new, NEW L, Renaming(n, t, live, new, L),
         NEW u, NewTable(t, live, new, L, u)
  PROVE  /\ \A o \in Nat : Temporary(o) \in TreeLabels(t)
                             => o \in Range(live) /\ Temporary(new[o]) \in TreeLabels(u)
         /\ \A o \in Nat : Temporary(o) \in TreeLabels(u)
                             => \E x \in Nat : Temporary(x) \in TreeLabels(t) /\ o = new[x]
<1>1. ASSUME NEW o \in Nat, Temporary(o) \in TreeLabels(t)
      PROVE  o \in Range(live) /\ Temporary(new[o]) \in TreeLabels(u)
  <2>1. PICK p \in 1 .. Len(t.map) : t.map[p].label = Temporary(o)
    BY <1>1 DEF TreeLabels
  <2>2. PICK v : v = t.map[p].value
    OBVIOUS
  <2>3. LabelRight(Temporary(o), v) /\ v \in Nat /\ v \in Range(live) /\ new[v] \in Nat
    BY <2>1, <2>2, RenamingTypes
  <2>4. Temporary(o) = Temporary(v)
    BY <2>3, NewLabel, LabelForms
  <2>5. o = v
    BY <2>3, <2>4, LabelForms
  <2>6. u.map[p].label = Temporary(new[o]) /\ p \in 1 .. Len(u.map)
    BY <2>1, LabelOfIs DEF NewTable
  <2> QED
    BY <2>3, <2>5, <2>6 DEF TreeLabels
<1>2. ASSUME NEW o \in Nat, Temporary(o) \in TreeLabels(u)
      PROVE  \E x \in Nat : Temporary(x) \in TreeLabels(t) /\ o = new[x]
  <2>1. PICK p \in 1 .. Len(t.map) : LabelOf(new, t.map[p].label) = Temporary(o)
    BY <1>2 DEF TreeLabels, NewTable
  <2>2. PICK l, v : l = t.map[p].label /\ v = t.map[p].value
    BY Zenon
  <2>3. LabelRight(l, v) /\ v \in Nat /\ new[v] \in Nat
    BY <2>2, RenamingTypes
  <2>4. l = Temporary(v) /\ o = new[v]
    BY <2>1, <2>2, <2>3, NewLabel
  <2>5. l \in TreeLabels(t)
    BY <2>2 DEF TreeLabels
  <2> QED
    BY <2>3, <2>4, <2>5
<1> QED
  BY <1>1, <1>2

-----------------------------------------------------------------------------
(* Loops and frames in the new numbers.                                     *)
LEMMA LoopExcept ==
  ASSUME NEW x \in Loop, NEW y
  PROVE  /\ [x EXCEPT !.over = y] = [names |-> x.names, over |-> y, index |-> x.index, size |-> x.size]
         /\ [x EXCEPT !.index = y] = [names |-> x.names, over |-> x.over, index |-> y, size |-> x.size]
<1>1. x = [names |-> x.names, over |-> x.over, index |-> x.index, size |-> x.size]
  BY DEF Loop
<1>2. [x EXCEPT !.over = y] = [names |-> x.names, over |-> y, index |-> x.index, size |-> x.size]
  BY <1>1
<1>3. [x EXCEPT !.index = y] = [names |-> x.names, over |-> x.over, index |-> y, size |-> x.size]
  BY <1>1
<1> QED
  BY <1>2, <1>3

LEMMA FrameExcept ==
  ASSUME NEW f \in Frame, NEW u
  PROVE  /\ [f EXCEPT !.table = u] = [table |-> u, loops |-> f.loops]
         /\ [f EXCEPT !.loops = u] = [table |-> f.table, loops |-> u]
<1>1. f = [table |-> f.table, loops |-> f.loops]
  BY DEF Frame
<1>2. [f EXCEPT !.table = u] = [table |-> u, loops |-> f.loops]
  BY <1>1
<1>3. [f EXCEPT !.loops = u] = [table |-> f.table, loops |-> u]
  BY <1>1
<1> QED
  BY <1>2, <1>3

NewLoops(loops, new, ls) ==
  /\ ls \in Seq(Loop) /\ Len(ls) = Len(loops)
  /\ \A i \in 1 .. Len(loops) : /\ ls[i].over = new[loops[i].over] /\ ls[i].names = loops[i].names
                                /\ ls[i].index = loops[i].index /\ ls[i].size = loops[i].size

LEMMA NewLoopsRight ==
  ASSUME NEW loops \in Seq(Loop), NEW new, \A i \in 1 .. Len(loops) : new[loops[i].over] \in Nat
  PROVE  NewLoops(loops, new, LoopsOf(new, loops))
<1>1. DOMAIN loops = 1 .. Len(loops) /\ \A i \in 1 .. Len(loops) : loops[i] \in Loop
  BY LenProperties, ElementOfSeq
<1>2. PICK ls : ls = LoopsOf(new, loops)
  OBVIOUS
<1>3. ls = [i \in 1 .. Len(loops) |-> [loops[i] EXCEPT !.over = new[loops[i].over]]]
  BY <1>1, <1>2 DEF LoopsOf
<1>4. ASSUME NEW i \in 1 .. Len(loops)
      PROVE  /\ ls[i].over = new[loops[i].over] /\ ls[i].names = loops[i].names
             /\ ls[i].index = loops[i].index /\ ls[i].size = loops[i].size
             /\ ls[i] \in Loop
  <2>1. PICK x, y : x = loops[i] /\ y = new[loops[i].over]
    OBVIOUS
  <2>2. x \in Loop /\ y \in Nat
    BY <1>1, <2>1
  <2>3. [x EXCEPT !.over = y] = [names |-> x.names, over |-> y, index |-> x.index, size |-> x.size]
    BY Zenon, <2>2, LoopExcept
  <2>4. ls[i] = [x EXCEPT !.over = y]
    BY <1>3, <2>1
  <2>5. x.names \in Seq(Names) /\ x.index \in Nat /\ x.size \in Nat
    BY <2>2 DEF Loop
  <2>6. ls[i] \in Loop
    BY <2>2, <2>3, <2>4, <2>5 DEF Loop
  <2> QED
    BY <2>1, <2>3, <2>4, <2>6
<1>5. ls \in Seq(Loop) /\ Len(ls) = Len(loops)
  <2>1. DOMAIN ls = DOMAIN loops /\ ls = [i \in DOMAIN ls |-> ls[i]]
    BY <1>1, <1>3
  <2>2. \A i \in DOMAIN loops : ls[i] \in Loop
    BY <1>1, <1>4
  <2> QED
    BY <2>1, <2>2, Mapped
<1> QED
  BY <1>2, <1>4, <1>5 DEF NewLoops

NewFrame(f, live, new, L, e) ==
  /\ e \in Frame
  /\ NewTable(f.table, live, new, L, e.table)
  /\ NewLoops(f.loops, new, e.loops)
  /\ \A i \in 1 .. Len(f.loops) : f.loops[i].over \in Range(live)

LEMMA LoopsLive ==
  ASSUME NEW h, NEW f, FrameRight(h, f), NEW live, NEW new, NEW L,
         Renaming(Len(h), f.table, live, new, L)
  PROVE  /\ f.loops \in Seq(Loop) /\ Len(f.loops) \in Nat
         /\ \A i \in 1 .. Len(f.loops) : /\ f.loops[i].over \in Nat
                                         /\ Temporary(f.loops[i].over) \in TreeLabels(f.table)
                                         /\ f.loops[i].over \in Range(live)
                                         /\ new[f.loops[i].over] \in 1 .. L
<1>1. f.loops \in Seq(Loop)
  BY DEF FrameRight, Frame
<1>2. Len(f.loops) \in Nat /\ \A i \in 1 .. Len(f.loops) : f.loops[i] \in Loop
  BY <1>1, LenProperties, ElementOfSeq
<1>3. \A i \in 1 .. Len(f.loops) : f.loops[i].over \in Nat
  BY <1>2 DEF Loop
<1>4. \A i \in 1 .. Len(f.loops) : Temporary(f.loops[i].over) \in TreeLabels(f.table)
  BY <1>3 DEF FrameRight, LoopsRight
<1>5. NewTable(f.table, live, new, L, TableOf(new, f.table))
  BY NewTableRight
<1>6. \A i \in 1 .. Len(f.loops) : f.loops[i].over \in Range(live)
  BY <1>3, <1>4, <1>5, NewTemporaries
<1>7. \A i \in 1 .. Len(f.loops) : new[f.loops[i].over] \in 1 .. L
  BY <1>6, RenamingTypes
<1> QED
  BY <1>1, <1>2, <1>3, <1>4, <1>6, <1>7

LEMMA FrameOfIs ==
  ASSUME NEW h, NEW f, FrameRight(h, f), NEW live, NEW new, NEW L,
         Renaming(Len(h), f.table, live, new, L)
  PROVE  NewFrame(f, live, new, L, FrameOf(new, f))
<1>1. f \in Frame
  BY DEF FrameRight
<1>2. PICK u, ls, e : u = TableOf(new, f.table) /\ ls = LoopsOf(new, f.loops) /\ e = FrameOf(new, f)
  OBVIOUS
<1>3. e = [table |-> u, loops |-> ls]
  BY <1>2 DEF FrameOf
<1>4. NewTable(f.table, live, new, L, u)
  BY <1>2, NewTableRight
<1>5. NewLoops(f.loops, new, ls)
  <2>1. \A i \in 1 .. Len(f.loops) : new[f.loops[i].over] \in Nat
    <3>1. L \in Nat
      BY RenamingTypes
    <3>2. \A i \in 1 .. Len(f.loops) : new[f.loops[i].over] \in 1 .. L
      BY Zenon, LoopsLive
    <3> QED
      BY <3>1, <3>2
  <2>2. f.loops \in Seq(Loop)
    BY LoopsLive
  <2> QED
    BY <1>2, <2>1, <2>2, NewLoopsRight
<1>6. e \in Frame
  <2>1. u \in TreeTable(Byte, Nat) /\ ls \in Seq(Loop)
    BY <1>4, <1>5 DEF NewTable, TableRight, Coherent, NewLoops
  <2> QED
    BY <1>3, <2>1 DEF Frame
<1>7. e.table = u /\ e.loops = ls
  BY <1>3
<1> QED
  BY Zenon, <1>2, <1>4, <1>5, <1>6, <1>7, LoopsLive DEF NewFrame

LEMMA NewFrameSound ==
  ASSUME NEW h, NEW f, FrameRight(h, f), NEW live, NEW new, NEW L,
         Renaming(Len(h), f.table, live, new, L), NEW g, NewHeap(h, live, new, L, g),
         NEW e, NewFrame(f, live, new, L, e)
  PROVE  FrameRight(g, e)
<1>1. /\ e \in Frame /\ NewTable(f.table, live, new, L, e.table) /\ NewLoops(f.loops, new, e.loops)
      /\ Len(e.loops) = Len(f.loops) /\ Len(g) = L
      /\ \A i \in 1 .. Len(f.loops) : e.loops[i].over = new[f.loops[i].over]
  BY DEF NewFrame, NewLoops, NewHeap
<1>2. TableRight(Len(g), e.table)
  BY <1>1 DEF NewTable
<1>3. \A o \in Range(live) : new[o] \in 1 .. L /\ live[new[o]] = o
  BY RenamingTypes
<1>4. ASSUME NEW i \in 1 .. Len(e.loops)
      PROVE  e.loops[i].over \in 1 .. Len(g) /\ g[e.loops[i].over].kind # "structure"
  <2>1. PICK o : o = f.loops[i].over
    OBVIOUS
  <2>2. o \in Range(live) /\ h[o].kind # "structure"
    BY Zenon, <1>1, <2>1, LoopsLive DEF FrameRight, LoopsRight
  <2>3. new[o] \in 1 .. L /\ live[new[o]] = o
    BY <1>3, <2>2
  <2>4. g[new[o]].kind = h[live[new[o]]].kind
    BY <2>3 DEF NewHeap
  <2> QED
    BY Zenon, <1>1, <2>1, <2>2, <2>3, <2>4
<1>5. ASSUME NEW i \in 1 .. Len(e.loops), NEW j \in 1 .. Len(e.loops), e.loops[i].over = e.loops[j].over
      PROVE  i = j
  <2>1. f.loops[i].over \in Range(live) /\ f.loops[j].over \in Range(live)
    BY Zenon, <1>1, LoopsLive
  <2>2. f.loops[i].over = f.loops[j].over
    BY <1>1, <1>3, <1>5, <2>1
  <2> QED
    BY <1>1, <2>2 DEF FrameRight, LoopsRight
<1>6. ASSUME NEW o \in Nat
      PROVE  Temporary(o) \in TreeLabels(e.table) <=> \E i \in 1 .. Len(e.loops) : e.loops[i].over = o
  <2>1. ASSUME Temporary(o) \in TreeLabels(e.table)
        PROVE  \E i \in 1 .. Len(e.loops) : e.loops[i].over = o
    <3>1. PICK x \in Nat : Temporary(x) \in TreeLabels(f.table) /\ o = new[x]
      BY <1>1, <2>1, NewTemporaries
    <3>2. PICK i \in 1 .. Len(f.loops) : f.loops[i].over = x
      BY <3>1 DEF FrameRight, LoopsRight
    <3> QED
      BY <1>1, <3>1, <3>2
  <2>2. ASSUME NEW i \in 1 .. Len(e.loops), e.loops[i].over = o
        PROVE  Temporary(o) \in TreeLabels(e.table)
    <3>1. PICK x : x = f.loops[i].over
      OBVIOUS
    <3>2. x \in Nat /\ Temporary(x) \in TreeLabels(f.table)
      BY Zenon, <1>1, <3>1, LoopsLive
    <3>3. Temporary(new[x]) \in TreeLabels(e.table)
      BY <1>1, <3>2, NewTemporaries
    <3> QED
      BY <1>1, <2>2, <3>1, <3>3
  <2> QED
    BY <2>1, <2>2
<1> QED
  BY <1>1, <1>2, <1>4, <1>5, <1>6 DEF FrameRight, LoopsRight

NewFrames(fs, live, new, L, gs) ==
  /\ gs \in Seq(Frame) /\ Len(gs) = Len(fs) /\ Len(fs) \in Nat
  /\ \A i \in 1 .. Len(fs) : NewFrame(fs[i], live, new, L, gs[i])

LEMMA NewFramesRight ==
  ASSUME NEW h, NEW fs, NEW live, NEW new, NEW L, Renumbering(h, fs, live, new, L)
  PROVE  NewFrames(fs, live, new, L, FramesOf(new, fs))
<1>1. fs \in Seq(Frame) /\ Len(h) \in Nat /\ \A i \in 1 .. Len(fs) : FrameRight(h, fs[i])
  BY HeapTypes DEF Renumbering, Sound
<1>2. DOMAIN fs = 1 .. Len(fs) /\ Len(fs) \in Nat
  BY <1>1, LenProperties
<1>3. PICK gs : gs = FramesOf(new, fs)
  OBVIOUS
<1>4. gs = [i \in 1 .. Len(fs) |-> FrameOf(new, fs[i])]
  BY <1>2, <1>3 DEF FramesOf
<1>5. ASSUME NEW i \in 1 .. Len(fs)
      PROVE  NewFrame(fs[i], live, new, L, gs[i]) /\ gs[i] \in Frame
  <2>1. FrameRight(h, fs[i])
    BY <1>1
  <2>2. Renaming(Len(h), fs[i].table, live, new, L)
    BY Zenon, <1>1, <2>1 DEF Renumbering, FrameRight, Renaming
  <2>3. NewFrame(fs[i], live, new, L, FrameOf(new, fs[i]))
    BY <2>1, <2>2, FrameOfIs
  <2>4. gs[i] = FrameOf(new, fs[i])
    BY <1>4
  <2> QED
    BY <2>3, <2>4 DEF NewFrame
<1>6. gs \in Seq(Frame) /\ Len(gs) = Len(fs)
  <2>1. DOMAIN gs = DOMAIN fs /\ gs = [i \in DOMAIN gs |-> gs[i]]
    BY <1>2, <1>4
  <2>2. \A i \in DOMAIN fs : gs[i] \in Frame
    BY <1>2, <1>5
  <2> QED
    BY <1>1, <2>1, <2>2, Mapped
<1> QED
  BY <1>2, <1>3, <1>5, <1>6 DEF NewFrames

LEMMA RenumberedSound ==
  ASSUME NEW h, NEW fs, NEW live, NEW new, NEW L, Renumbering(h, fs, live, new, L),
         NEW g, NewHeap(h, live, new, L, g), NEW gs, NewFrames(fs, live, new, L, gs)
  PROVE  Sound(g, gs)
<1>1. Len(h) \in Nat /\ \A i \in 1 .. Len(fs) : FrameRight(h, fs[i])
  BY HeapTypes DEF Renumbering, Sound
<1>2. \A i \in 1 .. Len(gs) : FrameRight(g, gs[i])
  <2> TAKE i \in 1 .. Len(gs)
  <2>1. i \in 1 .. Len(fs)
    BY DEF NewFrames
  <2>2. FrameRight(h, fs[i]) /\ NewFrame(fs[i], live, new, L, gs[i])
    BY <1>1, <2>1 DEF NewFrames
  <2>3. Renaming(Len(h), fs[i].table, live, new, L)
    BY Zenon, <1>1, <2>1, <2>2 DEF Renumbering, FrameRight, Renaming
  <2> QED
    BY <2>2, <2>3, NewFrameSound
<1>3. g \in Heaps /\ Len(g) = L /\ 5 <= L /\ L \in Nat
  BY DEF NewHeap, Renumbering, Numbers
<1>4. g[Prototype].kind = "structure"
  <2>1. Prototype \in 1 .. L /\ Prototype \in 1 .. 5
    BY <1>3 DEF Prototype
  <2>2. g[Prototype].kind = h[live[Prototype]].kind
    BY <2>1 DEF NewHeap
  <2>3. live[Prototype] = Prototype
    BY Zenon, <2>1 DEF Renumbering
  <2> QED
    BY <2>2, <2>3 DEF Renumbering, Sound
<1>5. gs \in Seq(Frame) /\ 1 <= Len(gs)
  BY DEF NewFrames, Renumbering, Sound
<1>6. RefsFall(g)
  <2>1. PICK N : N = Len(h)
    OBVIOUS
  <2>0. PICK M \in Nat : \E rank \in [1 .. N -> 0 .. M] :
          \A o \in 1 .. N : h[o].kind = "reference" =>
             \A j \in 1 .. Len(h[o].items) : rank[h[o].items[j]] < rank[o]
    BY <2>1 DEF Renumbering, Sound, RefsFall
  <2>2. PICK rank \in [1 .. N -> 0 .. M] :
          \A o \in 1 .. N : h[o].kind = "reference" =>
             \A j \in 1 .. Len(h[o].items) : rank[h[o].items[j]] < rank[o]
    BY <2>0
  <2>3. PICK less : less = [n \in 1 .. L |-> rank[live[n]]]
    OBVIOUS
  <2>4. \A n \in 1 .. L : live[n] \in 1 .. N /\ less[n] = rank[live[n]]
    BY <2>1, <2>3 DEF NewHeap
  <2>5. less \in [1 .. L -> 0 .. M]
    BY <2>2, <2>3, <2>4
  <2>6. ASSUME NEW n \in 1 .. L, g[n].kind = "reference", NEW j \in 1 .. Len(g[n].items)
        PROVE  less[g[n].items[j]] < less[n]
    <3>1. PICK o, x : o = live[n] /\ x = h[live[n]].items[j]
      OBVIOUS
    <3>2. /\ o \in 1 .. N /\ h[o].kind = "reference" /\ j \in 1 .. Len(h[o].items)
          /\ g[n].items[j] = new[x] /\ x \in Range(live)
      BY <2>1, <2>6, <3>1 DEF NewHeap
    <3>3. rank[x] < rank[o]
      BY <2>2, <3>1, <3>2
    <3>4. new[x] \in 1 .. L /\ live[new[x]] = x
      BY <3>2 DEF Renumbering, Numbers
    <3> QED
      BY <2>4, <3>1, <3>2, <3>3, <3>4
  <2> QED
    BY <1>3, <2>2, <2>5, <2>6 DEF RefsFall
<1> QED
  BY <1>2, <1>3, <1>4, <1>5, <1>6 DEF Sound

(* What a statement leaves is sound if what it does is.                     *)
Leaves(s, live, g, gs) ==
  \E new, L : /\ live = Met(s.heap, Held(s.frames))
              /\ Renumbering(s.heap, s.frames, live, new, L)
              /\ NewHeap(s.heap, live, new, L, g)
              /\ NewFrames(s.frames, live, new, L, gs)

LEMMA SettleLeaves ==
  ASSUME NEW s, Sound(s.heap, s.frames), Settle(s)
  PROVE  \E live : Leaves(s, live, heap', frames')
<1>1. PICK live : live = Met(s.heap, Held(s.frames))
  OBVIOUS
<1>2. heap' = Renumbered(s, live).heap /\ frames' = Renumbered(s, live).frames
  BY <1>1 DEF Settle, Becomes
<1>3. PICK new, L : new = NewOf(live) /\ L = Len(live)
  BY Zenon
<1>4. Renumbering(s.heap, s.frames, live, new, L)
  BY <1>1, <1>3, LiveRight
<1>5. heap' = HeapOf(new, live, s.heap) /\ frames' = FramesOf(new, s.frames)
  BY <1>2, <1>3, RenumberedIs
<1>6. NewHeap(s.heap, live, new, L, HeapOf(new, live, s.heap))
  BY <1>4, NewHeapRight
<1>7. NewFrames(s.frames, live, new, L, FramesOf(new, s.frames))
  BY <1>4, NewFramesRight
<1>8. NewHeap(s.heap, live, new, L, heap') /\ NewFrames(s.frames, live, new, L, frames')
  BY <1>5, <1>6, <1>7
<1> QED
  BY <1>1, <1>4, <1>8 DEF Leaves

LEMMA SettleSound ==
  ASSUME NEW s, Sound(s.heap, s.frames), Settle(s)
  PROVE  Sound(heap', frames')
<1>1. PICK live : Leaves(s, live, heap', frames')
  BY SettleLeaves
<1> QED
  BY <1>1, RenumberedSound DEF Leaves

-----------------------------------------------------------------------------
(* What the operations on objects leave.                                    *)
Yields(h, r) == Grew(h, r.heap) /\ r.object \in 1 .. Len(r.heap)
Gives(h, r) == Grew(h, r.heap) /\ (r.object = NULL \/ r.object \in 1 .. Len(r.heap))

LEMMA GrewSame ==
  ASSUME NEW h \in Heaps
  PROVE  Grew(h, h)
<1>1. Len(h) \in Nat /\ RefsKept(h, h)
  BY HeapTypes, RefsSame
<1> QED
  BY <1>1 DEF Grew

LEMMA YieldsResult ==
  ASSUME NEW h, NEW g, Grew(h, g), NEW o \in 1 .. Len(g)
  PROVE  Yields(h, Result(g, o))
BY ResultIs DEF Yields

LEMMA GivesNothing ==
  ASSUME NEW h \in Heaps
  PROVE  Gives(h, Nothing(h))
BY ResultIs, GrewSame DEF Gives, Nothing

LEMMA GivesSame ==
  ASSUME NEW h \in Heaps, NEW o, o = NULL \/ o \in 1 .. Len(h)
  PROVE  Gives(h, Result(h, o))
BY ResultIs, GrewSame DEF Gives

LEMMA YieldsMore ==
  ASSUME NEW h, NEW g, Grew(h, g), NEW r, Yields(g, r)
  PROVE  Yields(h, r)
BY GrewTrans DEF Yields

LEMMA MarkedGrew ==
  ASSUME NEW h \in Heaps, NEW p \in 1 .. Len(h)
  PROVE  Grew(h, Marked(h, p)) /\ Len(Marked(h, p)) = Len(h)
<1>1. Len(h) \in Nat
  BY HeapTypes
<1>2. PICK g : g = Marked(h, p)
  OBVIOUS
<1>3. g \in Heaps /\ Len(g) = Len(h) /\ \A o \in 1 .. Len(h) : g[o].kind = h[o].kind
  BY <1>2, MarkedRight
<1>4. RefsKept(h, g)
  BY <1>1, <1>2, <1>3, MarkedRight, RefsSame
<1> QED
  BY <1>1, <1>2, <1>3, <1>4 DEF Grew

LEMMA FreeGrew ==
  ASSUME NEW h \in Heaps, NEW p \in 1 .. Len(h)
  PROVE  Grew(h, ob_free(h, p)) /\ Len(ob_free(h, p)) = Len(h)
<1>1. Len(h) \in Nat
  BY HeapTypes
<1>2. PICK g : g = ob_free(h, p)
  OBVIOUS
<1>3. g \in Heaps /\ Len(g) = Len(h) /\ \A o \in 1 .. Len(h) : g[o].kind = h[o].kind
  BY <1>2, FreeRight
<1>4. \A o \in 1 .. Len(h) : h[o].kind = "reference" => g[o].items = h[o].items
  BY <1>2, FreeRight DEF Collections
<1>5. RefsKept(h, g)
  BY <1>1, <1>3, <1>4, RefsSame
<1> QED
  BY <1>1, <1>2, <1>3, <1>5 DEF Grew

LEMMA CloneYields ==
  ASSUME NEW h \in Heaps, NEW o \in 1 .. Len(h)
  PROVE  Yields(h, ob_clone(h, o))
<1>1. PICK r : r = ob_clone(h, o)
  OBVIOUS
<1>2. Cloned(h, o, r)
  BY <1>1, CloneRight
<1>3. r.heap \in Heaps /\ Len(h) <= Len(r.heap) /\ \A k \in 1 .. Len(h) : r.heap[k] = h[k]
  BY <1>2 DEF Cloned, Copies
<1>6. RefsKept(h, r.heap)
  BY <1>2, RefsCopied DEF Cloned
<1>4. Len(h) \in Nat /\ Len(r.heap) \in Nat
  BY <1>3, HeapTypes
<1>5. r.object \in 1 .. Len(r.heap)
  BY <1>2, <1>4 DEF Cloned
<1> QED
  BY <1>1, <1>3, <1>5, <1>6 DEF Yields, Grew

(* The items of an object are replaced, a number is.                        *)
PutItems(h, p, items) == [h EXCEPT ![p].items = items]
PutNumber(h, p, number) == [h EXCEPT ![p].number = number]

LEMMA PutItemsRight ==
  ASSUME NEW h \in Heaps, NEW p \in 1 .. Len(h), NEW items, items \in Seq(Nat),
         Allowed(Len(h), h[p].kind, items), h[p].kind # "reference"
  PROVE  /\ Grew(h, PutItems(h, p, items)) /\ Len(PutItems(h, p, items)) = Len(h)
         /\ \A o \in 1 .. Len(h) :
              /\ PutItems(h, p, items)[o].kind = h[o].kind
              /\ PutItems(h, p, items)[o].number = h[o].number
              /\ PutItems(h, p, items)[o].referenced = h[o].referenced
              /\ PutItems(h, p, items)[o].items = IF o = p THEN items ELSE h[o].items
<1>1. Len(h) \in Nat /\ h[p] \in Thing
  BY HeapTypes
<1>2. PICK x : x = [h[p] EXCEPT !.items = items]
  BY Zenon
<1>3. x = [kind |-> h[p].kind, number |-> h[p].number, items |-> items, referenced |-> h[p].referenced]
  BY Zenon, <1>1, <1>2, ThingExcept
<1>4. x \in Thing
  BY <1>1, <1>3 DEF Thing
<1>5. Fits(Len(h), x)
  BY <1>3, <1>4 DEF Fits
<1>6. PICK g : g = PutItems(h, p, items)
  OBVIOUS
<1>7. g = Put(h, p, x)
  BY <1>2, <1>6 DEF PutItems, Put
<1>8. g \in Heaps /\ Len(g) = Len(h) /\ \A o \in 1 .. Len(h) : g[o] = IF o = p THEN x ELSE h[o]
  BY <1>5, <1>7, Changed
<1>9. \A o \in 1 .. Len(h) : /\ g[o].kind = h[o].kind /\ g[o].number = h[o].number
                             /\ g[o].referenced = h[o].referenced
                             /\ g[o].items = IF o = p THEN items ELSE h[o].items
  BY <1>3, <1>8
<1>10. RefsKept(h, g)
  BY <1>1, <1>8, <1>9, RefsSame
<1> QED
  BY <1>1, <1>6, <1>8, <1>9, <1>10 DEF Grew

LEMMA PutNumberRight ==
  ASSUME NEW h \in Heaps, NEW p \in 1 .. Len(h), NEW number \in Nat
  PROVE  /\ Grew(h, PutNumber(h, p, number)) /\ Len(PutNumber(h, p, number)) = Len(h)
         /\ \A o \in 1 .. Len(h) :
              /\ PutNumber(h, p, number)[o].kind = h[o].kind
              /\ PutNumber(h, p, number)[o].items = h[o].items
              /\ PutNumber(h, p, number)[o].referenced = h[o].referenced
              /\ PutNumber(h, p, number)[o].number = IF o = p THEN number ELSE h[o].number
<1>1. Len(h) \in Nat /\ h[p] \in Thing /\ Fits(Len(h), h[p])
  BY HeapTypes
<1>2. PICK x : x = [h[p] EXCEPT !.number = number]
  BY Zenon
<1>3. x = [kind |-> h[p].kind, number |-> number, items |-> h[p].items, referenced |-> h[p].referenced]
  BY Zenon, <1>1, <1>2, ThingExcept
<1>4. x \in Thing
  BY <1>1, <1>3 DEF Thing
<1>5. Fits(Len(h), x)
  BY <1>1, <1>3, <1>4 DEF Fits
<1>6. PICK g : g = PutNumber(h, p, number)
  OBVIOUS
<1>7. g = Put(h, p, x)
  BY <1>2, <1>6 DEF PutNumber, Put
<1>8. g \in Heaps /\ Len(g) = Len(h) /\ \A o \in 1 .. Len(h) : g[o] = IF o = p THEN x ELSE h[o]
  BY <1>5, <1>7, Changed
<1>9. \A o \in 1 .. Len(h) : /\ g[o].kind = h[o].kind /\ g[o].items = h[o].items
                             /\ g[o].referenced = h[o].referenced
                             /\ g[o].number = IF o = p THEN number ELSE h[o].number
  BY <1>3, <1>8
<1>10. RefsKept(h, g)
  BY <1>1, <1>8, <1>9, RefsSame
<1> QED
  BY <1>1, <1>6, <1>8, <1>9, <1>10 DEF Grew

LEMMA ReferredInside ==
  ASSUME NEW h \in Heaps, NEW o \in 1 .. Len(h)
  PROVE  Referred(h, o) \in 1 .. Len(h)
<1>1. PICK led \in [0 .. Len(h) -> 1 .. Len(h)] : Referred(h, o) = led[Len(h)]
  BY ReferredSteps
<1>2. Len(h) \in 0 .. Len(h)
  BY HeapTypes
<1> QED
  BY <1>1, <1>2

LEMMA TargetInside ==
  ASSUME NEW h \in Heaps, NEW o, o = NULL \/ o \in 1 .. Len(h)
  PROVE  /\ On(h, o) = NULL \/ On(h, o) \in 1 .. Len(h)
         /\ o # NULL => On(h, o) = Target(h, o)
<1>1. CASE o = NULL
  BY <1>1 DEF On
<1>2. CASE o # NULL
  <2>1. Referred(h, o) \in 1 .. Len(h)
    BY <1>2, ReferredInside
  <2> QED
    BY <1>2, <2>1 DEF On, Target
<1> QED
  BY <1>1, <1>2

LEMMA AssignYields ==
  ASSUME NEW h \in Heaps, NEW me \in 1 .. Len(h), NEW op \in 1 .. Len(h)
  PROVE  Yields(h, ob_assign(h, me, op))
<1>1. PICK t : t = Referred(h, me)
  OBVIOUS
<1>2. t \in 1 .. Len(h)
  BY <1>1, ReferredInside
<1>3. CASE h[t].kind = "number" /\ h[op].kind = "number"
  <2>1. PICK k : k = h[op].number
    OBVIOUS
  <2>2. k \in Nat
    BY <2>1, HeapTypes DEF Thing
  <2>3. Grew(h, PutNumber(h, t, k)) /\ Len(PutNumber(h, t, k)) = Len(h)
    BY <1>2, <2>2, PutNumberRight
  <2>4. Yields(h, Result(PutNumber(h, t, k), t))
    BY <1>2, <2>3, YieldsResult
  <2>5. ob_assign(h, me, op) = Result(PutNumber(h, t, k), t)
    BY <1>1, <1>3, <2>1 DEF ob_assign, PutNumber
  <2> QED
    BY <2>4, <2>5
<1>4. CASE h[t].kind = "number" /\ h[op].kind # "number"
  <2>1. ob_assign(h, me, op) = ob_clone(h, op)
    BY <1>1, <1>4 DEF ob_assign
  <2> QED
    BY <2>1, CloneYields
<1>5. CASE h[t].kind = "reference"
  <2>1. ob_assign(h, me, op) = Result(h, t)
    BY <1>1, <1>5 DEF ob_assign
  <2> QED
    BY <1>2, <2>1, GrewSame, YieldsResult
<1>6. CASE h[t].kind # "reference" /\ h[t].kind # "number"
  <2>1. ob_assign(h, me, op) = ob_clone(ob_free(h, t), op)
    BY <1>1, <1>6 DEF ob_assign
  <2>2. PICK g : g = ob_free(h, t)
    OBVIOUS
  <2>3. Grew(h, g) /\ Len(g) = Len(h) /\ g \in Heaps
    BY <1>2, <2>2, FreeGrew DEF Grew
  <2>4. Yields(g, ob_clone(g, op))
    BY <2>3, CloneYields
  <2>5. Yields(h, ob_clone(g, op))
    BY <2>3, <2>4, YieldsMore
  <2> QED
    BY <2>1, <2>2, <2>5
<1> QED
  BY <1>3, <1>4, <1>5, <1>6

LEMMA MarkedYields ==
  ASSUME NEW h \in Heaps, NEW o \in 1 .. Len(h)
  PROVE  Yields(h, Result(Marked(h, o), o))
BY MarkedGrew, YieldsResult

LEMMA StoredYields ==
  ASSUME NEW h \in Heaps, NEW o \in 1 .. Len(h)
  PROVE  /\ Yields(h, Stored(h, o)) /\ Yields(h, Item(h, o))
         /\ \A v : Yields(h, Key(h, o, v))
<1>1. Yields(h, ob_clone(h, o)) /\ Yields(h, Result(Marked(h, o), o)) /\ Yields(h, Result(h, o))
  BY CloneYields, MarkedYields, GrewSame, YieldsResult
<1> QED
  BY <1>1 DEF Stored, Item, Key

(* An object is created.                                                    *)
LEMMA CreatedYields ==
  ASSUME NEW h \in Heaps, NEW kind \in Kinds, NEW number \in Nat, NEW items \in Seq(Nat),
         Allowed(Len(h), kind, items)
  PROVE  Yields(h, Created(h, Object(kind, number, items)))
<1>1. PICK x, r : x = Object(kind, number, items) /\ r = Created(h, x)
  OBVIOUS
<1>2. Len(h) \in Nat
  BY HeapTypes
<1>3. Fits(Len(h), x)
  BY <1>1, <1>2, ObjectFits
<1>4. /\ r.heap \in Heaps /\ r.object = Len(h) + 1 /\ Len(r.heap) = Len(h) + 1
      /\ \A o \in 1 .. Len(h) : r.heap[o] = h[o]
      /\ r.heap[Len(h) + 1] = x
  BY <1>1, <1>3, CreatedRight
<1>5. RefsKept(h, r.heap)
  <2>1. x.items = items
    BY <1>1 DEF Object
  <2>2. \A j \in 1 .. Len(items) : items[j] \in 1 .. Len(h)
    BY DEF Allowed
  <2> QED
    BY <1>2, <1>4, <2>1, <2>2, RefsAdded
<1> QED
  BY <1>1, <1>2, <1>4, <1>5 DEF Yields, Grew

LEMMA OneItem ==
  ASSUME NEW n \in Nat, NEW o \in 1 .. n
  PROVE  /\ <<o>> \in Seq(Nat) /\ Len(<<o>>) = 1 /\ <<o>>[1] = o
         /\ Allowed(n, "structure", <<o>>) /\ Allowed(n, "reference", <<o>>) /\ Allowed(n, "vector", <<o>>)
<1>1. <<o>> \in Seq(Nat) /\ Len(<<o>>) = 1 /\ <<o>>[1] = o
  OBVIOUS
<1>2. PICK s : s = <<o>>
  BY Zenon
<1>3. \A j \in 1 .. Len(s) : s[j] \in 1 .. n
  BY <1>1, <1>2
<1> QED
  BY <1>1, <1>2, <1>3 DEF Allowed

LEMMA NoItems ==
  ASSUME NEW n \in Nat, NEW kind
  PROVE  <<>> \in Seq(Nat) /\ Len(<<>>) = 0 /\ Allowed(n, kind, <<>>)
<1>1. <<>> \in Seq(Nat) /\ Len(<<>>) = 0
  BY EmptySeq
<1>2. PICK s : s = <<>>
  OBVIOUS
<1>3. Len(s) = 0
  BY <1>1, <1>2
<1>4. Allowed(n, kind, s)
  BY <1>2, <1>3 DEF Allowed
<1> QED
  BY <1>1, <1>2, <1>4

LEMMA TwoItems ==
  ASSUME NEW n \in Nat, NEW k \in 1 .. n, NEW o \in 1 .. n
  PROVE  <<k, o>> \in Seq(Nat) /\ Len(<<k, o>>) = 2 /\ Allowed(n, "map", <<k, o>>)
<1>1. <<k, o>> \in Seq(Nat) /\ Len(<<k, o>>) = 2 /\ <<k, o>>[1] = k /\ <<k, o>>[2] = o
  OBVIOUS
<1>2. PICK s : s = <<k, o>>
  BY Zenon
<1>3. \A j \in 1 .. Len(s) : s[j] \in 1 .. n
  <2>1. \A j \in 1 .. Len(s) : j = 1 \/ j = 2
    BY <1>1, <1>2
  <2> QED
    BY <1>1, <1>2, <2>1
<1>4. Allowed(n, "map", s)
  BY <1>1, <1>2, <1>3 DEF Allowed
<1> QED
  BY <1>1, <1>2, <1>4

LEMMA WithYields ==
  ASSUME NEW h, NEW r, Yields(h, r)
  PROVE  /\ Yields(h, With("vector", <<>>, r))
         /\ \A k \in 1 .. Len(r.heap) : Yields(h, With("map", <<k>>, r))
<1>1. r.heap \in Heaps /\ Grew(h, r.heap) /\ r.object \in 1 .. Len(r.heap) /\ Len(r.heap) \in Nat
  BY HeapTypes DEF Yields, Grew
<1>2. PICK g, o : g = r.heap /\ o = r.object
  OBVIOUS
<1>3. Yields(h, With("vector", <<>>, r))
  <2>1. Yields(g, Created(g, Object("vector", 0, <<o>>)))
    BY Zenon, <1>1, <1>2, OneItem, CreatedYields DEF Kinds, Collections
  <2>2. Append(<<>>, o) = <<o>>
    OBVIOUS
  <2>3. With("vector", <<>>, r) = Created(g, Object("vector", 0, <<o>>))
    BY <1>2, <2>2 DEF With
  <2> QED
    BY <1>1, <1>2, <2>1, <2>3, YieldsMore
<1>4. ASSUME NEW k \in 1 .. Len(g)
      PROVE  Yields(h, With("map", <<k>>, r))
  <2>1. Yields(g, Created(g, Object("map", 0, <<k, o>>)))
    BY Zenon, <1>1, <1>2, TwoItems, CreatedYields DEF Kinds, Collections
  <2>2. Append(<<k>>, o) = <<k, o>>
    <3>1. k \in Nat /\ o \in Nat
      BY <1>1, <1>2
    <3>2. PICK s, u : s = <<k>> /\ u = <<k, o>>
      BY Zenon
    <3>3. s \in Seq(Nat) /\ Len(s) = 1 /\ s[1] = k
      BY <3>1, <3>2
    <3>4. u \in Seq(Nat) /\ Len(u) = 2 /\ u[1] = k /\ u[2] = o
      BY <3>1, <3>2
    <3>5. /\ Append(s, o) \in Seq(Nat) /\ Len(Append(s, o)) = 2
          /\ Append(s, o)[1] = k /\ Append(s, o)[2] = o
      <4>1. PICK w : w = Append(s, o)
        BY Zenon
      <4>2. /\ w \in Seq(Nat) /\ Len(w) = Len(s) + 1 /\ w[Len(s) + 1] = o
            /\ \A i \in 1 .. Len(s) : w[i] = s[i]
        <5>1. s \in Seq(Nat) /\ o \in Nat
          BY <3>1, <3>3
        <5>2. /\ Append(s, o) \in Seq(Nat) /\ Len(Append(s, o)) = Len(s) + 1
              /\ Append(s, o)[Len(s) + 1] = o /\ \A i \in 1 .. Len(s) : Append(s, o)[i] = s[i]
          BY <5>1, Appended
        <5> QED
          BY <4>1, <5>2
      <4>3. Len(s) + 1 = 2 /\ 1 \in 1 .. Len(s)
        BY <3>3
      <4>4. w[2] = o /\ w[1] = s[1] /\ Len(w) = 2
        BY <4>2, <4>3
      <4> QED
        BY <3>3, <4>1, <4>2, <4>4
    <3>6. \A i \in 1 .. 2 : Append(s, o)[i] = u[i]
      <4>1. \A i \in 1 .. 2 : i = 1 \/ i = 2
        OBVIOUS
      <4> QED
        BY <3>4, <3>5, <4>1
    <3> QED
      BY Zenon, <3>2, <3>4, <3>5, <3>6, SeqEqual
  <2>3. With("map", <<k>>, r) = Created(g, Object("map", 0, <<k, o>>))
    BY Zenon, <1>2, <2>2 DEF With
  <2> QED
    BY <1>1, <1>2, <2>1, <2>3, YieldsMore
<1> QED
  BY <1>2, <1>3, <1>4

-----------------------------------------------------------------------------
(* What an expression gives.                                                *)
LEMMA YieldsGives ==
  ASSUME NEW h, NEW r, Yields(h, r)
  PROVE  Gives(h, r)
BY DEF Yields, Gives

LEMMA FoundInside ==
  ASSUME NEW h, NEW fs, Sound(h, fs), NEW i \in 1 .. Len(fs), NEW l \in TreeLabel(Byte)
  PROVE  find(fs[i].table, l) = NULL \/ find(fs[i].table, l) \in 1 .. Len(h)
<1>1. Len(h) \in Nat /\ TableRight(Len(h), fs[i].table)
  BY HeapTypes DEF Sound, FrameRight
<1> QED
  BY <1>1, TableFind

LEMMA TopInside ==
  ASSUME NEW h, NEW fs, Sound(h, fs)
  PROVE  Len(fs) \in Nat /\ Top(fs) = Len(fs) /\ Top(fs) \in 1 .. Len(fs) /\ 1 \in 1 .. Len(fs)
<1>1. Len(fs) \in Nat /\ 1 <= Len(fs)
  BY LenProperties DEF Sound
<1> QED
  BY <1>1 DEF Top

LEMMA IdentifierInside ==
  ASSUME NEW h, NEW fs, Sound(h, fs), NEW name \in Names
  PROVE  vm_exec_identifier(fs, name) = NULL \/ vm_exec_identifier(fs, name) \in 1 .. Len(h)
<1>1. Identifier(name) \in TreeLabel(Byte)
  BY LabelForms
<1>2. PICK l : l = Identifier(name)
  OBVIOUS
<1>3. Top(fs) \in 1 .. Len(fs) /\ 1 \in 1 .. Len(fs)
  BY TopInside
<1>4. find(fs[Top(fs)].table, l) = NULL \/ find(fs[Top(fs)].table, l) \in 1 .. Len(h)
  BY <1>1, <1>2, <1>3, FoundInside
<1>5. find(fs[1].table, l) = NULL \/ find(fs[1].table, l) \in 1 .. Len(h)
  BY <1>1, <1>2, <1>3, FoundInside
<1> QED
  BY <1>2, <1>4, <1>5 DEF vm_exec_identifier, Table

(* The forms of expressions.                                                *)
AtomForm(e) ==
  e.op \in {"literal", "void", "null"} \/ (e.op = "variable" /\ e.of \in Names)

ExpressionForm(e) ==
  \/ AtomForm(e)
  \/ e.op \in {"new", "vargs"}
  \/ e.op = "array" /\ AtomForm(e.of)
  \/ e.op \in {"sum", "reference", "item", "attribute", "construct"} /\ e.of \in Names
  \/ e.op = "map" /\ AtomForm(e.key) /\ AtomForm(e.of)

LEMMA AtomsAre ==
  ASSUME NEW e \in Atoms
  PROVE  AtomForm(e) /\ ExpressionForm(e)
<1>1. CASE e \in {[op |-> op] : op \in Fixed}
  BY <1>1, MemoryAssumption DEF AtomForm, ExpressionForm
<1>2. CASE e \in {[op |-> "variable", of |-> name] : name \in Names}
  BY <1>2 DEF AtomForm, ExpressionForm
<1> QED
  BY <1>1, <1>2 DEF Atoms

LEMMA NullaryAre ==
  ASSUME NEW e \in Nullary({"null", "new", "vargs"})
  PROVE  ExpressionForm(e)
BY DEF Nullary, ExpressionForm, AtomForm

LEMMA UnaryAre ==
  ASSUME NEW e \in Unary({"sum", "reference", "item", "attribute", "construct"}, Names)
  PROVE  ExpressionForm(e)
BY DEF Unary, ExpressionForm

LEMMA ArraysAre ==
  ASSUME NEW e \in Unary({"array"}, Atoms)
  PROVE  ExpressionForm(e)
<1>1. PICK a \in Atoms : e = [op |-> "array", of |-> a]
  BY DEF Unary
<1>2. AtomForm(a)
  BY AtomsAre
<1> QED
  BY <1>1, <1>2 DEF ExpressionForm

LEMMA ExpressionsAre ==
  ASSUME NEW e \in Expressions
  PROVE  ExpressionForm(e)
<1>1. CASE e \in Atoms
  BY <1>1, AtomsAre
<1>2. CASE e \in Nullary({"null", "new", "vargs"})
  BY <1>2, NullaryAre
<1>3. CASE e \in Unary({"array"}, Atoms)
  BY <1>3, ArraysAre
<1>4. CASE e \in Unary({"sum", "reference", "item", "attribute", "construct"}, Names)
  BY <1>4, UnaryAre
<1>5. CASE e \in {[op |-> "map", key |-> [op |-> "variable", of |-> name], of |-> atom] :
                    name \in IF "map" \in Forms THEN Names ELSE {}, atom \in Atoms}
  <2>1. PICK name \in Names, a \in Atoms :
             e = [op |-> "map", key |-> [op |-> "variable", of |-> name], of |-> a]
    BY <1>5
  <2>2. AtomForm(a) /\ AtomForm([op |-> "variable", of |-> name])
    BY AtomsAre DEF AtomForm
  <2> QED
    BY <2>1, <2>2 DEF ExpressionForm
<1> QED
  BY <1>1, <1>2, <1>3, <1>4, <1>5 DEF Expressions

LEMMA ReturnedAre ==
  ASSUME NEW e \in Returned
  PROVE  ExpressionForm(e)
<1>1. CASE e \in Atoms
  BY <1>1, AtomsAre
<1>2. CASE e \in Unary({"reference"}, Names)
  BY <1>2 DEF Unary, ExpressionForm
<1> QED
  BY <1>1, <1>2 DEF Returned

LEMMA OperandsAre ==
  ASSUME NEW e \in Operands
  PROVE  ExpressionForm(e)
<1>1. CASE e \in Returned
  BY <1>1, ReturnedAre
<1>2. CASE e \in Nullary({"vargs"})
  BY <1>2 DEF Nullary, ExpressionForm
<1>3. CASE e \in Unary({"array"}, {[op |-> op] : op \in Fixed})
  <2>1. PICK op \in Fixed : e = [op |-> "array", of |-> [op |-> op]]
    BY <1>3 DEF Unary
  <2>2. AtomForm([op |-> op])
    BY MemoryAssumption DEF AtomForm
  <2> QED
    BY <2>1, <2>2 DEF ExpressionForm
<1> QED
  BY <1>1, <1>2, <1>3 DEF Operands

LEMMA ChangeableAre ==
  ASSUME NEW e \in Changeable
  PROVE  ExpressionForm(e)
BY DEF Changeable, ExpressionForm, AtomForm

(* Operands.                                                                *)
LEMMA StaticsInside ==
  ASSUME NEW h, NEW fs, Sound(h, fs), NEW k \in 1 .. 5
  PROVE  k \in 1 .. Len(h)
<1>1. Len(h) \in Nat /\ 5 <= Len(h)
  BY HeapTypes DEF Sound
<1> QED
  BY <1>1

LEMMA AtomGives ==
  ASSUME NEW h, NEW fs, Sound(h, fs), NEW e, AtomForm(e)
  PROVE  Gives(h, Atom(h, fs, e)) /\ Atom(h, fs, e).heap = h
<1>1. h \in Heaps /\ Literal \in 1 .. Len(h) /\ Void \in 1 .. Len(h) /\ Null \in 1 .. Len(h)
  BY StaticsInside DEF Literal, Void, Null, Sound
<1>2. CASE e.op = "literal"
  <2>1. Atom(h, fs, e) = Result(h, Literal)
    BY <1>2 DEF Atom
  <2> QED
    BY <1>1, <2>1, GivesSame, ResultIs
<1>3. CASE e.op = "void"
  <2>1. Atom(h, fs, e) = Result(h, Void)
    BY <1>3 DEF Atom
  <2> QED
    BY <1>1, <2>1, GivesSame, ResultIs
<1>4. CASE e.op = "null"
  <2>1. Atom(h, fs, e) = Result(h, Null)
    BY <1>4 DEF Atom
  <2> QED
    BY <1>1, <2>1, GivesSame, ResultIs
<1>5. CASE e.op = "variable" /\ e.of \in Names
  <2>1. Atom(h, fs, e) = Result(h, vm_exec_identifier(fs, e.of))
    BY <1>5 DEF Atom
  <2>2. PICK o : o = vm_exec_identifier(fs, e.of)
    OBVIOUS
  <2>3. o = NULL \/ o \in 1 .. Len(h)
    BY <1>5, <2>2, IdentifierInside
  <2> QED
    BY <1>1, <2>1, <2>2, <2>3, GivesSame, ResultIs
<1> QED
  BY <1>2, <1>3, <1>4, <1>5 DEF AtomForm

LEMMA ArrayGives ==
  ASSUME NEW h, NEW fs, Sound(h, fs), NEW e, AtomForm(e.of)
  PROVE  Gives(h, vm_exec_array(h, fs, e))
<1>1. h \in Heaps
  BY DEF Sound
<1>2. PICK v : v = Atom(h, fs, e.of).object
  OBVIOUS
<1>3. v = NULL \/ v \in 1 .. Len(h)
  BY <1>2, AtomGives DEF Gives
<1>4. CASE v = NULL
  <2>1. vm_exec_array(h, fs, e) = Nothing(h)
    BY <1>2, <1>4 DEF vm_exec_array
  <2> QED
    BY <1>1, <2>1, GivesNothing
<1>5. CASE v # NULL
  <2>1. vm_exec_array(h, fs, e) = With("vector", <<>>, Item(h, v))
    BY <1>2, <1>5 DEF vm_exec_array
  <2>2. Yields(h, Item(h, v))
    BY <1>1, <1>3, <1>5, StoredYields
  <2>3. Yields(h, With("vector", <<>>, Item(h, v)))
    BY <2>2, WithYields
  <2> QED
    BY <2>1, <2>3, YieldsGives
<1> QED
  BY <1>4, <1>5

LEMMA MapGives ==
  ASSUME NEW h, NEW fs, Sound(h, fs), NEW e, AtomForm(e.key), AtomForm(e.of)
  PROVE  Gives(h, vm_exec_map(h, fs, e))
<1>1. h \in Heaps
  BY DEF Sound
<1>2. PICK k, v : k = Atom(h, fs, e.key).object /\ v = Atom(h, fs, e.of).object
  OBVIOUS
<1>3. (k = NULL \/ k \in 1 .. Len(h)) /\ (v = NULL \/ v \in 1 .. Len(h))
  BY <1>2, AtomGives DEF Gives
<1>4. CASE NULL \in {k, v}
  <2>1. vm_exec_map(h, fs, e) = Nothing(h)
    BY <1>2, <1>4 DEF vm_exec_map
  <2> QED
    BY <1>1, <2>1, GivesNothing
<1>5. CASE NULL \notin {k, v}
  <2>1. k \in 1 .. Len(h) /\ v \in 1 .. Len(h)
    BY <1>3, <1>5
  <2>2. PICK key : key = Key(h, k, v)
    OBVIOUS
  <2>3. vm_exec_map(h, fs, e) = With("map", <<key.object>>, Item(key.heap, v))
    BY <1>2, <1>5, <2>2 DEF vm_exec_map
  <2>4. Yields(h, key)
    BY <1>1, <2>1, <2>2, StoredYields
  <2>5. Grew(h, key.heap) /\ key.heap \in Heaps /\ key.object \in 1 .. Len(key.heap)
    BY <2>4 DEF Yields, Grew
  <2>6. v \in 1 .. Len(key.heap) /\ Len(key.heap) \in Nat
    <3>1. Len(h) \in Nat /\ Len(key.heap) \in Nat /\ Len(h) <= Len(key.heap)
      BY <1>1, <2>5, HeapTypes DEF Grew
    <3> QED
      BY <2>1, <3>1
  <2>7. PICK r : r = Item(key.heap, v)
    OBVIOUS
  <2>8. Yields(key.heap, r)
    BY <2>5, <2>6, <2>7, StoredYields
  <2>9. key.object \in 1 .. Len(r.heap)
    <3>1. Len(r.heap) \in Nat /\ Len(key.heap) <= Len(r.heap)
      BY <2>8, HeapTypes DEF Yields, Grew
    <3> QED
      BY <2>5, <2>6, <3>1
  <2>10. Yields(h, r)
    BY <2>5, <2>8, YieldsMore
  <2>11. Yields(h, With("map", <<key.object>>, r))
    BY <2>9, <2>10, WithYields
  <2> QED
    BY <2>3, <2>7, <2>11, YieldsGives
<1> QED
  BY <1>4, <1>5

LEMMA ReferenceGives ==
  ASSUME NEW h, NEW fs, Sound(h, fs), NEW e, e.of \in Names
  PROVE  Gives(h, vm_exec_reference(h, fs, e))
<1>1. h \in Heaps
  BY DEF Sound
<1>2. PICK o : o = vm_exec_identifier(fs, e.of)
  OBVIOUS
<1>3. o = NULL \/ o \in 1 .. Len(h)
  BY <1>2, IdentifierInside
<1>4. CASE o = NULL
  <2>1. vm_exec_reference(h, fs, e) = Nothing(h)
    BY <1>2, <1>4 DEF vm_exec_reference
  <2> QED
    BY <1>1, <2>1, GivesNothing
<1>5. CASE o # NULL
  <2>1. PICK g : g = Marked(h, o)
    OBVIOUS
  <2>2. vm_exec_reference(h, fs, e) = Created(g, Object("reference", 0, <<o>>))
    BY <1>2, <1>5, <2>1 DEF vm_exec_reference
  <2>3. Grew(h, g) /\ Len(g) = Len(h) /\ g \in Heaps
    BY <1>1, <1>3, <1>5, <2>1, MarkedGrew DEF Grew
  <2>4. Len(g) \in Nat /\ o \in 1 .. Len(g)
    BY <1>3, <1>5, <2>3, HeapTypes
  <2>5. <<o>> \in Seq(Nat) /\ Allowed(Len(g), "reference", <<o>>)
    BY <2>4, OneItem
  <2>6. Yields(g, Created(g, Object("reference", 0, <<o>>)))
    <3>1. "reference" \in Kinds
      BY DEF Kinds
    <3>2. PICK s : s = <<o>>
      BY Zenon
    <3> QED
      BY Zenon, <2>3, <2>5, <3>1, <3>2, CreatedYields
  <2>7. Yields(h, Created(g, Object("reference", 0, <<o>>)))
    BY <2>3, <2>6, YieldsMore
  <2> QED
    BY <2>2, <2>7, YieldsGives
<1> QED
  BY <1>4, <1>5

(* Attributes.                                                              *)
LEMMA AttributeReferenceGrew ==
  ASSUME NEW r, r.heap \in Heaps, r.object \in 1 .. Len(r.heap),
         NEW me \in 1 .. Len(r.heap), r.heap[me].kind = "structure"
  PROVE  Grew(r.heap, set_attribute_reference(me, r))
<1>1. PICK old : old = r.heap[me].items
  OBVIOUS
<1>2. PICK new : new = IF old = <<>> THEN r ELSE ob_assign(r.heap, old[1], r.object)
  OBVIOUS
<1>3. set_attribute_reference(me, r) = PutItems(new.heap, me, <<new.object>>)
  BY <1>1, <1>2 DEF set_attribute_reference, PutItems
<1>4. Grew(r.heap, new.heap) /\ new.object \in 1 .. Len(new.heap)
  <2>1. CASE old = <<>>
    BY <1>2, <2>1, GrewSame
  <2>2. CASE old # <<>>
    <3>1. old \in Seq(1 .. Len(r.heap))
      BY <1>1, HeapItems
    <3>2. Len(old) \in Nat /\ Len(old) # 0
      BY <2>2, <3>1, LenProperties, EmptySeq
    <3>3. old[1] \in 1 .. Len(r.heap)
      BY <3>1, <3>2, ElementOfSeq
    <3>4. Yields(r.heap, ob_assign(r.heap, old[1], r.object))
      BY <3>3, AssignYields
    <3> QED
      BY <1>2, <2>2, <3>4 DEF Yields
  <2> QED
    BY <2>1, <2>2
<1>5. /\ new.heap \in Heaps /\ Len(new.heap) \in Nat /\ me \in 1 .. Len(new.heap)
      /\ new.heap[me].kind = "structure"
  <2>1. Len(r.heap) \in Nat /\ Len(new.heap) \in Nat /\ Len(r.heap) <= Len(new.heap)
    BY <1>4, HeapTypes DEF Grew
  <2> QED
    BY <1>4, <2>1 DEF Grew
<1>6. PICK s : s = <<new.object>>
  BY Zenon
<1>7. s \in Seq(Nat) /\ Allowed(Len(new.heap), new.heap[me].kind, s)
  BY <1>4, <1>5, <1>6, OneItem
<1>8. Grew(new.heap, PutItems(new.heap, me, s))
  BY <1>5, <1>7, PutItemsRight
<1> QED
  BY <1>3, <1>4, <1>6, <1>8, GrewTrans

LEMMA AttributeGrew ==
  ASSUME NEW h \in Heaps, NEW me \in 1 .. Len(h), h[me].kind = "structure", NEW o \in 1 .. Len(h)
  PROVE  Grew(h, set_attribute(h, me, o))
<1>1. PICK r : r = Item(h, o)
  OBVIOUS
<1>2. Yields(h, r)
  BY <1>1, StoredYields
<1>3. Grew(h, r.heap) /\ r.heap \in Heaps /\ r.object \in 1 .. Len(r.heap)
  BY <1>2 DEF Yields, Grew
<1>4. me \in 1 .. Len(r.heap) /\ r.heap[me].kind = "structure"
  <2>1. Len(h) \in Nat /\ Len(r.heap) \in Nat /\ Len(h) <= Len(r.heap)
    BY <1>3, HeapTypes DEF Grew
  <2> QED
    BY <1>3, <2>1 DEF Grew
<1>5. Grew(r.heap, set_attribute_reference(me, r))
  BY <1>3, <1>4, AttributeReferenceGrew
<1>6. Grew(h, set_attribute_reference(me, r))
  BY <1>3, <1>5, GrewTrans
<1> QED
  BY <1>1, <1>6 DEF set_attribute

LEMMA NewGives ==
  ASSUME NEW h, NEW fs, Sound(h, fs), NEW e, e.of \in Names
  PROVE  Gives(h, vm_exec_new(h, fs, e))
<1>1. h \in Heaps /\ Prototype \in 1 .. Len(h) /\ h[Prototype].kind = "structure"
  BY StaticsInside DEF Sound, Prototype
<1>2. PICK o, s : o = vm_exec_identifier(fs, e.of) /\ s = ob_clone(h, Prototype)
  OBVIOUS
<1>3. o = NULL \/ o \in 1 .. Len(h)
  BY <1>2, IdentifierInside
<1>4. CASE o = NULL
  <2>1. vm_exec_new(h, fs, e) = Nothing(h)
    BY <1>2, <1>4 DEF vm_exec_new
  <2> QED
    BY <1>1, <2>1, GivesNothing
<1>5. CASE o # NULL
  <2>1. vm_exec_new(h, fs, e) = Result(set_attribute(s.heap, s.object, o), s.object)
    BY <1>2, <1>5 DEF vm_exec_new
  <2>2. Cloned(h, Prototype, s) /\ Yields(h, s)
    BY <1>1, <1>2, CloneRight, CloneYields
  <2>3. /\ Grew(h, s.heap) /\ s.heap \in Heaps /\ s.object \in 1 .. Len(s.heap)
        /\ s.heap[s.object].kind = "structure"
    BY <1>1, <2>2 DEF Cloned, Yields, Grew
  <2>4. o \in 1 .. Len(s.heap)
    <3>1. Len(h) \in Nat /\ Len(s.heap) \in Nat /\ Len(h) <= Len(s.heap)
      BY <1>1, <2>3, HeapTypes DEF Grew
    <3> QED
      BY <1>3, <1>5, <3>1
  <2>5. PICK g : g = set_attribute(s.heap, s.object, o)
    OBVIOUS
  <2>6. Grew(s.heap, g)
    BY <2>3, <2>4, <2>5, AttributeGrew
  <2>7. Grew(h, g)
    BY <2>3, <2>6, GrewTrans
  <2>8. s.object \in 1 .. Len(g)
    <3>1. Len(s.heap) \in Nat /\ Len(g) \in Nat /\ Len(s.heap) <= Len(g)
      BY <2>3, <2>6, HeapTypes DEF Grew
    <3> QED
      BY <2>3, <3>1
  <2>9. Yields(h, Result(g, s.object))
    BY <2>7, <2>8, YieldsResult
  <2> QED
    BY <2>1, <2>5, <2>9, YieldsGives
<1> QED
  BY <1>4, <1>5

LEMMA ItemOfGives ==
  ASSUME NEW h \in Heaps, NEW t, t = NULL \/ t \in 1 .. Len(h), NEW kind
  PROVE  Gives(h, ItemOf(h, t, kind))
<1>1. CASE Is(h, t, kind) /\ h[t].items # <<>>
  <2>1. t \in 1 .. Len(h)
    BY <1>1 DEF Is
  <2>2. PICK items : items = h[t].items
    OBVIOUS
  <2>3. items \in Seq(1 .. Len(h))
    BY <2>1, <2>2, HeapItems
  <2>4. Len(items) \in Nat /\ Len(items) # 0
    BY <1>1, <2>2, <2>3, LenProperties, EmptySeq
  <2>5. items[1] \in 1 .. Len(h)
    BY <2>3, <2>4, ElementOfSeq
  <2>6. ItemOf(h, t, kind) = Result(h, items[1])
    BY <1>1, <2>2 DEF ItemOf
  <2> QED
    BY <2>5, <2>6, GivesSame
<1>2. CASE ~(Is(h, t, kind) /\ h[t].items # <<>>)
  <2>1. ItemOf(h, t, kind) = Result(h, NULL)
    BY <1>2 DEF ItemOf
  <2> QED
    BY <2>1, GivesSame
<1> QED
  BY <1>1, <1>2

LEMMA Wrapped ==
  ASSUME NEW n \in Nat
  PROVE  (n + 1) % (MaxNumber + 1) \in Nat
<1>1. MaxNumber \in Nat
  BY MemoryAssumption
<1>2. \A a \in Nat, b \in Nat \ {0} : a % b \in Nat
  OBVIOUS
<1> QED
  BY <1>1, <1>2

LEMMA SumGives ==
  ASSUME NEW h \in Heaps, NEW t, t = NULL \/ t \in 1 .. Len(h)
  PROVE  Gives(h, vm_exec_add(h, t))
<1>1. CASE Is(h, t, "number")
  <2>1. t \in 1 .. Len(h)
    BY <1>1 DEF Is
  <2>2. h[t].number \in Nat
    BY <2>1, HeapTypes DEF Thing
  <2>3. PICK k : k = (h[t].number + 1) % (MaxNumber + 1)
    OBVIOUS
  <2>4. k \in Nat
    BY <2>2, <2>3, Wrapped
  <2>5. PICK s : s = <<>>
    OBVIOUS
  <2>6. s \in Seq(Nat) /\ Allowed(Len(h), "number", s) /\ "number" \in Kinds
    BY <2>5, NoItems, HeapTypes DEF Kinds
  <2>7. Yields(h, Created(h, Object("number", k, s)))
    BY <2>4, <2>6, CreatedYields
  <2>8. vm_exec_add(h, t) = Created(h, Object("number", k, s))
    BY <1>1, <2>3, <2>5 DEF vm_exec_add
  <2> QED
    BY <2>7, <2>8, YieldsGives
<1>2. CASE ~Is(h, t, "number")
  <2>1. vm_exec_add(h, t) = Nothing(h)
    BY <1>2 DEF vm_exec_add
  <2> QED
    BY <2>1, GivesNothing
<1> QED
  BY <1>1, <1>2

-----------------------------------------------------------------------------
(* The variable arguments: all that a frame holds is marked and cloned.     *)
MarkedAll(h, held) == [o \in DOMAIN h |-> IF o \in Range(held) THEN Marked(h, o)[o] ELSE h[o]]

(* A heap that differs in the flags only.                                   *)
Flagged(h, g) ==
  /\ h \in Heaps /\ g \in Heaps /\ Len(g) = Len(h)
  /\ \A o \in 1 .. Len(h) : /\ g[o].kind = h[o].kind /\ g[o].number = h[o].number
                            /\ g[o].items = h[o].items /\ (h[o].referenced => g[o].referenced)

LEMMA MarkedAllRight ==
  ASSUME NEW h \in Heaps, NEW held
  PROVE  /\ Flagged(h, MarkedAll(h, held))
         /\ \A o \in 1 .. Len(h) : MarkedAll(h, held)[o].referenced <=> o \in Range(held) \/ h[o].referenced
<1>1. h \in Seq(Thing) /\ Len(h) \in Nat /\ DOMAIN h = 1 .. Len(h)
  BY HeapTypes
<1>2. PICK g : g = MarkedAll(h, held)
  OBVIOUS
<1>3. DOMAIN g = DOMAIN h /\ g = [o \in DOMAIN g |-> g[o]]
      /\ \A o \in 1 .. Len(h) : g[o] = IF o \in Range(held) THEN Marked(h, o)[o] ELSE h[o]
  BY <1>1, <1>2 DEF MarkedAll
<1>4. ASSUME NEW o \in 1 .. Len(h)
      PROVE  /\ g[o].kind = h[o].kind /\ g[o].number = h[o].number /\ g[o].items = h[o].items
             /\ g[o].referenced <=> o \in Range(held) \/ h[o].referenced
             /\ Fits(Len(h), g[o])
  <2>1. PICK m : m = Marked(h, o)
    OBVIOUS
  <2>2. /\ m \in Heaps /\ Len(m) = Len(h) /\ m[o].kind = h[o].kind /\ m[o].number = h[o].number
        /\ m[o].items = h[o].items /\ m[o].referenced
    BY <2>1, MarkedRight
  <2>3. Fits(Len(h), m[o]) /\ Fits(Len(h), h[o])
    BY <2>2, HeapTypes
  <2>4. CASE o \in Range(held)
    BY <1>3, <2>1, <2>2, <2>3, <2>4
  <2>5. CASE o \notin Range(held)
    BY <1>3, <2>3, <2>5
  <2> QED
    BY <2>4, <2>5
<1>5. g \in Seq(Thing) /\ Len(g) = Len(h)
  <2>1. \A o \in DOMAIN h : g[o] \in Thing
    BY <1>1, <1>4 DEF Fits
  <2> QED
    BY <1>1, <1>3, <2>1, Mapped
<1>6. g \in Heaps
  BY <1>4, <1>5, HeapIs
<1> QED
  BY <1>2, <1>4, <1>5, <1>6 DEF Flagged

LEMMA FlaggedGrew ==
  ASSUME NEW h, NEW g, Flagged(h, g)
  PROVE  Grew(h, g)
<1>1. Len(h) \in Nat
  BY HeapTypes DEF Flagged
<1>2. RefsKept(h, g)
  BY <1>1, RefsSame DEF Flagged
<1> QED
  BY <1>1, <1>2 DEF Flagged, Grew

LEMMA ValuesInside ==
  ASSUME NEW h, NEW fs, Sound(h, fs), NEW i \in 1 .. Len(fs)
  PROVE  Values(fs[i]) \in Seq(1 .. Len(h))
<1>1. fs[i] \in Frame /\ TableRight(Len(h), fs[i].table)
  BY DEF Sound, FrameRight
<1>2. PICK v, S : v = Values(fs[i]) /\ S = 1 .. Len(h)
  OBVIOUS
<1>3. /\ v \in Seq(Nat) /\ Len(v) = Len(fs[i].table.map)
      /\ \A j \in 1 .. Len(fs[i].table.map) : v[j] = fs[i].table.map[j].value
  BY Zenon, <1>1, <1>2, ValuesAre
<1>4. \A j \in 1 .. Len(v) : v[j] \in S
  BY Zenon, <1>1, <1>2, <1>3 DEF TableRight
<1>5. v \in Seq(S)
  BY <1>3, <1>4, Retyped
<1> QED
  BY <1>2, <1>5

VargsOf(h, held, m, all, r) ==
  /\ h \in Heaps /\ held \in Seq(1 .. Len(h)) /\ m = MarkedAll(h, held) /\ Flagged(h, m)
  /\ AllCloned(m, held, Len(held), all) /\ Len(held) \in Nat
  /\ Collecting(m, all, "vector", r)

LEMMA VargsIs ==
  ASSUME NEW h, NEW fs, Sound(h, fs)
  PROVE  \E m, all : VargsOf(h, Values(fs[Top(fs)]), m, all, vm_exec_vargs(h, fs))
<1>1. PICK held : held = Values(fs[Top(fs)])
  OBVIOUS
<1>2. held \in Seq(1 .. Len(h)) /\ h \in Heaps
  BY <1>1, TopInside, ValuesInside DEF Sound
<1>3. PICK m : m = MarkedAll(h, held)
  OBVIOUS
<1>4. Flagged(h, m)
  BY <1>2, <1>3, MarkedAllRight
<1>5. m \in Heaps /\ held \in Seq(1 .. Len(m)) /\ Len(held) \in Nat
  BY <1>2, <1>4, LenProperties DEF Flagged
<1>6. PICK all : all = CloneItems(m, held)
  OBVIOUS
<1>7. AllCloned(m, held, Len(held), all)
  BY <1>5, <1>6, CloneItemsRight
<1>8. vm_exec_vargs(h, fs) = Created(all.heap, Object("vector", 0, all.items))
  BY <1>1, <1>3, <1>6 DEF vm_exec_vargs, MarkedAll, Values, Table
<1>9. Collected(m, all, "vector", vm_exec_vargs(h, fs))
  <2>1. "vector" \in Collections /\ Paired("vector", Len(held))
    BY DEF Collections, Paired
  <2> QED
    BY <1>5, <1>7, <1>8, <2>1 DEF Collected
<1>10. Collecting(m, all, "vector", vm_exec_vargs(h, fs))
  BY <1>9, CopyCollection
<1> QED
  BY <1>1, <1>2, <1>3, <1>4, <1>5, <1>7, <1>10 DEF VargsOf

LEMMA VargsGives ==
  ASSUME NEW h, NEW fs, Sound(h, fs)
  PROVE  Gives(h, vm_exec_vargs(h, fs))
<1>1. PICK r : r = vm_exec_vargs(h, fs)
  OBVIOUS
<1>2. PICK m, all : VargsOf(h, Values(fs[Top(fs)]), m, all, r)
  BY <1>1, VargsIs
<1>3. Flagged(h, m) /\ Collecting(m, all, "vector", r)
  BY <1>2 DEF VargsOf
<1>4. Grew(h, m)
  BY <1>3, FlaggedGrew
<1>5. /\ m \in Heaps /\ r.heap \in Heaps /\ Len(m) <= Len(r.heap) /\ \A k \in 1 .. Len(m) : r.heap[k] = m[k]
      /\ r.object = Len(all.heap) + 1 /\ Len(r.heap) = Len(all.heap) + 1 /\ r.object > Len(m)
  BY <1>3 DEF Collecting, Copies
<1>6. Len(m) \in Nat /\ Len(r.heap) \in Nat
  BY <1>5, HeapTypes
<1>7. r.object \in 1 .. Len(r.heap)
  BY <1>5, <1>6
<1>8. Grew(m, r.heap)
  <2>1. RefsKept(m, r.heap)
    BY <1>3, RefsCopied DEF Collecting
  <2> QED
    BY <1>5, <2>1 DEF Grew
<1>9. Yields(m, r)
  BY <1>7, <1>8 DEF Yields
<1>10. Yields(h, r)
  BY <1>4, <1>9, YieldsMore
<1> QED
  BY <1>1, <1>10, YieldsGives

-----------------------------------------------------------------------------
(* Every expression.                                                        *)
LEMMA ExecGives ==
  ASSUME NEW h, NEW fs, Sound(h, fs), NEW e, ExpressionForm(e)
  PROVE  Gives(h, vm_exec(h, fs, e))
<1>1. h \in Heaps
  BY DEF Sound
<1>2. CASE AtomForm(e)
  <2>1. vm_exec(h, fs, e) = Atom(h, fs, e)
    BY <1>2 DEF vm_exec, AtomForm
  <2> QED
    BY <1>2, <2>1, AtomGives
<1>3. CASE e.op = "new"
  <2>1. vm_exec(h, fs, e) = ob_clone(h, Prototype)
    BY <1>3 DEF vm_exec
  <2>2. Prototype \in 1 .. Len(h)
    BY StaticsInside DEF Prototype
  <2> QED
    BY <1>1, <2>1, <2>2, CloneYields, YieldsGives
<1>4. CASE e.op = "vargs"
  <2>1. vm_exec(h, fs, e) = vm_exec_vargs(h, fs)
    BY <1>4 DEF vm_exec
  <2> QED
    BY <2>1, VargsGives
<1>5. CASE e.op = "array" /\ AtomForm(e.of)
  <2>1. vm_exec(h, fs, e) = vm_exec_array(h, fs, e)
    BY <1>5 DEF vm_exec
  <2> QED
    BY <1>5, <2>1, ArrayGives
<1>6. CASE e.op = "map" /\ AtomForm(e.key) /\ AtomForm(e.of)
  <2>1. vm_exec(h, fs, e) = vm_exec_map(h, fs, e)
    BY <1>6 DEF vm_exec
  <2> QED
    BY <1>6, <2>1, MapGives
<1>7. CASE e.op = "construct" /\ e.of \in Names
  <2>1. vm_exec(h, fs, e) = vm_exec_new(h, fs, e)
    BY <1>7 DEF vm_exec
  <2> QED
    BY <1>7, <2>1, NewGives
<1>8. CASE e.op = "reference" /\ e.of \in Names
  <2>1. vm_exec(h, fs, e) = vm_exec_reference(h, fs, e)
    BY <1>8 DEF vm_exec
  <2> QED
    BY <1>8, <2>1, ReferenceGives
<1>9. CASE e.op \in {"sum", "item", "attribute"} /\ e.of \in Names
  <2>1. PICK o, t : o = vm_exec_identifier(fs, e.of) /\ t = On(h, o)
    OBVIOUS
  <2>2. t = NULL \/ t \in 1 .. Len(h)
    <3>1. o = NULL \/ o \in 1 .. Len(h)
      BY <1>9, <2>1, IdentifierInside
    <3> QED
      BY <1>1, <2>1, <3>1, TargetInside
  <2>3. vm_exec(h, fs, e) = IF e.op = "sum" THEN vm_exec_add(h, t)
                            ELSE IF e.op = "item" THEN ItemOf(h, t, "vector") ELSE ItemOf(h, t, "structure")
    BY <1>9, <2>1 DEF vm_exec
  <2>4. Gives(h, vm_exec_add(h, t)) /\ Gives(h, ItemOf(h, t, "vector")) /\ Gives(h, ItemOf(h, t, "structure"))
    BY <1>1, <2>2, SumGives, ItemOfGives
  <2> QED
    BY <2>3, <2>4
<1> QED
  BY <1>2, <1>3, <1>4, <1>5, <1>6, <1>7, <1>8, <1>9 DEF ExpressionForm

(* The value of an expression and the frames as they were.                  *)
LEMMA ValueSound ==
  ASSUME NEW e, Sound(heap, frames), ExpressionForm(e)
  PROVE  /\ Gives(heap, Value(e)) /\ Sound(Value(e).heap, frames)
         /\ Value(e).object = NULL \/ Value(e).object \in 1 .. Len(Value(e).heap)
<1>1. Gives(heap, Value(e))
  BY ExecGives DEF Value
<1>2. Grew(heap, Value(e).heap)
  BY <1>1 DEF Gives
<1> QED
  BY <1>1, <1>2, SoundMore DEF Gives

-----------------------------------------------------------------------------
(* A value is added to a frame.                                             *)
Adds(h, t, name, r) ==
  /\ Grew(h, r.heap) /\ TableRight(Len(r.heap), r.table)
  /\ TreeLabels(r.table) = TreeLabels(t) \union {Identifier(name)}

LEMMA AddRight ==
  ASSUME NEW h \in Heaps, NEW t, TableRight(Len(h), t), NEW name \in Names, NEW o \in 1 .. Len(h)
  PROVE  Adds(h, t, name, add(h, t, name, o))
<1>1. PICK next, prev, l : next = Stored(h, o) /\ prev = find(t, Identifier(name)) /\ l = Identifier(name)
  OBVIOUS
<1>2. Yields(h, next)
  BY <1>1, StoredYields
<1>3. Grew(h, next.heap) /\ next.object \in 1 .. Len(next.heap) /\ next.heap \in Heaps
      /\ Len(h) \in Nat /\ Len(next.heap) \in Nat /\ Len(h) <= Len(next.heap)
  BY <1>2, HeapTypes DEF Yields, Grew
<1>4. TableRight(Len(next.heap), t)
  BY <1>3, TableMore
<1>5. l \in TreeLabel(Byte)
  BY <1>1, LabelForms
<1>6. /\ l \in TreeLabels(t) => prev \in 1 .. Len(next.heap)
      /\ prev # NULL <=> l \in TreeLabels(t)
  BY <1>1, <1>3, <1>4, <1>5, TableFind
<1>7. CASE prev = NULL
  <2>1. add(h, t, name, o) = [heap |-> next.heap, table |-> insert(t, l, next.object)]
    BY <1>1, <1>7 DEF add
  <2>2. l \in TreeLabel(Byte) \ TreeLabels(t)
    BY <1>5, <1>6, <1>7
  <2>3. LabelRight(l, next.object)
    BY <1>1 DEF LabelRight
  <2>4. /\ TableRight(Len(next.heap), insert(t, l, next.object))
        /\ TreeLabels(insert(t, l, next.object)) = TreeLabels(t) \union {l}
    BY <1>3, <1>4, <2>2, <2>3, TableInsert
  <2> QED
    BY <1>1, <1>3, <2>1, <2>4 DEF Adds
<1>8. CASE prev # NULL /\ Refers(next.heap, prev)
  <2>1. PICK r : r = ob_assign(next.heap, prev, next.object)
    OBVIOUS
  <2>2. add(h, t, name, o) = [heap |-> r.heap, table |-> t]
    BY <1>1, <1>8, <2>1 DEF add
  <2>3. Yields(next.heap, r)
    BY <1>3, <1>6, <1>8, <2>1, AssignYields
  <2>4. Grew(next.heap, r.heap) /\ Len(r.heap) \in Nat /\ Len(next.heap) <= Len(r.heap)
    BY <2>3, HeapTypes DEF Yields, Grew
  <2>5. TableRight(Len(r.heap), t)
    BY <1>3, <1>4, <2>4, TableMore
  <2>6. TreeLabels(t) = TreeLabels(t) \union {l}
    BY <1>6, <1>8
  <2>7. Grew(h, r.heap)
    BY <1>3, <2>4, GrewTrans
  <2> QED
    BY <1>1, <2>2, <2>5, <2>6, <2>7 DEF Adds
<1>9. CASE prev # NULL /\ ~Refers(next.heap, prev)
  <2>1. PICK g : g = ob_free(next.heap, prev)
    OBVIOUS
  <2>2. add(h, t, name, o) = [heap |-> g, table |-> replace(t, l, next.object)]
    BY <1>1, <1>9, <2>1 DEF add
  <2>3. Grew(next.heap, g) /\ Len(g) = Len(next.heap)
    BY <1>3, <1>6, <1>9, <2>1, FreeGrew
  <2>4. l \in TreeLabels(t)
    BY <1>6, <1>9
  <2>5. /\ TableRight(Len(g), replace(t, l, next.object))
        /\ TreeLabels(replace(t, l, next.object)) = TreeLabels(t)
    BY <1>1, <1>3, <1>4, <2>3, <2>4, TableReplace
  <2>6. TreeLabels(t) = TreeLabels(t) \union {l}
    BY <2>4
  <2>7. Grew(h, g)
    BY <1>3, <2>3, GrewTrans
  <2> QED
    BY <1>1, <2>2, <2>5, <2>6, <2>7 DEF Adds
<1> QED
  BY <1>7, <1>8, <1>9

(* A table with the same temporaries takes the place of that of a frame.    *)
WithTable(f, u) == [f EXCEPT !.table = u]
SameTemporaries(t, u) == \A o \in Nat : Temporary(o) \in TreeLabels(u) <=> Temporary(o) \in TreeLabels(t)

LEMMA TablePut ==
  ASSUME NEW h, NEW f, FrameRight(h, f), NEW u, TableRight(Len(h), u), SameTemporaries(f.table, u)
  PROVE  FrameRight(h, WithTable(f, u)) /\ WithTable(f, u).loops = f.loops /\ WithTable(f, u).table = u
<1>1. f \in Frame
  BY DEF FrameRight
<1>2. PICK e : e = WithTable(f, u)
  OBVIOUS
<1>3. e = [table |-> u, loops |-> f.loops]
  BY Zenon, <1>1, <1>2, FrameExcept DEF WithTable
<1>4. e.table = u /\ e.loops = f.loops
  BY <1>3
<1>5. e \in Frame
  <2>1. u \in TreeTable(Byte, Nat)
    BY DEF TableRight, Coherent
  <2>2. f.loops \in Seq(Loop)
    BY <1>1 DEF Frame
  <2> QED
    BY <1>3, <2>1, <2>2 DEF Frame
<1>6. LoopsRight(h, e)
  BY <1>4 DEF FrameRight, LoopsRight, SameTemporaries
<1> QED
  BY <1>2, <1>4, <1>5, <1>6 DEF FrameRight

LEMMA NameNoTemporary ==
  ASSUME NEW t, NEW u, NEW name \in Names, TreeLabels(u) = TreeLabels(t) \union {Identifier(name)}
  PROVE  SameTemporaries(t, u)
<1>1. ~IsTemporary(Identifier(name)) /\ \A o \in Nat : IsTemporary(Temporary(o))
  BY LabelForms
<1> QED
  BY <1>1 DEF SameTemporaries

-----------------------------------------------------------------------------
(* States, and what leads from one to another without an end or a start of  *)
(* a loop or a call.                                                        *)
States == [heap : Heaps, frames : Seq(Frame)]

Moves(s, t) ==
  /\ s \in States /\ t \in States /\ Sound(t.heap, t.frames) /\ Grew(s.heap, t.heap)
  /\ Len(t.frames) = Len(s.frames)
  /\ \A j \in 1 .. Len(s.frames) : t.frames[j].loops = s.frames[j].loops

LEMMA StateIs ==
  ASSUME NEW h, NEW fs, Sound(h, fs)
  PROVE  State(h, fs) \in States /\ State(h, fs).heap = h /\ State(h, fs).frames = fs
BY DEF State, States, Sound

LEMMA MovesSame ==
  ASSUME NEW s \in States, Sound(s.heap, s.frames)
  PROVE  Moves(s, s)
BY GrewSame DEF Moves, Sound

LEMMA MovesTrans ==
  ASSUME NEW s, NEW t, NEW u, Moves(s, t), Moves(t, u)
  PROVE  Moves(s, u)
<1>1. Grew(s.heap, u.heap)
  BY GrewTrans DEF Moves
<1> QED
  BY <1>1 DEF Moves

LEMMA AddMoves ==
  ASSUME NEW s \in States, Sound(s.heap, s.frames), NEW i \in 1 .. Len(s.frames),
         NEW name \in Names, NEW o \in 1 .. Len(s.heap)
  PROVE  Moves(s, Add(s, i, name, o))
<1>1. PICK h, fs, f, r : h = s.heap /\ fs = s.frames /\ f = fs[i] /\ r = add(h, f.table, name, o)
  OBVIOUS
<1>2. Sound(h, fs) /\ h \in Heaps /\ FrameRight(h, f) /\ TableRight(Len(h), f.table)
  BY <1>1 DEF Sound, FrameRight
<1>3. Adds(h, f.table, name, r)
  BY <1>1, <1>2, AddRight
<1>4. /\ Grew(h, r.heap) /\ TableRight(Len(r.heap), r.table)
      /\ TreeLabels(r.table) = TreeLabels(f.table) \union {Identifier(name)}
  BY <1>3 DEF Adds
<1>5. Sound(r.heap, fs) /\ FrameRight(r.heap, f)
  BY <1>2, <1>4, SoundMore, FrameMore
<1>6. PICK e : e = WithTable(f, r.table)
  OBVIOUS
<1>7. FrameRight(r.heap, e) /\ e.loops = f.loops
  <2>1. SameTemporaries(f.table, r.table)
    BY Zenon, <1>4, NameNoTemporary
  <2> QED
    BY <1>4, <1>5, <1>6, <2>1, TablePut
<1>8. PICK gs : gs = PutFrame(fs, i, e)
  OBVIOUS
<1>9. Sound(r.heap, gs) /\ Len(gs) = Len(fs) /\ \A j \in 1 .. Len(fs) : gs[j] = IF j = i THEN e ELSE fs[j]
  <2>1. PICK g : g = r.heap
    OBVIOUS
  <2>2. Sound(g, fs) /\ i \in 1 .. Len(fs) /\ FrameRight(g, e)
    BY <1>1, <1>5, <1>7, <2>1
  <2>3. /\ Sound(g, PutFrame(fs, i, e)) /\ Len(PutFrame(fs, i, e)) = Len(fs)
        /\ \A j \in 1 .. Len(fs) : PutFrame(fs, i, e)[j] = IF j = i THEN e ELSE fs[j]
    BY <2>2, SoundPut
  <2> QED
    BY <1>8, <2>1, <2>3
<1>10. Add(s, i, name, o) = [heap |-> r.heap, frames |-> gs]
  BY <1>1, <1>6, <1>8 DEF Add, PutFrame, WithTable
<1>11. PICK t : t = Add(s, i, name, o)
  OBVIOUS
<1>12. t.heap = r.heap /\ t.frames = gs /\ t \in States
  <2>1. r.heap \in Heaps /\ gs \in Seq(Frame)
    BY <1>9 DEF Sound
  <2> QED
    BY <1>10, <1>11, <2>1 DEF States
<1>13. \A j \in 1 .. Len(fs) : gs[j].loops = fs[j].loops
  BY <1>1, <1>7, <1>9
<1> QED
  BY <1>1, <1>4, <1>9, <1>11, <1>12, <1>13 DEF Moves

(* The frame that runs, and the frame an assignment works on.               *)
LEMMA HomeInside ==
  ASSUME NEW h, NEW fs, Sound(h, fs), NEW name
  PROVE  Home(fs, name) \in 1 .. Len(fs)
BY TopInside DEF Home

LEMMA AssignedMoves ==
  ASSUME NEW s \in States, Sound(s.heap, s.frames), NEW name \in Names, NEW o \in 1 .. Len(s.heap)
  PROVE  Moves(s, Assigned(s, name, o))
<1>1. Home(s.frames, name) \in 1 .. Len(s.frames)
  BY HomeInside
<1> QED
  BY <1>1, AddMoves DEF Assigned

LEMMA MovesSound ==
  ASSUME NEW s, NEW t, Moves(s, t)
  PROVE  Sound(t.heap, t.frames) /\ t \in States /\ \A o \in 1 .. Len(s.heap) : o \in 1 .. Len(t.heap)
<1>1. Sound(t.heap, t.frames) /\ t \in States /\ Grew(s.heap, t.heap)
  BY DEF Moves
<1>2. Len(s.heap) \in Nat /\ Len(t.heap) \in Nat /\ Len(s.heap) <= Len(t.heap)
  BY <1>1, HeapTypes DEF Grew
<1> QED
  BY <1>1, <1>2

-----------------------------------------------------------------------------
(* Several values are added one after another.                              *)
Reached(s) == {t \in States : Moves(s, t)}
OneAdded(t, names, values, i) == Add(t, Top(t.frames), names[i], values[i])

Additions(s, names, values, n) ==
  /\ s \in States /\ Sound(s.heap, s.frames) /\ names \in Seq(Names) /\ values \in Seq(1 .. Len(s.heap))
  /\ n = Len(values) /\ n \in Nat /\ Len(values) <= Len(names)

LEMMA OneAddedMoves ==
  ASSUME NEW s, NEW names, NEW values, NEW n, Additions(s, names, values, n),
         NEW t \in Reached(s), NEW i \in 1 .. n
  PROVE  OneAdded(t, names, values, i) \in Reached(s)
<1>1. Moves(s, t) /\ s \in States /\ Len(names) \in Nat /\ Len(values) \in Nat
  BY LenProperties DEF Reached, Additions
<1>2. i \in 1 .. Len(names) /\ i \in 1 .. Len(values)
  BY <1>1 DEF Additions
<1>3. names[i] \in Names /\ values[i] \in 1 .. Len(s.heap)
  BY <1>2, ElementOfSeq DEF Additions
<1>4. Sound(t.heap, t.frames) /\ t \in States /\ values[i] \in 1 .. Len(t.heap)
  BY <1>1, <1>3, MovesSound
<1>5. Top(t.frames) \in 1 .. Len(t.frames)
  BY <1>4, TopInside
<1>6. Moves(t, OneAdded(t, names, values, i))
  BY <1>3, <1>4, <1>5, AddMoves DEF OneAdded
<1>7. Moves(s, OneAdded(t, names, values, i))
  BY <1>1, <1>6, MovesTrans
<1> QED
  BY <1>7 DEF Reached, Moves

(* The places of the values, in their order.                                *)
Positioned(values) == [i \in DOMAIN values |-> i]

LEMMA PositionedIs ==
  ASSUME NEW S, NEW values \in Seq(S)
  PROVE  /\ Positioned(values) \in Seq(Nat) /\ Len(Positioned(values)) = Len(values) /\ Len(values) \in Nat
         /\ \A i \in 1 .. Len(values) : Positioned(values)[i] = i
<1>1. PICK p : p = Positioned(values)
  OBVIOUS
<1>2. DOMAIN p = DOMAIN values /\ p = [i \in DOMAIN p |-> p[i]]
  BY <1>1 DEF Positioned
<1>3. Len(values) \in Nat /\ DOMAIN values = 1 .. Len(values)
  BY LenProperties
<1>4. \A i \in DOMAIN values : p[i] \in Nat /\ p[i] = i
  BY <1>1, <1>3 DEF Positioned
<1>5. p \in Seq(Nat) /\ Len(p) = Len(values)
  BY <1>2, <1>4, Mapped
<1> QED
  BY <1>1, <1>3, <1>4, <1>5

AddRun(s, names, values, acc) ==
  /\ acc[0] = s
  /\ \A k \in 1 .. Len(values) : acc[k] = OneAdded(acc[k - 1], names, values, k)

LEMMA AddAllSteps ==
  ASSUME NEW s, NEW names, NEW values, NEW n \in Nat, Additions(s, names, values, n)
  PROVE  \E acc \in [0 .. n -> Reached(s)] : AddRun(s, names, values, acc) /\ AddAll(s, names, values) = acc[n]
<1>0. PICK positions : positions = Positioned(values)
  OBVIOUS
<1> DEFINE V == Reached(s)
           base == s
           then(u, i) == OneAdded(u, names, values, i)
           step == [q \in V \X (1 .. n) |-> then(q[1], positions[q[2]])]
           Fix(f) == f = [t \in SUBSET DOMAIN positions |->
                            IF t = {} THEN base ELSE then(f[t \ {Max(t)}], positions[Max(t)])]
<1>1. DOMAIN positions = 1 .. n /\ n \in Nat /\ \A k \in 1 .. n : positions[k] = k
  <2>1. /\ positions \in Seq(Nat) /\ Len(positions) = n /\ n \in Nat
        /\ \A i \in 1 .. n : positions[i] = i
    BY Zenon, <1>0, PositionedIs DEF Additions
  <2> QED
    BY <2>1, LenProperties
<1>2. \A w \in V, k \in 1 .. n : then(w, positions[k]) \in V
  BY <1>1, OneAddedMoves
<1>3. base \in V
  BY MovesSame DEF Additions, Reached
<1> HIDE DEF V, base
<1>4. Folder(n, V, base, step)
  BY <1>1, <1>2, <1>3 DEF Folder
<1>5. ASSUME NEW g, NEW t \in SUBSET (1 .. n), t # {}, g[t \ {Max(t)}] \in V
      PROVE  step[<<g[t \ {Max(t)}], Max(t)>>] = then(g[t \ {Max(t)}], positions[Max(t)])
  <2>1. Max(t) \in t
    BY Zenon, <1>5, Positions
  <2>2. Max(t) \in 1 .. n
    BY Zenon, <2>1
  <2> HIDE DEF then
  <2> QED
    BY <1>5, <2>2
<1> HIDE DEF then, step
<1>6. \E f : Fix(f)
  <2>0. PICK f \in [SUBSET (1 .. n) -> V] : Folds(f, n, base, step)
    BY Zenon, <1>4, Folding
  <2>1. \A t \in SUBSET (1 .. n) : f[t] = IF t = {} THEN base ELSE step[<<f[t \ {Max(t)}], Max(t)>>]
    BY <2>0 DEF Folds
  <2>2. f = [t \in SUBSET (1 .. n) |-> f[t]]
    OBVIOUS
  <2>3. \A t \in SUBSET (1 .. n) : t # {} => f[t] = then(f[t \ {Max(t)}], positions[Max(t)])
    BY Zenon, <1>5, <2>1
  <2>4. Fix(f)
    BY Zenon, <1>1, <2>1, <2>2, <2>3
  <2> QED
    BY Zenon, <2>4
<1>7. PICK g : g = CHOOSE f : Fix(f)
  BY Zenon
<1>8. Fix(g)
  BY Zenon, <1>6, <1>7
<1>9. AddAll(s, names, values) = g[1 .. n]
  BY <1>0, <1>1, <1>7 DEF Positioned, OneAdded, AddAll, FoldLeft, MapThenFoldSet, then, base
<1>10. FoldsAs(g, n, V, base, step)
  BY Zenon, <1>1, <1>5, <1>8 DEF FoldsAs
<1>11. PICK acc \in [0 .. n -> V] :
            /\ acc[0] = base
            /\ \A k \in 1 .. n : acc[k] = step[<<acc[k - 1], k>>]
            /\ acc[n] = g[1 .. n]
  <2>1. Folded(n, V, base, step, g)
    BY <1>4, <1>10, FoldRun
  <2> QED
    BY <2>1 DEF Folded, Accumulates
<1>12. ASSUME NEW k \in 1 .. n
       PROVE  acc[k] = then(acc[k - 1], positions[k])
  <2>1. acc[k - 1] \in V /\ k \in 1 .. n
    OBVIOUS
  <2>2. step[<<acc[k - 1], k>>] = then(acc[k - 1], positions[k])
    BY <2>1 DEF step
  <2> QED
    BY <1>11, <2>2
<1> QED
  BY Zenon, <1>1, <1>9, <1>11, <1>12 DEF then, AddRun, V, base, Additions

LEMMA AddAllMoves ==
  ASSUME NEW s, NEW names, NEW values, NEW n \in Nat, Additions(s, names, values, n)
  PROVE  Moves(s, AddAll(s, names, values))
<1>1. PICK acc \in [0 .. n -> Reached(s)] : AddAll(s, names, values) = acc[n]
  BY AddAllSteps
<1>2. acc[n] \in Reached(s)
  OBVIOUS
<1> QED
  BY <1>1, <1>2 DEF Reached

-----------------------------------------------------------------------------
(* A name is set to false before a vector is exploded.                      *)
LEMMA ClearedMoves ==
  ASSUME NEW s \in States, Sound(s.heap, s.frames), NEW name \in Names
  PROVE  Moves(s, Cleared(s, name))
<1>1. PICK h, fs, items : h = s.heap /\ fs = s.frames /\ items = <<>>
  OBVIOUS
<1>2. Sound(h, fs) /\ h \in Heaps
  BY <1>1 DEF Sound
<1>3. PICK new : new = Created(h, Object("number", 0, items))
  OBVIOUS
<1>4. Yields(h, new)
  <2>1. items \in Seq(Nat) /\ Allowed(Len(h), "number", items) /\ "number" \in Kinds
    BY <1>1, <1>2, NoItems, HeapTypes DEF Kinds
  <2> QED
    BY <1>2, <1>3, <2>1, CreatedYields
<1>5. PICK g, o : g = new.heap /\ o = new.object
  OBVIOUS
<1>6. Grew(h, g) /\ o \in 1 .. Len(g)
  BY <1>4, <1>5 DEF Yields
<1>7. Sound(g, fs)
  BY <1>2, <1>6, SoundMore
<1>8. PICK t : t = State(g, fs)
  OBVIOUS
<1>9. t \in States /\ t.heap = g /\ t.frames = fs
  BY <1>7, <1>8, StateIs
<1>10. Moves(s, t)
  BY <1>1, <1>6, <1>7, <1>9 DEF Moves
<1>11. Top(fs) \in 1 .. Len(fs)
  BY <1>2, TopInside
<1>12. Moves(t, Add(t, Top(fs), name, o))
  BY <1>6, <1>7, <1>9, <1>11, AddMoves
<1>13. Moves(s, Add(t, Top(fs), name, o))
  BY <1>10, <1>12, MovesTrans
<1> QED
  BY <1>1, <1>3, <1>5, <1>8, <1>13 DEF Cleared

Clearings(s, names, n) ==
  /\ s \in States /\ Sound(s.heap, s.frames) /\ names \in Seq(Names) /\ n = Len(names)

LEMMA OneCleared ==
  ASSUME NEW s, NEW names, NEW n \in Nat, Clearings(s, names, n), NEW t \in Reached(s), NEW name \in Names
  PROVE  Cleared(t, name) \in Reached(s)
<1>1. Moves(s, t) /\ Sound(t.heap, t.frames) /\ t \in States
  BY DEF Reached, Moves
<1>2. Moves(t, Cleared(t, name))
  BY <1>1, ClearedMoves
<1>3. Moves(s, Cleared(t, name))
  BY <1>1, <1>2, MovesTrans
<1> QED
  BY <1>3 DEF Reached, Moves

ClearRun(s, names, acc) ==
  /\ acc[0] = s
  /\ \A k \in 1 .. Len(names) : acc[k] = Cleared(acc[k - 1], names[k])

LEMMA ClearSteps ==
  ASSUME NEW s, NEW names, NEW n \in Nat, Clearings(s, names, n)
  PROVE  \E acc \in [0 .. n -> Reached(s)] : ClearRun(s, names, acc) /\ FoldLeft(Cleared, s, names) = acc[n]
<1> DEFINE V == Reached(s)
           base == s
           then(u, o) == Cleared(u, o)
           step == [q \in V \X (1 .. n) |-> then(q[1], names[q[2]])]
           Fix(f) == f = [t \in SUBSET DOMAIN names |->
                            IF t = {} THEN base ELSE then(f[t \ {Max(t)}], names[Max(t)])]
<1>1. DOMAIN names = 1 .. n /\ \A k \in 1 .. n : names[k] \in Names
  BY LenProperties, ElementOfSeq DEF Clearings
<1>2. \A w \in V, k \in 1 .. n : then(w, names[k]) \in V
  BY <1>1, OneCleared
<1>3. base \in V
  BY MovesSame DEF Clearings, Reached
<1> HIDE DEF V, base
<1>4. Folder(n, V, base, step)
  BY <1>2, <1>3 DEF Folder
<1>5. ASSUME NEW g, NEW t \in SUBSET (1 .. n), t # {}, g[t \ {Max(t)}] \in V
      PROVE  step[<<g[t \ {Max(t)}], Max(t)>>] = then(g[t \ {Max(t)}], names[Max(t)])
  <2>1. Max(t) \in t
    BY Zenon, <1>5, Positions
  <2>2. Max(t) \in 1 .. n
    BY Zenon, <2>1
  <2> HIDE DEF then
  <2> QED
    BY <1>5, <2>2
<1> HIDE DEF then, step
<1>6. \E f : Fix(f)
  <2>0. PICK f \in [SUBSET (1 .. n) -> V] : Folds(f, n, base, step)
    BY Zenon, <1>4, Folding
  <2>1. \A t \in SUBSET (1 .. n) : f[t] = IF t = {} THEN base ELSE step[<<f[t \ {Max(t)}], Max(t)>>]
    BY <2>0 DEF Folds
  <2>2. f = [t \in SUBSET (1 .. n) |-> f[t]]
    OBVIOUS
  <2>3. \A t \in SUBSET (1 .. n) : t # {} => f[t] = then(f[t \ {Max(t)}], names[Max(t)])
    BY Zenon, <1>5, <2>1
  <2>4. Fix(f)
    BY Zenon, <1>1, <2>1, <2>2, <2>3
  <2> QED
    BY Zenon, <2>4
<1>7. PICK g : g = CHOOSE f : Fix(f)
  OBVIOUS
<1>8. Fix(g)
  BY Zenon, <1>6, <1>7
<1>9. FoldLeft(Cleared, s, names) = g[1 .. n]
  BY <1>1, <1>7 DEF FoldLeft, MapThenFoldSet, then, base
<1>10. FoldsAs(g, n, V, base, step)
  BY Zenon, <1>1, <1>5, <1>8 DEF FoldsAs
<1>11. PICK acc \in [0 .. n -> V] :
            /\ acc[0] = base
            /\ \A k \in 1 .. n : acc[k] = step[<<acc[k - 1], k>>]
            /\ acc[n] = g[1 .. n]
  <2>1. Folded(n, V, base, step, g)
    BY <1>4, <1>10, FoldRun
  <2> QED
    BY <2>1 DEF Folded, Accumulates
<1>12. ASSUME NEW k \in 1 .. n
       PROVE  acc[k] = then(acc[k - 1], names[k])
  <2>1. acc[k - 1] \in V /\ k \in 1 .. n
    OBVIOUS
  <2>2. step[<<acc[k - 1], k>>] = then(acc[k - 1], names[k])
    BY <2>1 DEF step
  <2> QED
    BY <1>11, <2>2
<1> QED
  BY Zenon, <1>9, <1>11, <1>12 DEF then, ClearRun, V, base, Clearings

LEMMA ClearedAllMoves ==
  ASSUME NEW s, NEW names, NEW n \in Nat, Clearings(s, names, n)
  PROVE  Moves(s, FoldLeft(Cleared, s, names))
<1>1. PICK acc \in [0 .. n -> Reached(s)] : FoldLeft(Cleared, s, names) = acc[n]
  BY ClearSteps
<1>2. acc[n] \in Reached(s)
  OBVIOUS
<1> QED
  BY <1>1, <1>2 DEF Reached

-----------------------------------------------------------------------------
(* A call: a new frame and what is bound in it.                             *)
Numbered(t) ==
  \A p \in 1 .. Len(t.map) : \A k \in Nat : t.map[p].label = <<"HANONYMOUSIDENTIFIER", k>> => k < Len(t.map)

Called(h, fs, t) ==
  /\ t \in States /\ Sound(t.heap, t.frames) /\ Grew(h, t.heap)
  /\ Len(t.frames) = Len(fs) + 1 /\ \A j \in 1 .. Len(fs) : t.frames[j] = fs[j]
  /\ Numbered(t.frames[Len(fs) + 1].table)

LEMMA EmptyRight ==
  ASSUME NEW h
  PROVE  /\ FrameRight(h, EmptyFrame) /\ EmptyFrame.table = EmptyTable /\ EmptyFrame.loops = <<>>
         /\ Len(EmptyTable.map) = 0 /\ EmptyTable.map = <<>> /\ Numbered(EmptyTable)
<1>1. Coherent(Byte, Nat, EmptyTable) /\ TreeLabels(EmptyTable) = {}
  BY EmptyCoherent, SameTrees
<1>2. EmptyTable.map = <<>> /\ Len(EmptyTable.map) = 0
  BY EmptySeq DEF EmptyTable
<1>3. EmptyFrame.table = EmptyTable /\ EmptyFrame.loops = <<>> /\ Len(EmptyFrame.loops) = 0
  BY EmptySeq DEF EmptyFrame
<1>4. TableRight(Len(h), EmptyTable) /\ Numbered(EmptyTable)
  BY <1>1, <1>2 DEF TableRight, Numbered
<1>5. EmptyFrame \in Frame
  <2>1. EmptyTable \in TreeTable(Byte, Nat) /\ <<>> \in Seq(Loop)
    BY <1>1, EmptySeq DEF Coherent
  <2>2. EmptyFrame = [table |-> EmptyTable, loops |-> <<>>]
    BY DEF EmptyFrame
  <2> QED
    BY <2>1, <2>2 DEF Frame
<1>6. LoopsRight(h, EmptyFrame)
  BY <1>1, <1>3 DEF LoopsRight
<1> QED
  BY <1>2, <1>3, <1>4, <1>5, <1>6 DEF FrameRight

LEMMA CalledFirst ==
  ASSUME NEW h, NEW fs, Sound(h, fs)
  PROVE  Called(h, fs, State(h, Append(fs, EmptyFrame)))
<1>1. fs \in Seq(Frame) /\ Len(fs) \in Nat /\ h \in Heaps /\ 1 <= Len(fs)
  BY LenProperties DEF Sound
<1>2. PICK e, gs, n : e = EmptyFrame /\ gs = Append(fs, e) /\ n = Len(fs)
  BY Zenon
<1>3. FrameRight(h, e) /\ Numbered(e.table)
  BY <1>2, EmptyRight
<1>4. e \in Frame
  BY <1>3 DEF FrameRight
<1>5. gs \in Seq(Frame) /\ Len(gs) = n + 1 /\ gs[n + 1] = e /\ \A j \in 1 .. n : gs[j] = fs[j]
  <2>1. /\ Append(fs, e) \in Seq(Frame) /\ Len(Append(fs, e)) = Len(fs) + 1
        /\ Append(fs, e)[Len(fs) + 1] = e /\ \A i \in 1 .. Len(fs) : Append(fs, e)[i] = fs[i]
    BY <1>1, <1>4, Appended
  <2> QED
    BY <1>2, <2>1
<1>6. \A j \in 1 .. Len(gs) : FrameRight(h, gs[j])
  <2> TAKE j \in 1 .. Len(gs)
  <2>1. j \in 1 .. n \/ j = n + 1
    BY <1>1, <1>2, <1>5
  <2> QED
    BY <1>2, <1>3, <1>5, <2>1 DEF Sound
<1>7. Sound(h, gs)
  BY <1>1, <1>2, <1>5, <1>6 DEF Sound
<1>8. PICK t : t = State(h, gs)
  OBVIOUS
<1>9. t \in States /\ t.heap = h /\ t.frames = gs
  BY <1>7, <1>8, StateIs
<1>10. Called(h, fs, t)
  BY <1>1, <1>2, <1>3, <1>5, <1>7, <1>9, GrewSame DEF Called
<1> QED
  BY <1>2, <1>8, <1>10

(* The frames of the caller are the ones below the new one.                 *)
LEMMA CallerIs ==
  ASSUME NEW h, NEW fs, Sound(h, fs), NEW t, Called(h, fs, t)
  PROVE  /\ SubSeq(t.frames, 1, Top(t.frames) - 1) = fs /\ Top(t.frames) = Len(fs) + 1
         /\ Top(t.frames) \in 1 .. Len(t.frames) /\ Sound(t.heap, fs)
<1>1. fs \in Seq(Frame) /\ Len(fs) \in Nat /\ t.frames \in Seq(Frame) /\ Len(t.frames) = Len(fs) + 1
  BY LenProperties DEF Sound, Called
<1>2. PICK n, gs : n = Len(fs) /\ gs = t.frames
  BY Zenon
<1>3. Top(t.frames) = n + 1 /\ n + 1 - 1 = n /\ n \in Nat
  BY <1>1, <1>2 DEF Top
<1>4. /\ SubSeq(gs, 1, n) \in Seq(Frame) /\ Len(SubSeq(gs, 1, n)) = (IF 1 <= n THEN n - 1 + 1 ELSE 0)
      /\ \A i \in 1 .. n - 1 + 1 : SubSeq(gs, 1, n)[i] = gs[1 + i - 1]
  BY <1>1, <1>2, <1>3, SubSeqInside
<1>5. PICK ss : ss = SubSeq(gs, 1, n)
  BY Zenon
<1>6. ss \in Seq(Frame) /\ Len(ss) = n
  BY <1>3, <1>4, <1>5
<1>7. \A i \in 1 .. n : ss[i] = fs[i]
  <2> TAKE i \in 1 .. n
  <2>1. i \in 1 .. n - 1 + 1 /\ 1 + i - 1 = i
    BY <1>3
  <2>2. ss[i] = gs[i]
    BY <1>4, <1>5, <2>1
  <2> QED
    BY <1>2, <2>2 DEF Called
<1>8. ss = fs
  BY <1>1, <1>2, <1>6, <1>7, SeqEqual
<1>9. Sound(t.heap, fs)
  BY SoundMore DEF Called
<1> QED
  BY <1>1, <1>2, <1>3, <1>5, <1>8, <1>9

(* An object is bound in a fresh table.                                     *)
BoundIn(t, o) == IF t.map = <<>> THEN insert(t, Identifier(Parameter), o) ELSE push(t, o)

LEMMA BoundInRight ==
  ASSUME NEW n \in Nat, NEW t, TableRight(n, t), Numbered(t), NEW o \in 1 .. n
  PROVE  TableRight(n, BoundIn(t, o)) /\ Numbered(BoundIn(t, o)) /\ SameTemporaries(t, BoundIn(t, o))
<1>1. t \in TreeTable(Byte, Nat)
  BY DEF TableRight, Coherent
<1>2. Len(t.map) \in Nat
  BY <1>1, TableTypes
<1>3. PICK l : l = IF t.map = <<>> THEN Identifier(Parameter) ELSE <<"HANONYMOUSIDENTIFIER", Len(t.map)>>
  BY Zenon
<1>4. BoundIn(t, o) = insert(t, l, o)
  BY <1>3 DEF BoundIn, push
<1>5. l \in TreeLabel(Byte) /\ ~IsTemporary(l) /\ LabelRight(l, o)
  <2>1. CASE t.map = <<>>
    <3>1. Parameter \in Names
      BY DEF Names
    <3> QED
      BY <1>3, <2>1, <3>1, LabelForms DEF LabelRight
  <2>2. CASE t.map # <<>>
    BY <1>2, <1>3, <2>2, LabelForms DEF LabelRight
  <2> QED
    BY <2>1, <2>2
<1>6. l \notin TreeLabels(t)
  <2>1. CASE t.map = <<>>
    <3>1. Len(t.map) = 0
      BY <2>1, EmptySeq
    <3> QED
      BY <3>1 DEF TreeLabels
  <2>2. CASE t.map # <<>>
    <3>1. PICK k \in Nat : k = Len(t.map)
      BY <1>2
    <3>2. l = <<"HANONYMOUSIDENTIFIER", k>>
      BY <1>3, <2>2, <3>1
    <3>3. ASSUME NEW p \in 1 .. Len(t.map), t.map[p].label = l PROVE FALSE
      <4>1. k < Len(t.map)
        BY <3>2, <3>3 DEF Numbered
      <4> QED
        BY <3>1, <4>1
    <3> QED
      BY <3>3 DEF TreeLabels
  <2> QED
    BY <2>1, <2>2
<1>7. TableRight(n, insert(t, l, o)) /\ TreeLabels(insert(t, l, o)) = TreeLabels(t) \union {l}
  BY <1>5, <1>6, TableInsert
<1>8. SameTemporaries(t, insert(t, l, o))
  <2>1. \A x \in Nat : Temporary(x) # l
    BY <1>5, LabelForms
  <2> QED
    BY <1>7, <2>1 DEF SameTemporaries
<1>9. Numbered(insert(t, l, o))
  <2>1. PICK m : m = insert(t, l, o).map
    OBVIOUS
  <2>2. m = Append(t.map, [label |-> l, value |-> o])
    BY <2>1 DEF insert
  <2>3. /\ Len(m) = Len(t.map) + 1 /\ \A p \in 1 .. Len(t.map) : m[p] = t.map[p]
        /\ m[Len(t.map) + 1].label = l
    <3>1. t.map \in Seq(TreePair(Byte, Nat))
      BY <1>1, TableTypes
    <3>2. PICK x : x = [label |-> l, value |-> o]
      BY Zenon
    <3>3. x \in TreePair(Byte, Nat) /\ x.label = l
      <4>1. o \in Nat
        OBVIOUS
      <4> QED
        BY <1>5, <3>2, <4>1 DEF TreePair
    <3>4. /\ Len(Append(t.map, x)) = Len(t.map) + 1 /\ Append(t.map, x)[Len(t.map) + 1] = x
          /\ \A p \in 1 .. Len(t.map) : Append(t.map, x)[p] = t.map[p]
      BY <3>1, <3>3, Appended
    <3> QED
      BY <2>2, <3>2, <3>3, <3>4
  <2>4. ASSUME NEW p \in 1 .. Len(m), NEW k \in Nat, m[p].label = <<"HANONYMOUSIDENTIFIER", k>>
        PROVE  k < Len(m)
    <3>1. CASE p \in 1 .. Len(t.map)
      <4>1. k < Len(t.map)
        BY Zenon, <2>3, <2>4, <3>1 DEF Numbered
      <4> QED
        BY <1>2, <2>3, <4>1
    <3>2. CASE p \notin 1 .. Len(t.map)
      <4>1. p = Len(t.map) + 1
        BY <1>2, <2>3, <3>2
      <4>2. l = <<"HANONYMOUSIDENTIFIER", k>>
        BY Zenon, <2>3, <2>4, <4>1
      <4>3. k = Len(t.map)
        <5>1. CASE t.map = <<>>
          <6>1. Len(l) = 1
            BY <1>3, <5>1 DEF Identifier
          <6>2. Len(l) = 2
            BY <4>2
          <6> QED
            BY <6>1, <6>2
        <5>2. CASE t.map # <<>>
          BY <1>3, <4>2, <5>2
        <5> QED
          BY <5>1, <5>2
      <4> QED
        BY <1>2, <2>3, <4>3
    <3> QED
      BY <3>1, <3>2
  <2> QED
    BY <2>1, <2>4 DEF Numbered
<1> QED
  BY <1>4, <1>7, <1>8, <1>9

Calls(h, fs, argument) ==
  Sound(h, fs) /\ AtomForm(argument) /\ Atom(h, fs, argument).object # NULL

LEMMA BoundCalled ==
  ASSUME NEW h, NEW fs, NEW argument, Calls(h, fs, argument), NEW t, Called(h, fs, t)
  PROVE  Called(h, fs, Bound(t, argument))
<1>1. PICK g, gs, i, f : g = t.heap /\ gs = t.frames /\ i = Len(fs) + 1 /\ f = gs[i]
  OBVIOUS
<1>2. /\ SubSeq(gs, 1, Top(gs) - 1) = fs /\ Top(gs) = i /\ i \in 1 .. Len(gs) /\ Sound(g, fs)
      /\ Sound(g, gs) /\ g \in Heaps /\ FrameRight(g, f) /\ TableRight(Len(g), f.table) /\ Numbered(f.table)
  <2>1. /\ SubSeq(t.frames, 1, Top(t.frames) - 1) = fs /\ Top(t.frames) = Len(fs) + 1
        /\ Top(t.frames) \in 1 .. Len(t.frames) /\ Sound(t.heap, fs)
    BY CallerIs DEF Calls
  <2> QED
    BY <1>1, <2>1 DEF Called, Sound, FrameRight
<1>3. PICK o : o = Atom(h, fs, argument).object
  OBVIOUS
<1>4. vm_exec(g, fs, argument) = Atom(g, fs, argument)
  BY DEF vm_exec, Calls, AtomForm
<1>5. Atom(g, fs, argument).heap = g /\ Atom(g, fs, argument).object = o
  <2>1. PICK x : x = CASE argument.op = "literal" -> Literal [] argument.op = "void" -> Void
                       [] argument.op = "null" -> Null
                       [] argument.op = "variable" -> vm_exec_identifier(fs, argument.of)
    OBVIOUS
  <2>2. Atom(g, fs, argument) = Result(g, x) /\ Atom(h, fs, argument) = Result(h, x)
    BY <2>1 DEF Atom
  <2>3. Result(g, x).heap = g /\ Result(g, x).object = x /\ Result(h, x).object = x
    BY ResultIs
  <2> QED
    BY <1>3, <2>2, <2>3
<1>6. o \in 1 .. Len(g)
  <2>1. Gives(g, Atom(g, fs, argument))
    BY <1>2, AtomGives DEF Calls
  <2> QED
    BY <1>3, <1>5, <2>1 DEF Gives, Calls
<1>7. PICK m, e : m = Marked(g, o) /\ e = WithTable(f, BoundIn(f.table, o))
  OBVIOUS
<1>8. Grew(g, m) /\ Len(m) = Len(g) /\ Len(m) \in Nat
  BY <1>2, <1>6, <1>7, MarkedGrew, HeapTypes
<1>9. Sound(m, gs) /\ FrameRight(m, f) /\ TableRight(Len(m), f.table)
  BY <1>2, <1>8, SoundMore, FrameMore
<1>10. /\ TableRight(Len(m), BoundIn(f.table, o)) /\ Numbered(BoundIn(f.table, o))
       /\ SameTemporaries(f.table, BoundIn(f.table, o))
  BY <1>2, <1>6, <1>8, <1>9, BoundInRight
<1>11. FrameRight(m, e) /\ e.table = BoundIn(f.table, o)
  BY <1>7, <1>9, <1>10, TablePut
<1>12. PICK ns : ns = PutFrame(gs, i, e)
  OBVIOUS
<1>13. Sound(m, ns) /\ Len(ns) = Len(gs) /\ \A j \in 1 .. Len(gs) : ns[j] = IF j = i THEN e ELSE gs[j]
  <2>1. Sound(m, gs) /\ i \in 1 .. Len(gs) /\ FrameRight(m, e)
    BY <1>2, <1>9, <1>11
  <2>2. /\ Sound(m, PutFrame(gs, i, e)) /\ Len(PutFrame(gs, i, e)) = Len(gs)
        /\ \A j \in 1 .. Len(gs) : PutFrame(gs, i, e)[j] = IF j = i THEN e ELSE gs[j]
    BY <2>1, SoundPut
  <2> QED
    BY <1>12, <2>2
<1>14. Bound(t, argument) = State(m, ns)
  BY Zenon, <1>1, <1>2, <1>4, <1>5, <1>7, <1>12 DEF Bound, PutFrame, WithTable, BoundIn
<1>15. PICK u : u = State(m, ns)
  OBVIOUS
<1>16. u \in States /\ u.heap = m /\ u.frames = ns
  BY <1>13, <1>15, StateIs
<1>17. Grew(h, m)
  BY <1>1, <1>8, GrewTrans DEF Called
<1>18. Len(gs) = Len(fs) + 1 /\ Len(fs) \in Nat /\ \A j \in 1 .. Len(fs) : gs[j] = fs[j]
  BY <1>1, LenProperties DEF Called, Calls, Sound
<1>19. \A j \in 1 .. Len(fs) : ns[j] = fs[j]
  BY <1>1, <1>13, <1>18
<1>20. ns[i] = e
  BY <1>2, <1>13
<1> QED
  BY <1>1, <1>10, <1>11, <1>13, <1>14, <1>15, <1>16, <1>17, <1>18, <1>19, <1>20 DEF Called

BoundRun(s, arguments, acc) ==
  /\ acc[0] = s
  /\ \A k \in 1 .. Len(arguments) : acc[k] = Bound(acc[k - 1], arguments[k])

Callings(h, fs, arguments, A, n) ==
  /\ Sound(h, fs) /\ arguments \in Seq(A) /\ n = Len(arguments)
  /\ \A a \in A : Calls(h, fs, a)

CallStates(h, fs) == {t \in States : Called(h, fs, t)}

LEMMA OneBound ==
  ASSUME NEW h, NEW fs, NEW arguments, NEW A, NEW n \in Nat, Callings(h, fs, arguments, A, n),
         NEW t \in CallStates(h, fs), NEW a \in A
  PROVE  Bound(t, a) \in CallStates(h, fs)
<1>1. Called(h, fs, t) /\ Calls(h, fs, a)
  BY DEF CallStates, Callings
<1>2. Called(h, fs, Bound(t, a))
  BY <1>1, BoundCalled
<1> QED
  BY <1>2 DEF CallStates, Called

LEMMA FirstCall ==
  ASSUME NEW h, NEW fs, Sound(h, fs)
  PROVE  State(h, Append(fs, EmptyFrame)) \in CallStates(h, fs)
BY CalledFirst DEF CallStates, Called

LEMMA BoundSteps ==
  ASSUME NEW h, NEW fs, NEW arguments, NEW A, NEW n \in Nat, Callings(h, fs, arguments, A, n)
  PROVE  \E acc \in [0 .. n -> CallStates(h, fs)] : BoundRun(State(h, Append(fs, EmptyFrame)), arguments, acc) /\ FoldLeft(Bound, State(h, Append(fs, EmptyFrame)), arguments) = acc[n]
<1> DEFINE V == CallStates(h, fs)
           base == State(h, Append(fs, EmptyFrame))
           then(u, o) == Bound(u, o)
           step == [q \in V \X (1 .. n) |-> then(q[1], arguments[q[2]])]
           Fix(f) == f = [t \in SUBSET DOMAIN arguments |->
                            IF t = {} THEN base ELSE then(f[t \ {Max(t)}], arguments[Max(t)])]
<1>1. DOMAIN arguments = 1 .. n /\ \A k \in 1 .. n : arguments[k] \in A
  BY LenProperties, ElementOfSeq DEF Callings
<1>2. \A w \in V, k \in 1 .. n : then(w, arguments[k]) \in V
  BY <1>1, OneBound
<1>3. base \in V
  BY FirstCall DEF Callings
<1> HIDE DEF V, base
<1>4. Folder(n, V, base, step)
  BY <1>2, <1>3 DEF Folder
<1>5. ASSUME NEW g, NEW t \in SUBSET (1 .. n), t # {}, g[t \ {Max(t)}] \in V
      PROVE  step[<<g[t \ {Max(t)}], Max(t)>>] = then(g[t \ {Max(t)}], arguments[Max(t)])
  <2>1. Max(t) \in t
    BY Zenon, <1>5, Positions
  <2>2. Max(t) \in 1 .. n
    BY Zenon, <2>1
  <2> HIDE DEF then
  <2> QED
    BY <1>5, <2>2
<1> HIDE DEF then, step
<1>6. \E f : Fix(f)
  <2>0. PICK f \in [SUBSET (1 .. n) -> V] : Folds(f, n, base, step)
    BY Zenon, <1>4, Folding
  <2>1. \A t \in SUBSET (1 .. n) : f[t] = IF t = {} THEN base ELSE step[<<f[t \ {Max(t)}], Max(t)>>]
    BY <2>0 DEF Folds
  <2>2. f = [t \in SUBSET (1 .. n) |-> f[t]]
    OBVIOUS
  <2>3. \A t \in SUBSET (1 .. n) : t # {} => f[t] = then(f[t \ {Max(t)}], arguments[Max(t)])
    BY Zenon, <1>5, <2>1
  <2>4. Fix(f)
    BY Zenon, <1>1, <2>1, <2>2, <2>3
  <2> QED
    BY Zenon, <2>4
<1>7. PICK g : g = CHOOSE f : Fix(f)
  OBVIOUS
<1>8. Fix(g)
  BY Zenon, <1>6, <1>7
<1>9. FoldLeft(Bound, State(h, Append(fs, EmptyFrame)), arguments) = g[1 .. n]
  BY <1>1, <1>7 DEF FoldLeft, MapThenFoldSet, then, base
<1>10. FoldsAs(g, n, V, base, step)
  BY Zenon, <1>1, <1>5, <1>8 DEF FoldsAs
<1>11. PICK acc \in [0 .. n -> V] :
            /\ acc[0] = base
            /\ \A k \in 1 .. n : acc[k] = step[<<acc[k - 1], k>>]
            /\ acc[n] = g[1 .. n]
  <2>1. Folded(n, V, base, step, g)
    BY <1>4, <1>10, FoldRun
  <2> QED
    BY <2>1 DEF Folded, Accumulates
<1>12. ASSUME NEW k \in 1 .. n
       PROVE  acc[k] = then(acc[k - 1], arguments[k])
  <2>1. acc[k - 1] \in V /\ k \in 1 .. n
    OBVIOUS
  <2>2. step[<<acc[k - 1], k>>] = then(acc[k - 1], arguments[k])
    BY <2>1 DEF step
  <2> QED
    BY <1>11, <2>2
<1> QED
  BY Zenon, <1>9, <1>11, <1>12 DEF then, BoundRun, V, base, Callings

LEMMA AllBound ==
  ASSUME NEW h, NEW fs, NEW arguments, NEW A, NEW n \in Nat, Callings(h, fs, arguments, A, n)
  PROVE  Called(h, fs, FoldLeft(Bound, State(h, Append(fs, EmptyFrame)), arguments))
<1>1. PICK acc \in [0 .. n -> CallStates(h, fs)] :
           FoldLeft(Bound, State(h, Append(fs, EmptyFrame)), arguments) = acc[n]
  BY BoundSteps
<1>2. acc[n] \in CallStates(h, fs)
  OBVIOUS
<1> QED
  BY <1>1, <1>2 DEF CallStates

-----------------------------------------------------------------------------
(* Loops start and end.                                                     *)
WithLoops(t, ls) == [table |-> t, loops |-> ls]

LEMMA WithLoopsIs ==
  ASSUME NEW t \in TreeTable(Byte, Nat), NEW ls \in Seq(Loop)
  PROVE  WithLoops(t, ls) \in Frame /\ WithLoops(t, ls).table = t /\ WithLoops(t, ls).loops = ls
BY DEF WithLoops, Frame

LEMMA Injective ==
  ASSUME NEW o \in Nat, NEW p \in Nat, Temporary(o) = Temporary(p)
  PROVE  o = p
<1>1. Temporary(o)[2] = o /\ Temporary(p)[2] = p
  BY Zenon, LabelForms
<1> QED
  BY <1>1

Ends(h, f, n, t, ls) ==
  /\ h \in Heaps /\ FrameRight(h, f) /\ n = Len(f.loops) /\ 1 <= n
  /\ t = remove_tmp(f.table, f.loops[n].over) /\ ls = SubSeq(f.loops, 1, n - 1)

LEMMA LoopOut ==
  ASSUME NEW h, NEW f, NEW n \in Nat, NEW t, NEW ls, Ends(h, f, n, t, ls)
  PROVE  FrameRight(h, WithLoops(t, ls)) /\ Len(ls) = n - 1 /\ WithLoops(t, ls).loops = ls
<1> SUFFICES ASSUME h \in Heaps, FrameRight(h, f), n = Len(f.loops), 1 <= n,
                    t = remove_tmp(f.table, f.loops[n].over), ls = SubSeq(f.loops, 1, n - 1)
             PROVE  FrameRight(h, WithLoops(t, ls)) /\ Len(ls) = n - 1 /\ WithLoops(t, ls).loops = ls
  BY DEF Ends
<1>1. /\ f.loops \in Seq(Loop) /\ TableRight(Len(h), f.table) /\ Len(h) \in Nat
  BY HeapTypes DEF FrameRight, Frame
<1>2. PICK l : l = f.loops[n].over
  OBVIOUS
<1>3. l \in Nat /\ Temporary(l) \in TreeLabels(f.table)
  <2>1. f.loops[n].over \in 1 .. Len(h) /\ n \in 1 .. Len(f.loops)
    BY DEF FrameRight, LoopsRight
  <2>2. l \in Nat
    BY <1>2, <2>1
  <2> QED
    BY <1>2, <2>1, <2>2 DEF FrameRight, LoopsRight
<1>4. TableRight(Len(h), t) /\ TreeLabels(t) = TreeLabels(f.table) \ {Temporary(l)}
  BY <1>1, <1>2, <1>3, TableRemove DEF remove_tmp
<1>5. ls \in Seq(Loop) /\ Len(ls) = n - 1 /\ \A i \in 1 .. n - 1 : ls[i] = f.loops[i]
  <2>1. /\ SubSeq(f.loops, 1, n - 1) \in Seq(Loop)
        /\ Len(SubSeq(f.loops, 1, n - 1)) = IF 1 <= n - 1 THEN n - 1 - 1 + 1 ELSE 0
        /\ \A i \in 1 .. n - 1 - 1 + 1 : SubSeq(f.loops, 1, n - 1)[i] = f.loops[1 + i - 1]
    <3>1. n - 1 \in Int /\ n - 1 <= Len(f.loops)
      OBVIOUS
    <3> QED
      BY <1>1, <3>1, SubSeqInside
  <2>2. \A i \in 1 .. n - 1 : i \in 1 .. n - 1 - 1 + 1 /\ 1 + i - 1 = i
    OBVIOUS
  <2> QED
    BY <2>1, <2>2
<1>6. PICK e : e = WithLoops(t, ls)
  OBVIOUS
<1>7. e \in Frame /\ e.table = t /\ e.loops = ls
  <2>1. t \in TreeTable(Byte, Nat)
    BY <1>4 DEF TableRight, Coherent
  <2> QED
    <3>1. WithLoops(t, ls) \in Frame /\ WithLoops(t, ls).table = t /\ WithLoops(t, ls).loops = ls
      BY Zenon, <1>5, <2>1, WithLoopsIs
    <3> QED
      BY Zenon, <1>6, <3>1
<1>8. LoopsRight(h, e)
  <2>1. \A i \in 1 .. Len(e.loops) : i \in 1 .. Len(f.loops) /\ i # n /\ e.loops[i] = f.loops[i]
    BY <1>5, <1>7
  <2>2. \A i \in 1 .. Len(e.loops) :
          e.loops[i].over \in 1 .. Len(h) /\ h[e.loops[i].over].kind # "structure"
    BY Zenon, <2>1 DEF FrameRight, LoopsRight
  <2>3. \A i, j \in 1 .. Len(e.loops) : e.loops[i].over = e.loops[j].over => i = j
    BY Zenon, <2>1 DEF FrameRight, LoopsRight
  <2>4. ASSUME NEW o \in Nat
        PROVE  Temporary(o) \in TreeLabels(e.table) <=> \E i \in 1 .. Len(e.loops) : e.loops[i].over = o
    <3>1. Temporary(o) \in TreeLabels(f.table) <=> \E i \in 1 .. Len(f.loops) : f.loops[i].over = o
      BY Zenon DEF FrameRight, LoopsRight
    <3>2. Temporary(o) \in TreeLabels(e.table) <=> Temporary(o) \in TreeLabels(f.table) /\ o # l
      BY <1>3, <1>4, <1>7, Injective
    <3>3. ASSUME NEW i \in 1 .. Len(f.loops), f.loops[i].over = o, o # l
          PROVE  i \in 1 .. Len(e.loops) /\ e.loops[i].over = o
      <4>1. i # n
        BY <1>2, <3>3
      <4>2. i \in 1 .. Len(e.loops)
        BY <1>5, <1>7, <4>1
      <4> QED
        BY Zenon, <2>1, <3>3, <4>2
    <3>4. ASSUME NEW i \in 1 .. Len(e.loops), e.loops[i].over = o
          PROVE  i \in 1 .. Len(f.loops) /\ f.loops[i].over = o /\ o # l
      <4>1. i \in 1 .. Len(f.loops) /\ i # n /\ f.loops[i].over = o /\ n \in 1 .. Len(f.loops)
        BY <2>1, <3>4
      <4>2. o # f.loops[n].over
        BY Zenon, <4>1 DEF FrameRight, LoopsRight
      <4> QED
        BY <1>2, <4>1, <4>2
    <3> QED
      BY <3>1, <3>2, <3>3, <3>4
  <2> QED
    BY <2>2, <2>3, <2>4 DEF LoopsRight
<1> QED
  BY <1>4, <1>5, <1>6, <1>7, <1>8 DEF FrameRight

(* A loop over an object no other loop of the frame walks.                  *)
Starts(h, f, x, t, ls) ==
  /\ h \in Heaps /\ FrameRight(h, f) /\ x \in Loop
  /\ x.over \in 1 .. Len(h) /\ h[x.over].kind # "structure"
  /\ \A i \in 1 .. Len(f.loops) : f.loops[i].over # x.over
  /\ t = push_tmp(f.table, x.over) /\ ls = Append(f.loops, x)

LEMMA LoopIn ==
  ASSUME NEW h, NEW f, NEW x, NEW t, NEW ls, Starts(h, f, x, t, ls)
  PROVE  FrameRight(h, WithLoops(t, ls))
<1> SUFFICES ASSUME h \in Heaps, FrameRight(h, f), x \in Loop, x.over \in 1 .. Len(h),
                    h[x.over].kind # "structure",
                    \A i \in 1 .. Len(f.loops) : f.loops[i].over # x.over,
                    t = push_tmp(f.table, x.over), ls = Append(f.loops, x)
             PROVE  FrameRight(h, WithLoops(t, ls))
  BY DEF Starts
<1>1. PICK n \in Nat : n = Len(f.loops)
  BY LenProperties DEF FrameRight, Frame
<1>2. f.loops \in Seq(Loop) /\ TableRight(Len(h), f.table) /\ Len(h) \in Nat
  BY HeapTypes DEF FrameRight, Frame
<1>3. PICK l \in 1 .. Len(h) : l = x.over
  OBVIOUS
<1>4. l \in Nat /\ Temporary(l) \in TreeLabel(Byte) \ TreeLabels(f.table)
  <2>1. l \in Nat
    BY <1>2
  <2>2. Temporary(l) \notin TreeLabels(f.table)
    BY Zenon, <1>3, <2>1 DEF FrameRight, LoopsRight
  <2> QED
    BY <2>1, <2>2, LabelForms
<1>5. TableRight(Len(h), t) /\ TreeLabels(t) = TreeLabels(f.table) \union {Temporary(l)}
  <2>1. LabelRight(Temporary(l), l) /\ t = insert(f.table, Temporary(l), l)
    BY <1>3 DEF LabelRight, push_tmp
  <2> QED
    BY <1>2, <1>3, <1>4, <2>1, TableInsert
<1>6. ls \in Seq(Loop) /\ Len(ls) = n + 1 /\ ls[n + 1] = x /\ \A i \in 1 .. n : ls[i] = f.loops[i]
  BY <1>1, <1>2, Appended
<1>7. PICK e : e = WithLoops(t, ls)
  OBVIOUS
<1>8. e \in Frame /\ e.table = t /\ e.loops = ls
  <2>1. t \in TreeTable(Byte, Nat)
    BY <1>5 DEF TableRight, Coherent
  <2> QED
    BY Zenon, <1>6, <1>7, <2>1, WithLoopsIs
<1>9. \A i \in 1 .. n : i \in 1 .. Len(f.loops) /\ i \in 1 .. n + 1
  BY <1>1
<1>10. \A i \in 1 .. Len(e.loops) : (i \in 1 .. n /\ e.loops[i] = f.loops[i]) \/ (i = n + 1 /\ e.loops[i] = x)
  BY <1>6, <1>8
<1>11. LoopsRight(h, e)
  <2>2. \A i \in 1 .. Len(e.loops) :
          e.loops[i].over \in 1 .. Len(h) /\ h[e.loops[i].over].kind # "structure"
    <3> TAKE i \in 1 .. Len(e.loops)
    <3>1. CASE i \in 1 .. n /\ e.loops[i] = f.loops[i]
      BY <1>9, <3>1 DEF FrameRight, LoopsRight
    <3>2. CASE i = n + 1 /\ e.loops[i] = x
      BY <3>2
    <3> QED
      BY <1>10, <3>1, <3>2
  <2>3. ASSUME NEW i \in 1 .. Len(e.loops), NEW j \in 1 .. Len(e.loops), e.loops[i].over = e.loops[j].over
        PROVE  i = j
    <3>1. CASE i \in 1 .. n /\ j \in 1 .. n
      <4>1. f.loops[i].over = f.loops[j].over /\ i \in 1 .. Len(f.loops) /\ j \in 1 .. Len(f.loops)
        BY <1>6, <1>8, <1>9, <2>3, <3>1
      <4> QED
        BY Zenon, <4>1 DEF FrameRight, LoopsRight
    <3>2. CASE i = n + 1 /\ j = n + 1
      BY <3>2
    <3>3. CASE i \in 1 .. n /\ j = n + 1
      BY <1>6, <1>8, <1>9, <2>3, <3>3
    <3>4. CASE j \in 1 .. n /\ i = n + 1
      BY <1>6, <1>8, <1>9, <2>3, <3>4
    <3> QED
      BY <1>10, <3>1, <3>2, <3>3, <3>4
  <2>4. ASSUME NEW o \in Nat
        PROVE  Temporary(o) \in TreeLabels(e.table) <=> \E i \in 1 .. Len(e.loops) : e.loops[i].over = o
    <3>1. Temporary(o) \in TreeLabels(f.table) <=> \E i \in 1 .. Len(f.loops) : f.loops[i].over = o
      BY Zenon DEF FrameRight, LoopsRight
    <3>2. Temporary(o) \in TreeLabels(e.table) <=> Temporary(o) \in TreeLabels(f.table) \/ o = l
      BY <1>4, <1>5, <1>8, Injective
    <3>3. ASSUME NEW i \in 1 .. Len(f.loops), f.loops[i].over = o
          PROVE  \E k \in 1 .. Len(e.loops) : e.loops[k].over = o
      BY <1>1, <1>6, <1>8, <3>3
    <3>4. o = l => \E k \in 1 .. Len(e.loops) : e.loops[k].over = o
      <4>1. n + 1 \in 1 .. Len(e.loops) /\ e.loops[n + 1] = x
        BY <1>6, <1>8
      <4> QED
        BY <1>3, <4>1
    <3>5. ASSUME NEW i \in 1 .. Len(e.loops), e.loops[i].over = o
          PROVE  o = l \/ \E k \in 1 .. Len(f.loops) : f.loops[k].over = o
      BY Zenon, <1>3, <1>9, <1>10, <3>5
    <3> QED
      BY <3>1, <3>2, <3>3, <3>4, <3>5
  <2> QED
    BY <2>2, <2>3, <2>4 DEF LoopsRight
<1> QED
  BY <1>5, <1>7, <1>8, <1>11 DEF FrameRight

-----------------------------------------------------------------------------
(* A loop of the frame that runs ends.                                      *)
Looped(s, n) == s \in States /\ Sound(s.heap, s.frames) /\ n = Len(Loops(s.frames))

LEMMA LoopDoneRight ==
  ASSUME NEW s, NEW n \in Nat, Looped(s, n), 1 <= n
  PROVE  Looped(LoopDone(s), n - 1)
<1>1. PICK h, fs, i : h = s.heap /\ fs = s.frames /\ i = Top(fs)
  OBVIOUS
<1>2. PICK f : f = fs[i]
  OBVIOUS
<1>3. Sound(h, fs) /\ i \in 1 .. Len(fs) /\ h \in Heaps /\ FrameRight(h, f) /\ Loops(fs) = f.loops
  <2>1. Sound(h, fs)
    BY <1>1 DEF Looped
  <2>2. i \in 1 .. Len(fs)
    BY <1>1, <2>1, TopInside
  <2> QED
    BY <1>1, <1>2, <2>1, <2>2 DEF Sound, Loops
<1>4. n = Len(f.loops)
  BY <1>1, <1>3 DEF Looped
<1>5. PICK t, ls : t = remove_tmp(f.table, f.loops[n].over) /\ ls = SubSeq(f.loops, 1, n - 1)
  BY Zenon
<1>6. PICK e : e = WithLoops(t, ls)
  OBVIOUS
<1>7. FrameRight(h, e) /\ Len(ls) = n - 1 /\ e.loops = ls
  <2>1. Ends(h, f, n, t, ls)
    BY <1>3, <1>4, <1>5 DEF Ends
  <2> QED
    BY <1>6, <2>1, LoopOut
<1>8. PICK gs : gs = PutFrame(fs, i, e)
  OBVIOUS
<1>9. Sound(h, gs) /\ Len(gs) = Len(fs) /\ gs[i] = e
  <2>1. /\ Sound(h, PutFrame(fs, i, e)) /\ Len(PutFrame(fs, i, e)) = Len(fs)
        /\ \A j \in 1 .. Len(fs) : PutFrame(fs, i, e)[j] = IF j = i THEN e ELSE fs[j]
    BY <1>3, <1>7, SoundPut
  <2> QED
    BY <1>3, <1>8, <2>1
<1>10. LoopDone(s) = State(h, gs)
  <2>1. s.heap = h /\ s.frames = fs /\ Top(s.frames) = i /\ Loops(s.frames) = f.loops
    BY <1>1, <1>3
  <2>2. LoopDone(s) = State(h, [fs EXCEPT ![i] = [table |-> remove_tmp(@.table, f.loops[n].over),
                                                  loops |-> SubSeq(@.loops, 1, n - 1)]])
    BY <1>4, <2>1 DEF LoopDone
  <2>3. [fs EXCEPT ![i] = [table |-> remove_tmp(@.table, f.loops[n].over),
                           loops |-> SubSeq(@.loops, 1, n - 1)]] = PutFrame(fs, i, e)
    BY <1>2, <1>5, <1>6 DEF PutFrame, WithLoops
  <2> QED
    BY Zenon, <1>8, <2>2, <2>3
<1>11. PICK u : u = State(h, gs)
  OBVIOUS
<1>12. u \in States /\ u.heap = h /\ u.frames = gs
  BY <1>9, <1>11, StateIs
<1>13. Loops(gs) = ls
  BY <1>1, <1>7, <1>9 DEF Loops, Top
<1> QED
  BY <1>7, <1>9, <1>10, <1>11, <1>12, <1>13 DEF Looped

LEMMA LoopedIs ==
  ASSUME NEW s \in States, Sound(s.heap, s.frames)
  PROVE  \E n \in Nat : Looped(s, n) /\ n = Len(Loops(s.frames))
<1>1. Top(s.frames) \in 1 .. Len(s.frames)
  BY TopInside
<1>2. s.frames[Top(s.frames)].loops \in Seq(Loop)
  BY <1>1 DEF Sound, FrameRight, Frame
<1>3. Len(Loops(s.frames)) \in Nat
  BY <1>2, LenProperties DEF Loops
<1> QED
  BY <1>3 DEF Looped

(* All of them do.                                                          *)
Done(v, m) == IF Looped(v, m) THEN LoopDone(v) ELSE v
SoundStates == {v \in States : Sound(v.heap, v.frames)}

LEMMA DoneInside ==
  ASSUME NEW v \in SoundStates, NEW m \in Nat, 1 <= m
  PROVE  Done(v, m) \in SoundStates
<1>1. CASE Looped(v, m)
  <2>1. Looped(LoopDone(v), m - 1)
    BY <1>1, LoopDoneRight
  <2> QED
    BY <1>1, <2>1 DEF Done, SoundStates, Looped
<1>2. CASE ~Looped(v, m)
  BY <1>2 DEF Done
<1> QED
  BY <1>1, <1>2

LEMMA AllDoneSound ==
  ASSUME NEW s \in States, Sound(s.heap, s.frames)
  PROVE  AllDone(s) \in SoundStates
<1>1. PICK N \in Nat : Looped(s, N) /\ N = Len(Loops(s.frames))
  BY LoopedIs
<1> DEFINE V == SoundStates
           step == [q \in V \X (1 .. N) |-> Done(q[1], N - q[2] + 1)]
           Fix(f) == f = [n \in 0 .. N |-> IF n = 0 THEN s ELSE LoopDone(f[n - 1])]
<1>2. step \in [V \X (1 .. N) -> V]
  <2>1. ASSUME NEW v \in V, NEW k \in 1 .. N
        PROVE  Done(v, N - k + 1) \in V
    <3>1. PICK m : m = N - k + 1
      OBVIOUS
    <3>2. v \in SoundStates /\ m \in Nat /\ 1 <= m
      BY <3>1
    <3>3. Done(v, m) \in SoundStates
      BY <3>2, DoneInside
    <3> QED
      BY <3>1, <3>3
  <2> HIDE DEF V
  <2> QED
    BY <2>1
<1>3. s \in V
  BY DEF SoundStates
<1>4. PICK f \in [0 .. N -> V] : CountsTo(f, N, s, step)
  <2> HIDE DEF step, V
  <2> QED
    BY Zenon, <1>2, <1>3, Counting
<1>5. \A n \in 1 .. N : f[n] = Done(f[n - 1], N - n + 1)
  <2> TAKE n \in 1 .. N
  <2>1. f[n - 1] \in V /\ f[n] = step[<<f[n - 1], n>>]
    <3>1. n - 1 \in 0 .. N
      OBVIOUS
    <3> HIDE DEF V, step
    <3> QED
      BY <1>4, <3>1 DEF CountsTo
  <2> HIDE DEF V
  <2> QED
    BY <2>1
<1>6. \A n \in 0 .. N : Looped(f[n], N - n)
  <2> DEFINE S == {n \in Nat : Looped(f[n], N - n)}
  <2>1. 0 \in S
    <3>1. f[0] = s /\ N - 0 = N
      BY <1>4 DEF CountsTo
    <3> QED
      BY <1>1, <3>1
  <2>2. \A n \in 1 .. N : n - 1 \in S => n \in S
    <3> TAKE n \in 1 .. N
    <3> HAVE n - 1 \in S
    <3>1. PICK m \in Nat : m = N - n + 1
      OBVIOUS
    <3>2. N - (n - 1) = m /\ m - 1 = N - n /\ 1 <= m /\ n \in Nat
      BY <3>1
    <3>3. Looped(f[n - 1], m)
      BY <3>2
    <3>4. PICK v : v = f[n - 1]
      OBVIOUS
    <3>5. Looped(LoopDone(v), m - 1)
      BY <3>2, <3>3, <3>4, LoopDoneRight
    <3>6. f[n] = LoopDone(v)
      BY <1>5, <3>1, <3>3, <3>4 DEF Done
    <3> QED
      BY <3>2, <3>5, <3>6
  <2>3. \A n \in 0 .. N : n \in S
    <3> HIDE DEF S
    <3> QED
      BY Zenon, <2>1, <2>2, UpTo
  <2> QED
    BY <2>3
<1>7. \A n \in 1 .. N : f[n] = LoopDone(f[n - 1])
  <2> TAKE n \in 1 .. N
  <2>1. PICK m : m = N - n + 1
    OBVIOUS
  <2>2. n - 1 \in 0 .. N /\ N - (n - 1) = m
    BY <2>1
  <2>3. Looped(f[n - 1], m)
    BY <1>6, <2>2
  <2> QED
    BY <1>5, <2>1, <2>3 DEF Done
<1>8. Fix(f)
  <2>1. f = [n \in 0 .. N |-> f[n]]
    OBVIOUS
  <2>2. f[0] = s
    BY <1>4 DEF CountsTo
  <2>3. \A n \in 0 .. N : n # 0 => f[n] = LoopDone(f[n - 1])
    BY <1>7
  <2> QED
    BY <2>1, <2>2, <2>3
<1>9. PICK g : g = CHOOSE k : Fix(k)
  OBVIOUS
<1>10. Fix(g)
  BY Zenon, <1>8, <1>9
<1>11. AllDone(s) = g[N]
  BY <1>1, <1>9 DEF AllDone
<1>12. \A n \in 0 .. N : Looped(g[n], N - n)
  <2> DEFINE S == {n \in Nat : Looped(g[n], N - n)}
  <2>1. 0 \in S
    <3>1. g[0] = s /\ N - 0 = N
      BY <1>10
    <3> QED
      BY <1>1, <3>1
  <2>2. \A n \in 1 .. N : n - 1 \in S => n \in S
    <3> TAKE n \in 1 .. N
    <3> HAVE n - 1 \in S
    <3>1. PICK m \in Nat : m = N - n + 1
      OBVIOUS
    <3>2. N - (n - 1) = m /\ m - 1 = N - n /\ 1 <= m /\ n \in Nat
      BY <3>1
    <3>3. Looped(g[n - 1], m)
      BY <3>2
    <3>4. PICK v : v = g[n - 1]
      OBVIOUS
    <3>5. Looped(LoopDone(v), m - 1)
      BY <3>2, <3>3, <3>4, LoopDoneRight
    <3>6. g[n] = LoopDone(v)
      <4>1. n \in 0 .. N /\ n # 0
        OBVIOUS
      <4> QED
        BY <1>10, <3>4, <4>1
    <3> QED
      BY <3>2, <3>5, <3>6
  <2>3. \A n \in 0 .. N : n \in S
    <3> HIDE DEF S
    <3> QED
      BY Zenon, <2>1, <2>2, UpTo
  <2> QED
    BY <2>3
<1>13. Looped(g[N], N - N)
  <2>1. N \in 0 .. N
    OBVIOUS
  <2> QED
    BY <1>12, <2>1
<1> QED
  BY <1>11, <1>13 DEF Looped, SoundStates

-----------------------------------------------------------------------------
(* An operand leaves the items of the objects there are as they are.        *)
Keeps(h, g) == Grew(h, g) /\ \A o \in 1 .. Len(h) : g[o].items = h[o].items

LEMMA KeepsSame ==
  ASSUME NEW h \in Heaps
  PROVE  Keeps(h, h)
BY GrewSame DEF Keeps

LEMMA KeepsTrans ==
  ASSUME NEW h, NEW g, NEW f, Keeps(h, g), Keeps(g, f)
  PROVE  Keeps(h, f)
<1>1. Grew(h, g) /\ Grew(g, f)
  BY DEF Keeps
<1>2. Grew(h, f)
  BY <1>1, GrewTrans
<1>3. Len(h) <= Len(g) /\ h \in Heaps /\ g \in Heaps
  BY <1>1 DEF Grew
<1>4. Len(h) \in Nat /\ Len(g) \in Nat
  BY <1>3, HeapTypes
<1>5. \A o \in 1 .. Len(h) : o \in 1 .. Len(g)
  BY <1>3, <1>4
<1> QED
  BY <1>2, <1>5 DEF Keeps

LEMMA KeepsMarked ==
  ASSUME NEW h \in Heaps, NEW p \in 1 .. Len(h)
  PROVE  Keeps(h, Marked(h, p))
<1>1. PICK g : g = Marked(h, p)
  OBVIOUS
<1>2. \A o \in 1 .. Len(h) : g[o].items = h[o].items
  BY <1>1, MarkedRight
<1> QED
  BY <1>1, <1>2, MarkedGrew DEF Keeps

LEMMA KeepsCopies ==
  ASSUME NEW h, NEW g, NEW R, Copies(h, g, R)
  PROVE  Keeps(h, g)
<1>1. h \in Heaps /\ g \in Heaps /\ Len(h) <= Len(g) /\ \A k \in 1 .. Len(h) : g[k] = h[k]
  BY DEF Copies
<1>2. RefsKept(h, g)
  BY RefsCopied
<1> QED
  BY <1>1, <1>2 DEF Keeps, Grew

LEMMA KeepsClone ==
  ASSUME NEW h \in Heaps, NEW o \in 1 .. Len(h)
  PROVE  Keeps(h, ob_clone(h, o).heap)
<1>1. PICK r : r = ob_clone(h, o)
  OBVIOUS
<1>2. Copies(h, r.heap, {r.object})
  BY Zenon, <1>1, CloneRight DEF Cloned
<1> QED
  BY <1>1, <1>2, KeepsCopies

LEMMA KeepsCreated ==
  ASSUME NEW h \in Heaps, NEW x, Fits(Len(h), x)
  PROVE  Keeps(h, Created(h, x).heap)
<1>1. Created(h, x).heap = Append(h, x)
  BY Zenon, ResultIs DEF Created
<1>2. PICK g : g = Append(h, x)
  BY Zenon
<1>3. /\ g \in Heaps /\ Len(g) = Len(h) + 1 /\ \A o \in 1 .. Len(h) : g[o] = h[o]
      /\ g[Len(h) + 1] = x
  BY <1>2, Grown
<1>4. Len(h) \in Nat
  BY HeapTypes
<1>5. RefsKept(h, g)
  BY <1>3, <1>4, RefsAdded DEF Fits, Allowed
<1> QED
  BY <1>1, <1>2, <1>3, <1>4, <1>5 DEF Keeps, Grew

LEMMA KeepsItem ==
  ASSUME NEW h \in Heaps, NEW o \in 1 .. Len(h)
  PROVE  Keeps(h, Item(h, o).heap)
<1>1. CASE h[o].referenced
  BY <1>1, KeepsClone DEF Item
<1>2. CASE ~h[o].referenced
  <2>1. Item(h, o).heap = Marked(h, o)
    BY <1>2, ResultIs DEF Item
  <2> QED
    BY <2>1, KeepsMarked
<1> QED
  BY <1>1, <1>2

LEMMA KeepsReference ==
  ASSUME NEW h, NEW fs, Sound(h, fs), NEW e, e.of \in Names
  PROVE  Keeps(h, vm_exec_reference(h, fs, e).heap)
<1>1. PICK o : o = vm_exec_identifier(fs, e.of)
  OBVIOUS
<1>2. h \in Heaps
  BY DEF Sound
<1>3. CASE o = NULL
  <2>1. vm_exec_reference(h, fs, e) = Nothing(h) /\ Nothing(h).heap = h
    BY <1>1, <1>3, ResultIs DEF vm_exec_reference, Nothing
  <2> QED
    BY <1>2, <2>1, KeepsSame
<1>4. CASE o # NULL
  <2>1. o \in 1 .. Len(h)
    BY <1>1, <1>4, IdentifierInside
  <2>2. PICK g : g = Marked(h, o)
    OBVIOUS
  <2>3. g \in Heaps /\ Len(g) = Len(h) /\ Keeps(h, g)
    BY <1>2, <2>1, <2>2, KeepsMarked, MarkedGrew DEF Keeps, Grew
  <2>4. Fits(Len(g), Object("reference", 0, <<o>>))
    <3>1. o \in 1 .. Len(g) /\ Len(g) \in Nat
      BY <2>1, <2>3, HeapTypes
    <3>2. <<o>> \in Seq(Nat) /\ Allowed(Len(g), "reference", <<o>>)
      BY <3>1, OneItem
    <3>3. "reference" \in Kinds /\ 0 \in Nat
      BY DEF Kinds
    <3>4. PICK n \in Nat, items \in Seq(Nat) : n = Len(g) /\ items = <<o>>
      BY Zenon, <3>1, <3>2
    <3>5. Allowed(n, "reference", items)
      BY <3>2, <3>4
    <3>6. Fits(n, Object("reference", 0, items))
      BY <3>3, <3>5, ObjectFits
    <3> QED
      BY <3>4, <3>6
  <2>5. PICK x : x = Object("reference", 0, <<o>>)
    OBVIOUS
  <2>6. Keeps(g, Created(g, x).heap)
    BY <2>3, <2>4, <2>5, KeepsCreated
  <2>7. vm_exec_reference(h, fs, e) = Created(g, x)
    BY <1>1, <1>4, <2>2, <2>5 DEF vm_exec_reference
  <2> QED
    BY <2>3, <2>6, <2>7, KeepsTrans
<1> QED
  BY <1>3, <1>4

LEMMA KeepsArray ==
  ASSUME NEW h, NEW fs, Sound(h, fs), NEW e, AtomForm(e.of)
  PROVE  Keeps(h, vm_exec_array(h, fs, e).heap)
<1>1. PICK o : o = Atom(h, fs, e.of).object
  OBVIOUS
<1>2. h \in Heaps /\ (o = NULL \/ o \in 1 .. Len(h))
  <2>1. Gives(h, Atom(h, fs, e.of)) /\ Atom(h, fs, e.of).heap = h
    BY AtomGives
  <2> QED
    BY <1>1, <2>1 DEF Gives, Sound
<1>3. CASE o = NULL
  <2>1. vm_exec_array(h, fs, e) = Nothing(h) /\ Nothing(h).heap = h
    BY <1>1, <1>3, ResultIs DEF vm_exec_array, Nothing
  <2> QED
    BY <1>2, <2>1, KeepsSame
<1>4. CASE o # NULL
  <2>1. o \in 1 .. Len(h)
    BY <1>2, <1>4
  <2>2. PICK r : r = Item(h, o)
    OBVIOUS
  <2>3. Keeps(h, r.heap) /\ Yields(h, r)
    BY <1>2, <2>1, <2>2, KeepsItem, StoredYields
  <2>4. PICK g, p : g = r.heap /\ p = r.object
    OBVIOUS
  <2>5. g \in Heaps /\ p \in 1 .. Len(g) /\ Len(g) \in Nat
    BY <2>3, <2>4, HeapTypes DEF Yields, Grew
  <2>6. Fits(Len(g), Object("vector", 0, <<p>>))
    <3>2. <<p>> \in Seq(Nat) /\ Allowed(Len(g), "vector", <<p>>)
      BY <2>5, OneItem
    <3>3. "vector" \in Kinds /\ 0 \in Nat
      BY DEF Kinds, Collections
    <3>4. PICK n \in Nat, items \in Seq(Nat) : n = Len(g) /\ items = <<p>>
      BY Zenon, <2>5, <3>2
    <3>5. Allowed(n, "vector", items)
      BY <3>2, <3>4
    <3>6. Fits(n, Object("vector", 0, items))
      BY <3>3, <3>5, ObjectFits
    <3> QED
      BY <3>4, <3>6
  <2>7. PICK x : x = Object("vector", 0, <<p>>)
    OBVIOUS
  <2>8. Keeps(g, Created(g, x).heap)
    BY <2>5, <2>6, <2>7, KeepsCreated
  <2>9. Append(<<>>, p) = <<p>>
    OBVIOUS
  <2>10. vm_exec_array(h, fs, e) = Created(g, x)
    BY <1>1, <1>4, <2>2, <2>4, <2>7, <2>9 DEF vm_exec_array, With
  <2> QED
    BY <2>3, <2>4, <2>8, <2>10, KeepsTrans
<1> QED
  BY <1>3, <1>4

LEMMA KeepsVargs ==
  ASSUME NEW h, NEW fs, Sound(h, fs)
  PROVE  Keeps(h, vm_exec_vargs(h, fs).heap)
<1>1. PICK m, all : VargsOf(h, Values(fs[Top(fs)]), m, all, vm_exec_vargs(h, fs))
  BY VargsIs
<1>2. PICK r, held : r = vm_exec_vargs(h, fs) /\ held = Values(fs[Top(fs)])
  OBVIOUS
<1>3. Flagged(h, m) /\ Collecting(m, all, "vector", r)
  BY <1>1, <1>2 DEF VargsOf
<1>4. Keeps(h, m)
  BY <1>3, FlaggedGrew DEF Keeps, Flagged
<1>5. Copies(m, r.heap, {r.object})
  BY <1>3 DEF Collecting
<1>6. Keeps(m, r.heap)
  BY <1>5, KeepsCopies
<1> QED
  BY <1>2, <1>4, <1>6, KeepsTrans

LEMMA KeepsAtom ==
  ASSUME NEW h, NEW fs, Sound(h, fs), NEW e, AtomForm(e)
  PROVE  vm_exec(h, fs, e).heap = h /\ Keeps(h, vm_exec(h, fs, e).heap)
<1>1. vm_exec(h, fs, e) = Atom(h, fs, e)
  BY DEF vm_exec, AtomForm
<1>2. Atom(h, fs, e).heap = h /\ h \in Heaps
  BY AtomGives DEF Sound
<1> QED
  BY <1>1, <1>2, KeepsSame

OperandForm(e) ==
  \/ AtomForm(e)
  \/ e.op = "reference" /\ e.of \in Names
  \/ e.op = "vargs"
  \/ e.op = "array" /\ AtomForm(e.of)

LEMMA OperandForms ==
  ASSUME NEW e \in Operands
  PROVE  OperandForm(e)
<1>1. CASE e \in Atoms
  BY <1>1, AtomsAre DEF OperandForm
<1>2. CASE e \in Unary({"reference"}, Names)
  BY <1>2 DEF Unary, OperandForm
<1>3. CASE e \in Nullary({"vargs"})
  BY <1>3 DEF Nullary, OperandForm
<1>4. CASE e \in Unary({"array"}, {[op |-> op] : op \in Fixed})
  <2>1. {[op |-> op] : op \in Fixed} \subseteq Atoms
    BY DEF Atoms
  <2>2. PICK a \in Atoms : e.of = a /\ e.op = "array"
    BY <1>4, <2>1 DEF Unary
  <2> QED
    BY <2>2, AtomsAre DEF OperandForm
<1> QED
  BY <1>1, <1>2, <1>3, <1>4 DEF Operands, Returned

LEMMA KeepsOperand ==
  ASSUME NEW h, NEW fs, Sound(h, fs), NEW e, OperandForm(e)
  PROVE  Keeps(h, vm_exec(h, fs, e).heap)
<1>1. CASE AtomForm(e)
  BY <1>1, KeepsAtom
<1>2. CASE e.op = "reference" /\ e.of \in Names
  <2>1. vm_exec(h, fs, e) = vm_exec_reference(h, fs, e)
    BY <1>2 DEF vm_exec
  <2> QED
    BY <1>2, <2>1, KeepsReference
<1>3. CASE e.op = "vargs"
  <2>1. vm_exec(h, fs, e) = vm_exec_vargs(h, fs)
    BY <1>3 DEF vm_exec
  <2> QED
    BY <2>1, KeepsVargs
<1>4. CASE e.op = "array" /\ AtomForm(e.of)
  <2>1. vm_exec(h, fs, e) = vm_exec_array(h, fs, e)
    BY <1>4 DEF vm_exec
  <2> QED
    BY <1>4, <2>1, KeepsArray
<1> QED
  BY <1>1, <1>2, <1>3, <1>4 DEF OperandForm

(* The operand of a statement, and what the statement works on.             *)
Operand(r) ==
  /\ Keeps(heap, r.heap) /\ Sound(heap, frames) /\ Sound(r.heap, frames)
  /\ r.object = NULL \/ r.object \in 1 .. Len(r.heap)

LEMMA OperandIs ==
  ASSUME Sound(heap, frames), NEW e, OperandForm(e)
  PROVE  Operand(Value(e))
<1>1. ExpressionForm(e)
  BY DEF OperandForm, ExpressionForm
<1>2. Keeps(heap, Value(e).heap)
  BY KeepsOperand DEF Value
<1> QED
  BY <1>1, <1>2, ValueSound DEF Operand

LEMMA NamedInside ==
  ASSUME Sound(heap, frames), NEW name \in Names
  PROVE  /\ Named(name) = NULL \/ Named(name) \in 1 .. Len(heap)
         /\ On(heap, Named(name)) = NULL \/ On(heap, Named(name)) \in 1 .. Len(heap)
<1>1. Named(name) = NULL \/ Named(name) \in 1 .. Len(heap)
  BY IdentifierInside DEF Named
<1> QED
  BY <1>1, TargetInside DEF Sound

LEMMA SettleAt ==
  ASSUME NEW h, NEW fs, Sound(h, fs), Settle(State(h, fs))
  PROVE  Sound(heap', frames')
<1>1. PICK s : s = State(h, fs)
  OBVIOUS
<1>2. Sound(s.heap, s.frames)
  BY <1>1, StateIs
<1> QED
  BY <1>1, <1>2, SettleSound

-----------------------------------------------------------------------------
(* The statements, one after another.                                       *)
LEMMA AssignSound ==
  ASSUME Sound(heap, frames), NEW name \in Names, NEW e \in Expressions, Assign(name, Value(e))
  PROVE  Sound(heap', frames')
<1>1. PICK r : r = Value(e)
  OBVIOUS
<1>2. Sound(r.heap, frames) /\ r.object \in 1 .. Len(r.heap)
  <2>1. ExpressionForm(e)
    BY ExpressionsAre
  <2>2. Sound(r.heap, frames) /\ (r.object = NULL \/ r.object \in 1 .. Len(r.heap))
    BY <1>1, <2>1, ValueSound
  <2> QED
    BY <1>1, <2>2 DEF Assign
<1>3. PICK s : s = State(r.heap, frames)
  OBVIOUS
<1>4. s \in States /\ s.heap = r.heap /\ s.frames = frames
  BY <1>2, <1>3, StateIs
<1>5. Sound(s.heap, s.frames) /\ r.object \in 1 .. Len(s.heap)
  BY <1>2, <1>4
<1>6. PICK o \in 1 .. Len(s.heap) : o = r.object
  BY <1>5
<1>7. PICK t : t = Assigned(s, name, o)
  OBVIOUS
<1>8. Moves(s, t)
  BY <1>4, <1>5, <1>7, AssignedMoves
<1>9. Settle(t)
  BY <1>1, <1>3, <1>6, <1>7 DEF Assign
<1>10. Sound(t.heap, t.frames)
  BY <1>8, MovesSound
<1> QED
  BY <1>9, <1>10, SettleSound

LEMMA CatchSound ==
  ASSUME Sound(heap, frames), NEW name \in Names, NEW e \in Atoms, Catch(name, Value(e))
  PROVE  Sound(heap', frames')
<1>1. PICK r : r = Value(e)
  OBVIOUS
<1>2. Sound(r.heap, frames) /\ r.object \in 1 .. Len(r.heap)
  <2>1. ExpressionForm(e)
    BY AtomsAre
  <2>2. Sound(r.heap, frames) /\ (r.object = NULL \/ r.object \in 1 .. Len(r.heap))
    BY <1>1, <2>1, ValueSound
  <2> QED
    BY <1>1, <2>2 DEF Catch
<1>3. PICK s : s = State(r.heap, frames)
  OBVIOUS
<1>4. s \in States /\ s.heap = r.heap /\ s.frames = frames
  BY <1>2, <1>3, StateIs
<1>5. Sound(s.heap, s.frames) /\ r.object \in 1 .. Len(s.heap)
  BY <1>2, <1>4
<1>6. PICK o \in 1 .. Len(s.heap) : o = r.object
  BY <1>5
<1>7. PICK i : i = Top(frames)
  OBVIOUS
<1>8. i \in 1 .. Len(s.frames)
  BY <1>4, <1>7, TopInside
<1>9. PICK t : t = Add(s, i, name, o)
  OBVIOUS
<1>10. Moves(s, t)
  BY <1>4, <1>5, <1>8, <1>9, AddMoves
<1>11. Settle(t)
  BY <1>1, <1>3, <1>6, <1>7, <1>9 DEF Catch
<1>12. Sound(t.heap, t.frames)
  BY <1>10, MovesSound
<1> QED
  BY <1>11, <1>12, SettleSound

LEMMA ChangeableKeeps ==
  ASSUME Sound(heap, frames), NEW e \in Changeable
  PROVE  Value(e).heap = heap
<1>1. e.op \in {"variable", "item", "attribute"} /\ e.of \in Names
  BY DEF Changeable
<1>2. CASE e.op = "variable"
  <2>1. AtomForm(e)
    BY <1>1, <1>2 DEF AtomForm
  <2> QED
    BY <2>1, KeepsAtom DEF Value
<1>3. CASE e.op = "item"
  BY <1>3, ResultIs DEF Value, vm_exec, ItemOf
<1>4. CASE e.op = "attribute"
  BY <1>4, ResultIs DEF Value, vm_exec, ItemOf
<1> QED
  BY <1>1, <1>2, <1>3, <1>4

LEMMA IncrementSound ==
  ASSUME Sound(heap, frames), NEW e \in Changeable, Increment(On(heap, Value(e).object))
  PROVE  Sound(heap', frames')
<1>1. PICK o, t : o = Value(e).object /\ t = On(heap, o)
  OBVIOUS
<1>2. heap \in Heaps
  BY DEF Sound
<1>3. t = NULL \/ t \in 1 .. Len(heap)
  <2>1. ExpressionForm(e)
    BY ChangeableAre
  <2>2. o = NULL \/ o \in 1 .. Len(heap)
    BY <1>1, <2>1, ValueSound, ChangeableKeeps
  <2> QED
    BY <1>1, <1>2, <2>2, TargetInside
<1>4. t \in 1 .. Len(heap) /\ Settle(State([heap EXCEPT ![t].number = (@ + 1) % (MaxNumber + 1)], frames))
  BY <1>1, <1>3 DEF Increment, Is
<1>5. heap[t].number \in Nat
  BY <1>2, <1>4, HeapTypes DEF Thing
<1>6. PICK n \in Nat : n = (heap[t].number + 1) % (MaxNumber + 1)
  BY <1>5, Wrapped
<1>7. PICK g : g = PutNumber(heap, t, n)
  OBVIOUS
<1>8. Grew(heap, g)
  BY <1>2, <1>4, <1>7, PutNumberRight
<1>9. Sound(g, frames)
  BY <1>8, SoundMore
<1>10. Settle(State(g, frames))
  BY <1>4, <1>6, <1>7 DEF PutNumber
<1> QED
  BY <1>9, <1>10, SettleAt

(* An object is put into a collection.                                      *)
LEMMA TakesIs ==
  ASSUME NEW t, NEW kind, NEW r, Operand(r), t = NULL \/ t \in 1 .. Len(heap), Takes(t, kind, r)
  PROVE  /\ t \in 1 .. Len(heap) /\ heap[t].kind = kind /\ r.object \in 1 .. Len(r.heap)
         /\ Yields(r.heap, Item(r.heap, r.object)) /\ Keeps(heap, Item(r.heap, r.object).heap)
         /\ Sound(Item(r.heap, r.object).heap, frames)
<1>1. t \in 1 .. Len(heap) /\ heap[t].kind = kind /\ r.object # NULL
  BY DEF Takes, Is
<1>2. r.object \in 1 .. Len(r.heap) /\ Keeps(heap, r.heap) /\ Sound(r.heap, frames) /\ r.heap \in Heaps
  BY <1>1 DEF Operand, Sound
<1>3. PICK h, o : h = r.heap /\ o = r.object
  OBVIOUS
<1>4. Yields(h, Item(h, o)) /\ Keeps(h, Item(h, o).heap)
  BY <1>2, <1>3, StoredYields, KeepsItem
<1>5. PICK g : g = Item(h, o).heap
  OBVIOUS
<1>6. Keeps(heap, g)
  BY <1>2, <1>3, <1>4, <1>5, KeepsTrans
<1>7. Sound(g, frames)
  <2>1. Grew(h, g) /\ Sound(h, frames)
    BY <1>2, <1>3, <1>4, <1>5 DEF Keeps
  <2> QED
    BY <2>1, SoundMore
<1> QED
  BY <1>1, <1>2, <1>3, <1>4, <1>5, <1>6, <1>7

LEMMA KeptAt ==
  ASSUME NEW h, NEW g, Keeps(h, g), NEW t \in 1 .. Len(h)
  PROVE  /\ t \in 1 .. Len(g) /\ g[t].kind = h[t].kind /\ g[t].items = h[t].items
         /\ g \in Heaps /\ Len(g) \in Nat /\ g[t].items \in Seq(Nat) /\ Len(g[t].items) \in Nat
         /\ Allowed(Len(g), g[t].kind, g[t].items)
<1>1. h \in Heaps /\ g \in Heaps /\ Len(h) <= Len(g)
  BY DEF Keeps, Grew
<1>2. t \in 1 .. Len(g)
  BY <1>1, HeapTypes
<1>3. Fits(Len(g), g[t]) /\ g[t].items \in Seq(Nat) /\ Len(g[t].items) \in Nat /\ Len(g) \in Nat
  BY <1>1, <1>2, HeapTypes
<1> QED
  BY <1>1, <1>2, <1>3 DEF Keeps, Grew, Fits

LEMMA PushSound ==
  ASSUME NEW t, NEW r, Operand(r), t = NULL \/ t \in 1 .. Len(heap), vm_exec_subscript_push(t, r)
  PROVE  Sound(heap', frames')
<1>1. PICK item : item = Item(r.heap, r.object)
  OBVIOUS
<1>2. Takes(t, "vector", r) /\ Settle(State([item.heap EXCEPT ![t].items = Append(@, item.object)], frames))
  BY <1>1 DEF vm_exec_subscript_push
<1>3. PICK g, p : g = item.heap /\ p = item.object
  OBVIOUS
<1>4. /\ t \in 1 .. Len(heap) /\ heap[t].kind = "vector" /\ Yields(r.heap, item) /\ Keeps(heap, g)
      /\ Sound(g, frames)
  BY <1>1, <1>2, <1>3, TakesIs
<1>5. p \in 1 .. Len(g)
  BY <1>3, <1>4 DEF Yields
<1>6. /\ t \in 1 .. Len(g) /\ g[t].kind = "vector" /\ g \in Heaps /\ Len(g) \in Nat
      /\ g[t].items \in Seq(Nat) /\ Allowed(Len(g), "vector", g[t].items)
  BY <1>4, KeptAt
<1>7. PICK items : items = Append(g[t].items, p)
  BY Zenon
<1>8. items \in Seq(Nat) /\ Allowed(Len(g), "vector", items)
  <2>1. PICK old \in Seq(Nat) : old = g[t].items
    BY <1>6
  <2>2. PICK n \in Nat : n = Len(old)
    BY LenProperties
  <2>3. p \in Nat
    BY <1>5, <1>6
  <2>4. items \in Seq(Nat) /\ Len(items) = n + 1 /\ items[n + 1] = p /\ \A i \in 1 .. n : items[i] = old[i]
    BY <1>7, <2>1, <2>2, <2>3, Appended
  <2>5. ASSUME NEW j \in 1 .. Len(items)
        PROVE  items[j] \in 1 .. Len(g)
    <3>1. CASE j \in 1 .. n
      BY Zenon, <1>6, <2>1, <2>2, <2>4, <3>1 DEF Allowed
    <3>2. CASE j = n + 1
      BY <1>5, <2>4, <3>2
    <3> QED
      BY <2>2, <2>4, <3>1, <3>2
  <2> QED
    BY <2>4, <2>5 DEF Allowed
<1>9. PICK f : f = PutItems(g, t, items)
  OBVIOUS
<1>10. Grew(g, f)
  BY <1>6, <1>8, <1>9, PutItemsRight
<1>11. Sound(f, frames)
  BY <1>4, <1>10, SoundMore
<1>12. Settle(State(f, frames))
  BY <1>2, <1>3, <1>7, <1>9 DEF PutItems
<1> QED
  BY <1>11, <1>12, SettleAt

-----------------------------------------------------------------------------
(* An item of a collection is emptied and replaced.                         *)
LEMMA ItemReplaced ==
  ASSUME NEW n \in Nat, NEW s \in Seq(Nat), NEW k, NEW o \in 1 .. n, NEW kind, kind \in {"vector", "map"},
         Allowed(n, kind, s)
  PROVE  [s EXCEPT ![k] = o] \in Seq(Nat) /\ Allowed(n, kind, [s EXCEPT ![k] = o])
<1>1. PICK u : u = [s EXCEPT ![k] = o]
  BY Zenon
<1>2. PICK m \in Nat : m = Len(s) /\ s \in [1 .. m -> Nat]
  BY LenProperties
<1>3. u \in [1 .. m -> Nat] /\ \A i \in 1 .. m : u[i] = IF i = k THEN o ELSE s[i]
  <2>1. PICK x \in Nat : x = o
    OBVIOUS
  <2>2. DOMAIN s = 1 .. m /\ u = [i \in 1 .. m |-> IF i = k THEN x ELSE s[i]]
    BY Zenon, <1>1, <1>2, <2>1
  <2>3. \A i \in 1 .. m : s[i] \in Nat
    BY <1>2
  <2> QED
    BY <2>1, <2>2, <2>3
<1>4. u \in Seq(Nat)
  BY <1>3, SeqDef
<1>5. Len(u) = m
  BY <1>3, <1>4, LenProperties
<1>6. \A j \in 1 .. Len(u) : u[j] \in 1 .. n
  BY <1>2, <1>3, <1>5 DEF Allowed
<1> QED
  BY <1>1, <1>2, <1>4, <1>5, <1>6 DEF Allowed

ItemPut(h, old, t, k, o) == [ob_free(h, old) EXCEPT ![t].items[k] = o]

LEMMA ItemPutGrew ==
  ASSUME NEW h \in Heaps, NEW t \in 1 .. Len(h), h[t].kind \in {"vector", "map"},
         NEW old \in 1 .. Len(h), NEW k, NEW o \in 1 .. Len(h)
  PROVE  Grew(h, ItemPut(h, old, t, k, o))
<1>1. PICK g : g = ob_free(h, old)
  OBVIOUS
<1>2. Grew(h, g) /\ Len(g) = Len(h) /\ g \in Heaps /\ g[t].kind = h[t].kind
  BY <1>1, FreeGrew DEF Grew
<1>3. t \in 1 .. Len(g) /\ o \in 1 .. Len(g) /\ Len(g) \in Nat
  BY <1>2, HeapTypes
<1>4. PICK s, kind : s = g[t].items /\ kind = g[t].kind
  BY Zenon
<1>5. s \in Seq(Nat) /\ kind \in {"vector", "map"} /\ Allowed(Len(g), kind, s)
  BY <1>2, <1>3, <1>4, HeapTypes DEF Fits
<1>6. PICK u : u = [s EXCEPT ![k] = o]
  BY Zenon
<1>7. u \in Seq(Nat) /\ Allowed(Len(g), kind, u)
  <2>1. PICK n \in Nat : n = Len(g)
    BY <1>3
  <2>2. PICK x \in 1 .. n : x = o
    BY <1>3, <2>1
  <2>3. Allowed(n, kind, s)
    BY <1>5, <2>1
  <2>4. [s EXCEPT ![k] = x] \in Seq(Nat) /\ Allowed(n, kind, [s EXCEPT ![k] = x])
    BY Zenon, <1>5, <2>3, ItemReplaced
  <2> QED
    BY <1>6, <2>1, <2>2, <2>4
<1>8. PICK f : f = PutItems(g, t, u)
  OBVIOUS
<1>9. Grew(g, f)
  BY <1>2, <1>3, <1>4, <1>7, <1>8, PutItemsRight
<1>10. ItemPut(h, old, t, k, o) = f
  BY <1>1, <1>4, <1>6, <1>8 DEF ItemPut, PutItems
<1> QED
  BY <1>2, <1>9, <1>10, GrewTrans

LEMMA SetItemSound ==
  ASSUME NEW t, NEW r, Operand(r), t = NULL \/ t \in 1 .. Len(heap), SetItem(t, r)
  PROVE  Sound(heap', frames')
<1>1. PICK item : item = Item(r.heap, r.object)
  OBVIOUS
<1>2. PICK g, p : g = item.heap /\ p = item.object
  OBVIOUS
<1>3. /\ Takes(t, "vector", r) /\ heap[t].items # <<>>
      /\ Settle(State(ItemPut(g, g[t].items[1], t, 1, p), frames))
  BY Zenon, <1>1, <1>2 DEF SetItem, ItemPut
<1>4. /\ t \in 1 .. Len(heap) /\ heap[t].kind = "vector" /\ Yields(r.heap, item) /\ Keeps(heap, g)
      /\ Sound(g, frames)
  BY <1>1, <1>2, <1>3, TakesIs
<1>5. p \in 1 .. Len(g)
  BY <1>2, <1>4 DEF Yields
<1>6. /\ t \in 1 .. Len(g) /\ g[t].kind = "vector" /\ g \in Heaps /\ g[t].items # <<>>
      /\ g[t].items \in Seq(Nat) /\ Allowed(Len(g), "vector", g[t].items) /\ Len(g[t].items) \in Nat
  BY <1>3, <1>4, KeptAt
<1>7. PICK old : old = g[t].items[1]
  OBVIOUS
<1>8. old \in 1 .. Len(g)
  <2>1. Len(g[t].items) # 0
    BY <1>6, EmptySeq
  <2>2. 1 \in 1 .. Len(g[t].items)
    BY <1>6, <2>1
  <2> QED
    BY <1>6, <1>7, <2>2 DEF Allowed
<1>9. PICK f : f = ItemPut(g, old, t, 1, p)
  OBVIOUS
<1>10. Grew(g, f)
  BY <1>5, <1>6, <1>8, <1>9, ItemPutGrew
<1>11. Sound(f, frames)
  BY <1>4, <1>10, SoundMore
<1> QED
  BY <1>3, <1>7, <1>9, <1>11, SettleAt

LEMMA PairAdded ==
  ASSUME NEW n \in Nat, NEW s \in Seq(Nat), Allowed(n, "map", s), NEW k \in 1 .. n, NEW o \in 1 .. n
  PROVE  s \o <<k, o>> \in Seq(Nat) /\ Allowed(n, "map", s \o <<k, o>>)
<1>1. PICK u \in Seq(Nat) : u = <<k, o>> /\ Len(u) = 2 /\ Allowed(n, "map", u)
  BY Zenon, TwoItems
<1>2. PICK w : w = s \o u
  BY Zenon
<1>3. PICK m \in Nat : m = Len(s)
  BY LenProperties
<1>4. /\ w \in Seq(Nat) /\ Len(w) = m + 2
      /\ \A i \in 1 .. m : w[i] = s[i]
      /\ \A i \in 1 .. 2 : w[m + i] = u[i]
  BY <1>1, <1>2, <1>3, Concatenated
<1>5. \A j \in 1 .. Len(w) : w[j] \in 1 .. n
  <2> TAKE j \in 1 .. Len(w)
  <2>1. CASE j \in 1 .. m
    BY <1>3, <1>4, <2>1 DEF Allowed
  <2>2. CASE j \notin 1 .. m
    <3>1. PICK i \in 1 .. 2 : j = m + i
      <4>1. j - m \in 1 .. 2 /\ j = m + (j - m)
        <5>1. PICK l \in Nat : l = Len(w) /\ l = m + 2
          BY <1>4
        <5>2. j \in 1 .. l
          BY <5>1
        <5> QED
          BY <2>2, <5>1, <5>2
      <4> QED
        BY <4>1
    <3> QED
      BY Zenon, <1>1, <1>4, <3>1 DEF Allowed
  <2> QED
    BY <2>1, <2>2
<1>6. Len(w) % 2 = 0
  <2>1. m % 2 = 0
    BY <1>3 DEF Allowed
  <2> QED
    BY <1>3, <1>4, <2>1
<1> QED
  BY Zenon, <1>1, <1>2, <1>4, <1>5, <1>6 DEF Allowed

LEMMA AddPairGrew ==
  ASSUME NEW h \in Heaps, NEW t \in 1 .. Len(h), h[t].kind = "map", NEW key, Yields(h, key),
         NEW o \in 1 .. Len(h)
  PROVE  Grew(h, AddPair(t, key, o))
<1>1. PICK g, k : g = key.heap /\ k = key.object
  OBVIOUS
<1>2. g \in Heaps /\ Grew(h, g) /\ k \in 1 .. Len(g) /\ Len(h) <= Len(g) /\ Len(h) \in Nat /\ Len(g) \in Nat
  BY <1>1, HeapTypes DEF Yields, Grew
<1>3. t \in 1 .. Len(g) /\ o \in 1 .. Len(g) /\ g[t].kind = "map"
  BY <1>2 DEF Grew
<1>4. PICK s : s = g[t].items
  OBVIOUS
<1>5. s \in Seq(Nat) /\ Allowed(Len(g), "map", s)
  BY <1>2, <1>3, <1>4, HeapTypes DEF Fits
<1>6. PICK u : u = s \o <<k, o>>
  BY Zenon
<1>7. u \in Seq(Nat) /\ Allowed(Len(g), "map", u)
  BY Zenon, <1>2, <1>3, <1>5, <1>6, PairAdded
<1>8. PICK f : f = PutItems(g, t, u)
  OBVIOUS
<1>9. Grew(g, f)
  BY <1>2, <1>3, <1>7, <1>8, PutItemsRight
<1>10. AddPair(t, key, o) = f
  BY <1>1, <1>4, <1>6, <1>8 DEF AddPair, PutItems
<1> QED
  BY <1>2, <1>9, <1>10, GrewTrans

Mapping(t, k, g, p, r) ==
  IF heap[t].items # <<>> /\ heap[heap[t].items[1]].kind = "number"
       /\ heap[heap[t].items[1]].number = heap[k].number
  THEN ItemPut(g, g[t].items[2], t, 2, p)
  ELSE AddPair(t, IF r.heap[r.object].referenced THEN ob_clone(g, k) ELSE Result(g, k), p)

LEMMA SetMappedSound ==
  ASSUME NEW t, NEW k, NEW r, Operand(r), t = NULL \/ t \in 1 .. Len(heap),
         k = NULL \/ k \in 1 .. Len(heap), SetMapped(t, k, r)
  PROVE  Sound(heap', frames')
<1>1. PICK item : item = Item(r.heap, r.object)
  OBVIOUS
<1>2. PICK g, p : g = item.heap /\ p = item.object
  OBVIOUS
<1>3. Takes(t, "map", r) /\ Is(heap, k, "number") /\ Settle(State(Mapping(t, k, g, p, r), frames))
  BY Zenon, <1>1, <1>2 DEF SetMapped, Mapping, ItemPut
<1>4. /\ t \in 1 .. Len(heap) /\ heap[t].kind = "map" /\ Yields(r.heap, item) /\ Keeps(heap, g)
      /\ Sound(g, frames)
  BY <1>1, <1>2, <1>3, TakesIs
<1>5. p \in 1 .. Len(g)
  BY <1>2, <1>4 DEF Yields
<1>6. /\ t \in 1 .. Len(g) /\ g[t].kind = "map" /\ g \in Heaps /\ g[t].items = heap[t].items
      /\ g[t].items \in Seq(Nat) /\ Allowed(Len(g), "map", g[t].items) /\ Len(g[t].items) \in Nat
  BY <1>4, KeptAt
<1>7. k \in 1 .. Len(g)
  <2>1. k \in 1 .. Len(heap)
    BY <1>3 DEF Is
  <2> QED
    BY <1>4, <2>1, KeptAt
<1>8. PICK f : f = Mapping(t, k, g, p, r)
  OBVIOUS
<1>9. Grew(g, f)
  <2>1. CASE heap[t].items # <<>> /\ heap[heap[t].items[1]].kind = "number"
               /\ heap[heap[t].items[1]].number = heap[k].number
    <3>1. PICK old : old = g[t].items[2]
      OBVIOUS
    <3>2. old \in 1 .. Len(g)
      <4>1. Len(g[t].items) # 0
        BY <1>6, <2>1, EmptySeq
      <4>2. Len(g[t].items) % 2 = 0
        BY Zenon, <1>6 DEF Allowed
      <4>3. 2 \in 1 .. Len(g[t].items)
        <5>1. PICK l \in Nat : l = Len(g[t].items)
          BY <1>6
        <5>2. l # 0 /\ l % 2 = 0
          BY Zenon, <4>1, <4>2, <5>1
        <5>3. 2 \in 1 .. l
          BY <5>2
        <5> QED
          BY <5>1, <5>3
      <4> QED
        BY <1>6, <3>1, <4>3 DEF Allowed
    <3>3. f = ItemPut(g, old, t, 2, p)
      BY <1>8, <2>1, <3>1 DEF Mapping
    <3> QED
      BY <1>5, <1>6, <3>2, <3>3, ItemPutGrew
  <2>2. CASE ~(heap[t].items # <<>> /\ heap[heap[t].items[1]].kind = "number"
                 /\ heap[heap[t].items[1]].number = heap[k].number)
    <3>1. PICK key : key = IF r.heap[r.object].referenced THEN ob_clone(g, k) ELSE Result(g, k)
      OBVIOUS
    <3>2. Yields(g, key)
      <4>1. Yields(g, ob_clone(g, k))
        BY <1>6, <1>7, CloneYields
      <4>2. Yields(g, Result(g, k))
        BY <1>6, <1>7, GrewSame, YieldsResult
      <4> QED
        BY <3>1, <4>1, <4>2
    <3>3. f = AddPair(t, key, p)
      BY <1>8, <2>2, <3>1 DEF Mapping
    <3> QED
      BY <1>5, <1>6, <3>2, <3>3, AddPairGrew
  <2> QED
    BY <2>1, <2>2
<1>10. Sound(f, frames)
  BY <1>4, <1>9, SoundMore
<1> QED
  BY <1>3, <1>8, <1>10, SettleAt

(* A structure is a temporary of the frame while its attribute is set.      *)
LEMMA TemporaryWhile ==
  ASSUME NEW h, h \in Heaps, NEW f, FrameRight(h, f), NEW t \in 1 .. Len(h), h[t].kind = "structure"
  PROVE  FrameRight(h, WithTable(f, remove_tmp(push_tmp(f.table, t), t)))
<1>1. TableRight(Len(h), f.table) /\ Len(h) \in Nat /\ t \in Nat
  BY HeapTypes DEF FrameRight
<1>2. Temporary(t) \notin TreeLabels(f.table)
  <2>1. \A i \in 1 .. Len(f.loops) : f.loops[i].over # t
    BY DEF FrameRight, LoopsRight
  <2> QED
    BY <1>1, <2>1 DEF FrameRight, LoopsRight
<1>3. PICK u : u = push_tmp(f.table, t)
  OBVIOUS
<1>4. TableRight(Len(h), u) /\ TreeLabels(u) = TreeLabels(f.table) \union {Temporary(t)}
  <2>1. LabelRight(Temporary(t), t) /\ u = insert(f.table, Temporary(t), t)
    BY <1>3 DEF LabelRight, push_tmp
  <2>2. Temporary(t) \in TreeLabel(Byte) \ TreeLabels(f.table)
    BY <1>1, <1>2, LabelForms
  <2> QED
    BY <1>1, <2>1, <2>2, TableInsert
<1>5. PICK w : w = remove_tmp(u, t)
  OBVIOUS
<1>6. TableRight(Len(h), w) /\ TreeLabels(w) = TreeLabels(u) \ {Temporary(t)}
  <2>1. w = remove(u, Temporary(t)) /\ Temporary(t) \in TreeLabels(u)
    BY <1>4, <1>5 DEF remove_tmp
  <2> QED
    BY <1>1, <1>4, <2>1, TableRemove
<1>7. SameTemporaries(f.table, w)
  BY <1>2, <1>4, <1>6 DEF SameTemporaries
<1>8. FrameRight(h, WithTable(f, w))
  BY <1>6, <1>7, TablePut
<1> QED
  BY <1>3, <1>5, <1>8

LEMMA SetAttributeSound ==
  ASSUME NEW t, NEW r, Operand(r), t = NULL \/ t \in 1 .. Len(heap), SetAttribute(t, r)
  PROVE  Sound(heap', frames')
<1>1. PICK i, f : i = Top(frames) /\ f = frames[i]
  OBVIOUS
<1>2. PICK e : e = WithTable(f, remove_tmp(push_tmp(f.table, t), t))
  OBVIOUS
<1>3. PICK g : g = set_attribute(r.heap, t, r.object)
  OBVIOUS
<1>4. Takes(t, "structure", r) /\ Settle(State(g, PutFrame(frames, i, e)))
  BY <1>1, <1>2, <1>3 DEF SetAttribute, PutFrame, WithTable
<1>5. t \in 1 .. Len(heap) /\ heap[t].kind = "structure" /\ r.object \in 1 .. Len(r.heap)
  BY <1>4, TakesIs
<1>6. Keeps(heap, r.heap) /\ Sound(r.heap, frames)
  BY DEF Operand
<1>7. t \in 1 .. Len(r.heap) /\ r.heap[t].kind = "structure" /\ r.heap \in Heaps
  BY <1>5, <1>6, KeptAt
<1>8. PICK h \in Heaps : h = r.heap
  BY <1>7
<1>9. Grew(h, g)
  <2>1. t \in 1 .. Len(h) /\ h[t].kind = "structure" /\ r.object \in 1 .. Len(h)
    BY <1>5, <1>7, <1>8
  <2>2. Grew(h, set_attribute(h, t, r.object))
    BY <2>1, AttributeGrew
  <2> QED
    BY <1>3, <1>8, <2>2
<1>10. Sound(g, frames) /\ g \in Heaps
  BY <1>6, <1>8, <1>9, SoundMore DEF Grew
<1>11. t \in 1 .. Len(g) /\ g[t].kind = "structure"
  <2>1. Len(h) \in Nat /\ Len(g) \in Nat /\ Len(h) <= Len(g) /\ g[t].kind = h[t].kind
    BY <1>7, <1>8, <1>9, <1>10, HeapTypes DEF Grew
  <2> QED
    BY <1>7, <1>8, <2>1
<1>12. i \in 1 .. Len(frames) /\ FrameRight(g, f)
  <2>1. i \in 1 .. Len(frames)
    BY <1>1, TopInside DEF Operand
  <2> QED
    BY <1>1, <1>10, <2>1 DEF Sound
<1>13. FrameRight(g, e)
  BY <1>2, <1>10, <1>11, <1>12, TemporaryWhile
<1>14. Sound(g, PutFrame(frames, i, e))
  BY <1>10, <1>12, <1>13, SoundPut
<1> QED
  BY <1>4, <1>14, SettleAt

-----------------------------------------------------------------------------
(* A call and a return.                                                     *)
LEMMA ArgumentsAre ==
  ASSUME NEW arguments \in Arguments
  PROVE  arguments \in Seq(Atoms)
<1>1. CASE arguments \in {<<a>> : a \in Atoms}
  <2>1. PICK a \in Atoms : arguments = <<a>>
    BY <1>1
  <2> QED
    BY <2>1
<1>2. CASE arguments \in {<<[op |-> op], [op |-> op]>> : op \in Fixed}
  <2>1. PICK op \in Fixed : arguments = <<[op |-> op], [op |-> op]>>
    BY <1>2
  <2>2. PICK a : a = [op |-> op]
    BY Zenon
  <2>3. a \in Atoms
    BY <2>2 DEF Atoms
  <2> QED
    BY <2>1, <2>2, <2>3
<1> QED
  BY <1>1, <1>2 DEF Arguments

LEMMA CallSound ==
  ASSUME Sound(heap, frames), NEW arguments \in Arguments, vm_prepare_stack(arguments)
  PROVE  Sound(heap', frames')
<1>1. arguments \in Seq(Atoms) /\ DOMAIN arguments = 1 .. Len(arguments) /\ Len(arguments) \in Nat
  BY ArgumentsAre, LenProperties
<1>2. PICK A : A = {a \in Atoms : Calls(heap, frames, a)}
  BY Zenon
<1>3. \A i \in 1 .. Len(arguments) : arguments[i] \in A
  <2> TAKE i \in 1 .. Len(arguments)
  <2>1. PICK a \in Atoms : a = arguments[i]
    BY <1>1, ElementOfSeq
  <2>2. Value(a).object # NULL
    BY <1>1, <2>1 DEF vm_prepare_stack
  <2>3. AtomForm(a)
    BY AtomsAre
  <2>4. Value(a) = Atom(heap, frames, a)
    BY <2>3 DEF Value, vm_exec, AtomForm
  <2>5. Calls(heap, frames, a)
    BY <2>2, <2>3, <2>4 DEF Calls
  <2> QED
    BY <1>2, <2>1, <2>5
<1>4. arguments \in Seq(A)
  BY <1>1, <1>3, Retyped
<1>5. PICK n \in Nat : n = Len(arguments)
  BY Zenon, <1>1
<1>6. Callings(heap, frames, arguments, A, n)
  BY <1>2, <1>4, <1>5 DEF Callings
<1>7. PICK t : t = FoldLeft(Bound, State(heap, Append(frames, EmptyFrame)), arguments)
  OBVIOUS
<1>8. Called(heap, frames, t)
  BY <1>6, <1>7, AllBound
<1>9. Sound(t.heap, t.frames)
  BY <1>8 DEF Called
<1>10. Settle(t)
  BY <1>7 DEF vm_prepare_stack
<1> QED
  BY <1>9, <1>10, SettleSound

LEMMA Shortened ==
  ASSUME NEW h, NEW fs, Sound(h, fs), Top(fs) > 1
  PROVE  Sound(h, SubSeq(fs, 1, Top(fs) - 1))
<1>1. fs \in Seq(Frame) /\ Len(fs) \in Nat /\ Top(fs) = Len(fs)
  BY TopInside DEF Sound
<1>2. PICK n \in Nat : n = Len(fs)
  BY <1>1
<1>3. 1 <= n - 1 /\ n - 1 \in Int /\ n - 1 <= n
  BY <1>1, <1>2
<1>4. PICK gs : gs = SubSeq(fs, 1, n - 1)
  BY Zenon
<1>5. gs \in Seq(Frame) /\ Len(gs) = n - 1 /\ \A i \in 1 .. n - 1 : gs[i] = fs[i]
  <2>1. /\ SubSeq(fs, 1, n - 1) \in Seq(Frame)
        /\ Len(SubSeq(fs, 1, n - 1)) = IF 1 <= n - 1 THEN n - 1 - 1 + 1 ELSE 0
        /\ \A i \in 1 .. n - 1 - 1 + 1 : SubSeq(fs, 1, n - 1)[i] = fs[1 + i - 1]
    BY <1>1, <1>2, <1>3, SubSeqInside
  <2>2. \A i \in 1 .. n - 1 : i \in 1 .. n - 1 - 1 + 1 /\ 1 + i - 1 = i
    OBVIOUS
  <2> QED
    BY <1>3, <1>4, <2>1, <2>2
<1>6. \A i \in 1 .. Len(gs) : FrameRight(h, gs[i])
  <2> TAKE i \in 1 .. Len(gs)
  <2>1. i \in 1 .. Len(fs) /\ gs[i] = fs[i]
    BY <1>2, <1>5
  <2> QED
    BY <2>1 DEF Sound
<1>7. Sound(h, gs)
  BY <1>3, <1>5, <1>6 DEF Sound
<1> QED
  BY <1>1, <1>2, <1>4, <1>7

LEMMA ReturnSound ==
  ASSUME Sound(heap, frames), NEW into \in {<<name>> : name \in Variables} \union {<<>>},
         NEW e \in Returned, Return(into, Value(e))
  PROVE  Sound(heap', frames')
<1>1. PICK r : r = Value(e)
  OBVIOUS
<1>2. PICK s : s = State(r.heap, SubSeq(frames, 1, Top(frames) - 1))
  OBVIOUS
<1>3. Top(frames) > 1 /\ r.object # NULL /\ Settle(IF into = <<>> THEN s ELSE Assigned(s, into[1], r.object))
  BY <1>1, <1>2 DEF Return
<1>4. Sound(r.heap, frames) /\ r.object \in 1 .. Len(r.heap)
  <2>1. ExpressionForm(e)
    BY ReturnedAre
  <2>2. Sound(r.heap, frames) /\ (r.object = NULL \/ r.object \in 1 .. Len(r.heap))
    BY <1>1, <2>1, ValueSound
  <2> QED
    BY <1>3, <2>2
<1>5. PICK h, gs : h = r.heap /\ gs = SubSeq(frames, 1, Top(frames) - 1)
  BY Zenon
<1>6. Sound(h, gs)
  BY <1>3, <1>4, <1>5, Shortened
<1>7. s \in States /\ s.heap = h /\ s.frames = gs
  BY Zenon, <1>2, <1>5, <1>6, StateIs
<1>8. CASE into = <<>>
  BY <1>3, <1>6, <1>7, <1>8, SettleSound
<1>9. CASE into # <<>>
  <2>1. PICK name \in Names : name = into[1]
    BY <1>9 DEF Names
  <2>2. PICK o \in 1 .. Len(s.heap) : o = r.object
    BY <1>4, <1>5, <1>7
  <2>3. PICK t : t = Assigned(s, name, o)
    OBVIOUS
  <2>4. Sound(s.heap, s.frames)
    BY <1>6, <1>7
  <2>5. Moves(s, t)
    BY <1>7, <2>3, <2>4, AssignedMoves
  <2>6. Sound(t.heap, t.frames)
    BY <2>5, MovesSound
  <2>7. Settle(t)
    BY <1>3, <1>9, <2>1, <2>2, <2>3
  <2> QED
    BY <2>6, <2>7, SettleSound
<1> QED
  BY <1>8, <1>9

-----------------------------------------------------------------------------
(* Loops.                                                                   *)
LEMMA ReferredPlain ==
  ASSUME NEW h \in Heaps, NEW o \in 1 .. Len(h), h[o].kind # "reference"
  PROVE  Referred(h, o) = o
<1>1. PICK led \in [0 .. Len(h) -> 1 .. Len(h)] : LedSteps(h, o, led) /\ Referred(h, o) = led[Len(h)]
  BY ReferredSteps
<1>2. PICK N \in Nat : N = Len(h)
  BY HeapTypes
<1> DEFINE S == {n \in Nat : led[n] = o}
<1>3. 0 \in S
  BY <1>1 DEF LedSteps
<1>4. \A n \in 1 .. N : n - 1 \in S => n \in S
  <2> TAKE n \in 1 .. N
  <2> HAVE n - 1 \in S
  <2>1. led[n] = Next1(h, led[n - 1]) /\ led[n - 1] = o
    BY <1>1, <1>2 DEF LedSteps
  <2>2. Next1(h, o) = o
    BY DEF Next1, Refers
  <2> QED
    BY <2>1, <2>2
<1>5. \A n \in 0 .. N : n \in S
  <2> HIDE DEF S
  <2> QED
    BY Zenon, <1>3, <1>4, UpTo
<1>6. N \in S
  BY <1>5
<1> QED
  BY <1>1, <1>2, <1>6

ForeachLoop(names, r, t) ==
  [names |-> names, over |-> r.object, index |-> 0, size |-> Len(r.heap[t].items) \div Len(names)]

LEMMA Quotient ==
  ASSUME NEW a \in Nat, NEW b \in Nat, b # 0
  PROVE  a \div b \in Nat
OBVIOUS

LEMMA ForeachSound ==
  ASSUME NEW kind, kind \in {"vector", "map"}, NEW names \in Seq(Names), Len(names) # 0, NEW r, Operand(r),
         "walksTwice" \notin Habits, Foreach(kind, names, r)
  PROVE  Sound(heap', frames')
<1>1. PICK h, o, i, f : h = r.heap /\ o = r.object /\ i = Top(frames) /\ f = frames[i]
  OBVIOUS
<1>2. PICK t : t = On(h, o)
  OBVIOUS
<1>3. PICK x : x = ForeachLoop(names, r, t)
  OBVIOUS
<1>4. PICK u, ls : u = push_tmp(f.table, o) /\ ls = Append(f.loops, x)
  BY Zenon
<1>5. PICK e : e = WithLoops(u, ls)
  OBVIOUS
<1>6. /\ o # NULL /\ Is(h, t, kind)
      /\ \A j \in DOMAIN Loops(frames) : Loops(frames)[j].over # o
      /\ Settle(State(h, PutFrame(frames, i, e)))
  BY <1>1, <1>2, <1>3, <1>4, <1>5 DEF Foreach, PutFrame, WithLoops, ForeachLoop
<1>7. Sound(h, frames) /\ o \in 1 .. Len(h) /\ h \in Heaps
  BY <1>1, <1>6 DEF Operand, Sound
<1>8. t \in 1 .. Len(h) /\ h[t].kind = kind
  <2>1. t = NULL \/ t \in 1 .. Len(h)
    BY <1>2, <1>7, TargetInside
  <2> QED
    BY <1>6, <2>1 DEF Is
<1>9. h[o].kind # "structure"
  <2>1. ASSUME h[o].kind = "structure" PROVE FALSE
    <3>1. Referred(h, o) = o
      BY <1>7, <2>1, ReferredPlain
    <3>2. Target(h, o) = o
      BY <2>1, <3>1 DEF Target
    <3>3. t = o
      BY <1>2, <1>6, <3>2 DEF On
    <3> QED
      BY <1>8, <2>1, <3>3
  <2> QED
    BY <2>1
<1>10. x \in Loop /\ x.over = o
  <2>1. Len(h[t].items) \in Nat /\ Len(names) \in Nat
    BY <1>7, <1>8, HeapTypes, LenProperties
  <2>2. PICK q \in Nat : q = Len(h[t].items) \div Len(names)
    BY Zenon, <2>1, Quotient
  <2>3. x = [names |-> names, over |-> o, index |-> 0, size |-> q]
    BY <1>1, <1>3, <2>2 DEF ForeachLoop
  <2>4. o \in Nat
    BY <1>7, HeapTypes
  <2> QED
    BY <2>3, <2>4 DEF Loop
<1>11. i \in 1 .. Len(frames) /\ FrameRight(h, f) /\ Loops(frames) = f.loops
  <2>1. i \in 1 .. Len(frames)
    BY <1>1, <1>7, TopInside
  <2> QED
    BY <1>1, <1>7, <2>1 DEF Sound, Loops
<1>12. \A j \in 1 .. Len(f.loops) : f.loops[j].over # o
  <2>1. DOMAIN f.loops = 1 .. Len(f.loops)
    BY <1>11, LenProperties DEF FrameRight, Frame
  <2> QED
    BY <1>6, <1>11, <2>1
<1>13. Starts(h, f, x, u, ls)
  BY <1>4, <1>7, <1>9, <1>10, <1>11, <1>12 DEF Starts
<1>14. FrameRight(h, e)
  BY <1>5, <1>13, LoopIn
<1>15. Sound(h, PutFrame(frames, i, e))
  BY <1>7, <1>11, <1>14, SoundPut
<1> QED
  BY <1>6, <1>15, SettleAt

LEMMA EndLoopSound ==
  ASSUME Sound(heap, frames), EndLoop
  PROVE  Sound(heap', frames')
<1>1. PICK s : s = State(heap, frames)
  OBVIOUS
<1>2. s \in States /\ s.heap = heap /\ s.frames = frames
  BY <1>1, StateIs
<1>3. Sound(s.heap, s.frames)
  BY <1>2
<1>4. PICK n \in Nat : Looped(s, n) /\ n = Len(Loops(s.frames))
  BY <1>2, <1>3, LoopedIs
<1>5. Loops(frames) # <<>> /\ Settle(LoopDone(s))
  BY <1>1 DEF EndLoop
<1>6. Loops(frames) \in Seq(Loop)
  BY Zenon, TopInside DEF Loops, Sound, FrameRight, Frame
<1>7. n # 0
  BY <1>2, <1>4, <1>5, <1>6, EmptySeq
<1>8. 1 <= n
  BY <1>7
<1>9. Looped(LoopDone(s), n - 1)
  BY <1>4, <1>8, LoopDoneRight
<1>10. Sound(LoopDone(s).heap, LoopDone(s).frames)
  BY <1>9 DEF Looped
<1> QED
  BY <1>5, <1>10, SettleSound

-----------------------------------------------------------------------------
(* A round of a loop.                                                       *)
Counted(loops, n, index) == [loops EXCEPT ![n] = [@ EXCEPT !.index = index]]
LoopsPut(f, loops) == [f EXCEPT !.loops = loops]

LEMMA RoundCounted ==
  ASSUME NEW h, NEW f, FrameRight(h, f), NEW n \in 1 .. Len(f.loops), NEW index \in Nat
  PROVE  FrameRight(h, LoopsPut(f, Counted(f.loops, n, index)))
<1>1. PICK ls, m : ls = f.loops /\ m = Len(ls)
  OBVIOUS
<1>2. ls \in Seq(Loop) /\ m \in Nat /\ ls \in [1 .. m -> Loop] /\ f \in Frame
  BY <1>1, LenProperties DEF FrameRight, Frame
<1>3. n \in 1 .. m /\ ls[n] \in Loop
  BY <1>1, <1>2
<1>4. PICK x : x = [ls[n] EXCEPT !.index = index]
  BY Zenon
<1>5. x \in Loop /\ x.over = ls[n].over
  <2>1. x = [names |-> ls[n].names, over |-> ls[n].over, index |-> index, size |-> ls[n].size]
    BY Zenon, <1>3, <1>4, LoopExcept
  <2> QED
    BY <1>3, <2>1 DEF Loop
<1>6. PICK us : us = Counted(ls, n, index)
  OBVIOUS
<1>7. us = [ls EXCEPT ![n] = x]
  BY <1>4, <1>6 DEF Counted
<1>8. us \in [1 .. m -> Loop] /\ \A i \in 1 .. m : us[i].over = ls[i].over
  BY Zenon, <1>2, <1>5, <1>7
<1>9. us \in Seq(Loop) /\ Len(us) = m
  <2>1. us \in Seq(Loop)
    BY <1>2, <1>8, SeqDef
  <2> QED
    BY <1>2, <1>8, <2>1, LenProperties
<1>10. PICK e : e = LoopsPut(f, us)
  OBVIOUS
<1>11. e = [table |-> f.table, loops |-> us]
  BY Zenon, <1>2, <1>10, FrameExcept DEF LoopsPut
<1>12. e \in Frame /\ e.table = f.table /\ e.loops = us
  BY <1>2, <1>9, <1>11 DEF Frame
<1>13. LoopsRight(h, e)
  <2>1. \A i \in 1 .. Len(e.loops) : i \in 1 .. Len(f.loops) /\ e.loops[i].over = f.loops[i].over
    BY <1>1, <1>8, <1>9, <1>12
  <2>2. Len(e.loops) = Len(f.loops)
    BY <1>1, <1>9, <1>12
  <2> QED
    BY Zenon, <1>12, <2>1, <2>2 DEF FrameRight, LoopsRight
<1> QED
  BY <1>1, <1>6, <1>10, <1>12, <1>13 DEF FrameRight

LEMMA GivenSound ==
  ASSUME NEW s, NEW names, NEW values, NEW n \in Nat, Additions(s, names, values, n), NEW there,
         Settle(IF there THEN AddAll(s, names, values) ELSE AllDone(AddAll(s, names, values)))
  PROVE  Sound(heap', frames')
<1>1. PICK t : t = AddAll(s, names, values)
  OBVIOUS
<1>2. Moves(s, t)
  BY <1>1, AddAllMoves
<1>3. t \in States /\ Sound(t.heap, t.frames)
  BY <1>2, MovesSound
<1>4. PICK u : u = AllDone(t)
  OBVIOUS
<1>5. Sound(u.heap, u.frames)
  BY <1>3, <1>4, AllDoneSound DEF SoundStates
<1>6. Settle(t) \/ Settle(u)
  BY <1>1, <1>4
<1> QED
  BY <1>3, <1>5, <1>6, SettleSound

(* The items a round gives to the names of its loop.                        *)
RoundValues(items, index, width) ==
  IF (index + 1) * width <= Len(items) THEN SubSeq(items, index * width + 1, (index + 1) * width)
  ELSE <<Failure>>

LEMMA RoundGives ==
  ASSUME NEW N \in Nat, 5 <= N, NEW items \in Seq(1 .. N), NEW index \in Nat, NEW width \in Nat
  PROVE  /\ RoundValues(items, index, width) \in Seq(1 .. N)
         /\ Len(RoundValues(items, index, width)) <= width
<1>1. PICK a \in Nat, b \in Nat, m \in Nat : a = index * width /\ b = (index + 1) * width /\ m = Len(items)
  <2>1. index * width \in Nat /\ (index + 1) * width \in Nat
    OBVIOUS
  <2>2. Len(items) \in Nat
    BY LenProperties
  <2> QED
    BY Zenon, <2>1, <2>2
<1>2. b = a + width
  BY <1>1
<1>3. PICK vs : vs = RoundValues(items, index, width)
  OBVIOUS
<1>4. CASE b <= m
  <2>1. vs = SubSeq(items, a + 1, b)
    BY <1>1, <1>3, <1>4 DEF RoundValues
  <2>2. a + 1 \in Int /\ b \in Int /\ 1 <= a + 1 /\ b <= Len(items)
    BY <1>1, <1>4
  <2>3. /\ SubSeq(items, a + 1, b) \in Seq(1 .. N)
        /\ Len(SubSeq(items, a + 1, b)) = IF a + 1 <= b THEN b - (a + 1) + 1 ELSE 0
    BY <2>2, SubSeqInside
  <2>4. Len(vs) <= width
    BY <1>2, <2>1, <2>3
  <2> QED
    BY <1>3, <2>1, <2>3, <2>4
<1>5. CASE ~(b <= m)
  <2>1. vs = <<Failure>>
    BY <1>1, <1>3, <1>5 DEF RoundValues
  <2>2. Failure \in 1 .. N
    BY DEF Failure
  <2>3. vs \in Seq(1 .. N) /\ Len(vs) = 1
    BY <2>1, <2>2
  <2>4. width # 0
    <3>1. width = 0 => b = 0
      BY <1>1
    <3> QED
      BY <1>5, <3>1
  <2> QED
    BY <1>3, <2>3, <2>4
<1> QED
  BY <1>4, <1>5

LEMMA IterateSound ==
  ASSUME Sound(heap, frames), Iterate
  PROVE  Sound(heap', frames')
<1>1. PICK i, f, ls : i = Top(frames) /\ f = frames[i] /\ ls = f.loops
  OBVIOUS
<1>2. /\ i \in 1 .. Len(frames) /\ FrameRight(heap, f) /\ Loops(frames) = ls /\ ls \in Seq(Loop)
      /\ heap \in Heaps /\ Len(heap) \in Nat /\ 5 <= Len(heap)
  <2>1. i \in 1 .. Len(frames)
    BY <1>1, TopInside
  <2> QED
    BY <1>1, <2>1, HeapTypes DEF Sound, Loops, FrameRight, Frame
<1>3. PICK n \in Nat : n = Len(ls)
  BY <1>2, LenProperties
<1>4. n # 0
  BY <1>2, <1>3, EmptySeq DEF Iterate
<1>5. n \in 1 .. Len(ls) /\ Last(ls) = ls[n]
  BY <1>3, <1>4 DEF Last
<1>6. PICK x \in Loop : x = ls[n]
  BY <1>2, <1>5, ElementOfSeq
<1>7. PICK t : t = Target(heap, x.over)
  OBVIOUS
<1>8. t \in 1 .. Len(heap)
  <2>1. x.over \in 1 .. Len(heap)
    BY <1>1, <1>2, <1>5, <1>6 DEF FrameRight, LoopsRight
  <2>2. t # NULL
    BY <1>2, <1>5, <1>6, <1>7 DEF Iterate
  <2>3. Target(heap, x.over) = NULL \/ Target(heap, x.over) \in 1 .. Len(heap)
    <3>1. Referred(heap, x.over) \in 1 .. Len(heap)
      BY Zenon, <1>2, <2>1, ReferredInside
    <3> QED
      BY <3>1 DEF Target
  <2> QED
    BY <1>7, <2>2, <2>3
<1>9. PICK items : items = heap[t].items
  OBVIOUS
<1>10. items \in Seq(1 .. Len(heap))
  BY <1>2, <1>8, <1>9, HeapItems
<1>11. PICK names, index, width : names = x.names /\ index = x.index /\ width = Len(x.names)
  BY Zenon
<1>12. names \in Seq(Names) /\ index \in Nat /\ width \in Nat
  BY <1>6, <1>11, LenProperties DEF Loop
<1>13. PICK values : values = RoundValues(items, index, width)
  OBVIOUS
<1>14. values \in Seq(1 .. Len(heap)) /\ Len(values) <= Len(names)
  <2>1. PICK N \in Nat : N = Len(heap)
    BY <1>2
  <2>2. 5 <= N /\ items \in Seq(1 .. N)
    BY <1>2, <1>10, <2>1
  <2>3. RoundValues(items, index, width) \in Seq(1 .. N) /\ Len(RoundValues(items, index, width)) <= width
    BY <1>12, <2>2, RoundGives
  <2> QED
    BY <1>11, <1>13, <2>1, <2>3
<1>15. PICK e : e = LoopsPut(f, Counted(ls, n, index + 1))
  OBVIOUS
<1>16. PICK s : s = State(heap, PutFrame(frames, i, e))
  OBVIOUS
<1>17. Sound(heap, PutFrame(frames, i, e))
  <2>1. FrameRight(heap, e)
    <3>1. PICK next \in Nat : next = index + 1
      BY <1>12
    <3>2. n \in 1 .. Len(f.loops) /\ FrameRight(heap, f)
      BY <1>1, <1>2, <1>5
    <3>3. FrameRight(heap, LoopsPut(f, Counted(f.loops, n, next)))
      BY <3>2, RoundCounted
    <3> QED
      BY <1>1, <1>15, <3>1, <3>3
  <2> QED
    BY <1>2, <2>1, SoundPut
<1>18. s \in States /\ s.heap = heap /\ s.frames = PutFrame(frames, i, e)
  BY <1>16, <1>17, StateIs
<1>19. PICK k \in Nat : k = Len(values)
  BY <1>14, LenProperties
<1>20. Additions(s, names, values, k)
  BY <1>12, <1>14, <1>17, <1>18, <1>19 DEF Additions
<1>21. PICK there : there = ((index + 1) * width <= Len(items))
  OBVIOUS
<1>22. State(heap, [frames EXCEPT ![Top(frames)].loops[Len(Loops(frames))].index = @ + 1]) = s
  <2>1. i = Top(frames) /\ n = Len(Loops(frames)) /\ f = frames[i] /\ ls = f.loops /\ index = ls[n].index
    BY <1>1, <1>2, <1>3, <1>5, <1>6, <1>11
  <2>2. [frames EXCEPT ![i].loops[n].index = @ + 1] = PutFrame(frames, i, e)
    BY <1>15, <2>1 DEF PutFrame, LoopsPut, Counted
  <2> QED
    BY Zenon, <1>16, <2>1, <2>2
<1>23. Given(s, names, there, values)
  BY <1>2, <1>5, <1>6, <1>7, <1>9, <1>11, <1>13, <1>21, <1>22 DEF Iterate, RoundValues
<1>24. Settle(IF there THEN AddAll(s, names, values) ELSE AllDone(AddAll(s, names, values)))
  BY <1>23 DEF Given
<1> QED
  BY <1>20, <1>24, GivenSound

-----------------------------------------------------------------------------
(* A vector is exploded.                                                    *)
Exploding(s, t, m) == [i \in 1 .. m |-> IF i <= Len(s.heap[t].items) THEN s.heap[t].items[i] ELSE Failure]

LEMMA ExplodeSound ==
  ASSUME NEW name \in Names, NEW r, Operand(r), vm_exec_explode(<<name>>, r)
  PROVE  Sound(heap', frames')
<1>1. PICK h, t, names, s0 : h = r.heap /\ t = On(r.heap, r.object) /\ names = <<name>> /\ s0 = State(h, frames)
  OBVIOUS
<1>2. PICK s : s = FoldLeft(Cleared, s0, names)
  OBVIOUS
<1>3. Len(names) = 1 /\ names \in Seq(Names)
  BY <1>1
<1>4. PICK m : m = Min({Len(names), Len(h[t].items)})
  OBVIOUS
<1>5. r.object # NULL /\ Is(h, t, "vector") /\ Settle(AddAll(s, names, Exploding(s, t, m)))
  BY Zenon, <1>1, <1>2, <1>4 DEF vm_exec_explode, Exploding
<1>6. Sound(h, frames) /\ h \in Heaps /\ t \in 1 .. Len(h)
  <2>1. Sound(h, frames) /\ r.object \in 1 .. Len(h) /\ h \in Heaps
    BY <1>1, <1>5 DEF Operand, Sound
  <2>2. t = NULL \/ t \in 1 .. Len(h)
    BY <1>1, <2>1, TargetInside
  <2> QED
    BY <1>5, <2>1, <2>2 DEF Is
<1>7. m \in Nat /\ m <= 1
  <2>1. PICK l \in Nat : l = Len(h[t].items)
    BY <1>6, HeapTypes
  <2>2. m = IF 1 <= l THEN 1 ELSE l
    <3>1. 1 \in Int /\ l \in Int
      OBVIOUS
    <3>2. Min({1, l}) = IF 1 <= l THEN 1 ELSE l
      BY <3>1, MinPair
    <3> QED
      BY <1>3, <1>4, <2>1, <3>2
  <2> QED
    BY <2>2
<1>8. s0 \in States /\ s0.heap = h /\ s0.frames = frames
  BY <1>1, <1>6, StateIs
<1>9. Clearings(s0, names, 1)
  BY <1>3, <1>6, <1>8 DEF Clearings
<1>10. Moves(s0, s)
  <2>1. 1 \in Nat
    OBVIOUS
  <2> QED
    BY <1>2, <1>9, <2>1, ClearedAllMoves
<1>11. s \in States /\ Sound(s.heap, s.frames) /\ t \in 1 .. Len(s.heap)
  BY <1>6, <1>8, <1>10, MovesSound
<1>12. PICK g, items : g = s.heap /\ items = g[t].items /\ g \in Heaps
  BY <1>11 DEF Sound
<1>13. items \in Seq(1 .. Len(g)) /\ Failure \in 1 .. Len(g)
  <2>1. items \in Seq(1 .. Len(g))
    BY <1>11, <1>12, HeapItems
  <2>2. Failure \in 1 .. Len(g)
    BY <1>11, <1>12, StaticsInside DEF Failure
  <2> QED
    BY <2>1, <2>2
<1>14. PICK values : values = Exploding(s, t, m)
  OBVIOUS
<1>15. PICK l \in Nat : l = Len(items)
  BY <1>13, LenProperties
<1>16. values \in [1 .. m -> 1 .. Len(g)]
  <2>1. values = [i \in 1 .. m |-> IF i <= l THEN items[i] ELSE Failure]
    BY <1>12, <1>14, <1>15 DEF Exploding
  <2>2. \A i \in 1 .. m : i <= l => items[i] \in 1 .. Len(g)
    BY <1>7, <1>13, <1>15, ElementOfSeq
  <2> QED
    BY <1>13, <2>1, <2>2
<1>17. values \in Seq(1 .. Len(g)) /\ Len(values) = m
  <2>1. values \in Seq(1 .. Len(g))
    BY <1>7, <1>16, SeqDef
  <2> QED
    BY <1>7, <1>16, <2>1, LenProperties
<1>18. Additions(s, names, values, m)
  BY <1>3, <1>7, <1>11, <1>12, <1>17 DEF Additions
<1>19. PICK u : u = AddAll(s, names, values)
  OBVIOUS
<1>20. Moves(s, u)
  BY <1>7, <1>18, <1>19, AddAllMoves
<1>21. Sound(u.heap, u.frames)
  BY <1>20, MovesSound
<1> QED
  BY <1>5, <1>14, <1>19, <1>21, SettleSound

-----------------------------------------------------------------------------
(* Every step.                                                              *)
LEMMA InitialHeapRight ==
  /\ InitialHeap \in Heaps /\ Len(InitialHeap) = 5 /\ InitialHeap[Prototype].kind = "structure"
  /\ RefsFall(InitialHeap)
<1>1. PICK a, b, c, d, e : /\ a = Object("number", 1, <<>>) /\ b = Object("reference", 0, <<>>)
                           /\ c = Object("number", 0, <<>>) /\ d = Object("number", MaxNumber, <<>>)
                           /\ e = Object("structure", 0, <<Void>>)
  OBVIOUS
<1>2. InitialHeap = <<a, b, c, d, e>>
  BY <1>1 DEF InitialHeap
<1>3. 5 \in Nat /\ Void \in 1 .. 5 /\ MaxNumber \in Nat
  BY MemoryAssumption DEF Void
<1>4. Fits(5, a) /\ Fits(5, b) /\ Fits(5, c) /\ Fits(5, d)
  <2>1. <<>> \in Seq(Nat) /\ Allowed(5, "number", <<>>) /\ Allowed(5, "reference", <<>>)
    BY <1>3, NoItems
  <2>2. "number" \in Kinds /\ "reference" \in Kinds /\ 0 \in Nat /\ 1 \in Nat
    BY DEF Kinds
  <2> QED
    BY Zenon, <1>1, <1>3, <2>1, <2>2, ObjectFits
<1>5. Fits(5, e) /\ e.kind = "structure"
  <2>1. PICK items \in Seq(Nat) : items = <<Void>> /\ Allowed(5, "structure", items)
    BY Zenon, <1>3, OneItem
  <2>2. "structure" \in Kinds /\ 0 \in Nat
    BY DEF Kinds, Collections
  <2>3. PICK kind \in Kinds : kind = "structure"
    BY <2>2
  <2>4. Allowed(5, kind, items) /\ e = Object(kind, 0, items)
    BY <1>1, <2>1, <2>3
  <2>5. Fits(5, Object(kind, 0, items)) /\ Object(kind, 0, items).kind = kind
    BY <1>3, <2>2, <2>4, ObjectFits
  <2> QED
    BY <2>3, <2>4, <2>5
<1>6. PICK h : h = <<a, b, c, d, e>>
  BY Zenon
<1>7. a \in Thing /\ b \in Thing /\ c \in Thing /\ d \in Thing /\ e \in Thing
  BY <1>4, <1>5 DEF Fits
<1>8. h \in Seq(Thing) /\ Len(h) = 5 /\ h[1] = a /\ h[2] = b /\ h[3] = c /\ h[4] = d /\ h[5] = e
  BY <1>6, <1>7
<1>9. \A o \in 1 .. Len(h) : Fits(Len(h), h[o])
  <2> TAKE o \in 1 .. Len(h)
  <2>1. o = 1 \/ o = 2 \/ o = 3 \/ o = 4 \/ o = 5
    BY <1>8
  <2> QED
    BY <1>4, <1>5, <1>8, <2>1
<1>10. h \in Heaps
  BY Zenon, <1>8, <1>9, HeapIs
<1>11. RefsFall(h)
  <2>1. ASSUME NEW o \in 1 .. 5, h[o].kind = "reference", NEW j \in 1 .. Len(h[o].items)
        PROVE  FALSE
    <3>1. b.items = <<>> /\ a.kind = "number" /\ c.kind = "number" /\ d.kind = "number"
      BY <1>1 DEF Object
    <3>2. o = 1 \/ o = 2 \/ o = 3 \/ o = 4 \/ o = 5
      OBVIOUS
    <3>3. o = 2
      BY <1>5, <1>8, <2>1, <3>1, <3>2
    <3>4. h[o].items = <<>>
      BY <1>8, <3>1, <3>3
    <3> QED
      BY <2>1, <3>4, EmptySeq
  <2>2. PICK rank : rank = [o \in 1 .. 5 |-> 0]
    OBVIOUS
  <2>3. rank \in [1 .. 5 -> 0 .. 0] /\ 0 \in Nat
    BY <2>2
  <2> QED
    BY <1>8, <2>1, <2>3 DEF RefsFall
<1> QED
  BY <1>2, <1>5, <1>6, <1>8, <1>10, <1>11 DEF Prototype

LEMMA InitSound ==
  ASSUME Init
  PROVE  Sound(heap, frames)
<1>1. PICK h, e, fs : h = InitialHeap /\ e = EmptyFrame /\ fs = <<e>>
  BY Zenon
<1>2. heap = h /\ frames = fs
  BY <1>1 DEF Init
<1>3. h \in Heaps /\ Len(h) = 5 /\ h[Prototype].kind = "structure" /\ RefsFall(h)
  BY <1>1, InitialHeapRight
<1>4. FrameRight(h, e)
  BY <1>1, EmptyRight
<1>5. e \in Frame
  BY <1>4 DEF FrameRight
<1>6. fs \in Seq(Frame) /\ Len(fs) = 1 /\ fs[1] = e
  BY <1>1, <1>5
<1>7. \A i \in 1 .. Len(fs) : FrameRight(h, fs[i])
  BY <1>4, <1>6
<1> QED
  BY <1>2, <1>3, <1>6, <1>7 DEF Sound

LEMMA AssignableNames ==
  ASSUME NEW name \in Assignable
  PROVE  name \in Names
BY DEF Assignable, Names

LEMMA NextSound ==
  ASSUME Sound(heap, frames), "walksTwice" \notin Habits, Next
  PROVE  Sound(heap', frames')
<1>1. CASE \E name \in Assignable, e \in Expressions : Assign(name, Value(e))
  BY <1>1, AssignableNames, AssignSound
<1>2. CASE \E name \in Assignable, e \in Atoms : Catch(name, Value(e))
  BY <1>2, AssignableNames, CatchSound
<1>3. CASE \E e \in Changeable : Increment(On(heap, Value(e).object))
  BY <1>3, IncrementSound
<1>4. CASE \E name \in Names, e \in Operands : vm_exec_subscript_push(On(heap, Named(name)), Value(e))
  <2>1. PICK name \in Names, e \in Operands : vm_exec_subscript_push(On(heap, Named(name)), Value(e))
    BY <1>4
  <2>2. PICK t, r : t = On(heap, Named(name)) /\ r = Value(e)
    OBVIOUS
  <2>3. Operand(r) /\ (t = NULL \/ t \in 1 .. Len(heap))
    BY <2>2, OperandForms, OperandIs, NamedInside
  <2> QED
    BY <2>1, <2>2, <2>3, PushSound
<1>5. CASE \E name \in Names, e \in Operands : SetItem(On(heap, Named(name)), Value(e))
  <2>1. PICK name \in Names, e \in Operands : SetItem(On(heap, Named(name)), Value(e))
    BY <1>5
  <2>2. PICK t, r : t = On(heap, Named(name)) /\ r = Value(e)
    OBVIOUS
  <2>3. Operand(r) /\ (t = NULL \/ t \in 1 .. Len(heap))
    BY <2>2, OperandForms, OperandIs, NamedInside
  <2> QED
    BY <2>1, <2>2, <2>3, SetItemSound
<1>6. CASE \E name, key \in Names, e \in Atoms :
             SetMapped(On(heap, Named(name)), Named(key), Value(e))
  <2>1. PICK name \in Names, key \in Names, e \in Atoms :
               SetMapped(On(heap, Named(name)), Named(key), Value(e))
    BY <1>6
  <2>2. PICK t, k, r : t = On(heap, Named(name)) /\ k = Named(key) /\ r = Value(e)
    OBVIOUS
  <2>3. OperandForm(e)
    BY AtomsAre DEF OperandForm
  <2>4. Operand(r) /\ (t = NULL \/ t \in 1 .. Len(heap)) /\ (k = NULL \/ k \in 1 .. Len(heap))
    BY <2>2, <2>3, OperandIs, NamedInside
  <2> QED
    BY <2>1, <2>2, <2>4, SetMappedSound
<1>7. CASE \E name \in Names, e \in Operands : SetAttribute(On(heap, Named(name)), Value(e))
  <2>1. PICK name \in Names, e \in Operands : SetAttribute(On(heap, Named(name)), Value(e))
    BY <1>7
  <2>2. PICK t, r : t = On(heap, Named(name)) /\ r = Value(e)
    OBVIOUS
  <2>3. Operand(r) /\ (t = NULL \/ t \in 1 .. Len(heap))
    BY <2>2, OperandForms, OperandIs, NamedInside
  <2> QED
    BY <2>1, <2>2, <2>3, SetAttributeSound
<1>8. CASE \E arguments \in Arguments : vm_prepare_stack(arguments)
  BY <1>8, CallSound
<1>9. CASE \E into \in {<<name>> : name \in Variables} \union {<<>>}, e \in Returned :
             Return(into, Value(e))
  BY <1>9, ReturnSound
<1>10. CASE \E name \in Assignable, e \in Operands : vm_exec_foreach(name, Value(e))
  <2>1. PICK name \in Assignable, e \in Operands : vm_exec_foreach(name, Value(e))
    BY <1>10
  <2>2. PICK names, r : names = <<name>> /\ r = Value(e)
    BY Zenon
  <2>3. names \in Seq(Names) /\ Len(names) # 0
    BY <2>2, AssignableNames
  <2>4. Operand(r)
    BY <2>2, OperandForms, OperandIs
  <2>5. Foreach("vector", names, r)
    BY <2>1, <2>2 DEF vm_exec_foreach
  <2> QED
    BY <2>3, <2>4, <2>5, ForeachSound
<1>11. CASE \E key, value \in Assignable, e \in Atoms : vm_exec_foreach_mapping(key, value, Value(e))
  <2>1. PICK key \in Assignable, value \in Assignable, e \in Atoms : vm_exec_foreach_mapping(key, value, Value(e))
    BY <1>11
  <2>2. PICK names, r : names = <<key, value>> /\ r = Value(e)
    BY Zenon
  <2>3. names \in Seq(Names) /\ Len(names) # 0
    BY <2>2, AssignableNames
  <2>4. OperandForm(e)
    BY AtomsAre DEF OperandForm
  <2>5. Operand(r)
    BY <2>2, <2>4, OperandIs
  <2>6. Foreach("map", names, r)
    BY <2>1, <2>2 DEF vm_exec_foreach_mapping
  <2> QED
    BY <2>3, <2>5, <2>6, ForeachSound
<1>12. CASE Iterate
  BY <1>12, IterateSound
<1>13. CASE EndLoop
  BY <1>13, EndLoopSound
<1>14. CASE \E name \in Assignable, e \in Operands : vm_exec_explode(<<name>>, Value(e))
  <2>1. PICK name \in Assignable, e \in Operands : vm_exec_explode(<<name>>, Value(e))
    BY <1>14
  <2>2. PICK r : r = Value(e)
    OBVIOUS
  <2>3. Operand(r) /\ name \in Names
    BY <2>2, OperandForms, OperandIs, AssignableNames
  <2> QED
    BY <2>1, <2>2, <2>3, ExplodeSound
<1> QED
  BY <1>1, <1>2, <1>3, <1>4, <1>5, <1>6, <1>7, <1>8, <1>9, <1>10, <1>11, <1>12, <1>13, <1>14 DEF Next

(* Frames and heap are sound.                                               *)
THEOREM SoundAlways ==
  ASSUME "walksTwice" \notin Habits
  PROVE  Spec => []Sound(heap, frames)
<1>1. Init => Sound(heap, frames)
  BY InitSound
<1>2. Sound(heap, frames) /\ [Next]_vars => Sound(heap, frames)'
  <2>1. CASE Next
    BY <2>1, NextSound
  <2>2. CASE UNCHANGED vars
    BY <2>2 DEF vars
  <2> QED
    BY <2>1, <2>2
<1> QED
  BY <1>1, <1>2, PTL DEF Spec

-----------------------------------------------------------------------------
(* Consequences.                                                            *)
(* A chain of references visits no object twice, hence has an end.          *)
Falls(h, rank, led, n) ==
  Refers(h, led[n]) => \A k \in 0 .. n, m \in 0 .. n : m < k => rank[led[k]] < rank[led[m]]

LEMMA ChainsEnd ==
  ASSUME NEW h \in Heaps, RefsFall(h), NEW o \in 1 .. Len(h)
  PROVE  ~Refers(h, Referred(h, o))
<1>1. PICK N \in Nat : N = Len(h)
  BY HeapTypes
<1>2. PICK led \in [0 .. N -> 1 .. N] : LedSteps(h, o, led) /\ Referred(h, o) = led[N]
  BY <1>1, ReferredSteps
<1>3. PICK M \in Nat : \E rank \in [1 .. N -> 0 .. M] :
        \A t \in 1 .. N : h[t].kind = "reference" =>
           \A j \in 1 .. Len(h[t].items) : rank[h[t].items[j]] < rank[t]
  BY <1>1 DEF RefsFall
<1>4. PICK rank \in [1 .. N -> 0 .. M] :
        \A t \in 1 .. N : h[t].kind = "reference" =>
           \A j \in 1 .. Len(h[t].items) : rank[h[t].items[j]] < rank[t]
  BY <1>3
<1>5. \A t \in 1 .. N : Refers(h, t) => rank[Next1(h, t)] < rank[t]
  <2>1. ASSUME NEW t \in 1 .. N, Refers(h, t)
        PROVE  rank[Next1(h, t)] < rank[t]
    <3>1. Len(h[t].items) \in Nat /\ Len(h[t].items) # 0
      BY <1>1, <2>1, HeapTypes, EmptySeq DEF Refers
    <3>2. \A l \in Nat : l # 0 => 1 \in 1 .. l
      OBVIOUS
    <3>3. 1 \in 1 .. Len(h[t].items)
      BY Zenon, <3>1, <3>2
    <3> QED
      BY <1>4, <2>1, <3>3 DEF Refers, Next1
  <2> QED
    BY <2>1
<1>11. \A k \in 0 .. N : led[k] \in 1 .. N /\ rank[led[k]] \in Nat
  <2>1. \A t \in 1 .. N : rank[t] \in 0 .. M
    BY <1>4
  <2>2. \A i \in 0 .. M : i \in Nat
    OBVIOUS
  <2>3. \A k \in 0 .. N : led[k] \in 1 .. N
    BY <1>2
  <2> QED
    BY Zenon, <2>1, <2>2, <2>3
<1> DEFINE S == {n \in Nat : n \in 0 .. N => Falls(h, rank, led, n)}
<1>6. 0 \in S
  BY DEF Falls
<1>7. \A n \in 1 .. N : n - 1 \in S => n \in S
  <2>1. ASSUME NEW n \in 1 .. N, Falls(h, rank, led, n - 1), Refers(h, led[n]),
               NEW k \in 0 .. n, NEW m \in 0 .. n, m < k
        PROVE  rank[led[k]] < rank[led[m]]
    <3>1. n \in Nat /\ n - 1 \in 0 .. N /\ led[n - 1] \in 1 .. N /\ led[n] = Next1(h, led[n - 1])
      BY <1>1, <1>2, <2>1 DEF LedSteps
    <3>2. Refers(h, led[n - 1])
      BY <2>1, <3>1 DEF Next1
    <3>3. rank[led[n]] < rank[led[n - 1]]
      BY <1>5, <3>1, <3>2
    <3>4. CASE k \in 0 .. n - 1
      <4>1. m \in 0 .. n - 1
        BY <2>1, <3>4
      <4> QED
        BY <2>1, <3>2, <3>4, <4>1 DEF Falls
    <3>5. CASE k = n /\ m = n - 1
      BY <3>3, <3>5
    <3>6. CASE k = n /\ m < n - 1
      <4>1. n - 1 \in 0 .. n - 1 /\ m \in 0 .. n - 1
        BY <3>1, <3>6
      <4>2. rank[led[n - 1]] < rank[led[m]]
        BY <2>1, <3>2, <3>6, <4>1 DEF Falls
      <4>3. m \in 0 .. N /\ n \in 0 .. N
        BY <2>1, <3>1
      <4>4. rank[led[n]] \in Nat /\ rank[led[n - 1]] \in Nat /\ rank[led[m]] \in Nat
        BY <1>11, <3>1, <4>3
      <4>5. \A x, y, z \in Nat : x < y /\ y < z => x < z
        OBVIOUS
      <4>6. rank[led[n]] < rank[led[m]]
        BY Zenon, <3>3, <4>2, <4>4, <4>5
      <4> QED
        BY <3>6, <4>6
    <3> QED
      BY <2>1, <3>4, <3>5, <3>6
  <2>2. \A n \in 1 .. N : Falls(h, rank, led, n - 1) => Falls(h, rank, led, n)
    BY <2>1 DEF Falls
  <2>3. \A n \in 1 .. N : n \in Nat /\ n - 1 \in 0 .. N
    OBVIOUS
  <2> QED
    BY <2>2, <2>3
<1>8. \A n \in 0 .. N : n \in S
  <2> HIDE DEF S
  <2> QED
    BY Zenon, <1>1, <1>6, <1>7, UpTo
<1>9. Falls(h, rank, led, N)
  BY <1>8
<1>10. ASSUME Refers(h, led[N]) PROVE FALSE
  <2>1. \A k \in 0 .. N, m \in 0 .. N : m < k => led[k] # led[m]
    <3>1. \A k \in 0 .. N, m \in 0 .. N : m < k => rank[led[k]] < rank[led[m]]
      BY <1>9, <1>10 DEF Falls
    <3> TAKE k \in 0 .. N, m \in 0 .. N
    <3> HAVE m < k
    <3>2. rank[led[k]] \in Nat /\ rank[led[m]] \in Nat
      BY <1>11
    <3> QED
      BY <3>1, <3>2
  <2>2. IsFiniteSet(0 .. N) /\ Cardinality(0 .. N) = N + 1
    BY FS_Interval
  <2>3. IsFiniteSet(1 .. N) /\ Cardinality(1 .. N) = N
    BY FS_Interval
  <2>4. \E k, m \in 0 .. N : k # m /\ led[k] = led[m]
    <3>1. Cardinality(1 .. N) < Cardinality(0 .. N)
      BY <2>2, <2>3
    <3> QED
      BY Zenon, <1>2, <2>2, <2>3, <3>1, FS_PigeonHole
  <2> QED
    BY <2>1, <2>4
<1> QED
  BY <1>2, <1>10

LEMMA SoundAgrees ==
  ASSUME Sound(heap, frames)
  PROVE  TableAgrees
<1>1. heap \in Heaps /\ DOMAIN heap = 1 .. Len(heap) /\ Len(heap) \in Nat
  BY HeapTypes DEF Sound
<1>2. frames \in Seq(Frame) /\ DOMAIN frames = 1 .. Len(frames)
  BY LenProperties DEF Sound
<1>3. ASSUME NEW i \in DOMAIN frames
      PROVE  /\ Shadowed(frames[i].table) = {}
             /\ \A j \in DOMAIN frames[i].table.map : frames[i].table.map[j].value \in DOMAIN heap
  <2>1. TableRight(Len(heap), frames[i].table)
    BY <1>2, <1>3 DEF Sound, FrameRight
  <2>2. PICK t : t = frames[i].table
    OBVIOUS
  <2>3. Coherent(Byte, Nat, t)
    BY <2>1, <2>2 DEF TableRight
  <2>4. Tree!Shadowed(t) = {}
    BY <2>3, NoneShadowed
  <2>5. Shadowed(t) = {}
    BY <2>4, SameTrees
  <2>6. DOMAIN t.map = 1 .. Len(t.map)
    BY <2>3, TableTypes, LenProperties DEF Coherent
  <2> QED
    BY <1>1, <2>1, <2>2, <2>5, <2>6 DEF TableRight
<1>4. ASSUME NEW o \in DOMAIN heap
      PROVE  /\ \A i \in DOMAIN heap[o].items : heap[o].items[i] \in DOMAIN heap
             /\ heap[o].kind = "map" => Len(heap[o].items) % 2 = 0
             /\ ~Refers(heap, Referred(heap, o))
  <2>1. o \in 1 .. Len(heap)
    BY <1>1, <1>4
  <2>2. Fits(Len(heap), heap[o]) /\ heap[o].items \in Seq(Nat)
    BY <1>1, <2>1, HeapTypes
  <2>3. DOMAIN heap[o].items = 1 .. Len(heap[o].items)
    BY <2>2, LenProperties
  <2>4. ~Refers(heap, Referred(heap, o))
    BY <1>1, <2>1, ChainsEnd DEF Sound
  <2> QED
    BY Zenon, <1>1, <2>2, <2>3, <2>4 DEF Fits, Allowed
<1> QED
  BY Zenon, <1>3, <1>4 DEF TableAgrees

(* The temporaries of a frame and its loops, one to one.                    *)
LEMMA TemporaryIs ==
  ASSUME NEW h, NEW f, FrameRight(h, f), NEW p \in 1 .. Len(f.table.map), IsTemporary(f.table.map[p].label)
  PROVE  /\ f.table.map[p].value \in Nat /\ f.table.map[p].label = Temporary(f.table.map[p].value)
         /\ \E i \in 1 .. Len(f.loops) : f.loops[i].over = f.table.map[p].value
<1>1. TableRight(Len(h), f.table)
  BY DEF FrameRight
<1>2. PICK l, v : l = f.table.map[p].label /\ v = f.table.map[p].value
  BY Zenon
<1>3. v \in 1 .. Len(h) /\ LabelRight(l, v) /\ l \in TreeLabels(f.table) /\ IsTemporary(l)
  BY <1>1, <1>2 DEF TableRight, TreeLabels
<1>4. v \in Nat
  BY <1>3
<1>5. l = Temporary(v)
  <2>1. \A name \in Names : ~IsTemporary(Identifier(name))
    BY LabelForms
  <2>2. \A k \in Nat : ~IsTemporary(<<"HANONYMOUSIDENTIFIER", k>>)
    BY Zenon, LabelForms
  <2> QED
    BY <1>3, <2>1, <2>2 DEF LabelRight
<1>6. \E i \in 1 .. Len(f.loops) : f.loops[i].over = v
  BY <1>3, <1>4, <1>5 DEF FrameRight, LoopsRight
<1> QED
  BY <1>2, <1>4, <1>5, <1>6

LEMMA LoopTemporary ==
  ASSUME NEW h, NEW f, FrameRight(h, f), NEW i \in 1 .. Len(f.loops)
  PROVE  \E p \in 1 .. Len(f.table.map) :
           /\ IsTemporary(f.table.map[p].label) /\ f.table.map[p].value = f.loops[i].over
<1>1. TableRight(Len(h), f.table)
  BY DEF FrameRight
<1>2. PICK o : o = f.loops[i].over
  OBVIOUS
<1>3. o \in Nat /\ Temporary(o) \in TreeLabels(f.table)
  <2>1. o \in 1 .. Len(h)
    BY <1>2 DEF FrameRight, LoopsRight
  <2>2. o \in Nat
    BY <2>1
  <2> QED
    BY <1>2, <2>2 DEF FrameRight, LoopsRight
<1>4. PICK p \in 1 .. Len(f.table.map) : f.table.map[p].label = Temporary(o)
  BY <1>3 DEF TreeLabels
<1>5. IsTemporary(f.table.map[p].label)
  BY <1>3, <1>4, LabelForms
<1>6. f.table.map[p].value \in Nat /\ Temporary(o) = Temporary(f.table.map[p].value)
  BY <1>4, <1>5, TemporaryIs
<1>7. f.table.map[p].value = o
  BY <1>3, <1>6, Injective
<1> QED
  BY <1>2, <1>5, <1>7

LEMMA SameLabel ==
  ASSUME NEW n, NEW t, TableRight(n, t), NEW p \in 1 .. Len(t.map), NEW q \in 1 .. Len(t.map),
         t.map[p].label = t.map[q].label
  PROVE  p = q
<1>1. PairsFound(t)
  BY DEF TableRight, Coherent
<1> QED
  BY <1>1 DEF PairsFound

LEMMA SoundReleased ==
  ASSUME Sound(heap, frames)
  PROVE  TempsReleased
<1>1. frames \in Seq(Frame) /\ DOMAIN frames = 1 .. Len(frames)
  BY LenProperties DEF Sound
<1> SUFFICES ASSUME NEW i \in DOMAIN frames
             PROVE  /\ Cardinality(Temporaries(frames[i])) = Len(frames[i].loops)
                    /\ {frames[i].table.map[j].value : j \in Temporaries(frames[i])}
                         = {frames[i].loops[j].over : j \in DOMAIN frames[i].loops}
  BY Zenon DEF TempsReleased
<1>2. PICK f : f = frames[i]
  OBVIOUS
<1>3. FrameRight(heap, f) /\ f \in Frame /\ TableRight(Len(heap), f.table)
  BY <1>1, <1>2 DEF Sound, FrameRight
<1>4. f.loops \in Seq(Loop) /\ DOMAIN f.loops = 1 .. Len(f.loops) /\ Len(f.loops) \in Nat
  BY <1>3, LenProperties DEF Frame
<1>5. DOMAIN f.table.map = 1 .. Len(f.table.map)
  BY <1>3, TableTypes, LenProperties DEF TableRight, Coherent
<1>6. PICK T : T = {p \in 1 .. Len(f.table.map) : IsTemporary(f.table.map[p].label)}
  BY Zenon
<1>7. Temporaries(f) = T
  BY <1>5, <1>6 DEF Temporaries
<1>8. \A p \in T : \E j \in 1 .. Len(f.loops) : f.loops[j].over = f.table.map[p].value
  BY <1>3, <1>6, TemporaryIs
<1>9. \A j \in 1 .. Len(f.loops) : \E p \in T : f.table.map[p].value = f.loops[j].over
  <2> TAKE j \in 1 .. Len(f.loops)
  <2>1. PICK p \in 1 .. Len(f.table.map) :
               /\ IsTemporary(f.table.map[p].label) /\ f.table.map[p].value = f.loops[j].over
    BY <1>3, LoopTemporary
  <2> QED
    BY <1>6, <2>1
<1>10. {f.table.map[j].value : j \in T} = {f.loops[j].over : j \in DOMAIN f.loops}
  <2>1. PICK A, B : A = {f.table.map[j].value : j \in T} /\ B = {f.loops[j].over : j \in 1 .. Len(f.loops)}
    BY Zenon
  <2>2. \A x \in A : x \in B
    BY <1>8, <2>1
  <2>3. \A x \in B : x \in A
    BY <1>9, <2>1
  <2>4. A = B
    BY Zenon, <2>2, <2>3
  <2> QED
    BY Zenon, <1>4, <2>1, <2>4
<1>11. \A p, q \in T : f.table.map[p].value = f.table.map[q].value => p = q
  <2> TAKE p, q \in T
  <2> HAVE f.table.map[p].value = f.table.map[q].value
  <2>1. p \in 1 .. Len(f.table.map) /\ q \in 1 .. Len(f.table.map)
    BY <1>6
  <2>2. /\ f.table.map[p].label = Temporary(f.table.map[p].value)
        /\ f.table.map[q].label = Temporary(f.table.map[q].value)
    BY <1>3, <1>6, <2>1, TemporaryIs
  <2>3. f.table.map[p].label = f.table.map[q].label
    BY <2>2
  <2> QED
    BY <1>3, <2>1, <2>3, SameLabel
<1>12. \A j, k \in 1 .. Len(f.loops) : f.loops[j].over = f.loops[k].over => j = k
  BY <1>3 DEF FrameRight, LoopsRight
<1> DEFINE N == Len(f.loops)
           to == [j \in 1 .. N |-> CHOOSE p \in T : f.table.map[p].value = f.loops[j].over]
<1>13. \A j \in 1 .. N : to[j] \in T /\ f.table.map[to[j]].value = f.loops[j].over
  BY <1>9
<1>14. to \in Bijection(1 .. N, T)
  <2>1. to \in [1 .. N -> T]
    BY Zenon, <1>13
  <2>2. \A j, k \in 1 .. N : to[j] = to[k] => j = k
    <3> TAKE j, k \in 1 .. N
    <3> HAVE to[j] = to[k]
    <3>1. f.table.map[to[j]].value = f.loops[j].over /\ f.table.map[to[k]].value = f.loops[k].over
      BY Zenon, <1>13
    <3> HIDE DEF to
    <3>2. f.loops[j].over = f.loops[k].over
      BY <3>1
    <3> QED
      BY <1>12, <3>2
  <2>3. \A p \in T : \E j \in 1 .. N : to[j] = p
    <3> TAKE p \in T
    <3>1. PICK j \in 1 .. N : f.loops[j].over = f.table.map[p].value
      BY <1>8
    <3>2. to[j] = p
      BY <1>11, <1>13, <3>1
    <3> QED
      BY <3>2
  <2> HIDE DEF to
  <2> QED
    BY <2>1, <2>2, <2>3 DEF Bijection, Injection, Surjection, IsInjective
<1>15. IsFiniteSet(1 .. N) /\ Cardinality(1 .. N) = N
  BY <1>4, FS_Interval
<1>16. Cardinality(T) = N
  <2> HIDE DEF to, N
  <2> QED
    BY <1>14, <1>15, FS_Bijection DEF ExistsBijection
<1> QED
  BY <1>2, <1>7, <1>10, <1>16

(* A frame's tree and array agree, and nothing in frames or heap is dangling, *)
(* as long as no loop walks an object another loop of the frame walks.       *)
THEOREM TableAgreesAlways ==
  ASSUME "walksTwice" \notin Habits
  PROVE  Spec => []TableAgrees
<1>1. Sound(heap, frames) => TableAgrees
  BY SoundAgrees
<1> QED
  BY <1>1, SoundAlways, PTL

(* The temporaries of a frame are the objects its loops walk.               *)
THEOREM TempsReleasedAlways ==
  ASSUME "walksTwice" \notin Habits
  PROVE  Spec => []TempsReleased
<1>1. Sound(heap, frames) => TempsReleased
  BY SoundReleased
<1> QED
  BY <1>1, SoundAlways, PTL

-----------------------------------------------------------------------------
(* What a name owns after an assignment.                                    *)
OwnObject(x) == IF x.kind \in Collections THEN x ELSE [x EXCEPT !.items = <<>>]
OwnHeap(h) == [n \in DOMAIN h |-> OwnObject(h[n])]

LEMMA OwnHeapRight ==
  ASSUME NEW h \in Heaps
  PROVE  /\ OwnHeap(h) \in Heaps /\ Len(OwnHeap(h)) = Len(h)
         /\ \A o \in 1 .. Len(h) :
              OwnHeap(h)[o].items = IF h[o].kind \in Collections THEN h[o].items ELSE <<>>
<1>1. PICK g : g = OwnHeap(h)
  OBVIOUS
<1>2. DOMAIN h = 1 .. Len(h) /\ Len(h) \in Nat
  BY HeapTypes
<1>3. ASSUME NEW o \in 1 .. Len(h)
      PROVE  /\ Fits(Len(h), OwnObject(h[o]))
             /\ OwnObject(h[o]).items = IF h[o].kind \in Collections THEN h[o].items ELSE <<>>
  <2>1. Fits(Len(h), h[o]) /\ h[o] \in Thing
    BY HeapTypes
  <2>2. CASE h[o].kind \in Collections
    BY <2>1, <2>2 DEF OwnObject
  <2>3. CASE h[o].kind \notin Collections
    <3>1. PICK x : x = OwnObject(h[o])
      OBVIOUS
    <3>2. x = [kind |-> h[o].kind, number |-> h[o].number, items |-> <<>>, referenced |-> h[o].referenced]
      BY <2>1, <2>3, <3>1 DEF OwnObject, Thing
    <3>3. <<>> \in Seq(Nat) /\ Len(<<>>) = 0
      OBVIOUS
    <3>4. x \in Thing
      BY <2>1, <3>2, <3>3 DEF Thing
    <3>5. x.items = <<>> /\ x.kind = h[o].kind
      BY <3>2
    <3>6. Fits(Len(h), x)
      BY <2>3, <3>3, <3>4, <3>5 DEF Fits, Allowed, Collections
    <3> QED
      BY <2>3, <3>1, <3>5, <3>6
  <2> QED
    BY <2>2, <2>3
<1>4. /\ DOMAIN g = 1 .. Len(h) /\ \A o \in 1 .. Len(h) : g[o] = OwnObject(h[o])
      /\ g = [o \in 1 .. Len(h) |-> g[o]]
  BY <1>1, <1>2 DEF OwnHeap
<1>5. \A o \in 1 .. Len(h) : g[o] \in Thing
  BY <1>3, <1>4 DEF Fits
<1>6. g \in Seq(Thing) /\ Len(g) = Len(h)
  BY <1>2, <1>4, <1>5, IsASeq
<1> QED
  BY <1>1, <1>3, <1>4, <1>6, HeapIs

(* Nothing an object owns is outside a set that has the object and, with    *)
(* each collection, what it holds.                                          *)
LEMMA OwnedWithin ==
  ASSUME NEW h \in Heaps, NEW o \in 1 .. Len(h), NEW C, o \in C,
         \A k \in 1 .. Len(h) : k \in C /\ h[k].kind \in Collections =>
            \A j \in 1 .. Len(h[k].items) : h[k].items[j] \in C
  PROVE  \A x \in Owned(h, o) : x \in C
<1>1. PICK g : g = OwnHeap(h)
  OBVIOUS
<1>2. /\ g \in Heaps /\ Len(g) = Len(h)
      /\ \A k \in 1 .. Len(h) : g[k].items = IF h[k].kind \in Collections THEN h[k].items ELSE <<>>
  BY <1>1, OwnHeapRight
<1>3. PICK roots : roots = <<o>>
  OBVIOUS
<1>4. roots \in Seq(1 .. Len(g)) /\ Len(roots) = 1 /\ roots[1] = o
  BY <1>2, <1>3
<1>5. Owned(h, o) = Range(Met(g, roots))
  BY <1>1, <1>3 DEF Owned, Reach, OwnHeap, OwnObject
<1>6. Meets(g, roots, Met(g, roots))
  BY <1>2, <1>4, MetRight
<1>7. Rooted(roots, C)
  BY <1>4 DEF Rooted
<1>8. Closed(g, C)
  <2>1. ASSUME NEW k \in 1 .. Len(g), k \in C, NEW j \in 1 .. Len(g[k].items)
        PROVE  g[k].items[j] \in C
    <3>1. CASE h[k].kind \in Collections
      BY <1>2, <2>1, <3>1
    <3>2. CASE h[k].kind \notin Collections
      BY <1>2, <2>1, <3>2
    <3> QED
      BY <3>1, <3>2
  <2> QED
    BY <2>1 DEF Closed
<1> QED
  BY <1>5, <1>6, <1>7, <1>8 DEF Meets

(* The objects of a clone are new, also when an old collection is emptied.  *)
LEMMA CopyApart ==
  ASSUME NEW h, NEW g, NEW R, Copies(h, g, R), NEW o \in R, NEW f \in Heaps, Len(f) = Len(g),
         \A k \in New(h, g) : f[k].kind = g[k].kind /\ f[k].items = g[k].items
  PROVE  \A x \in Owned(f, o) : x \notin 1 .. Len(h)
<1>1. h \in Heaps /\ g \in Heaps /\ Len(h) \in Nat /\ Len(g) \in Nat /\ Len(h) <= Len(g) /\ o \in New(h, g)
  BY HeapTypes DEF Copies
<1>2. o \in 1 .. Len(f)
  BY <1>1 DEF New
<1>3. \A k \in 1 .. Len(f) : k \in New(h, g) /\ f[k].kind \in Collections =>
        \A j \in 1 .. Len(f[k].items) : f[k].items[j] \in New(h, g)
  <2>1. ASSUME NEW k \in New(h, g), g[k].kind \in Collections, NEW j \in 1 .. Len(g[k].items)
        PROVE  g[k].items[j] \in New(h, g)
    <3>1. g[k].items[j] > Len(h)
      BY <2>1 DEF Copies
    <3>2. k \in 1 .. Len(g)
      BY <1>1 DEF New
    <3>3. g[k].items[j] \in 1 .. Len(g)
      BY <1>1, <3>2, HeapTypes DEF Fits, Allowed
    <3> QED
      BY <1>1, <3>1, <3>3 DEF New
  <2> QED
    BY <2>1
<1>4. \A x \in Owned(f, o) : x \in New(h, g)
  BY <1>1, <1>2, <1>3, OwnedWithin
<1> QED
  BY <1>1, <1>4 DEF New

(* ob_clone leaves the objects that are there as they are, and answers with *)
(* an object that owns none of them, to any depth (vector_clone, map_clone  *)
(* and structure_clone clone each item).                                    *)
THEOREM CloneApart ==
  ASSUME NEW h \in Heaps, NEW o \in 1 .. Len(h)
  PROVE  /\ \A k \in 1 .. Len(h) : ob_clone(h, o).heap[k] = h[k]
         /\ Owned(ob_clone(h, o).heap, ob_clone(h, o).object) \cap 1 .. Len(h) = {}
<1>1. PICK r : r = ob_clone(h, o)
  OBVIOUS
<1>2. Cloned(h, o, r)
  BY <1>1, CloneRight
<1>3. Copies(h, r.heap, {r.object}) /\ r.heap \in Heaps
  BY <1>2 DEF Cloned, Copies
<1>4. \A x \in Owned(r.heap, r.object) : x \notin 1 .. Len(h)
  BY <1>3, CopyApart
<1> QED
  BY <1>1, <1>3, <1>4 DEF Copies

(* What a table answers for a label it was given.                           *)
LEMMA TableAnswers ==
  ASSUME NEW n \in Nat, NEW t, TableRight(n, t), NEW name \in Names, NEW v \in 1 .. n,
         NEW l, l = Identifier(name)
  PROVE  /\ l \notin TreeLabels(t) => find(insert(t, l, v), l) = v
         /\ l \in TreeLabels(t) => find(replace(t, l, v), l) = v
<1>1. Coherent(Byte, Nat, t) /\ v \in Nat /\ l \in TreeLabel(Byte)
  BY LabelForms DEF TableRight
<1>2. CASE l \notin TreeLabels(t)
  <2>1. PICK u : u = insert(t, l, v)
    OBVIOUS
  <2>2. u = Tree!insert(t, l, v)
    BY <2>1, SameTrees
  <2>3. Coherent(Byte, Nat, u) /\ Contents(u)[l] = v
    <3>1. l \in TreeLabel(Byte) \ TreeLabels(t)
      BY <1>1, <1>2
    <3>2. PICK c : c = Contents(u)
      OBVIOUS
    <3>3. c = [k \in TreeLabels(t) \union {l} |-> IF k = l THEN v ELSE Contents(t)[k]]
      BY <1>1, <2>2, <3>1, <3>2, InsertRight
    <3>4. Coherent(Byte, Nat, u)
      BY Zenon, <1>1, <2>2, <3>1, InsertRight
    <3> QED
      BY <3>2, <3>3, <3>4
  <2>4. l \in TreeLabels(u)
    BY <1>1, <1>2, <2>1, TableInsert DEF LabelRight
  <2> QED
    BY <1>1, <1>2, <2>1, <2>3, <2>4, FindRight, SameTrees
<1>3. CASE l \in TreeLabels(t)
  <2>1. PICK u : u = replace(t, l, v)
    OBVIOUS
  <2>2. u = Tree!replace(t, l, v)
    BY <2>1, SameTrees
  <2>3. Coherent(Byte, Nat, u) /\ Contents(u)[l] = v
    BY <1>1, <1>3, <2>2, ReplaceRight
  <2>4. l \in TreeLabels(u)
    BY <1>3, <2>1, TableReplace
  <2> QED
    BY <1>1, <1>3, <2>1, <2>3, <2>4, FindRight, SameTrees
<1> QED
  BY <1>2, <1>3

LEMMA AddApart ==
  ASSUME NEW h \in Heaps, NEW t, TableRight(Len(h), t), NEW name \in Names, NEW o \in 1 .. Len(h),
         h[o].referenced \/ Constant(o),
         NEW l, l = Identifier(name), NEW r, r = add(h, t, name, o), find(r.table, l) # find(t, l)
  PROVE  \A x \in Owned(r.heap, find(r.table, l)) : x \notin 1 .. Len(h)
<1>1. PICK next, prev : next = ob_clone(h, o) /\ prev = find(t, l)
  OBVIOUS
<1>2. Stored(h, o) = next
  BY <1>1 DEF Stored
<1>3. Cloned(h, o, next)
  BY <1>1, CloneRight
<1>4. /\ Copies(h, next.heap, {next.object}) /\ next.heap \in Heaps /\ Len(h) <= Len(next.heap)
      /\ Len(h) \in Nat /\ Len(next.heap) \in Nat
      /\ next.object \in 1 .. Len(next.heap) /\ next.object > Len(h)
  BY <1>3, HeapTypes DEF Cloned, Copies
<1>5. TableRight(Len(next.heap), t)
  BY <1>4, TableMore
<1>6. l \in TreeLabel(Byte)
  BY LabelForms
<1>7. prev = NULL <=> l \notin TreeLabels(t)
  BY <1>1, <1>4, <1>5, <1>6, TableFind
<1>8. CASE prev = NULL
  <2>1. r = [heap |-> next.heap, table |-> insert(t, l, next.object)]
    BY <1>1, <1>2, <1>8 DEF add
  <2>2. find(r.table, l) = next.object /\ r.heap = next.heap
    BY <1>4, <1>5, <1>7, <1>8, <2>1, TableAnswers
  <2> QED
    BY <1>4, <2>2, CopyApart
<1>9. CASE prev # NULL /\ Refers(next.heap, prev)
  <2>1. r.table = t
    BY <1>1, <1>2, <1>9 DEF add
  <2> QED
    BY <2>1
<1>10. CASE prev # NULL /\ ~Refers(next.heap, prev)
  <2>1. PICK g : g = ob_free(next.heap, prev)
    OBVIOUS
  <2>2. r = [heap |-> g, table |-> replace(t, l, next.object)]
    BY <1>1, <1>2, <1>10, <2>1 DEF add
  <2>3. find(r.table, l) = next.object /\ r.heap = g
    BY <1>4, <1>5, <1>7, <1>10, <2>2, TableAnswers
  <2>4. prev \in 1 .. Len(h)
    BY <1>1, <1>4, <1>6, <1>7, <1>10, TableFind
  <2>5. prev \in 1 .. Len(next.heap)
    BY <1>4, <2>4
  <2>6. g \in Heaps /\ Len(g) = Len(next.heap)
        /\ \A k \in 1 .. Len(next.heap) :
             /\ g[k].kind = next.heap[k].kind
             /\ k # prev => g[k].items = next.heap[k].items
    BY <1>4, <2>1, <2>5, FreeRight
  <2>7. \A k \in New(h, next.heap) : k \in 1 .. Len(next.heap) /\ k # prev
    BY <1>4, <2>4 DEF New
  <2>8. \A k \in New(h, next.heap) : g[k].kind = next.heap[k].kind /\ g[k].items = next.heap[k].items
    BY <2>6, <2>7
  <2>9. PICK c : c = next.object
    OBVIOUS
  <2>10. Copies(h, next.heap, {c}) /\ c \in {c}
    BY <1>4, <2>9
  <2>11. \A x \in Owned(g, c) : x \notin 1 .. Len(h)
    BY Zenon, <2>6, <2>8, <2>10, CopyApart
  <2> QED
    BY <2>3, <2>9, <2>11
<1> QED
  BY <1>8, <1>9, <1>10

(* The half of AssignmentCopies that is about sharing, of every object and  *)
(* every state that may occur: a name that is assigned an object others     *)
(* have, or a constant, stands for what it stood for (a reference) or owns  *)
(* nothing that was there before (memory.cpp:45-75).                        *)
THEOREM AssignmentApart ==
  ASSUME NEW s \in States, Sound(s.heap, s.frames), NEW name \in Names, NEW o \in 1 .. Len(s.heap),
         s.heap[o].referenced \/ Constant(o)
  PROVE  LET Holds(fs) == find(fs[Home(s.frames, name)].table, Identifier(name))
             after == Assigned(s, name, o)
         IN \/ Holds(after.frames) = Holds(s.frames)
            \/ Owned(after.heap, Holds(after.frames)) \cap 1 .. Len(s.heap) = {}
<1>1. PICK i, a, h, t : i = Home(s.frames, name) /\ a = Assigned(s, name, o) /\ h = s.heap
                        /\ t = s.frames[i].table
  OBVIOUS
<1>2. i \in 1 .. Len(s.frames)
  BY <1>1, HomeInside
<1>3. h \in Heaps /\ TableRight(Len(h), t) /\ s.frames \in Seq(Frame)
  BY <1>1, <1>2 DEF Sound, FrameRight
<1>4. PICK r : r = add(h, t, name, o)
  OBVIOUS
<1>5. a = [heap |-> r.heap, frames |-> [s.frames EXCEPT ![i].table = r.table]]
  BY <1>1, <1>4 DEF Assigned, Add
<1>6. a.heap = r.heap /\ a.frames[i].table = r.table
  <2>1. s.frames[i] \in Frame /\ DOMAIN s.frames = 1 .. Len(s.frames)
    BY <1>2, <1>3, LenProperties, ElementOfSeq
  <2>2. PICK f, fs : f = s.frames[i] /\ fs = s.frames
    OBVIOUS
  <2>3. [f EXCEPT !.table = r.table].table = r.table
    BY <2>1, <2>2 DEF Frame
  <2>4. a.frames = [fs EXCEPT ![i] = [f EXCEPT !.table = r.table]]
    BY <1>5, <2>2
  <2>5. a.frames[i] = [f EXCEPT !.table = r.table]
    BY <1>2, <2>1, <2>2, <2>4
  <2> QED
    BY <1>5, <2>3, <2>5
<1>7. PICK l : l = Identifier(name)
  OBVIOUS
<1>8. find(r.table, l) # find(t, l) => \A x \in Owned(r.heap, find(r.table, l)) : x \notin 1 .. Len(h)
  BY <1>1, <1>3, <1>4, <1>7, AddApart
<1>9. find(r.table, l) = find(t, l) \/ Owned(r.heap, find(r.table, l)) \cap 1 .. Len(h) = {}
  BY <1>8
<1> QED
  BY <1>1, <1>6, <1>7, <1>9
=============================================================================
