--------------------------- MODULE ClassesProofs ---------------------------
(***************************************************************************)
(* Proofs about Classes, for any classes, bodies, variables and bounds.    *)
(*                                                                         *)
(* The invariant CInv says of every class that its attributes are the      *)
(* slots with its name and the number 0, and that it answers a call as     *)
(* Dispatched says; of every instance that it is Whole, a copy of its      *)
(* class that shares the static slots, or Emptied; and that there is no    *)
(* slot besides.  The first sections show what each operation of the code  *)
(* leaves: a destructor, class_free, class_clone, an assignment, then the  *)
(* attributes and the methods of a declaration, which folds over members   *)
(* that the lemmas of Foundations take one by one.  Then every action      *)
(* preserves CInv, and the properties of Classes follow from it.           *)
(***************************************************************************)
EXTENDS Classes, Foundations

(* The strings; the provers do not know that a literal is one of them.      *)
Word == STRING \union {"count", "__expire", "unknown"}
Class == Range(Names)
Slot == Class \X Nat \X (Nat \ {0})
Value == Numbers \union {Text, Void}
Attribute == [access : STRING, static : BOOLEAN, value : Value]
Kept == [of : Class, name : Word, argc : Nat, vargs : BOOLEAN, access : STRING]

-----------------------------------------------------------------------------
(* Tables of attributes: a name may be known twice, the tree leads to the   *)
(* last one.                                                                *)
Single(t) == \A k \in 1 .. Len(t.map) : t.map[k].label = Label(t.map[k].label[1])
Bounded(t) == \A l \in DOMAIN t.tree : t.tree[l] \in 0 .. Len(t.map)
FieldTable == {t \in TreeTable(Word, Slot) : Bounded(t) /\ Single(t)}

(* The operators of the tree are those Foundations has lemmas about.        *)
LEMMA SameTrees ==
  /\ Tree!NULL = NULL /\ Tree!EmptyTable = EmptyTable
  /\ \A tree, label : Tree!at_find(tree, label) = at_find(tree, label)
  /\ \A table, label, value : /\ Tree!insert(table, label, value) = insert(table, label, value)
                              /\ Tree!replace(table, label, value) = replace(table, label, value)
  /\ \A table, label : Tree!find(table, label) = find(table, label)
<1>1. Tree!NULL = NULL
  BY DEF NULL, Tree!NULL
<1>2. \A tree, label : Tree!at_find(tree, label) = at_find(tree, label)
  BY <1>1 DEF at_find, Tree!at_find
<1>3. Tree!EmptyTable = EmptyTable
  BY <1>1 DEF EmptyTable, Tree!EmptyTable, EmptyTree, Tree!EmptyTree
<1>4. \A label : Tree!Prefixes(label) = Prefixes(label)
  BY DEF Prefixes, Tree!Prefixes
<1>5. ASSUME NEW tree, NEW label, NEW pair
      PROVE  Tree!at_insert(tree, label, pair) = at_insert(tree, label, pair)
  BY <1>1, <1>4 DEF at_insert, Tree!at_insert
<1>6. ASSUME NEW table, NEW label, NEW value
      PROVE  Tree!insert(table, label, value) = insert(table, label, value)
  BY <1>5 DEF insert, Tree!insert
<1>7. ASSUME NEW table, NEW label, NEW value
      PROVE  Tree!replace(table, label, value) = replace(table, label, value)
  BY <1>1, <1>2 DEF replace, Tree!replace
<1>8. ASSUME NEW table, NEW label
      PROVE  Tree!find(table, label) = find(table, label)
  BY <1>1, <1>2 DEF find, Tree!find
<1> QED
  BY <1>1, <1>2, <1>3, <1>6, <1>7, <1>8

(* A sequence of one element.                                               *)
LEMMA Singleton ==
  ASSUME NEW S, NEW e \in S
  PROVE  <<e>> \in Seq(S) /\ Len(<<e>>) = 1 /\ <<e>>[1] = e /\ <<e>> # <<>>
OBVIOUS

(* The label of a name.                                                     *)
LEMMA LabelType ==
  ASSUME NEW name \in Word
  PROVE  Label(name) \in TreeLabel(Word) /\ Label(name)[1] = name /\ Label(name) \in TreeLabel(Word)
<1>1. <<name>> \in Seq(Word) /\ <<name>> # <<>>
  BY Singleton
<1> QED
  BY <1>1 DEF Label, TreeLabel, TreeLabel

(* What a table of attributes is made of.                                   *)
LEMMA FieldTypes ==
  ASSUME NEW t \in FieldTable
  PROVE  /\ t \in TreeTable(Word, Slot) /\ Bounded(t) /\ Single(t)
         /\ Len(t.map) \in Nat /\ DOMAIN t.map = 1 .. Len(t.map)
         /\ \A k \in 1 .. Len(t.map) : /\ t.map[k].label[1] \in Word
                                       /\ t.map[k].value \in Slot
                                       /\ t.map[k] = [label |-> t.map[k].label, value |-> t.map[k].value]
<1>1. t \in TreeTable(Word, Slot) /\ Bounded(t) /\ Single(t)
  BY DEF FieldTable
<1>2. /\ t.map \in Seq(TreePair(Word, Slot))
      /\ Len(t.map) \in Nat
      /\ \A k \in 1 .. Len(t.map) : /\ t.map[k] \in TreePair(Word, Slot)
                                    /\ t.map[k].label \in TreeLabel(Word)
                                    /\ t.map[k].value \in Slot
  BY <1>1, TableTypes
<1>3. ASSUME NEW k \in 1 .. Len(t.map)
      PROVE  /\ t.map[k].label[1] \in Word
             /\ t.map[k] = [label |-> t.map[k].label, value |-> t.map[k].value]
  <2>1. t.map[k].label \in Seq(Word) /\ t.map[k].label # <<>>
    BY <1>2 DEF TreeLabel
  <2>2. Len(t.map[k].label) \in Nat /\ Len(t.map[k].label) # 0
    BY <2>1, EmptySeq
  <2>3. t.map[k].label[1] \in Word
    BY <2>1, <2>2, ElementOfSeq
  <2> QED
    BY <1>2, <2>3 DEF TreePair
<1> QED
  BY <1>1, <1>2, <1>3, LenProperties

(* The empty table.                                                         *)
LEMMA EmptyFields ==
  EmptyTable \in FieldTable /\ Len(EmptyTable.map) = 0
<1>1. EmptyTable \in TreeTable(Word, Slot)
  BY EmptyCoherent, SameTrees DEF Coherent
<1>2. EmptyTable.map = <<>> /\ EmptyTable.tree = EmptyTree /\ Len(<<>>) = 0
  BY DEF EmptyTable
<1>3. \A l \in DOMAIN EmptyTree : EmptyTree[l] = 0
  BY DEF EmptyTree, NULL
<1>4. Bounded(EmptyTable) /\ Single(EmptyTable)
  BY <1>2, <1>3 DEF Bounded, Single
<1> QED
  BY <1>1, <1>2, <1>4 DEF FieldTable

Gets(t, u, name, x) ==
  /\ u \in FieldTable
  /\ Len(u.map) = Len(t.map) + 1
  /\ \A p \in 1 .. Len(t.map) : u.map[p] = t.map[p]
  /\ u.map[Len(t.map) + 1] = [label |-> Label(name), value |-> x]

(* insert puts the attribute last, whatever its name.                       *)
LEMMA FieldInsert ==
  ASSUME NEW t \in FieldTable, NEW name \in Word, NEW x \in Slot, NEW u, u = insert(t, Label(name), x)
  PROVE  Gets(t, u, name, x)
<1>0. t \in TreeTable(Word, Slot) /\ Label(name) \in TreeLabel(Word) /\ Label(name)[1] = name
  BY LabelType, FieldTypes
<1>1. PICK n \in Nat : n = Len(t.map)
  BY FieldTypes
<1>5. Tree!NULL = NULL /\ u = Tree!insert(t, Label(name), x)
  BY SameTrees DEF NULL, Tree!NULL
<1>2. /\ u \in TreeTable(Word, Slot)
      /\ Len(u.map) = n + 1
      /\ \A p \in 1 .. n : u.map[p] = t.map[p]
      /\ u.map[n + 1] = [label |-> Label(name), value |-> x]
      /\ Label(name) \in DOMAIN u.tree /\ u.tree[Label(name)] = n + 1
      /\ \A c \in DOMAIN u.tree \ {Label(name)} :
           u.tree[c] = IF c \in DOMAIN t.tree THEN t.tree[c] ELSE NULL
  BY <1>0, <1>1, <1>5, InsertShape
<1>3. Bounded(u)
  <2> SUFFICES ASSUME NEW c \in DOMAIN u.tree PROVE u.tree[c] \in 0 .. n + 1
    BY <1>2 DEF Bounded
  <2>1. CASE c = Label(name)
    BY <1>2, <2>1
  <2>2. CASE c # Label(name) /\ c \in DOMAIN t.tree
    <3>1. t.tree[c] \in 0 .. n
      BY <1>1, <2>2, FieldTypes DEF Bounded
    <3> QED
      BY <1>2, <2>2, <3>1
  <2>3. CASE c # Label(name) /\ c \notin DOMAIN t.tree
    BY <1>2, <2>3 DEF NULL
  <2> QED
    BY <2>1, <2>2, <2>3
<1>4. Single(u)
  <2> SUFFICES ASSUME NEW k \in 1 .. n + 1 PROVE u.map[k].label = Label(u.map[k].label[1])
    BY <1>2 DEF Single
  <2>1. CASE k = n + 1
    BY <1>0, <1>2, <2>1
  <2>2. CASE k \in 1 .. n
    BY <1>1, <1>2, <2>2, FieldTypes DEF Single
  <2> QED
    BY <2>1, <2>2
<1> QED
  BY <1>1, <1>2, <1>3, <1>4 DEF Gets, FieldTable

(* What the tree gives under a name is a position of the array.             *)
LEMMA FieldFind ==
  ASSUME NEW t \in FieldTable, NEW name \in Word, Knows(t, name)
  PROVE  \E k \in 1 .. Len(t.map) : find(t, Label(name)) = t.map[k].value
<1>1. at_find(t.tree, Label(name)) # NULL
  BY DEF Knows
<1>2. /\ Label(name) \in DOMAIN t.tree
      /\ at_find(t.tree, Label(name)) = t.tree[Label(name)]
  BY <1>1 DEF at_find
<1>3. t.tree[Label(name)] \in 0 .. Len(t.map)
  BY <1>2, FieldTypes DEF Bounded
<1>4. t.tree[Label(name)] \in 1 .. Len(t.map)
  <2>1. Len(t.map) \in Nat
    BY FieldTypes
  <2> QED
    BY <1>1, <1>2, <1>3, <2>1 DEF NULL
<1> QED
  BY <1>1, <1>2, <1>4 DEF find

-----------------------------------------------------------------------------
(* Sound states: whatever step is taken, an instance is whole or emptied.   *)
InstanceType ==
  [class : Class, attributes : FieldTable, methods : TreeTable(Word, Seq(Kept)), referenced : BOOLEAN,
   expired : Seq(Kept)]

(* No habit lets a number be assigned to the void value.                    *)
Quiet == Habits \cap {"inheritsCounters", "setsPrototypes"} = {}

Typed(s) ==
  /\ s = [default |-> s.default, slots |-> s.slots, instances |-> s.instances, main |-> s.main,
          hung |-> s.hung]
  /\ s.default \in 0 .. MaxNumber
  /\ s.slots \in [DOMAIN s.slots -> Attribute] /\ DOMAIN s.slots \subseteq Slot
  /\ s.instances \in [DOMAIN s.instances -> InstanceType] /\ DOMAIN s.instances \subseteq Nat \ {0}
  /\ s.main \in [Variables -> DOMAIN s.instances \union {NULL}]
  /\ s.hung \in BOOLEAN

(* The void value is that of attributes of prototypes alone; of static ones *)
(* only if a class inherited a counter.                                     *)
Unset(sl, x) == sl[x].value = Void
Settled(s) ==
  /\ \A x \in DOMAIN s.slots : Unset(s.slots, x) => x[2] = 0 /\ (s.slots[x].static => ~Quiet)
  /\ Quiet => s.default = 0

Proto(T, c) ==
  /\ c \in Class
  /\ T[c].attributes \in FieldTable
  /\ \A k \in 1 .. Len(T[c].attributes.map) : T[c].attributes.map[k].value = <<c, 0, k>>
  /\ Coherent(Word, Seq(Kept), T[c].methods)
  /\ \A k \in 1 .. Len(T[c].methods.map) :
       T[c].methods.map[k].label = Label(T[c].methods.map[k].label[1])

(* a: the attributes of instance i of the class with the attributes p.      *)
Own(sl, c, i, k) == IF sl[<<c, 0, k>>].static THEN <<c, 0, k>> ELSE <<c, i, k>>

Alike(sl, x, y) == sl[x].access = sl[y].access /\ sl[x].static = sl[y].static

Copied(p, sl, c, i, a) ==
  /\ Len(a.map) = Len(p.map)
  /\ \A k \in 1 .. Len(p.map) : /\ a.map[k].label = p.map[k].label
                                /\ a.map[k].value = Own(sl, c, i, k)
                                /\ Alike(sl, Own(sl, c, i, k), <<c, 0, k>>)

Whole(T, sl, i, o) ==
  /\ o.methods = T[o.class].methods
  /\ o.expired = <<>>
  /\ Copied(T[o.class].attributes, sl, o.class, i, o.attributes)

Emptied(T, o) ==
  /\ o.methods = EmptyTable
  /\ o.attributes = EmptyTable
  /\ o.expired \in {<<>>, Prototypes(T[o.class], "__expire")}

Inst(T, sl, i, o) == o.class \in DOMAIN T /\ (Whole(T, sl, i, o) \/ Emptied(T, o))

AllHeld(T, ins) ==
  (UNION {Held(T[c]) : c \in DOMAIN T}) \union (UNION {Held(ins[i]) : i \in DOMAIN ins})

Sound(T, s) ==
  /\ Typed(s)
  /\ Settled(s)
  /\ \A c \in DOMAIN T : Proto(T, c)
  /\ \A i \in DOMAIN s.instances : Inst(T, s.slots, i, s.instances[i])
  /\ DOMAIN s.slots = AllHeld(T, s.instances)

(* What a marked instance has in common with the one it was.                *)
Seems(o, q) == o.class = q.class /\ o.attributes = q.attributes /\ o.methods = q.methods /\ o.expired = q.expired

(* What is known of a state holds of one whose instances differ in their    *)
(* marks only.                                                              *)
LEMMA LikeSound ==
  ASSUME NEW T, NEW s, Sound(T, s), NEW t, Typed(t), t.slots = s.slots, t.default = s.default,
         DOMAIN t.instances = DOMAIN s.instances,
         \A i \in DOMAIN s.instances : Seems(t.instances[i], s.instances[i])
  PROVE  Sound(T, t)
<1>1. Settled(t)
  BY DEF Sound, Settled
<1>2. ASSUME NEW i \in DOMAIN t.instances
      PROVE  Inst(T, t.slots, i, t.instances[i])
  <2>1. Inst(T, s.slots, i, s.instances[i]) /\ Seems(t.instances[i], s.instances[i])
    BY DEF Sound
  <2> QED
    BY <2>1 DEF Seems, Inst, Whole, Emptied
<1>3. \A i \in DOMAIN s.instances : Held(t.instances[i]) = Held(s.instances[i])
  BY DEF Seems, Held
<1>4. AllHeld(T, t.instances) = AllHeld(T, s.instances)
  BY <1>3 DEF AllHeld
<1> QED
  BY <1>1, <1>2, <1>4 DEF Sound

(* A mark changes nothing that is known.                                    *)
LEMMA MarkedSound ==
  ASSUME NEW T, NEW s, Sound(T, s), NEW id \in DOMAIN s.instances, NEW t, t = Marked(s, id)
  PROVE  /\ Sound(T, t)
         /\ t.main = s.main /\ DOMAIN t.instances = DOMAIN s.instances
         /\ t.instances[id].attributes = s.instances[id].attributes
<1>1. PICK o \in InstanceType : o = s.instances[id]
  BY DEF Sound, Typed
<1>2. PICK q : q = [o EXCEPT !.referenced = TRUE]
  OBVIOUS
<1>3. q \in InstanceType /\ Seems(q, o)
  BY <1>1, <1>2 DEF InstanceType, Seems
<1>4. PICK ins : ins = [s.instances EXCEPT ![id] = q]
  OBVIOUS
<1>5. /\ ins \in [DOMAIN s.instances -> InstanceType]
      /\ DOMAIN ins = DOMAIN s.instances /\ ins[id] = q
      /\ \A i \in DOMAIN ins : Seems(ins[i], s.instances[i])
  BY <1>1, <1>3, <1>4 DEF Sound, Typed, Seems
<1>6. t = [s EXCEPT !.instances = ins]
  BY <1>1, <1>2, <1>4 DEF Marked
<1>7. t = [default |-> s.default, slots |-> s.slots, instances |-> ins, main |-> s.main, hung |-> s.hung]
  BY <1>6 DEF Sound, Typed
<1>8. Typed(t)
  BY <1>5, <1>7 DEF Sound, Typed
<1>9. t.slots = s.slots /\ t.default = s.default /\ t.main = s.main /\ t.instances = ins
  BY <1>7
<1>10. Sound(T, t)
  BY <1>5, <1>8, <1>9, LikeSound
<1> QED
  BY <1>1, <1>3, <1>5, <1>9, <1>10 DEF Seems

-----------------------------------------------------------------------------
(* Numbers and the other values. *)
LEMMA ValueTypes ==
  /\ Void \in Value /\ Text \in Value
  /\ \A n \in 0 .. MaxNumber : Number(n) \in Value /\ Number(n) # Void
  /\ \A v \in Value : v.number \in Nat /\ (v # Void /\ v.kind = "number" => v \in Numbers)
  /\ Text # Void /\ Text.kind = "text"
  /\ MaxNumber \in Nat
<1>1. MaxNumber \in Nat
  BY ClassesAssumption
<1>2. \A n \in 0 .. MaxNumber : Number(n) \in Numbers /\ Number(n) # Void
  BY DEF Numbers, Number, Void
<1>3. Text # Void /\ Text.kind = "text" /\ Void.kind = "void"
  BY DEF Text, Void
<1>4. \A v \in Numbers : v.number \in Nat
  BY DEF Numbers, Number
<1> QED
  BY <1>1, <1>2, <1>3, <1>4 DEF Value, Text, Void

(* What an attribute shows is a value, and a counter stays in its bound.    *)
LEMMA ShownNumber ==
  ASSUME NEW s, s.default \in 0 .. MaxNumber, NEW v \in Value
  PROVE  /\ Shown(s, v) \in Value \ {Void}
         /\ Shown(s, v).number \in Nat
         /\ Number((Shown(s, v).number + 1) % (MaxNumber + 1)) \in Numbers
<1>1. Shown(s, v) \in Value \ {Void}
  BY ValueTypes DEF Shown
<1>2. PICK n \in Nat : n = Shown(s, v).number
  BY <1>1, ValueTypes
<1>3. PICK m \in Nat : m = MaxNumber
  BY ValueTypes
<1>4. (n + 1) % (m + 1) \in 0 .. m
  OBVIOUS
<1> QED
  BY <1>1, <1>2, <1>3, <1>4 DEF Numbers

(* ob_assign changes the value of one slot, or the void value if that is    *)
(* what the slot has.                                                       *)
LEMMA SlotSet ==
  ASSUME NEW D, NEW sl \in [D -> Attribute], NEW x \in D, NEW v \in Value
  PROVE  /\ [sl EXCEPT ![x].value = v] \in [D -> Attribute]
         /\ [sl EXCEPT ![x].value = v][x] = [access |-> sl[x].access, static |-> sl[x].static, value |-> v]
         /\ \A y \in D \ {x} : [sl EXCEPT ![x].value = v][y] = sl[y]
<1>1. PICK a \in Attribute : a = sl[x]
  OBVIOUS
<1>2. PICK b : b = [a EXCEPT !.value = v]
  OBVIOUS
<1>3. b = [access |-> a.access, static |-> a.static, value |-> v] /\ b \in Attribute
  BY <1>2 DEF Attribute
<1>4. [sl EXCEPT ![x].value = v] = [sl EXCEPT ![x] = b]
  BY <1>1, <1>2
<1> QED
  BY <1>1, <1>3, <1>4

-----------------------------------------------------------------------------
(* The run of a destructor. *)
LEMMA EmptyHeld ==
  ASSUME NEW o, o.attributes = EmptyTable
  PROVE  Held(o) = {}
<1>1. DOMAIN EmptyTable.map = {}
  BY DEF EmptyTable
<1> QED
  BY <1>1 DEF Held

(* An attribute of an instance is static or a slot with the number of the   *)
(* instance.                                                                *)
LEMMA HeldRight ==
  ASSUME NEW T, NEW s, Sound(T, s), NEW i \in DOMAIN s.instances, NEW x \in Held(s.instances[i])
  PROVE  /\ x \in DOMAIN s.slots /\ x \in Slot
         /\ s.slots[x].static \/ x[2] = i
         /\ \E k \in 1 .. Len(T[s.instances[i].class].attributes.map) : x = Own(s.slots, s.instances[i].class, i, k)
<1>1. PICK o : o = s.instances[i]
  OBVIOUS
<1>2. x \in DOMAIN s.slots /\ x \in Slot
  <2>1. x \in AllHeld(T, s.instances)
    BY DEF AllHeld
  <2> QED
    BY <2>1 DEF Sound, Typed
<1>3. Whole(T, s.slots, i, o)
  <2>1. o.attributes # EmptyTable
    BY <1>1, EmptyHeld
  <2> QED
    BY <1>1, <2>1 DEF Sound, Inst, Emptied
<1>4. o.attributes \in FieldTable
  BY <1>1 DEF Sound, Typed, InstanceType
<1>5. PICK c, p : c = o.class /\ p = T[o.class].attributes
  OBVIOUS
<1>6. PICK k \in 1 .. Len(p.map) : x = Own(s.slots, c, i, k) /\ Alike(s.slots, x, <<c, 0, k>>)
  <2>1. PICK k \in 1 .. Len(o.attributes.map) : x = o.attributes.map[k].value
    BY <1>1, <1>4, FieldTypes DEF Held
  <2> QED
    BY <1>3, <1>5, <2>1 DEF Whole, Copied
<1>7. s.slots[x].static \/ x[2] = i
  <2>1. CASE s.slots[<<c, 0, k>>].static
    BY <1>6, <2>1 DEF Alike
  <2>2. CASE ~s.slots[<<c, 0, k>>].static
    BY <1>6, <2>2 DEF Own
  <2> QED
    BY <2>1, <2>2
<1> QED
  BY <1>1, <1>2, <1>5, <1>6, <1>7

RunStates(s) ==
  [default : 0 .. MaxNumber, slots : [DOMAIN s.slots -> Attribute],
   instances : [DOMAIN s.instances -> InstanceType], main : {s.main}, hung : BOOLEAN]

Ran(s, id, t) ==
  /\ t \in RunStates(s)
  /\ Settled(t)
  /\ \A x \in DOMAIN s.slots : t.slots[x].access = s.slots[x].access /\ t.slots[x].static = s.slots[x].static
  /\ \A j \in DOMAIN s.instances \ {id} : t.instances[j] = s.instances[j]
  /\ t.instances[id].class = s.instances[id].class
  /\ t.instances[id].attributes = s.instances[id].attributes
  /\ t.instances[id].methods = s.instances[id].methods

(* A destructor that runs changes values and its instance's list of         *)
(* destructors.                                                             *)
LEMMA BodyStep ==
  ASSUME NEW T, NEW s, Sound(T, s), NEW id \in DOMAIN s.instances, NEW t, Ran(s, id, t),
         NEW d \in Kept, NEW u, u = Body(id, t, d)
  PROVE  Ran(s, id, u) /\ u.instances[id].expired = Append(t.instances[id].expired, d)
<1>0. t \in RunStates(s) /\ Settled(t)
  BY DEF Ran
<1>1. PICK o \in InstanceType : o = t.instances[id]
  BY <1>0 DEF RunStates
<1>2. PICK e \in Seq(Kept) : e = Append(o.expired, d)
  BY AppendProperties DEF InstanceType
<1>3. PICK q : q = [o EXCEPT !.expired = e]
  OBVIOUS
<1>4. /\ q \in InstanceType /\ q.expired = e
      /\ q.class = o.class /\ q.attributes = o.attributes /\ q.methods = o.methods
  BY <1>3 DEF InstanceType
<1>5. PICK ins : ins = [t.instances EXCEPT ![id] = q]
  OBVIOUS
<1>6. ins \in [DOMAIN s.instances -> InstanceType] /\ ins[id] = q /\ \A j \in DOMAIN s.instances \ {id} : ins[j] = t.instances[j]
  BY <1>0, <1>4, <1>5 DEF RunStates
<1>7. PICK run : run = [t EXCEPT !.instances[id].expired = Append(@, d)]
  OBVIOUS
<1>8. run = [t EXCEPT !.instances = ins]
  BY <1>1, <1>2, <1>3, <1>5, <1>7
<1>9. run = [default |-> t.default, slots |-> t.slots, instances |-> ins, main |-> t.main, hung |-> t.hung]
  BY <1>0, <1>8 DEF RunStates
<1>10. run \in RunStates(s) /\ run.slots = t.slots /\ run.default = t.default /\ run.instances = ins
  BY <1>0, <1>6, <1>9 DEF RunStates
<1>11. Settled(run)
  BY <1>0, <1>10 DEF Settled
<1>12. Ran(s, id, run)
  BY <1>1, <1>4, <1>6, <1>10, <1>11 DEF Ran
<1>13. CASE Expire = "assigns"
  <2>1. u = [run EXCEPT !.hung = TRUE]
    BY <1>7, <1>13 DEF Body
  <2>2. u = [default |-> t.default, slots |-> t.slots, instances |-> ins, main |-> t.main, hung |-> TRUE]
    BY <1>9, <2>1
  <2>3. u \in RunStates(s) /\ u.slots = run.slots /\ u.default = run.default /\ u.instances = run.instances
    BY <1>9, <1>10, <2>2 DEF RunStates
  <2>4. Settled(u)
    BY <1>11, <2>3 DEF Settled
  <2> QED
    BY <1>1, <1>2, <1>4, <1>6, <1>10, <1>12, <2>3, <2>4 DEF Ran
<1>14. CASE Expire # "assigns" /\ ~Knows(o.attributes, "count")
  <2>1. u = run
    BY <1>1, <1>7, <1>14 DEF Body
  <2> QED
    BY <1>1, <1>2, <1>4, <1>6, <1>10, <1>12, <2>1
<1>15. CASE Expire # "assigns" /\ Knows(o.attributes, "count")
  <2>1. PICK x : x = find(o.attributes, Label("count"))
    OBVIOUS
  <2>2. x \in Held(s.instances[id])
    <3>1. o.attributes \in FieldTable /\ o.attributes = s.instances[id].attributes
      BY <1>1 DEF InstanceType, Ran
    <3>2. "count" \in Word
      BY DEF Word
    <3>3. PICK k \in 1 .. Len(o.attributes.map) : x = o.attributes.map[k].value
      BY <1>15, <2>1, <3>1, <3>2, FieldFind
    <3> QED
      BY <3>1, <3>3, FieldTypes DEF Held
  <2>3. x \in DOMAIN s.slots /\ (t.slots[x].static \/ x[2] = id)
    BY <2>2, HeldRight DEF Ran
  <2>4. PICK v : v = Number((Shown(t, t.slots[x].value).number + 1) % (MaxNumber + 1))
    OBVIOUS
  <2>5. v \in Numbers /\ v \in Value /\ v # Void /\ v.kind = "number" /\ v.number \in 0 .. MaxNumber
    <3>1. t.slots[x].value \in Value /\ t.default \in 0 .. MaxNumber
      BY <1>0, <2>3 DEF RunStates, Attribute
    <3>2. v \in Numbers
      BY <2>4, <3>1, ShownNumber
    <3> QED
      BY <3>2, ValueTypes DEF Numbers, Value, Number
  <2>6. u = ob_assign(run, x, v)
    BY <1>1, <1>7, <1>15, <2>1, <2>4 DEF Body
  <2>7. CASE Unset(run.slots, x)
    <3>1. u = [run EXCEPT !.default = v.number]
      BY <2>5, <2>6, <2>7 DEF ob_assign, Unset
    <3>2. u = [default |-> v.number, slots |-> t.slots, instances |-> ins, main |-> t.main, hung |-> t.hung]
      BY <1>9, <3>1
    <3>3. u \in RunStates(s) /\ u.slots = run.slots /\ u.instances = run.instances
      BY <1>0, <1>6, <1>10, <2>5, <3>2 DEF RunStates
    <3>4. ~Quiet
      <4>1. x[2] = 0 /\ (run.slots[x].static => ~Quiet)
        BY <1>10, <1>11, <2>3, <2>7, <1>0 DEF Settled, RunStates
      <4>2. id # 0
        BY DEF Sound, Typed
      <4> QED
        BY <1>10, <2>3, <4>1, <4>2
    <3>5. Settled(u)
      BY <1>11, <3>3, <3>4 DEF Settled
    <3> QED
      BY <1>1, <1>2, <1>4, <1>6, <1>10, <1>12, <3>3, <3>5 DEF Ran
  <2>8. CASE ~Unset(run.slots, x)
    <3>0. PICK sl \in [DOMAIN s.slots -> Attribute] : sl = run.slots
      BY <1>10 DEF RunStates
    <3>1. PICK sm : sm = [sl EXCEPT ![x].value = v]
      OBVIOUS
    <3>2. /\ sm \in [DOMAIN s.slots -> Attribute]
          /\ sm[x] = [access |-> sl[x].access, static |-> sl[x].static, value |-> v]
          /\ \A y \in DOMAIN s.slots \ {x} : sm[y] = sl[y]
      BY <2>3, <2>5, <3>0, <3>1, SlotSet
    <3>3. u = [run EXCEPT !.slots = sm]
      BY <2>6, <2>8, <3>0, <3>1 DEF ob_assign, Unset
    <3>4. u = [default |-> t.default, slots |-> sm, instances |-> ins, main |-> t.main, hung |-> t.hung]
      BY <1>9, <3>3
    <3>5. u \in RunStates(s) /\ u.slots = sm /\ u.instances = run.instances /\ u.default = run.default
      BY <1>0, <1>6, <1>10, <3>2, <3>4 DEF RunStates
    <3>6. \A y \in DOMAIN s.slots : sm[y].access = sl[y].access /\ sm[y].static = sl[y].static
      BY <3>2
    <3>7. \A y \in DOMAIN s.slots : Unset(sm, y) => Unset(sl, y)
      BY <2>5, <3>2 DEF Unset
    <3>8. Settled(u)
      BY <1>11, <3>0, <3>2, <3>5, <3>6, <3>7 DEF Settled
    <3> QED
      BY <1>1, <1>2, <1>4, <1>6, <1>10, <1>12, <3>0, <3>5, <3>6, <3>8 DEF Ran
  <2> QED
    BY <2>7, <2>8
<1> QED
  BY <1>13, <1>14, <1>15

Advanced(s, id, t, d, u) ==
  Ran(s, id, u) /\ u.instances[id].expired = Append(t.instances[id].expired, d)

(* The same, as a step of a run.                                            *)
LEMMA BodyAdvances ==
  ASSUME NEW T, NEW s, Sound(T, s), NEW id \in DOMAIN s.instances, NEW t, Ran(s, id, t),
         NEW d \in Kept
  PROVE  Advanced(s, id, t, d, Body(id, t, d))
BY BodyStep DEF Advanced

(* Before the first destructor runs.                                        *)
LEMMA RanStart ==
  ASSUME NEW T, NEW s, Sound(T, s), NEW id \in DOMAIN s.instances
  PROVE  Ran(s, id, s)
BY DEF Sound, Typed, Ran, RunStates

BodySteps(acc, s, id, all, n) ==
  acc[0] = s /\ \A k \in 1 .. n : acc[k] = Body(id, acc[k - 1], all[k])

RanFrom(s, id) == {t \in RunStates(s) : Ran(s, id, t)}

(* class_free runs the destructors one by one.                              *)
LEMMA ExpiredSteps ==
  ASSUME NEW T, NEW s, Sound(T, s), NEW id \in DOMAIN s.instances,
         NEW all \in Seq(Kept), all = Prototypes(s.instances[id], "__expire"), NEW n \in Nat, n = Len(all)
  PROVE  \E acc \in [0 .. n -> RanFrom(s, id)] : BodySteps(acc, s, id, all, n) /\ Expired(s, id) = acc[n]
<1> DEFINE V == RanFrom(s, id)
           then(v, e) == Body(id, v, e)
           step == [q \in V \X (1 .. n) |-> then(q[1], all[q[2]])]
           Fix(f) == f = [t \in SUBSET DOMAIN all |->
                            IF t = {} THEN s ELSE then(f[t \ {Max(t)}], all[Max(t)])]
<1>1. DOMAIN all = 1 .. n /\ \A k \in 1 .. n : all[k] \in Kept
  BY LenProperties, ElementOfSeq
<1>2. \A v \in V, k \in 1 .. n : then(v, all[k]) \in V
  <2> SUFFICES ASSUME NEW v \in V, NEW k \in 1 .. n PROVE Body(id, v, all[k]) \in V
    OBVIOUS
  <2>1. Ran(s, id, v) /\ all[k] \in Kept
    BY <1>1 DEF RanFrom
  <2>2. Ran(s, id, Body(id, v, all[k]))
    BY <2>1, BodyStep
  <2> QED
    BY <2>2 DEF RanFrom, Ran
<1>3. s \in V
  BY RanStart DEF RanFrom, Ran
<1> HIDE DEF V
<1>4. Folder(n, V, s, step)
  BY <1>2, <1>3 DEF Folder
<1>5. ASSUME NEW g, NEW t \in SUBSET (1 .. n), t # {}, g[t \ {Max(t)}] \in V
      PROVE  step[<<g[t \ {Max(t)}], Max(t)>>] = then(g[t \ {Max(t)}], all[Max(t)])
  <2>1. Max(t) \in t
    BY <1>5, Positions
  <2>2. Max(t) \in 1 .. n
    BY <2>1
  <2> HIDE DEF then
  <2> QED
    BY <1>5, <2>2
<1> HIDE DEF then, step
<1>6. \E f : Fix(f)
  <2>0. PICK f \in [SUBSET (1 .. n) -> V] : Folds(f, n, s, step)
    BY <1>4, Folding
  <2>1. \A t \in SUBSET (1 .. n) : f[t] = IF t = {} THEN s ELSE step[<<f[t \ {Max(t)}], Max(t)>>]
    BY <2>0 DEF Folds
  <2>2. f = [t \in SUBSET (1 .. n) |-> f[t]]
    OBVIOUS
  <2>3. \A t \in SUBSET (1 .. n) : t # {} => f[t] = then(f[t \ {Max(t)}], all[Max(t)])
    BY <1>5, <2>1
  <2>4. Fix(f)
    BY <1>1, <2>1, <2>2, <2>3
  <2> QED
    BY <2>4
<1>7. PICK g : g = CHOOSE f : Fix(f)
  OBVIOUS
<1>8. Fix(g)
  BY <1>6, <1>7
<1>9. Expired(s, id) = g[1 .. n]
  BY <1>1, <1>7 DEF Expired, FoldLeft, MapThenFoldSet, then
<1>10. FoldsAs(g, n, V, s, step)
  BY <1>1, <1>5, <1>8 DEF FoldsAs
<1>11. PICK acc \in [0 .. n -> V] :
            /\ acc[0] = s
            /\ \A k \in 1 .. n : acc[k] = step[<<acc[k - 1], k>>]
            /\ acc[n] = g[1 .. n]
  <2>1. Folded(n, V, s, step, g)
    BY <1>4, <1>10, FoldRun
  <2> QED
    BY <2>1 DEF Folded, Accumulates
<1>12. ASSUME NEW k \in 1 .. n
       PROVE  acc[k] = then(acc[k - 1], all[k])
  <2>1. acc[k - 1] \in V /\ k \in 1 .. n
    OBVIOUS
  <2>2. step[<<acc[k - 1], k>>] = then(acc[k - 1], all[k])
    BY <2>1 DEF step
  <2> QED
    BY <1>11, <2>2
<1> QED
  BY <1>9, <1>11, <1>12 DEF then, BodySteps, V

(* Every method found has the types of a method.                            *)
LEMMA PrototypesType ==
  ASSUME NEW o, Coherent(Word, Seq(Kept), o.methods), NEW name \in Word
  PROVE  Prototypes(o, name) \in Seq(Kept)
<1>1. CASE Knows(o.methods, name)
  <2>1. Label(name) \in TreeLabel(Word)
    BY LabelType
  <2>2. PICK p : p = at_find(o.methods.tree, Label(name))
    OBVIOUS
  <2>3. p # NULL /\ Tree!NULL = NULL
    BY <1>1, <2>2, SameTrees DEF Knows, NULL, Tree!NULL
  <2>4. p = Tree!at_find(o.methods.tree, Label(name))
    BY <2>2, SameTrees
  <2>5. p \in 1 .. Len(o.methods.map)
    BY <2>1, <2>3, <2>4, Leads
  <2>6. o.methods \in TreeTable(Word, Seq(Kept))
    BY DEF Coherent
  <2>7. o.methods.map[p].value \in Seq(Kept)
    BY <2>5, <2>6, TableTypes
  <2> QED
    BY <1>1, <2>2, <2>3, <2>7 DEF Prototypes, find
<1>2. CASE ~Knows(o.methods, name)
  BY <1>2, EmptySeq DEF Prototypes
<1> QED
  BY <1>1, <1>2

(* The empty table has no method.                                           *)
LEMMA PrototypesEmpty ==
  ASSUME NEW o, o.methods = EmptyTable, NEW name \in Word
  PROVE  Prototypes(o, name) = <<>>
<1>1. Label(name) # <<>>
  BY LabelType DEF TreeLabel
<1>2. at_find(EmptyTable.tree, Label(name)) = NULL
  BY <1>1 DEF at_find, EmptyTable, EmptyTree
<1> QED
  BY <1>2 DEF Prototypes, Knows

(* Every destructor runs, in order, if none has run before.                 *)
LEMMA ExpiredRight ==
  ASSUME NEW T, NEW s, Sound(T, s), NEW id \in DOMAIN s.instances,
         NEW all \in Seq(Kept), all = Prototypes(s.instances[id], "__expire"), NEW t, t = Expired(s, id)
  PROVE  /\ Ran(s, id, t)
         /\ s.instances[id].expired = <<>> => t.instances[id].expired = all
         /\ all = <<>> => t.instances[id].expired = s.instances[id].expired
<1>1. PICK n \in Nat : n = Len(all)
  BY LenProperties
<1>2. PICK acc \in [0 .. n -> RanFrom(s, id)] : BodySteps(acc, s, id, all, n) /\ t = acc[n]
  BY <1>1, ExpiredSteps
<1>3. Ran(s, id, t)
  <2>1. acc[n] \in RanFrom(s, id)
    BY <1>2
  <2> QED
    BY <1>2, <2>1 DEF RanFrom
<1>4. ASSUME s.instances[id].expired = <<>>
      PROVE  t.instances[id].expired = all
  <2> DEFINE e(k) == acc[k].instances[id].expired
             Ok == {k \in Nat : k <= n => e(k) \in Seq(Kept) /\ Len(e(k)) = k /\ \A j \in 1 .. k : e(k)[j] = all[j]}
  <2>1. ASSUME NEW k \in Nat, \A j \in 0 .. k - 1 : j \in Ok
        PROVE  k \in Ok
    <3>1. CASE k = 0
      <4>1. e(0) = <<>>
        BY <1>2, <1>4 DEF BodySteps
      <4>2. <<>> \in Seq(Kept) /\ Len(<<>>) = 0
        BY EmptySeq
      <4> QED
        BY <3>1, <4>1, <4>2
    <3>2. CASE k \in 1 .. n
      <4>1. k - 1 \in Ok /\ k - 1 \in 0 .. n
        BY <2>1, <3>2
      <4>2. e(k - 1) \in Seq(Kept) /\ Len(e(k - 1)) = k - 1 /\ \A j \in 1 .. k - 1 : e(k - 1)[j] = all[j]
        BY <4>1
      <4>3. Ran(s, id, acc[k - 1]) /\ all[k] \in Kept
        <5>1. acc[k - 1] \in RanFrom(s, id)
          BY <1>2, <4>1
        <5> QED
          BY <1>1, <3>2, <5>1, ElementOfSeq DEF RanFrom
      <4>4. PICK u, v, d : u = acc[k] /\ v = acc[k - 1] /\ d = all[k]
        OBVIOUS
      <4>7. u = Body(id, v, d) /\ Ran(s, id, v) /\ d \in Kept
        BY <1>2, <3>2, <4>3, <4>4 DEF BodySteps
      <4>8. u.instances[id].expired = Append(v.instances[id].expired, d)
        <5> HIDE DEF e, Ok
        <5>1. Ran(s, id, v) /\ d \in Kept /\ u = Body(id, v, d)
          BY <4>7
        <5>2. Advanced(s, id, v, d, u)
          BY <5>1, BodyAdvances
        <5> QED
          BY <5>2 DEF Advanced
      <4>5. e(k) = Append(e(k - 1), all[k])
        BY <4>4, <4>8
      <4> HIDE DEF e
      <4>6. e(k) \in Seq(Kept) /\ Len(e(k)) = k /\ e(k)[k] = all[k] /\ \A j \in 1 .. k - 1 : e(k)[j] = all[j]
        BY <3>2, <4>2, <4>3, <4>5, AppendProperties
      <4> QED
        BY <3>2, <4>6
    <3>3. CASE ~(k <= n)
      BY <3>3
    <3> QED
      BY <3>1, <3>2, <3>3
  <2>2. Ok = Nat
    <3> HIDE DEF Ok
    <3>1. Ok \in SUBSET Nat
      BY DEF Ok
    <3> QED
      BY <2>1, <3>1, NatSet
  <2>3. n \in Ok
    BY <2>2
  <2>4. e(n) \in Seq(Kept) /\ Len(e(n)) = n /\ \A j \in 1 .. n : e(n)[j] = all[j]
    BY <2>3
  <2>5. e(n) = all
    <3> HIDE DEF e
    <3> QED
      BY <1>1, <2>4, SeqEqual
  <2> QED
    BY <1>2, <2>5
<1>5. ASSUME all = <<>>
      PROVE  t.instances[id].expired = s.instances[id].expired
  <2>1. n = 0
    BY <1>1, <1>5, EmptySeq
  <2> QED
    BY <1>2, <2>1 DEF BodySteps
<1> QED
  BY <1>3, <1>4, <1>5

-----------------------------------------------------------------------------
(* class_free *)
LEMMA ProtoHeld ==
  ASSUME NEW T, NEW c \in DOMAIN T, Proto(T, c), NEW x
  PROVE  x \in Held(T[c]) <=> \E k \in 1 .. Len(T[c].attributes.map) : x = <<c, 0, k>>
<1>1. DOMAIN T[c].attributes.map = 1 .. Len(T[c].attributes.map)
  BY FieldTypes DEF Proto
<1> QED
  BY <1>1 DEF Proto, Held

(* The slots of a prototype are there.                                      *)
LEMMA ProtoSlots ==
  ASSUME NEW T, NEW s, Sound(T, s), NEW c \in DOMAIN T, NEW k \in 1 .. Len(T[c].attributes.map)
  PROVE  <<c, 0, k>> \in DOMAIN s.slots /\ <<c, 0, k>> \in Held(T[c])
<1>1. Proto(T, c)
  BY DEF Sound
<1>2. <<c, 0, k>> \in Held(T[c])
  BY <1>1, ProtoHeld
<1> QED
  BY <1>2 DEF Sound, AllHeld

(* So are those of an instance that was not emptied.                        *)
LEMMA OwnSlots ==
  ASSUME NEW T, NEW s, Sound(T, s), NEW i \in DOMAIN s.instances, NEW c, c = s.instances[i].class,
         Whole(T, s.slots, i, s.instances[i]), NEW k \in 1 .. Len(T[c].attributes.map)
  PROVE  Own(s.slots, c, i, k) \in Held(s.instances[i]) /\ Own(s.slots, c, i, k) \in DOMAIN s.slots
<1>1. PICK o : o = s.instances[i]
  OBVIOUS
<1>2. o.attributes \in FieldTable
  BY <1>1 DEF Sound, Typed, InstanceType
<1>3. k \in 1 .. Len(o.attributes.map) /\ o.attributes.map[k].value = Own(s.slots, c, i, k)
  BY <1>1 DEF Whole, Copied
<1>4. Own(s.slots, c, i, k) \in Held(o)
  BY <1>2, <1>3, FieldTypes DEF Held
<1> QED
  BY <1>1, <1>4 DEF Sound, AllHeld

(* sm has what sl has of the slots of a class and its instance.             *)
Keeps(p, sl, sm, c, i) ==
  \A k \in 1 .. Len(p.map) :
    /\ sl[<<c, 0, k>>].static = sm[<<c, 0, k>>].static
    /\ sl[<<c, 0, k>>].access = sm[<<c, 0, k>>].access
    /\ sl[Own(sl, c, i, k)].static = sm[Own(sl, c, i, k)].static
    /\ sl[Own(sl, c, i, k)].access = sm[Own(sl, c, i, k)].access

(* An instance stays a copy if no slot of it changes its access or whether  *)
(* it is static.                                                            *)
LEMMA CopiedKept ==
  ASSUME NEW p, NEW sl, NEW sm, NEW c, NEW i, NEW a, Copied(p, sl, c, i, a), Keeps(p, sl, sm, c, i)
  PROVE  Copied(p, sm, c, i, a)
<1>1. ASSUME NEW k \in 1 .. Len(p.map)
      PROVE  /\ a.map[k].label = p.map[k].label
             /\ a.map[k].value = Own(sm, c, i, k)
             /\ Alike(sm, Own(sm, c, i, k), <<c, 0, k>>)
  <2>1. Own(sm, c, i, k) = Own(sl, c, i, k)
    BY DEF Keeps, Own
  <2>2. /\ a.map[k].label = p.map[k].label
        /\ a.map[k].value = Own(sl, c, i, k)
        /\ Alike(sl, Own(sl, c, i, k), <<c, 0, k>>)
    BY DEF Copied
  <2> QED
    BY <2>1, <2>2 DEF Keeps, Alike
<1> QED
  BY <1>1 DEF Copied

(* An instance keeps its form when the slots of its class and its own ones  *)
(* keep theirs.                                                             *)
LEMMA InstKept ==
  ASSUME NEW T, NEW sl, NEW sm, NEW i, NEW o, Inst(T, sl, i, o),
         Whole(T, sl, i, o) => Keeps(T[o.class].attributes, sl, sm, o.class, i)
  PROVE  Inst(T, sm, i, o)
<1>1. CASE Whole(T, sl, i, o)
  <2>1. Copied(T[o.class].attributes, sm, o.class, i, o.attributes)
    BY <1>1, CopiedKept DEF Whole
  <2> QED
    BY <1>1, <2>1 DEF Inst, Whole
<1>2. CASE ~Whole(T, sl, i, o)
  BY <1>2 DEF Inst
<1> QED
  BY <1>1, <1>2

Freed(s, id, u) ==
  /\ u.main = s.main /\ DOMAIN u.instances = DOMAIN s.instances
  /\ u.instances[id].attributes = EmptyTable
  /\ \A j \in DOMAIN s.instances \ {id} : u.instances[j] = s.instances[j]

(* After class_free ran the destructors they are listed once, in the order  *)
(* of the class.                                                            *)
LEMMA ExpiresOnce ==
  ASSUME NEW T, NEW s, Sound(T, s), NEW id \in DOMAIN s.instances, NEW t, t = Expired(s, id)
  PROVE  /\ Ran(s, id, t)
         /\ t.instances[id].expired \in {<<>>, Prototypes(T[s.instances[id].class], "__expire")}
<1>1. PICK o : o = s.instances[id]
  OBVIOUS
<1>2. "__expire" \in Word
  BY DEF Word
<1>3. Inst(T, s.slots, id, o)
  BY <1>1 DEF Sound
<1>4. CASE Whole(T, s.slots, id, o)
  <2>1. Coherent(Word, Seq(Kept), o.methods)
    BY <1>3, <1>4 DEF Sound, Inst, Whole, Proto
  <2>2. PICK all \in Seq(Kept) : all = Prototypes(o, "__expire")
    BY <1>2, <2>1, PrototypesType
  <2>3. Ran(s, id, t) /\ t.instances[id].expired = all
    BY <1>1, <1>4, <2>2, ExpiredRight DEF Whole
  <2>4. all = Prototypes(T[o.class], "__expire")
    BY <1>4, <2>2 DEF Whole, Prototypes
  <2> QED
    BY <1>1, <2>3, <2>4
<1>5. CASE Emptied(T, o)
  <2>1. Prototypes(o, "__expire") = <<>>
    BY <1>2, <1>5, PrototypesEmpty DEF Emptied
  <2>2. PICK all \in Seq(Kept) : all = Prototypes(o, "__expire") /\ all = <<>>
    BY <2>1, EmptySeq
  <2>3. Ran(s, id, t) /\ t.instances[id].expired = o.expired
    BY <1>1, <2>2, ExpiredRight
  <2> QED
    BY <1>1, <1>5, <2>3 DEF Emptied
<1> QED
  BY <1>3, <1>4, <1>5 DEF Inst

IsCleared(s, id, t, u) ==
  /\ Typed(u) /\ Freed(s, id, u) /\ u.default = t.default
  /\ u.slots = [x \in DOMAIN s.slots \ Deleted(t, id) |-> t.slots[x]]
  /\ u.instances[id].class = s.instances[id].class
  /\ u.instances[id].expired = t.instances[id].expired
  /\ u.instances[id].methods = EmptyTable

(* What is left when the structures of an instance are deleted.             *)
LEMMA ClearedFields ==
  ASSUME NEW T, NEW s, Sound(T, s), NEW id \in DOMAIN s.instances, NEW t, Ran(s, id, t),
         NEW u, u = Cleared(t, id)
  PROVE  IsCleared(s, id, t, u)
<1>1. PICK o \in InstanceType : o = t.instances[id]
  BY DEF Ran, RunStates
<1>2. PICK q : q = [class |-> o.class, attributes |-> EmptyTable, methods |-> EmptyTable,
                    referenced |-> o.referenced, expired |-> o.expired]
  OBVIOUS
<1>3. q \in InstanceType
  <2>1. EmptyTable \in TreeTable(Word, Seq(Kept))
    BY EmptyCoherent, SameTrees DEF Coherent
  <2> QED
    BY <1>2, <2>1, EmptyFields DEF InstanceType
<1>4. PICK sl : sl = [x \in DOMAIN s.slots \ Deleted(t, id) |-> t.slots[x]]
  OBVIOUS
<1>5. PICK q1 : q1 = [o EXCEPT !.attributes = EmptyTable]
  OBVIOUS
<1>6. q1 = [class |-> o.class, attributes |-> EmptyTable, methods |-> o.methods,
            referenced |-> o.referenced, expired |-> o.expired]
  BY <1>5 DEF InstanceType
<1>7. q = [q1 EXCEPT !.methods = EmptyTable]
  BY <1>2, <1>6
<1>8. PICK ins : ins = [t.instances EXCEPT ![id] = q]
  OBVIOUS
<1>9. /\ ins \in [DOMAIN s.instances -> InstanceType] /\ ins[id] = q
      /\ \A j \in DOMAIN s.instances \ {id} : ins[j] = s.instances[j]
  BY <1>3, <1>8 DEF Ran, RunStates
<1>10. PICK t1 : t1 = [t EXCEPT !.slots = sl]
  OBVIOUS
<1>11. t1 = [default |-> t.default, slots |-> sl, instances |-> t.instances, main |-> t.main, hung |-> t.hung]
  BY <1>10 DEF Ran, RunStates
<1>12. PICK in1 : in1 = [t.instances EXCEPT ![id] = q1]
  OBVIOUS
<1>13. PICK t2 : t2 = [t1 EXCEPT !.instances[id].attributes = EmptyTable]
  OBVIOUS
<1>14. t2 = [t1 EXCEPT !.instances = in1]
  BY <1>1, <1>5, <1>11, <1>12, <1>13
<1>15. t2 = [default |-> t.default, slots |-> sl, instances |-> in1, main |-> t.main, hung |-> t.hung]
  BY <1>11, <1>14
<1>16. in1[id] = q1 /\ [in1 EXCEPT ![id] = q] = ins
  BY <1>8, <1>12 DEF Ran, RunStates
<1>17. u = [t2 EXCEPT !.instances[id].methods = EmptyTable]
  <2>1. DOMAIN t.slots = DOMAIN s.slots
    BY DEF Ran, RunStates
  <2> QED
    BY <1>4, <1>10, <1>13, <2>1 DEF Cleared
<1>18. u = [t2 EXCEPT !.instances = ins]
  BY <1>7, <1>15, <1>16, <1>17
<1>19. u = [default |-> t.default, slots |-> sl, instances |-> ins, main |-> t.main, hung |-> t.hung]
  BY <1>15, <1>18
<1>20. sl \in [DOMAIN sl -> Attribute] /\ DOMAIN sl \subseteq Slot
  BY <1>4 DEF Ran, RunStates, Sound, Typed
<1>21. Typed(u)
  BY <1>9, <1>19, <1>20 DEF Typed, Ran, RunStates, Sound
<1>22. Freed(s, id, u)
  BY <1>2, <1>9, <1>19 DEF Freed, Ran, RunStates
<1>23. u.instances[id] = q /\ u.slots = sl /\ u.default = t.default
  BY <1>9, <1>19
<1> QED
  BY <1>1, <1>2, <1>4, <1>21, <1>22, <1>23 DEF Ran, IsCleared

(* class_free: the instance is empty, the other objects lose no attribute.  *)
LEMMA FreeSound ==
  ASSUME NEW T, NEW s, Sound(T, s), NEW id \in DOMAIN s.instances
  PROVE  Sound(T, class_free(s, id)) /\ Freed(s, id, class_free(s, id))
<1>1. PICK t : t = Expired(s, id)
  OBVIOUS
<1>2. /\ Ran(s, id, t)
      /\ t.instances[id].expired \in {<<>>, Prototypes(T[s.instances[id].class], "__expire")}
  BY <1>1, ExpiresOnce
<1>3. PICK u : u = Cleared(t, id)
  OBVIOUS
<1>4. /\ Typed(u) /\ Freed(s, id, u) /\ u.default = t.default
      /\ u.slots = [x \in DOMAIN s.slots \ Deleted(t, id) |-> t.slots[x]]
      /\ u.instances[id].class = s.instances[id].class
      /\ u.instances[id].expired = t.instances[id].expired
      /\ u.instances[id].methods = EmptyTable
  <2>1. IsCleared(s, id, t, u)
    BY <1>2, <1>3, ClearedFields
  <2> QED
    BY <2>1 DEF IsCleared
<1>5. PICK gone : gone = Deleted(t, id)
  OBVIOUS
<1>6. ASSUME NEW x \in gone
      PROVE  x \in Held(s.instances[id]) /\ ~s.slots[x].static /\ x[2] = id
  <2>1. x \in Held(t.instances[id]) /\ ~t.slots[x].static
    BY <1>5 DEF Deleted
  <2>2. x \in Held(s.instances[id])
    BY <1>2, <2>1 DEF Ran, Held
  <2>3. x \in DOMAIN s.slots /\ (s.slots[x].static \/ x[2] = id)
    BY <2>2, HeldRight
  <2> QED
    BY <1>2, <2>1, <2>2, <2>3 DEF Ran
<1>7. ASSUME NEW x \in Held(s.instances[id]), x \notin gone
      PROVE  s.slots[x].static
  <2>1. x \in Held(t.instances[id])
    BY <1>2 DEF Ran, Held
  <2>2. t.slots[x].static
    BY <1>5, <1>7, <2>1 DEF Deleted
  <2>3. x \in DOMAIN s.slots
    BY HeldRight
  <2> QED
    BY <1>2, <2>2, <2>3 DEF Ran
<1>8. /\ DOMAIN u.slots = DOMAIN s.slots \ gone
      /\ \A x \in DOMAIN u.slots : /\ u.slots[x] = t.slots[x]
                                   /\ u.slots[x].access = s.slots[x].access
                                   /\ u.slots[x].static = s.slots[x].static
  BY <1>2, <1>4, <1>5 DEF Ran
<1>9. Settled(u)
  <2>1. Settled(t) /\ DOMAIN t.slots = DOMAIN s.slots
    BY <1>2 DEF Ran, RunStates
  <2> QED
    BY <1>4, <1>8, <2>1 DEF Settled, Unset
<1>10. id # 0 /\ id \in Nat
  BY DEF Sound, Typed
<1>11. ASSUME NEW j \in DOMAIN s.instances \ {id}
       PROVE  Inst(T, u.slots, j, u.instances[j])
  <2>1. PICK o, c : o = s.instances[j] /\ c = o.class
    OBVIOUS
  <2>2. Inst(T, s.slots, j, o) /\ u.instances[j] = o
    BY <1>4, <2>1 DEF Sound, Freed
  <2>3. ASSUME Whole(T, s.slots, j, o), NEW k \in 1 .. Len(T[c].attributes.map)
        PROVE  <<c, 0, k>> \in DOMAIN u.slots /\ Own(s.slots, c, j, k) \in DOMAIN u.slots
    <3>1. c \in DOMAIN T
      BY <2>1, <2>2 DEF Inst
    <3>2. <<c, 0, k>> \in DOMAIN s.slots /\ Own(s.slots, c, j, k) \in DOMAIN s.slots
      BY <2>1, <2>3, <3>1, ProtoSlots, OwnSlots
    <3>3. <<c, 0, k>> \notin gone
      BY <1>6, <1>10
    <3>4. <<c, j, k>> \notin gone
      BY <1>6
    <3> QED
      BY <1>8, <3>2, <3>3, <3>4 DEF Own
  <2>4. Whole(T, s.slots, j, o) => Keeps(T[c].attributes, s.slots, u.slots, c, j)
    BY <1>8, <2>3 DEF Keeps
  <2> QED
    BY <2>1, <2>2, <2>4, InstKept
<1>12. Inst(T, u.slots, id, u.instances[id])
  <2>1. s.instances[id].class \in DOMAIN T
    BY DEF Sound, Inst
  <2> QED
    BY <1>2, <1>4, <2>1 DEF Inst, Emptied, Freed
<1>13. DOMAIN u.slots = AllHeld(T, u.instances)
  <2>1. Held(u.instances[id]) = {}
    BY <1>4, EmptyHeld DEF Freed
  <2>2. \A j \in DOMAIN s.instances \ {id} : u.instances[j] = s.instances[j]
    BY <1>4 DEF Freed
  <2>3. DOMAIN u.instances = DOMAIN s.instances
    BY <1>4 DEF Freed
  <2>4. ASSUME NEW x \in DOMAIN u.slots
        PROVE  x \in AllHeld(T, u.instances)
    <3>1. x \in AllHeld(T, s.instances) /\ x \notin gone
      BY <1>8 DEF Sound
    <3>2. CASE \E c \in DOMAIN T : x \in Held(T[c])
      BY <3>2 DEF AllHeld
    <3>3. CASE \E j \in DOMAIN s.instances \ {id} : x \in Held(s.instances[j])
      BY <2>2, <2>3, <3>3 DEF AllHeld
    <3>4. CASE x \in Held(s.instances[id])
      <4>1. PICK c : c = s.instances[id].class /\ c \in DOMAIN T
        BY DEF Sound, Inst
      <4>2. PICK k \in 1 .. Len(T[c].attributes.map) : x = Own(s.slots, c, id, k)
        BY <3>4, <4>1, HeldRight
      <4>3. s.slots[x].static
        BY <1>7, <3>1, <3>4
      <4>4. Alike(s.slots, x, <<c, 0, k>>)
        <5>1. Whole(T, s.slots, id, s.instances[id])
          <6>1. s.instances[id].attributes # EmptyTable
            BY <3>4, EmptyHeld
          <6> QED
            BY <6>1 DEF Sound, Inst, Emptied
        <5> QED
          BY <4>1, <4>2, <5>1 DEF Whole, Copied
      <4>5. x = <<c, 0, k>>
        BY <4>2, <4>3, <4>4 DEF Own, Alike
      <4>6. x \in Held(T[c])
        BY <4>1, <4>5, ProtoSlots
      <4> QED
        BY <4>1, <4>6 DEF AllHeld
    <3> QED
      BY <3>1, <3>2, <3>3, <3>4 DEF AllHeld
  <2>5. ASSUME NEW x \in AllHeld(T, u.instances)
        PROVE  x \in DOMAIN u.slots
    <3>1. CASE \E c \in DOMAIN T : x \in Held(T[c])
      <4>1. PICK c \in DOMAIN T : x \in Held(T[c])
        BY <3>1
      <4>2. PICK k \in 1 .. Len(T[c].attributes.map) : x = <<c, 0, k>>
        BY <4>1, ProtoHeld DEF Sound
      <4>3. x \in DOMAIN s.slots /\ x[2] # id
        BY <1>10, <4>2, ProtoSlots
      <4> QED
        BY <1>6, <1>8, <4>3
    <3>2. CASE \E j \in DOMAIN s.instances \ {id} : x \in Held(s.instances[j])
      <4>1. PICK j \in DOMAIN s.instances \ {id} : x \in Held(s.instances[j])
        BY <3>2
      <4>2. x \in DOMAIN s.slots /\ (s.slots[x].static \/ x[2] = j)
        BY <4>1, HeldRight
      <4> QED
        BY <1>6, <1>8, <4>1, <4>2
    <3> QED
      BY <2>1, <2>2, <2>3, <3>1, <3>2 DEF AllHeld
  <2> QED
    BY <2>4, <2>5
<1>14. Sound(T, u)
  <2>1. \A c \in DOMAIN T : Proto(T, c)
    BY DEF Sound
  <2>2. \A j \in DOMAIN u.instances : Inst(T, u.slots, j, u.instances[j])
    BY <1>4, <1>11, <1>12 DEF Freed
  <2> QED
    BY <1>4, <1>9, <1>13, <2>1, <2>2 DEF Sound
<1> QED
  BY <1>1, <1>3, <1>4, <1>14 DEF class_free

-----------------------------------------------------------------------------
(* The attributes of an object that is being made. *)
SlotMaps == UNION {[D -> Attribute] : D \in SUBSET Slot}
Making == [default : 0 .. MaxNumber, slots : SlotMaps, attributes : FieldTable]

(* Functions from some slots to attributes.                                 *)
LEMMA SlotMapIs ==
  ASSUME NEW f
  PROVE  f \in SlotMaps <=> f \in [DOMAIN f -> Attribute] /\ DOMAIN f \subseteq Slot
BY DEF SlotMaps

(* Bind adds a slot, or replaces its attribute.                             *)
LEMMA BindSlot ==
  ASSUME NEW f \in SlotMaps, NEW x \in Slot, NEW at \in Attribute
  PROVE  Bind(f, x, at) \in SlotMaps
<1>1. PICK g : g = Bind(f, x, at)
  OBVIOUS
<1>2. f \in [DOMAIN f -> Attribute] /\ DOMAIN f \subseteq Slot
  BY SlotMapIs
<1>3. g \in [DOMAIN g -> Attribute] /\ DOMAIN g \subseteq Slot
  BY <1>1, <1>2 DEF Bind
<1> QED
  BY <1>1, <1>3, SlotMapIs

Makes(v, u, x, name, at) ==
  /\ u \in Making
  /\ u.default = v.default
  /\ DOMAIN u.slots = DOMAIN v.slots \union {x}
  /\ u.slots[x] = at
  /\ \A y \in DOMAIN v.slots \ {x} : u.slots[y] = v.slots[y]
  /\ Gets(v.attributes, u.attributes, name, x)

(* An attribute that is inserted gets the slot of the next position.        *)
LEMMA MakeInsert ==
  ASSUME NEW v \in Making, NEW c \in Class, NEW i \in Nat, NEW name \in Word, NEW at \in Attribute,
         NEW x, x = <<c, i, Len(v.attributes.map) + 1>>
  PROVE  Makes(v, Insert(v, <<c, i>>, name, at), x, name, at)
<1>1. v.attributes \in FieldTable /\ v.slots \in SlotMaps /\ v.default \in 0 .. MaxNumber
  BY DEF Making
<1>2. PICK n \in Nat : n = Len(v.attributes.map)
  BY <1>1, FieldTypes
<1>3. x \in Slot /\ x = SlotOf(v.attributes, <<c, i>>)
  <2>1. n + 1 \in Nat \ {0}
    OBVIOUS
  <2> QED
    BY <1>2, <2>1 DEF Slot, SlotOf
<1>4. PICK a : a = insert(v.attributes, Label(name), x)
  OBVIOUS
<1>5. Gets(v.attributes, a, name, x)
  BY <1>1, <1>3, <1>4, FieldInsert
<1>6. PICK sl : sl = Bind(v.slots, x, at)
  OBVIOUS
<1>7. sl \in SlotMaps
  BY <1>1, <1>3, <1>6, BindSlot
<1>8. PICK u : u = Insert(v, <<c, i>>, name, at)
  OBVIOUS
<1>9. u = [default |-> v.default, slots |-> sl, attributes |-> a]
  BY <1>3, <1>4, <1>6, <1>8 DEF Insert
<1>10. u \in Making
  BY <1>1, <1>5, <1>7, <1>9 DEF Making, Gets
<1>11. /\ DOMAIN sl = DOMAIN v.slots \union {x}
       /\ sl[x] = at
       /\ \A y \in DOMAIN v.slots \ {x} : sl[y] = v.slots[y]
  BY <1>6 DEF Bind
<1>12. u.default = v.default /\ u.slots = sl /\ u.attributes = a
  BY <1>9
<1>13. Makes(v, u, x, name, at)
  BY <1>5, <1>10, <1>11, <1>12 DEF Makes
<1> QED
  BY <1>8, <1>13

(* The old slots are as they were.                                          *)
Extends(sl, sm) == \A x \in DOMAIN sl : x \in DOMAIN sm /\ sm[x] = sl[x]
MadeFrom(sl) == {t \in Making : Extends(sl, t.slots)}

(* The pair of the source, and what the clone gets for it.                  *)
Clones(sl, c, id, v, u, e) ==
  /\ u \in MadeFrom(sl)
  /\ u.default = v.default
  /\ sl[e.value].static =>
       u.slots = v.slots /\ Gets(v.attributes, u.attributes, e.label[1], e.value)
  /\ ~sl[e.value].static =>
       LET x == <<c, id, Len(v.attributes.map) + 1>>
       IN /\ DOMAIN u.slots = DOMAIN v.slots \union {x}
          /\ \A y \in DOMAIN v.slots \ {x} : u.slots[y] = v.slots[y]
          /\ u.slots[x].access = sl[e.value].access /\ ~u.slots[x].static /\ u.slots[x].value # Void
          /\ Gets(v.attributes, u.attributes, e.label[1], x)

(* class_clone for one attribute.                                           *)
LEMMA PairStep ==
  ASSUME NEW sl, NEW c \in Class, NEW id \in Nat, \A x \in DOMAIN sl : x[2] # id,
         NEW v \in MadeFrom(sl), NEW e, e.value \in DOMAIN sl, e.value \in Slot,
         e.label[1] \in Word, e.label = Label(e.label[1])
  PROVE  Clones(sl, c, id, v, ClonedPair(<<c, id>>, v, e), e)
<1>1. v \in Making /\ Extends(sl, v.slots)
  BY DEF MadeFrom
<1>2. PICK at \in Attribute : at = v.slots[e.value] /\ at = sl[e.value]
  BY <1>1, SlotMapIs DEF Making, Extends
<1>3. PICK u : u = ClonedPair(<<c, id>>, v, e)
  OBVIOUS
<1>4. CASE at.static
  <2>1. PICK a : a = insert(v.attributes, e.label, e.value)
    OBVIOUS
  <2>2. Gets(v.attributes, a, e.label[1], e.value)
    BY <1>1, <2>1, FieldInsert DEF Making
  <2>3. u = [v EXCEPT !.attributes = a]
    BY <1>2, <1>3, <1>4, <2>1 DEF ClonedPair
  <2>4. u = [default |-> v.default, slots |-> v.slots, attributes |-> a]
    BY <1>1, <2>3 DEF Making
  <2>5. u \in MadeFrom(sl)
    BY <1>1, <2>2, <2>4 DEF MadeFrom, Making, Gets
  <2> QED
    BY <1>2, <1>3, <1>4, <2>2, <2>4, <2>5 DEF Clones
<1>5. CASE ~at.static
  <2>1. PICK w : w = [at EXCEPT !.value = Shown(v, at.value)]
    OBVIOUS
  <2>2. Shown(v, at.value) \in Value \ {Void}
    BY <1>1, ShownNumber DEF Making, Attribute
  <2>3. w \in Attribute /\ w.access = at.access /\ w.static = at.static /\ w.value # Void
    BY <2>1, <2>2 DEF Attribute
  <2>4. u = Insert(v, <<c, id>>, e.label[1], w)
    BY <1>2, <1>3, <1>5, <2>1 DEF ClonedPair
  <2>5. PICK x : x = <<c, id, Len(v.attributes.map) + 1>>
    OBVIOUS
  <2>6. Makes(v, u, x, e.label[1], w)
    BY <1>1, <2>3, <2>4, <2>5, MakeInsert
  <2>7. x \notin DOMAIN sl
    BY <2>5
  <2>8. u \in MadeFrom(sl)
    BY <1>1, <2>6, <2>7 DEF MadeFrom, Extends, Makes
  <2>9. /\ DOMAIN u.slots = DOMAIN v.slots \union {x}
        /\ \A y \in DOMAIN v.slots \ {x} : u.slots[y] = v.slots[y]
        /\ u.slots[x].access = at.access /\ ~u.slots[x].static /\ u.slots[x].value # Void
        /\ Gets(v.attributes, u.attributes, e.label[1], x)
        /\ u.default = v.default
    BY <1>5, <2>3, <2>6 DEF Makes
  <2> QED
    BY <1>2, <1>3, <1>5, <2>5, <2>8, <2>9 DEF Clones
<1> QED
  BY <1>4, <1>5

(* A list of pairs a clone can be made of.                                  *)
Source(sl, a) ==
  /\ a \in FieldTable
  /\ \A k \in 1 .. Len(a.map) : a.map[k].value \in DOMAIN sl

Blank(s) == [default |-> s.default, slots |-> s.slots, attributes |-> EmptyTable]

ClonePairs(acc, s, c, id, a, n) ==
  /\ acc[0] = Blank(s)
  /\ \A k \in 1 .. n : acc[k] = ClonedPair(<<c, id>>, acc[k - 1], a.map[k])

(* The pairs of what is cloned.                                             *)
LEMMA SourcePair ==
  ASSUME NEW sl, NEW a, Source(sl, a), NEW k \in 1 .. Len(a.map), NEW e, e = a.map[k]
  PROVE  e.value \in DOMAIN sl /\ e.value \in Slot /\ e.label[1] \in Word /\ e.label = Label(e.label[1])
BY FieldTypes DEF Source, Single

(* class_clone goes through the attributes one by one.                      *)
LEMMA CloneSteps ==
  ASSUME NEW s, s.default \in 0 .. MaxNumber, s.slots \in SlotMaps, NEW c \in Class, NEW id \in Nat,
         \A x \in DOMAIN s.slots : x[2] # id, NEW a, Source(s.slots, a), NEW n \in Nat, n = Len(a.map)
  PROVE  \E acc \in [0 .. n -> MadeFrom(s.slots)] :
           ClonePairs(acc, s, c, id, a, n) /\ Cloned(<<c, id>>, s, a) = acc[n]
<1> DEFINE V == MadeFrom(s.slots)
           then(v, e) == ClonedPair(<<c, id>>, v, e)
           step == [q \in V \X (1 .. n) |-> then(q[1], a.map[q[2]])]
           Fix(f) == f = [t \in SUBSET DOMAIN a.map |->
                            IF t = {} THEN Blank(s) ELSE then(f[t \ {Max(t)}], a.map[Max(t)])]
<1>1. DOMAIN a.map = 1 .. n
  BY FieldTypes DEF Source
<1>2. \A v \in V, k \in 1 .. n : then(v, a.map[k]) \in V
  <2> SUFFICES ASSUME NEW v \in V, NEW k \in 1 .. n PROVE then(v, a.map[k]) \in V
    OBVIOUS
  <2>1. PICK e : e = a.map[k]
    OBVIOUS
  <2>2. e.value \in DOMAIN s.slots /\ e.value \in Slot /\ e.label[1] \in Word /\ e.label = Label(e.label[1])
    BY <2>1, SourcePair
  <2>3. Clones(s.slots, c, id, v, ClonedPair(<<c, id>>, v, e), e)
    BY <2>2, PairStep
  <2> QED
    BY <2>1, <2>3 DEF Clones
<1>3. Blank(s) \in V
  <2>1. Blank(s) \in Making
    BY EmptyFields DEF Making, Blank
  <2> QED
    BY <2>1 DEF MadeFrom, Extends, Blank
<1> HIDE DEF V
<1>4. Folder(n, V, Blank(s), step)
  BY <1>2, <1>3 DEF Folder
<1>5. ASSUME NEW g, NEW t \in SUBSET (1 .. n), t # {}, g[t \ {Max(t)}] \in V
      PROVE  step[<<g[t \ {Max(t)}], Max(t)>>] = then(g[t \ {Max(t)}], a.map[Max(t)])
  <2>1. Max(t) \in t
    BY <1>5, Positions
  <2>2. Max(t) \in 1 .. n
    BY <2>1
  <2> HIDE DEF then
  <2> QED
    BY <1>5, <2>2
<1> HIDE DEF then, step
<1>6. \E f : Fix(f)
  <2>0. PICK f \in [SUBSET (1 .. n) -> V] : Folds(f, n, Blank(s), step)
    BY <1>4, Folding
  <2>1. \A t \in SUBSET (1 .. n) : f[t] = IF t = {} THEN Blank(s) ELSE step[<<f[t \ {Max(t)}], Max(t)>>]
    BY <2>0 DEF Folds
  <2>2. f = [t \in SUBSET (1 .. n) |-> f[t]]
    OBVIOUS
  <2>3. \A t \in SUBSET (1 .. n) : t # {} => f[t] = then(f[t \ {Max(t)}], a.map[Max(t)])
    BY <1>5, <2>1
  <2>4. Fix(f)
    BY <1>1, <2>1, <2>2, <2>3
  <2> QED
    BY <2>4
<1>7. PICK g : g = CHOOSE f : Fix(f)
  OBVIOUS
<1>8. Fix(g)
  BY <1>6, <1>7
<1>9. Cloned(<<c, id>>, s, a) = g[1 .. n]
  BY <1>1, <1>7 DEF Cloned, Blank, FoldLeft, MapThenFoldSet, then
<1>10. FoldsAs(g, n, V, Blank(s), step)
  BY <1>1, <1>5, <1>8 DEF FoldsAs
<1>11. PICK acc \in [0 .. n -> V] :
            /\ acc[0] = Blank(s)
            /\ \A k \in 1 .. n : acc[k] = step[<<acc[k - 1], k>>]
            /\ acc[n] = g[1 .. n]
  <2>1. Folded(n, V, Blank(s), step, g)
    BY <1>4, <1>10, FoldRun
  <2> QED
    BY <2>1 DEF Folded, Accumulates
<1>12. ASSUME NEW k \in 1 .. n
       PROVE  acc[k] = then(acc[k - 1], a.map[k])
  <2>1. acc[k - 1] \in V /\ k \in 1 .. n
    OBVIOUS
  <2>2. step[<<acc[k - 1], k>>] = then(acc[k - 1], a.map[k])
    BY <2>1 DEF step
  <2> QED
    BY <1>11, <2>2
<1> QED
  BY <1>9, <1>11, <1>12 DEF then, ClonePairs, V
(* The attribute of the clone at position j, for the attribute x of the     *)
(* source, and the slots it makes for the first k ones.                     *)
Landing(sl, c, id, x, j) == IF sl[x].static THEN x ELSE <<c, id, j>>
Newest(sl, c, id, a, k) ==
  {x \in Slot : \E j \in 1 .. k : ~sl[a.map[j].value].static /\ x = <<c, id, j>>}

CloneOf(s, c, id, a, k, m) ==
  /\ m \in MadeFrom(s.slots)
  /\ m.default = s.default
  /\ Len(m.attributes.map) = k
  /\ \A j \in 1 .. k : /\ m.attributes.map[j].label = a.map[j].label
                       /\ m.attributes.map[j].value = Landing(s.slots, c, id, a.map[j].value, j)
  /\ DOMAIN m.slots = DOMAIN s.slots \union Newest(s.slots, c, id, a, k)
  /\ \A j \in 1 .. k : ~s.slots[a.map[j].value].static =>
       /\ m.slots[<<c, id, j>>].access = s.slots[a.map[j].value].access
       /\ ~m.slots[<<c, id, j>>].static
       /\ m.slots[<<c, id, j>>].value # Void

(* One attribute more is cloned.                                            *)
LEMMA CloneNext ==
  ASSUME NEW s, NEW c \in Class, NEW id \in Nat, \A x \in DOMAIN s.slots : x[2] # id,
         NEW a, Source(s.slots, a), NEW k \in 1 .. Len(a.map),
         NEW v, CloneOf(s, c, id, a, k - 1, v), NEW u, Clones(s.slots, c, id, v, u, a.map[k])
  PROVE  CloneOf(s, c, id, a, k, u)
<1>1. PICK e : e = a.map[k]
  OBVIOUS
<1>2. e.value \in DOMAIN s.slots /\ e.value \in Slot /\ e.label[1] \in Word /\ e.label = Label(e.label[1])
  BY <1>1, SourcePair
<1>3. PICK l \in Nat : l = Len(a.map)
  BY FieldTypes DEF Source
<1>4. k \in Nat /\ k >= 1 /\ k - 1 \in Nat
  BY <1>3
<1>5. Len(v.attributes.map) = k - 1 /\ v.default = s.default
  BY DEF CloneOf
<1>6. PICK x : x = <<c, id, k>>
  OBVIOUS
<1>7. x \in Slot /\ <<c, id, Len(v.attributes.map) + 1>> = x
  BY <1>4, <1>5, <1>6 DEF Slot
<1>8. \A j \in 1 .. k - 1 : <<c, id, j>> # x
  BY <1>4, <1>6
<1>9. CASE s.slots[e.value].static
  <2>1. u.slots = v.slots /\ Gets(v.attributes, u.attributes, e.label[1], e.value) /\ u \in MadeFrom(s.slots)
        /\ u.default = v.default
    BY <1>1, <1>9 DEF Clones
  <2>2. /\ Len(u.attributes.map) = k
        /\ \A j \in 1 .. k - 1 : u.attributes.map[j] = v.attributes.map[j]
        /\ u.attributes.map[k].label = e.label /\ u.attributes.map[k].value = e.value
    BY <1>2, <1>4, <1>5, <2>1 DEF Gets
  <2>3. \A j \in 1 .. k : /\ u.attributes.map[j].label = a.map[j].label
                          /\ u.attributes.map[j].value = Landing(s.slots, c, id, a.map[j].value, j)
    <3> SUFFICES ASSUME NEW j \in 1 .. k
                 PROVE  /\ u.attributes.map[j].label = a.map[j].label
                        /\ u.attributes.map[j].value = Landing(s.slots, c, id, a.map[j].value, j)
      OBVIOUS
    <3>1. CASE j = k
      BY <1>1, <1>9, <2>2, <3>1 DEF Landing
    <3>2. CASE j \in 1 .. k - 1
      BY <2>2, <3>2 DEF CloneOf
    <3> QED
      BY <1>4, <3>1, <3>2
  <2>4. Newest(s.slots, c, id, a, k) = Newest(s.slots, c, id, a, k - 1)
    BY <1>1, <1>4, <1>9 DEF Newest
  <2>5. \A j \in 1 .. k : ~s.slots[a.map[j].value].static => j \in 1 .. k - 1
    BY <1>1, <1>4, <1>9
  <2> QED
    BY <1>5, <2>1, <2>2, <2>3, <2>4, <2>5 DEF CloneOf
<1>10. CASE ~s.slots[e.value].static
  <2>1. /\ u \in MadeFrom(s.slots) /\ u.default = v.default
        /\ DOMAIN u.slots = DOMAIN v.slots \union {x}
        /\ \A y \in DOMAIN v.slots \ {x} : u.slots[y] = v.slots[y]
        /\ u.slots[x].access = s.slots[e.value].access /\ ~u.slots[x].static /\ u.slots[x].value # Void
        /\ Gets(v.attributes, u.attributes, e.label[1], x)
    BY <1>1, <1>7, <1>10 DEF Clones
  <2>2. /\ Len(u.attributes.map) = k
        /\ \A j \in 1 .. k - 1 : u.attributes.map[j] = v.attributes.map[j]
        /\ u.attributes.map[k].label = e.label /\ u.attributes.map[k].value = x
    BY <1>2, <1>4, <1>5, <2>1 DEF Gets
  <2>3. \A j \in 1 .. k : /\ u.attributes.map[j].label = a.map[j].label
                          /\ u.attributes.map[j].value = Landing(s.slots, c, id, a.map[j].value, j)
    <3> SUFFICES ASSUME NEW j \in 1 .. k
                 PROVE  /\ u.attributes.map[j].label = a.map[j].label
                        /\ u.attributes.map[j].value = Landing(s.slots, c, id, a.map[j].value, j)
      OBVIOUS
    <3>1. CASE j = k
      BY <1>1, <1>6, <1>10, <2>2, <3>1 DEF Landing
    <3>2. CASE j \in 1 .. k - 1
      BY <2>2, <3>2 DEF CloneOf
    <3> QED
      BY <1>4, <3>1, <3>2
  <2>4. Newest(s.slots, c, id, a, k) = Newest(s.slots, c, id, a, k - 1) \union {x}
    <3>1. \A j \in 1 .. k : j = k \/ j \in 1 .. k - 1
      BY <1>4
    <3>2. k \in 1 .. k /\ \A j \in 1 .. k - 1 : j \in 1 .. k
      BY <1>4
    <3> QED
      BY <1>1, <1>6, <1>7, <1>10, <3>1, <3>2 DEF Newest
  <2>5. DOMAIN u.slots = DOMAIN s.slots \union Newest(s.slots, c, id, a, k)
    BY <2>1, <2>4 DEF CloneOf
  <2>6. ASSUME NEW j \in 1 .. k, ~s.slots[a.map[j].value].static
        PROVE  /\ u.slots[<<c, id, j>>].access = s.slots[a.map[j].value].access
               /\ ~u.slots[<<c, id, j>>].static
               /\ u.slots[<<c, id, j>>].value # Void
    <3>1. CASE j = k
      BY <1>1, <1>6, <2>1, <3>1
    <3>2. CASE j \in 1 .. k - 1
      <4>1. PICK y : y = <<c, id, j>>
        OBVIOUS
      <4>2. y \in Slot
        BY <1>4, <3>2, <4>1 DEF Slot
      <4>3. y \in DOMAIN v.slots /\ y # x
        BY <1>8, <2>6, <3>2, <4>1, <4>2 DEF CloneOf, Newest
      <4> QED
        BY <2>1, <2>6, <3>2, <4>1, <4>3 DEF CloneOf
    <3> QED
      BY <1>4, <3>1, <3>2
  <2> QED
    BY <1>5, <2>1, <2>2, <2>3, <2>5, <2>6 DEF CloneOf
<1> QED
  BY <1>9, <1>10
Unbegun(s, id) == s.default \in 0 .. MaxNumber /\ s.slots \in SlotMaps /\ \A x \in DOMAIN s.slots : x[2] # id

(* class_clone: each attribute lands on the slot of the original or on one  *)
(* of its own.                                                              *)
LEMMA CloneRight ==
  ASSUME NEW s, NEW c \in Class, NEW id \in Nat, Unbegun(s, id), NEW a, Source(s.slots, a)
  PROVE  CloneOf(s, c, id, a, Len(a.map), Cloned(<<c, id>>, s, a))
<1>1. PICK n \in Nat : n = Len(a.map)
  BY FieldTypes DEF Source
<1>2. PICK acc \in [0 .. n -> MadeFrom(s.slots)] :
           ClonePairs(acc, s, c, id, a, n) /\ Cloned(<<c, id>>, s, a) = acc[n]
  <2>1. s.default \in 0 .. MaxNumber /\ s.slots \in SlotMaps /\ \A x \in DOMAIN s.slots : x[2] # id
    BY DEF Unbegun
  <2> QED
    BY <1>1, <2>1, CloneSteps
<1> DEFINE Ok == {k \in Nat : k <= n => CloneOf(s, c, id, a, k, acc[k])}
<1>3. ASSUME NEW k \in Nat, \A j \in 0 .. k - 1 : j \in Ok
      PROVE  k \in Ok
  <2>1. CASE k = 0
    <3>1. acc[0] = Blank(s) /\ acc[0] \in MadeFrom(s.slots)
      BY <1>2 DEF ClonePairs
    <3>2. Len(EmptyTable.map) = 0
      BY EmptyFields
    <3>3. Newest(s.slots, c, id, a, 0) = {}
      BY DEF Newest
    <3>4. CloneOf(s, c, id, a, 0, acc[0])
      BY <3>1, <3>2, <3>3 DEF CloneOf, Blank
    <3> QED
      BY <2>1, <3>4
  <2>2. CASE k \in 1 .. n
    <3>1. k - 1 \in Ok /\ k - 1 \in 0 .. n /\ k - 1 <= n
      BY <1>3, <2>2
    <3>2. PICK v : v = acc[k - 1]
      OBVIOUS
    <3>3. CloneOf(s, c, id, a, k - 1, v) /\ v \in MadeFrom(s.slots)
      BY <1>2, <3>1, <3>2
    <3>4. PICK e : e = a.map[k]
      OBVIOUS
    <3>5. acc[k] = ClonedPair(<<c, id>>, v, e)
      BY <1>2, <2>2, <3>2, <3>4 DEF ClonePairs
    <3>6. k \in 1 .. Len(a.map)
      BY <1>1, <2>2
    <3>7. e.value \in DOMAIN s.slots /\ e.value \in Slot /\ e.label[1] \in Word /\ e.label = Label(e.label[1])
      BY <3>4, <3>6, SourcePair
    <3>8. \A x \in DOMAIN s.slots : x[2] # id
      BY DEF Unbegun
    <3>9. Clones(s.slots, c, id, v, ClonedPair(<<c, id>>, v, e), e)
      BY <3>3, <3>7, <3>8, PairStep
    <3>10. PICK u : u = acc[k]
      OBVIOUS
    <3>11. Clones(s.slots, c, id, v, u, a.map[k])
      BY <3>4, <3>5, <3>9, <3>10
    <3>12. CloneOf(s, c, id, a, k, u)
      <4> HIDE DEF Ok
      <4> QED
        BY <3>3, <3>6, <3>8, <3>11, CloneNext
    <3> QED
      BY <3>10, <3>12
  <2>3. CASE ~(k <= n)
    BY <2>3
  <2> QED
    BY <2>1, <2>2, <2>3
<1>4. Ok = Nat
  <2> HIDE DEF Ok
  <2>1. Ok \in SUBSET Nat
    BY DEF Ok
  <2> QED
    BY <1>3, <2>1, NatSet
<1>5. CloneOf(s, c, id, a, n, acc[n])
  BY <1>4
<1> QED
  BY <1>1, <1>2, <1>5

(* The clone of an emptied instance is empty.                               *)
LEMMA CloneNothing ==
  ASSUME NEW s, NEW c \in Class, NEW id \in Nat, Unbegun(s, id), NEW a, Source(s.slots, a), Len(a.map) = 0
  PROVE  Cloned(<<c, id>>, s, a).attributes = EmptyTable
<1>1. \E acc \in [0 .. 0 -> MadeFrom(s.slots)] :
           ClonePairs(acc, s, c, id, a, 0) /\ Cloned(<<c, id>>, s, a) = acc[0]
  <2>1. s.default \in 0 .. MaxNumber /\ s.slots \in SlotMaps /\ \A x \in DOMAIN s.slots : x[2] # id
    BY DEF Unbegun
  <2>2. PICK n \in Nat : n = Len(a.map) /\ n = 0
    OBVIOUS
  <2>3. \E acc \in [0 .. n -> MadeFrom(s.slots)] :
           ClonePairs(acc, s, c, id, a, n) /\ Cloned(<<c, id>>, s, a) = acc[n]
    BY <2>1, <2>2, CloneSteps
  <2> QED
    BY <2>2, <2>3
<1>2. Cloned(<<c, id>>, s, a) = Blank(s)
  BY <1>1 DEF ClonePairs
<1> QED
  BY <1>2 DEF Blank

(* What class_clone answers with: a further instance, and its slots.        *)
Joined(T, s, c, o, id, t) ==
  /\ Sound(T, t)
  /\ t.main = s.main
  /\ DOMAIN t.instances = DOMAIN s.instances \union {id}
  /\ \A i \in DOMAIN s.instances \ {id} : t.instances[i] = s.instances[i]

(* What can be cloned: a prototype, or an instance.                         *)
Model(T, s, c, o) ==
  /\ c \in DOMAIN T
  /\ o.methods \in TreeTable(Word, Seq(Kept))
  /\ \/ o.methods = T[c].methods /\ \E i \in Nat : Copied(T[c].attributes, s.slots, c, i, o.attributes)
     \/ o.methods = EmptyTable /\ o.attributes = EmptyTable
  /\ Source(s.slots, o.attributes)

(* The clone joins the instances, and shares static attributes only.        *)
LEMMA CloneSound ==
  ASSUME NEW T, NEW s, Sound(T, s), NEW c, NEW o, Model(T, s, c, o), NEW id, id = Fresh(s),
         id \in Nat \ {0}, id \notin DOMAIN s.instances, \A x \in DOMAIN s.slots : x[2] # id
  PROVE  Joined(T, s, c, o, id, class_clone(s, c, o))
<1>1. PICK a, p : a = o.attributes /\ p = T[c].attributes
  OBVIOUS
<1>2. PICK n \in Nat : n = Len(a.map)
  BY <1>1, FieldTypes DEF Model, Source
<1>3. c \in Class /\ Unbegun(s, id) /\ Source(s.slots, a) /\ Proto(T, c) /\ c \in DOMAIN T
  <2>1. c \in DOMAIN T /\ Proto(T, c)
    BY DEF Model, Sound
  <2>2. Unbegun(s, id)
    BY SlotMapIs DEF Sound, Typed, Unbegun
  <2> QED
    BY <1>1, <2>1, <2>2 DEF Model, Proto
<1>4. PICK m : m = Cloned(<<c, id>>, s, a)
  OBVIOUS
<1>5. CloneOf(s, c, id, a, n, m)
  BY <1>2, <1>3, <1>4, CloneRight
<1>6. m \in Making /\ Extends(s.slots, m.slots)
  BY <1>5 DEF CloneOf, MadeFrom
<1>7. PICK q : q = [class |-> c, attributes |-> m.attributes, methods |-> o.methods,
                    referenced |-> FALSE, expired |-> <<>>]
  OBVIOUS
<1>8. q \in InstanceType
  BY <1>3, <1>6, <1>7, EmptySeq DEF InstanceType, Making, Model
<1>9. PICK ins : ins = Bind(s.instances, id, q)
  OBVIOUS
<1>10. /\ DOMAIN ins = DOMAIN s.instances \union {id}
       /\ ins \in [DOMAIN ins -> InstanceType]
       /\ ins[id] = q /\ \A i \in DOMAIN s.instances : ins[i] = s.instances[i]
  BY <1>8, <1>9 DEF Bind, Sound, Typed
<1>11. PICK t : t = class_clone(s, c, o)
  OBVIOUS
<1>12. t = [s EXCEPT !.slots = m.slots, !.instances = ins]
  <2>1. PICK s1 : s1 = [s EXCEPT !.slots = m.slots]
    OBVIOUS
  <2>2. s1.instances = s.instances
    BY <2>1 DEF Sound, Typed
  <2> QED
    BY <1>1, <1>4, <1>7, <1>9, <1>11, <2>1, <2>2 DEF class_clone
<1>13. t = [default |-> s.default, slots |-> m.slots, instances |-> ins, main |-> s.main, hung |-> s.hung]
  BY <1>12 DEF Sound, Typed
<1>14. Typed(t)
  <2>1. m.slots \in [DOMAIN m.slots -> Attribute] /\ DOMAIN m.slots \subseteq Slot
    BY <1>6, SlotMapIs DEF Making
  <2>2. s.main \in [Variables -> DOMAIN ins \union {NULL}]
    BY <1>10 DEF Sound, Typed
  <2> QED
    BY <1>10, <1>13, <2>1, <2>2 DEF Typed, Sound
<1>15. t.slots = m.slots /\ t.default = s.default /\ t.instances = ins /\ t.main = s.main
  BY <1>13
<1>16. Settled(t)
  <2>1. ASSUME NEW x \in DOMAIN m.slots, x \notin DOMAIN s.slots
        PROVE  m.slots[x].value # Void
    <3>1. x \in Newest(s.slots, c, id, a, n)
      BY <1>5, <2>1 DEF CloneOf
    <3> QED
      BY <1>5, <3>1 DEF CloneOf, Newest
  <2> QED
    BY <1>6, <1>15, <2>1 DEF Settled, Sound, Unset, Extends
<1>17. ASSUME NEW i \in DOMAIN s.instances
       PROVE  Inst(T, m.slots, i, ins[i])
  <2>1. PICK r, d : r = s.instances[i] /\ d = r.class
    OBVIOUS
  <2>2. Inst(T, s.slots, i, r) /\ ins[i] = r
    BY <1>10, <2>1 DEF Sound
  <2>3. ASSUME Whole(T, s.slots, i, r), NEW k \in 1 .. Len(T[d].attributes.map)
        PROVE  <<d, 0, k>> \in DOMAIN s.slots /\ Own(s.slots, d, i, k) \in DOMAIN s.slots
    <3>1. d \in DOMAIN T
      BY <2>1, <2>2 DEF Inst
    <3> QED
      BY <2>1, <2>3, <3>1, ProtoSlots, OwnSlots
  <2>4. Whole(T, s.slots, i, r) => Keeps(T[d].attributes, s.slots, m.slots, d, i)
    BY <1>6, <2>3 DEF Keeps, Extends
  <2> QED
    BY <2>1, <2>2, <2>4, InstKept
<1>18. Held(q) = {x \in Slot : \E j \in 1 .. n : x = Landing(s.slots, c, id, a.map[j].value, j)}
  <2>1. m.attributes \in FieldTable /\ Len(m.attributes.map) = n
    BY <1>5, <1>6 DEF CloneOf, Making
  <2>2. /\ DOMAIN m.attributes.map = 1 .. n
        /\ \A j \in 1 .. n : m.attributes.map[j].value \in Slot
    BY <2>1, FieldTypes
  <2>3. \A j \in 1 .. n : m.attributes.map[j].value = Landing(s.slots, c, id, a.map[j].value, j)
    BY <1>5 DEF CloneOf
  <2>4. q.attributes = m.attributes
    BY <1>7
  <2> QED
    BY <2>2, <2>3, <2>4 DEF Held
<1>19. Held(q) \subseteq DOMAIN m.slots /\ Newest(s.slots, c, id, a, n) \subseteq Held(q)
  <2>1. ASSUME NEW j \in 1 .. n
        PROVE  Landing(s.slots, c, id, a.map[j].value, j) \in DOMAIN m.slots
    <3>1. a.map[j].value \in DOMAIN s.slots
      BY <1>2, <1>3 DEF Source
    <3>2. CASE s.slots[a.map[j].value].static
      BY <1>5, <3>1, <3>2 DEF CloneOf, Landing
    <3>3. CASE ~s.slots[a.map[j].value].static
      <4>1. <<c, id, j>> \in Slot
        BY <1>2, <1>3 DEF Slot
      <4> QED
        BY <1>5, <3>3, <4>1 DEF CloneOf, Landing, Newest
    <3> QED
      BY <3>2, <3>3
  <2> QED
    BY <1>18, <2>1 DEF Newest, Landing
<1>20. DOMAIN t.slots = AllHeld(T, t.instances)
  <2>1. AllHeld(T, ins) = AllHeld(T, s.instances) \union Held(q)
    BY <1>10 DEF AllHeld
  <2>2. DOMAIN m.slots = DOMAIN s.slots \union Newest(s.slots, c, id, a, n)
    BY <1>5 DEF CloneOf
  <2>3. DOMAIN s.slots = AllHeld(T, s.instances) /\ DOMAIN s.slots \subseteq DOMAIN m.slots
    BY <1>6 DEF Sound, Extends
  <2> QED
    BY <1>15, <1>19, <2>1, <2>2, <2>3
<1>21. Inst(T, m.slots, id, q)
  <2>1. CASE o.methods = EmptyTable /\ a = EmptyTable
    <3>1. Len(a.map) = 0
      BY <2>1, EmptyFields
    <3>2. m.attributes = EmptyTable
      BY <1>3, <1>4, <3>1, CloneNothing
    <3>3. Emptied(T, q)
      BY <1>7, <2>1, <3>2 DEF Emptied
    <3> QED
      BY <1>3, <1>7, <3>3 DEF Inst
  <2>2. CASE ~(o.methods = EmptyTable /\ a = EmptyTable)
    <3>1. PICK i \in Nat : Copied(p, s.slots, c, i, a) /\ o.methods = T[c].methods
      BY <1>1, <2>2 DEF Model
    <3>2. Len(p.map) = n
      BY <1>2, <3>1 DEF Copied
    <3>3. ASSUME NEW k \in 1 .. Len(p.map)
          PROVE  /\ m.attributes.map[k].label = p.map[k].label
                 /\ m.attributes.map[k].value = Own(m.slots, c, id, k)
                 /\ Alike(m.slots, Own(m.slots, c, id, k), <<c, 0, k>>)
      <4>0. k \in 1 .. n
        BY <3>2
      <4>1. PICK y, z : y = a.map[k].value /\ z = <<c, 0, k>>
        OBVIOUS
      <4>2. a.map[k].label = p.map[k].label /\ y = Own(s.slots, c, i, k) /\ Alike(s.slots, y, z)
        BY <3>1, <4>1 DEF Copied
      <4>3. /\ m.attributes.map[k].label = a.map[k].label
            /\ m.attributes.map[k].value = Landing(s.slots, c, id, y, k)
        BY <1>5, <4>0, <4>1 DEF CloneOf
      <4>4. z \in DOMAIN s.slots /\ y \in DOMAIN s.slots
        BY <1>1, <1>2, <1>3, <4>0, <4>1, ProtoSlots DEF Source
      <4>5. m.slots[z] = s.slots[z] /\ m.slots[y] = s.slots[y]
        BY <1>6, <4>4 DEF Extends
      <4>6. CASE s.slots[z].static
        <5>1. y = z
          BY <4>1, <4>2, <4>6 DEF Own
        <5>2. Own(m.slots, c, id, k) = z
          BY <4>1, <4>5, <4>6 DEF Own
        <5>3. Landing(s.slots, c, id, y, k) = z
          BY <4>6, <5>1 DEF Landing
        <5> QED
          BY <4>1, <4>2, <4>3, <5>2, <5>3 DEF Alike
      <4>7. CASE ~s.slots[z].static
        <5>1. ~s.slots[y].static
          BY <4>2, <4>7 DEF Alike
        <5>2. Own(m.slots, c, id, k) = <<c, id, k>>
          BY <4>1, <4>5, <4>7 DEF Own
        <5>3. Landing(s.slots, c, id, y, k) = <<c, id, k>>
          BY <5>1 DEF Landing
        <5>4. m.slots[<<c, id, k>>].access = s.slots[y].access /\ ~m.slots[<<c, id, k>>].static
          BY <1>5, <4>0, <4>1, <5>1 DEF CloneOf
        <5>5. m.slots[<<c, id, k>>].static = FALSE /\ m.slots[z].static = FALSE
          <6>1. m.slots[<<c, id, k>>] \in Attribute /\ m.slots[z] \in Attribute
            <7>1. <<c, id, k>> \in DOMAIN m.slots /\ z \in DOMAIN m.slots
              <8>1. <<c, id, k>> \in Slot
                BY <1>2, <1>3, <4>0 DEF Slot
              <8>2. <<c, id, k>> \in Newest(s.slots, c, id, a, n)
                BY <4>0, <4>1, <5>1, <8>1 DEF Newest
              <8> QED
                BY <1>5, <4>4, <8>2 DEF CloneOf
            <7> QED
              BY <1>6, <7>1, SlotMapIs DEF Making
          <6> QED
            BY <4>5, <4>7, <5>4, <6>1 DEF Attribute
        <5> QED
          BY <4>1, <4>2, <4>3, <4>5, <5>2, <5>3, <5>4, <5>5 DEF Alike
      <4> QED
        BY <4>6, <4>7
    <3>4. Len(m.attributes.map) = Len(p.map)
      BY <1>5, <3>2 DEF CloneOf
    <3>5. Copied(p, m.slots, c, id, m.attributes)
      BY <3>3, <3>4 DEF Copied
    <3> QED
      BY <1>1, <1>3, <1>7, <3>1, <3>5 DEF Inst, Whole
  <2> QED
    BY <2>1, <2>2
<1>22. Sound(T, t)
  <2>1. \A d \in DOMAIN T : Proto(T, d)
    BY DEF Sound
  <2>2. \A i \in DOMAIN t.instances : Inst(T, t.slots, i, t.instances[i])
    BY <1>10, <1>15, <1>17, <1>21
  <2> QED
    BY <1>14, <1>16, <1>20, <2>1, <2>2 DEF Sound
<1> QED
  BY <1>10, <1>11, <1>15, <1>22 DEF Joined
-----------------------------------------------------------------------------
(* The instance of a clone is one no variable has. *)
LEMMA Unused ==
  ASSUME NEW T, NEW s, Sound(T, s), NEW id \in Nat \ {0}, id \notin DOMAIN s.instances
  PROVE  \A x \in DOMAIN s.slots : x[2] # id
<1> SUFFICES ASSUME NEW x \in DOMAIN s.slots PROVE x[2] # id
  OBVIOUS
<1>1. x \in AllHeld(T, s.instances)
  BY DEF Sound
<1>2. CASE \E c \in DOMAIN T : x \in Held(T[c])
  <2>1. PICK c \in DOMAIN T : x \in Held(T[c])
    BY <1>2
  <2>2. \E k \in 1 .. Len(T[c].attributes.map) : x = <<c, 0, k>>
    BY <2>1, ProtoHeld DEF Sound
  <2> QED
    BY <2>2
<1>3. CASE \E i \in DOMAIN s.instances : x \in Held(s.instances[i])
  <2>1. PICK i \in DOMAIN s.instances : x \in Held(s.instances[i])
    BY <1>3
  <2>2. \E k \in 1 .. Len(T[s.instances[i].class].attributes.map) : x = Own(s.slots, s.instances[i].class, i, k)
    BY <2>1, HeldRight
  <2> QED
    BY <2>2 DEF Own
<1> QED
  BY <1>1, <1>2, <1>3 DEF AllHeld

(* There is a number for a new instance, and no slot has it.                *)
LEMMA FreshRight ==
  ASSUME NEW T, NEW s, Sound(T, s), DOMAIN s.instances \subseteq Range(s.main), NEW id, id = Fresh(s)
  PROVE  /\ id \in Nat \ {0} /\ id \notin DOMAIN s.instances
         /\ \A x \in DOMAIN s.slots : x[2] # id
<1>1. DOMAIN s.main = Variables /\ IsFiniteSet(Variables)
  BY ClassesAssumption DEF Sound, Typed
<1>2. PICK n \in Nat : n = Cardinality(Variables)
  BY <1>1, FS_CardinalityType
<1>3. IsFiniteSet(Range(s.main)) /\ Cardinality(Range(s.main)) <= n
  <2>1. s.main \in Surjection(Variables, Range(s.main))
    <3>1. s.main \in [Variables -> Range(s.main)]
      BY DEF Sound, Typed, Range
    <3>2. \A t \in Range(s.main) : \E x \in Variables : s.main[x] = t
      BY <1>1 DEF Range
    <3> QED
      BY <3>1, <3>2 DEF Surjection
  <2> QED
    BY <1>1, <1>2, <2>1, FS_Surjection DEF ExistsSurjection
<1>4. IsFiniteSet(DOMAIN s.instances) /\ Cardinality(DOMAIN s.instances) <= n
  <2>1. /\ IsFiniteSet(DOMAIN s.instances)
        /\ Cardinality(DOMAIN s.instances) <= Cardinality(Range(s.main))
    BY <1>3, FS_Subset
  <2>2. Cardinality(Range(s.main)) \in Nat /\ Cardinality(DOMAIN s.instances) \in Nat
    BY <1>3, <2>1, FS_CardinalityType
  <2> QED
    BY <1>3, <2>1, <2>2
<1>5. PICK free : free = (1 .. n + 1) \ DOMAIN s.instances
  OBVIOUS
<1>6. free # {}
  <2> SUFFICES ASSUME 1 .. n + 1 \subseteq DOMAIN s.instances PROVE FALSE
    BY <1>5
  <2>1. Cardinality(1 .. n + 1) = n + 1
    <3>1. Cardinality(1 .. n + 1) = IF 1 > n + 1 THEN 0 ELSE n + 1 - 1 + 1
      BY FS_Interval
    <3> QED
      BY <3>1
  <2>2. Cardinality(1 .. n + 1) <= Cardinality(DOMAIN s.instances)
    BY <1>4, FS_Subset
  <2>3. Cardinality(DOMAIN s.instances) \in Nat
    BY <1>4, FS_CardinalityType
  <2> QED
    BY <1>4, <2>1, <2>2, <2>3
<1>7. id = Min(free)
  BY <1>2, <1>5 DEF Fresh
<1>8. id \in free
  BY <1>5, <1>6, <1>7, Positions
<1>9. id \in Nat \ {0} /\ id \notin DOMAIN s.instances
  BY <1>5, <1>8
<1> QED
  BY <1>9, Unused
-----------------------------------------------------------------------------
(* A variable takes an instance; those no variable has are forgotten. *)
Fine(T, s) == Sound(T, s) /\ DOMAIN s.instances \subseteq Range(s.main)

Orphans(s) == \A i \in DOMAIN s.instances : i \in Range(s.main) \/ s.instances[i].attributes = EmptyTable

Trim(s) ==
  [default |-> s.default, slots |-> s.slots,
   instances |-> [i \in DOMAIN s.instances \cap Range(s.main) |-> s.instances[i]],
   main |-> s.main, hung |-> s.hung]

(* Instances no variable holds are gone; no attribute is left behind.       *)
LEMMA TrimFine ==
  ASSUME NEW T, NEW s, Sound(T, s), Orphans(s)
  PROVE  Fine(T, Trim(s))
<1>1. PICK ins : ins = [i \in DOMAIN s.instances \cap Range(s.main) |-> s.instances[i]]
  OBVIOUS
<1>2. PICK t : t = Trim(s)
  OBVIOUS
<1>3. t = [default |-> s.default, slots |-> s.slots, instances |-> ins, main |-> s.main, hung |-> s.hung]
  BY <1>1, <1>2 DEF Trim
<1>4. /\ DOMAIN ins = DOMAIN s.instances \cap Range(s.main)
      /\ \A i \in DOMAIN ins : ins[i] = s.instances[i]
      /\ ins \in [DOMAIN ins -> InstanceType] /\ DOMAIN ins \subseteq Nat \ {0}
  BY <1>1 DEF Sound, Typed
<1>5. s.main \in [Variables -> DOMAIN ins \union {NULL}]
  BY <1>4 DEF Sound, Typed, Range
<1>6. Typed(t)
  BY <1>3, <1>4, <1>5 DEF Sound, Typed
<1>7. t.slots = s.slots /\ t.default = s.default /\ t.instances = ins /\ t.main = s.main
  BY <1>3
<1>8. Settled(t)
  BY <1>7 DEF Sound, Settled
<1>9. \A i \in DOMAIN s.instances : i \notin DOMAIN ins => Held(s.instances[i]) = {}
  BY <1>4, EmptyHeld DEF Orphans
<1>10. AllHeld(T, ins) = AllHeld(T, s.instances)
  <2>1. \A x : x \in AllHeld(T, s.instances) <=> x \in AllHeld(T, ins)
    BY <1>4, <1>9 DEF AllHeld
  <2> QED
    BY <2>1 DEF AllHeld
<1>11. \A i \in DOMAIN t.instances : Inst(T, t.slots, i, t.instances[i])
  BY <1>4, <1>7 DEF Sound
<1>12. Sound(T, t)
  BY <1>6, <1>7, <1>8, <1>10, <1>11 DEF Sound
<1> QED
  BY <1>2, <1>4, <1>7, <1>12 DEF Fine

(* add: the variable holds the new instance, the old one is emptied first.  *)
LEMMA AddFine ==
  ASSUME NEW T, NEW s, Sound(T, s), NEW variable \in Variables, NEW id \in DOMAIN s.instances \union {NULL},
         DOMAIN s.instances \subseteq Range(s.main) \union {id}
  PROVE  Fine(T, Trim(add(s, variable, id)))
<1>1. PICK prev : prev = s.main[variable]
  OBVIOUS
<1>2. PICK new : new = [s.main EXCEPT ![variable] = id]
  OBVIOUS
<1>3. PICK next : next = [s EXCEPT !.main[variable] = id]
  OBVIOUS
<1>4. next = [default |-> s.default, slots |-> s.slots, instances |-> s.instances, main |-> new, hung |-> s.hung]
  <2>1. next = [s EXCEPT !.main = new]
    BY <1>2, <1>3
  <2> QED
    BY <2>1 DEF Sound, Typed
<1>5. new \in [Variables -> DOMAIN s.instances \union {NULL}]
  BY <1>2 DEF Sound, Typed
<1>6. Typed(next)
  BY <1>4, <1>5 DEF Sound, Typed
<1>7. next.slots = s.slots /\ next.default = s.default /\ next.instances = s.instances /\ next.main = new
  BY <1>4
<1>8. Sound(T, next)
  <2>1. \A i \in DOMAIN s.instances : Seems(next.instances[i], s.instances[i])
    BY <1>7 DEF Seems
  <2> QED
    BY <1>6, <1>7, <2>1, LikeSound
<1>9. ASSUME NEW i \in DOMAIN s.instances, i # prev
      PROVE  i \in Range(new)
  <2>1. CASE i = id
    <3>1. new[variable] = i /\ variable \in DOMAIN new
      BY <1>2, <2>1 DEF Sound, Typed
    <3> QED
      BY <3>1 DEF Range
  <2>2. CASE i # id
    <3>1. PICK w \in Variables : i = s.main[w]
      BY <2>2 DEF Range, Sound, Typed
    <3>2. new[w] = i /\ w \in DOMAIN new
      BY <1>1, <1>2, <1>9, <3>1 DEF Sound, Typed
    <3> QED
      BY <3>2 DEF Range
  <2> QED
    BY <2>1, <2>2
<1>10. CASE prev = NULL
  <2>1. add(s, variable, id) = next
    BY <1>1, <1>3, <1>10 DEF add
  <2>2. NULL \notin DOMAIN s.instances
    BY DEF Sound, Typed, NULL
  <2>3. Orphans(next)
    BY <1>7, <1>9, <1>10, <2>2 DEF Orphans
  <2>4. Fine(T, Trim(next))
    BY <1>8, <2>3, TrimFine
  <2> QED
    BY <2>1, <2>4
<1>11. CASE prev # NULL
  <2>1. PICK u : u = class_free(next, prev)
    OBVIOUS
  <2>2. add(s, variable, id) = u
    BY <1>1, <1>3, <1>11, <2>1 DEF add
  <2>3. prev \in DOMAIN next.instances
    BY <1>1, <1>7, <1>11 DEF Sound, Typed
  <2>4. Sound(T, u) /\ Freed(next, prev, u)
    BY <1>8, <2>1, <2>3, FreeSound
  <2>5. Orphans(u)
    BY <1>7, <1>9, <2>4 DEF Orphans, Freed
  <2>6. Fine(T, Trim(u))
    BY <2>4, <2>5, TrimFine
  <2> QED
    BY <2>2, <2>6
<1> QED
  BY <1>10, <1>11

-----------------------------------------------------------------------------
(* What an assignment, a call and a new instance make of a fine state. *)
LEMMA PrototypeModel ==
  ASSUME NEW T, NEW s, Sound(T, s), NEW c \in DOMAIN T
  PROVE  Model(T, s, c, T[c])
<1>1. Proto(T, c)
  BY DEF Sound
<1>2. ASSUME NEW k \in 1 .. Len(T[c].attributes.map)
      PROVE  T[c].attributes.map[k].value = Own(s.slots, c, 0, k)
  BY <1>1 DEF Proto, Own
<1>3. Copied(T[c].attributes, s.slots, c, 0, T[c].attributes)
  <2>1. \A k \in 1 .. Len(T[c].attributes.map) : Own(s.slots, c, 0, k) = <<c, 0, k>>
    BY DEF Own
  <2> QED
    BY <1>2, <2>1 DEF Copied, Alike
<1>4. Source(s.slots, T[c].attributes)
  <2>1. \A k \in 1 .. Len(T[c].attributes.map) : T[c].attributes.map[k].value \in DOMAIN s.slots
    BY <1>1, ProtoSlots DEF Proto
  <2> QED
    BY <1>1, <2>1 DEF Source, Proto
<1>5. T[c].methods \in TreeTable(Word, Seq(Kept))
  BY <1>1 DEF Proto, Coherent
<1> QED
  BY <1>3, <1>4, <1>5 DEF Model

(* An instance is a model for a clone.                                      *)
LEMMA InstanceModel ==
  ASSUME NEW T, NEW s, Sound(T, s), NEW i \in DOMAIN s.instances, NEW o, o = s.instances[i]
  PROVE  Model(T, s, o.class, o)
<1>1. o \in InstanceType /\ Inst(T, s.slots, i, o) /\ i \in Nat
  BY DEF Sound, Typed
<1>2. o.class \in DOMAIN T /\ o.methods \in TreeTable(Word, Seq(Kept)) /\ o.attributes \in FieldTable
  BY <1>1 DEF Inst, InstanceType
<1>3. DOMAIN o.attributes.map = 1 .. Len(o.attributes.map)
  BY <1>2, FieldTypes
<1>4. \A k \in 1 .. Len(o.attributes.map) : o.attributes.map[k].value \in Held(o)
  BY <1>3 DEF Held
<1>5. \A x \in Held(o) : x \in DOMAIN s.slots
  BY HeldRight
<1>6. Source(s.slots, o.attributes)
  BY <1>2, <1>4, <1>5 DEF Source
<1> QED
  BY <1>1, <1>2, <1>6 DEF Model, Inst, Whole, Emptied

(* A clone that is assigned to a variable, marked or not.                   *)
LEMMA CloneFine ==
  ASSUME NEW T, NEW s, Fine(T, s), NEW c, NEW o, Model(T, s, c, o), NEW variable \in Variables
  PROVE  /\ Fine(T, Trim(add(class_clone(s, c, o), variable, Fresh(s))))
         /\ Fine(T, Trim(add(Marked(class_clone(s, c, o), Fresh(s)), variable, Fresh(s))))
<1>1. PICK id, t : id = Fresh(s) /\ t = class_clone(s, c, o)
  OBVIOUS
<1>2. id \in Nat \ {0} /\ id \notin DOMAIN s.instances /\ \A x \in DOMAIN s.slots : x[2] # id
  BY <1>1, FreshRight DEF Fine
<1>3. Joined(T, s, c, o, id, class_clone(s, c, o))
  BY <1>1, <1>2, CloneSound DEF Fine
<1>4. /\ Sound(T, t) /\ id \in DOMAIN t.instances
      /\ DOMAIN t.instances \subseteq Range(t.main) \union {id}
  BY <1>1, <1>3 DEF Joined, Fine
<1>5. Fine(T, Trim(add(t, variable, id)))
  BY <1>4, AddFine
<1>6. PICK m : m = Marked(t, id)
  OBVIOUS
<1>7. Sound(T, m) /\ m.main = t.main /\ DOMAIN m.instances = DOMAIN t.instances
  BY <1>4, <1>6, MarkedSound
<1>8. Fine(T, Trim(add(m, variable, id)))
  BY <1>4, <1>7, AddFine
<1> QED
  BY <1>1, <1>5, <1>6, <1>8

(* Nothing is lost if every instance is held.                               *)
LEMMA TrimKeeps ==
  ASSUME NEW T, NEW s, Fine(T, s)
  PROVE  Fine(T, Trim(s))
<1>1. Orphans(s)
  BY DEF Fine, Orphans
<1> QED
  BY <1>1, TrimFine DEF Fine

(* An instance that is marked, or marked and assigned.                      *)
LEMMA MarkFine ==
  ASSUME NEW T, NEW s, Fine(T, s), NEW id \in DOMAIN s.instances
  PROVE  /\ Fine(T, Trim(Marked(s, id)))
         /\ \A variable \in Variables : Fine(T, Trim(add(Marked(s, id), variable, id)))
<1>1. PICK m : m = Marked(s, id)
  OBVIOUS
<1>2. Sound(T, m) /\ m.main = s.main /\ DOMAIN m.instances = DOMAIN s.instances
  BY <1>1, MarkedSound DEF Fine
<1>3. Fine(T, Trim(m))
  <2>1. Fine(T, m)
    BY <1>2 DEF Fine
  <2> QED
    BY <2>1, TrimKeeps
<1>4. ASSUME NEW variable \in Variables
      PROVE  Fine(T, Trim(add(m, variable, id)))
  BY <1>2, AddFine DEF Fine
<1> QED
  BY <1>1, <1>3, <1>4

(* An instance is emptied where it is.                                      *)
LEMMA FreeFine ==
  ASSUME NEW T, NEW s, Fine(T, s), NEW id \in DOMAIN s.instances
  PROVE  Fine(T, Trim(class_free(s, id)))
<1>1. PICK u : u = class_free(s, id)
  OBVIOUS
<1>2. Sound(T, u) /\ Freed(s, id, u)
  BY <1>1, FreeSound DEF Fine
<1>3. Fine(T, u)
  BY <1>2 DEF Fine, Freed
<1> QED
  BY <1>1, <1>3, TrimKeeps

(* A variable gets something else.                                          *)
LEMMA ForgetFine ==
  ASSUME NEW T, NEW s, Fine(T, s), NEW variable \in Variables
  PROVE  Fine(T, Trim(add(s, variable, NULL)))
BY AddFine DEF Fine
(* An assignment to an attribute that has a value, or to any if the script  *)
(* is not quiet.                                                            *)
LEMMA SetFine ==
  ASSUME NEW T, NEW s, Fine(T, s), NEW x \in DOMAIN s.slots, NEW v \in Numbers,
         Unset(s.slots, x) => ~Quiet, NEW w, w = ob_assign(Blank(s), x, v)
  PROVE  Fine(T, [default |-> w.default, slots |-> w.slots, instances |-> s.instances,
                  main |-> s.main, hung |-> s.hung])
<1>1. PICK t : t = [default |-> w.default, slots |-> w.slots, instances |-> s.instances,
                    main |-> s.main, hung |-> s.hung]
  OBVIOUS
<1>2. v \in Value /\ v # Void /\ v.kind = "number" /\ v.number \in 0 .. MaxNumber
  BY ValueTypes DEF Numbers, Value, Number
<1>3. Sound(T, s) /\ DOMAIN s.instances \subseteq Range(s.main)
  BY DEF Fine
<1>4. t.default = w.default /\ t.slots = w.slots /\ t.instances = s.instances /\ t.main = s.main /\ t.hung = s.hung
  BY <1>1
<1>5. CASE Unset(s.slots, x)
  <2>1. w = [Blank(s) EXCEPT !.default = v.number]
    BY <1>2, <1>5 DEF ob_assign, Unset, Blank
  <2>2. w.default = v.number /\ w.slots = s.slots
    BY <2>1 DEF Blank
  <2>3. Typed(t)
    BY <1>1, <1>2, <1>3, <2>2 DEF Sound, Typed
  <2>4. Settled(t)
    BY <1>3, <1>4, <1>5, <2>2 DEF Sound, Settled
  <2>5. \A i \in DOMAIN t.instances : Inst(T, t.slots, i, t.instances[i])
    BY <1>3, <1>4, <2>2 DEF Sound
  <2> QED
    BY <1>1, <1>3, <1>4, <2>2, <2>3, <2>4, <2>5 DEF Sound, Fine
<1>6. CASE ~Unset(s.slots, x)
  <2>0. PICK sl \in [DOMAIN s.slots -> Attribute] : sl = s.slots
    BY <1>3 DEF Sound, Typed
  <2>1. PICK sm : sm = [sl EXCEPT ![x].value = v]
    OBVIOUS
  <2>2. /\ sm \in [DOMAIN s.slots -> Attribute]
        /\ sm[x] = [access |-> sl[x].access, static |-> sl[x].static, value |-> v]
        /\ \A y \in DOMAIN s.slots \ {x} : sm[y] = sl[y]
    BY <1>2, <2>0, <2>1, SlotSet
  <2>3. w = [Blank(s) EXCEPT !.slots = sm]
    BY <1>6, <2>0, <2>1 DEF ob_assign, Unset, Blank
  <2>4. w.default = s.default /\ w.slots = sm
    BY <2>3 DEF Blank
  <2>5. Typed(t)
    BY <1>1, <1>3, <2>2, <2>4 DEF Sound, Typed
  <2>6. \A y \in DOMAIN s.slots : sm[y].access = sl[y].access /\ sm[y].static = sl[y].static
    BY <2>2
  <2>7. \A y \in DOMAIN s.slots : Unset(sm, y) => Unset(sl, y)
    BY <1>2, <2>2 DEF Unset
  <2>8. Settled(t)
    BY <1>3, <1>4, <2>0, <2>2, <2>4, <2>6, <2>7 DEF Sound, Settled
  <2>9. ASSUME NEW i \in DOMAIN s.instances
        PROVE  Inst(T, sm, i, s.instances[i])
    <3>1. PICK r, d : r = s.instances[i] /\ d = r.class
      OBVIOUS
    <3>2. Inst(T, s.slots, i, r)
      BY <1>3, <3>1 DEF Sound
    <3>3. ASSUME Whole(T, s.slots, i, r), NEW k \in 1 .. Len(T[d].attributes.map)
          PROVE  <<d, 0, k>> \in DOMAIN s.slots /\ Own(s.slots, d, i, k) \in DOMAIN s.slots
      <4>1. d \in DOMAIN T
        BY <3>1, <3>2 DEF Inst
      <4> QED
        BY <1>3, <3>1, <3>3, <4>1, ProtoSlots, OwnSlots
    <3>4. Whole(T, s.slots, i, r) => Keeps(T[d].attributes, s.slots, sm, d, i)
      BY <2>0, <2>6, <3>3 DEF Keeps
    <3> QED
      BY <3>1, <3>2, <3>4, InstKept
  <2>10. DOMAIN sm = DOMAIN s.slots
    BY <2>2
  <2> QED
    BY <1>1, <1>3, <1>4, <2>4, <2>5, <2>8, <2>9, <2>10 DEF Sound, Fine
<1> QED
  BY <1>5, <1>6

-----------------------------------------------------------------------------
(* A table of methods, or what is defined under a name, and the first       *)
(* prototype of it with a number of arguments.                              *)
Or(a, b) == IF a # <<>> THEN a ELSE b
Defines(t, name) == IF Knows(t, name) THEN find(t, Label(name)) ELSE <<>>
Fitting(all, argc) == {i \in DOMAIN all : all[i].argc = argc}
FitIn(all, argc) == IF Fitting(all, argc) = {} THEN <<>> ELSE <<all[Min(Fitting(all, argc))]>>
Fit(t, name, argc) == FitIn(Defines(t, name), argc)

(* Of a row of candidates, the first there is.                              *)
Earliest(g, n) ==
  LET there == {k \in 1 .. n : g[k] # <<>>}
  IN IF there = {} THEN <<>> ELSE g[Min(there)]

MethodTable ==
  {t \in TreeTable(Word, Seq(Kept)) :
     /\ Coherent(Word, Seq(Kept), t)
     /\ \A k \in 1 .. Len(t.map) : t.map[k].label = Label(t.map[k].label[1])}

OwnFits(c, methods, name, argc) ==
  {i \in DOMAIN methods : MethodLabel(c, methods[i]) = name /\ methods[i].argc = argc}

OwnFit(c, methods, name, argc) ==
  IF OwnFits(c, methods, name, argc) = {} THEN <<>>
  ELSE <<Owned(c, methods[Min(OwnFits(c, methods, name, argc))])>>

BaseRow(T, g, bases, n, name, argc) == g = [k \in 1 .. n |-> Fit(T[bases[k]].methods, name, argc)]

(* The table u of a class in terms of its methods and of its bases.         *)
Dispatches(T, u, c, methods, bases) ==
  /\ u \in MethodTable
  /\ \A name \in Word, argc \in Nat : \A g :
       BaseRow(T, g, bases, Len(bases), name, argc) =>
         Fit(u, name, argc) = Or(OwnFit(c, methods, name, argc), Earliest(g, Len(bases)))

Dispatched(T, D, c) ==
  /\ \E n \in Nat : DOMAIN D[c].bases = 1 .. n /\ Len(D[c].bases) = n
  /\ \A k \in DOMAIN D[c].bases : D[c].bases[k] \in DOMAIN T
  /\ Dispatches(T, T[c].methods, c, D[c].body.methods, D[c].bases)

(* The invariant: the state is sound, every instance is had by a variable,  *)
(* the classes there are are the first ones of Names, and the methods of    *)
(* each are its own and those of its bases.                                 *)
Listed(D) ==
  /\ IsFiniteSet(D) /\ Cardinality(D) \in 0 .. Len(Names)
  /\ D = {Names[k] : k \in 1 .. Cardinality(D)}

CInv ==
  /\ Fine(types, State)
  /\ DOMAIN types = DOMAIN declared
  /\ Listed(DOMAIN declared)
  /\ \A c \in DOMAIN types : Dispatched(types, declared, c)

(* The names of attributes.                                                 *)
LEMMA NameTypes ==
  ASSUME CInv
  PROVE  AttributeNames \subseteq Word
<1>1. ASSUME NEW c \in DOMAIN types
      PROVE  Labels(types[c].attributes) \subseteq Word
  <2>1. PICK t \in FieldTable : t = types[c].attributes
    BY DEF CInv, Fine, Sound, Proto
  <2>2. DOMAIN t.map = 1 .. Len(t.map) /\ \A k \in 1 .. Len(t.map) : t.map[k].label[1] \in Word
    BY FieldTypes
  <2> QED
    BY <2>1, <2>2 DEF Labels
<1>2. "unknown" \in Word
  BY DEF Word
<1> QED
  BY <1>1, <1>2 DEF AttributeNames, Classes

(* A state a step makes by Becomes.                                         *)
LEMMA BecomesFine ==
  ASSUME CInv, NEW s, Becomes(s), Fine(types, Trim(s))
  PROVE  CInv'
<1>1. State' = Trim(s) /\ types' = types /\ declared' = declared
  BY DEF Becomes, State, Trim
<1> QED
  BY <1>1 DEF CInv

(* What a variable holds is an instance.                                    *)
LEMMA MainTypes ==
  ASSUME CInv, NEW variable \in Variables, main[variable] # NULL
  PROVE  main[variable] \in DOMAIN instances
BY DEF CInv, Fine, Sound, Typed, State

(* new keeps the invariant.                                                 *)
LEMMA NewFine ==
  ASSUME CInv, NEW variable \in Variables, NEW class \in Classes, NEW argc,
         vm_exec_new_operator(variable, class, argc)
  PROVE  CInv'
<1>1. PICK t : t = add(Marked(class_clone(State, class, types[class]), Fresh(State)), variable, Fresh(State))
  OBVIOUS
<1>2. Becomes(t)
  BY <1>1 DEF vm_exec_new_operator
<1>3. Model(types, State, class, types[class])
  BY PrototypeModel DEF CInv, Fine, Classes
<1>4. Fine(types, Trim(t))
  BY <1>1, <1>3, CloneFine DEF CInv
<1> QED
  BY <1>2, <1>4, BecomesFine

(* So does an assignment of an instance, shared or cloned.                  *)
LEMMA AssignFine ==
  ASSUME CInv, NEW variable \in Variables, NEW other \in Variables, Assign(variable, other)
  PROVE  CInv'
<1>1. PICK id, o : id = main[other] /\ o = instances[id]
  OBVIOUS
<1>2. id \in DOMAIN instances /\ id \in DOMAIN State.instances /\ o = State.instances[id] /\ instances[main[other]] = o
  BY <1>1, MainTypes DEF Assign, State
<1>3. CASE o.referenced
  <2>1. PICK t : t = add(class_clone(State, o.class, o), variable, Fresh(State))
    OBVIOUS
  <2>2. Becomes(t)
    BY <1>2, <1>3, <2>1 DEF Assign
  <2>3. Model(types, State, o.class, o)
    BY <1>2, InstanceModel DEF CInv, Fine
  <2>4. Fine(types, Trim(t))
    BY <2>1, <2>3, CloneFine DEF CInv
  <2> QED
    BY <2>2, <2>4, BecomesFine
<1>4. CASE ~o.referenced
  <2>1. PICK t : t = add(Marked(State, id), variable, id)
    OBVIOUS
  <2>2. Becomes(t)
    BY <1>1, <1>2, <1>4, <2>1 DEF Assign
  <2>3. Fine(types, Trim(t))
    BY <1>2, <2>1, MarkFine DEF CInv
  <2> QED
    BY <2>2, <2>3, BecomesFine
<1> QED
  BY <1>3, <1>4

(* So does the assignment of anything else.                                 *)
LEMMA ForgetStep ==
  ASSUME CInv, NEW variable \in Variables, Forget(variable)
  PROVE  CInv'
<1>1. PICK t : t = add(State, variable, NULL)
  OBVIOUS
<1>2. Fine(types, Trim(t))
  BY <1>1, ForgetFine DEF CInv
<1> QED
  BY <1>1, <1>2, BecomesFine DEF Forget

(* So does an assignment to a reference.                                    *)
LEMMA EmptyStep ==
  ASSUME CInv, NEW variable \in Variables, class_assign(variable)
  PROVE  CInv'
<1>1. PICK t : t = class_free(State, main[variable])
  OBVIOUS
<1>2. main[variable] \in DOMAIN State.instances
  BY MainTypes DEF class_assign, State
<1>3. Fine(types, Trim(t))
  BY <1>1, <1>2, FreeFine DEF CInv
<1> QED
  BY <1>1, <1>3, BecomesFine DEF class_assign

(* So does a call, which marks its instance.                                *)
LEMMA CalledStep ==
  ASSUME CInv, NEW variable \in Variables, main[variable] # NULL, NEW call, Called(main[variable], call)
  PROVE  CInv'
<1>1. PICK t : t = Marked(State, main[variable])
  OBVIOUS
<1>2. main[variable] \in DOMAIN State.instances
  BY MainTypes DEF State
<1>3. Fine(types, Trim(t))
  BY <1>1, <1>2, MarkFine DEF CInv
<1> QED
  BY <1>1, <1>3, BecomesFine DEF Called

(* An assignment to a slot keeps the invariant.                             *)
LEMMA SetStep ==
  ASSUME CInv, NEW o, NEW name, NEW value \in Numbers, NEW x, x = find(o.attributes, Label(name)),
         x \in DOMAIN slots, Unset(slots, x) => ~Quiet,
         class_set_attribute(o, name, value), UNCHANGED <<declared, types, instances, main, hung>>
  PROVE  CInv'
<1>1. PICK w : w = ob_assign(Start, x, value)
  OBVIOUS
<1>2. default' = w.default /\ slots' = w.slots
  BY <1>1 DEF class_set_attribute
<1>3. PICK s : s = State
  OBVIOUS
<1>4. s.slots = slots /\ Start = Blank(s) /\ s.instances = instances /\ s.main = main /\ s.hung = hung
  BY <1>3 DEF State, Start, Blank
<1>5. w = ob_assign(Blank(s), x, value)
  BY <1>1, <1>4
<1>6. PICK t : t = [default |-> w.default, slots |-> w.slots, instances |-> s.instances,
                    main |-> s.main, hung |-> s.hung]
  OBVIOUS
<1>7. Fine(types, s)
  BY <1>3 DEF CInv
<1>8. Fine(types, t)
  BY <1>4, <1>5, <1>6, <1>7, SetFine
<1>9. State' = t /\ types' = types /\ declared' = declared
  BY <1>2, <1>4, <1>6 DEF State
<1> QED
  BY <1>8, <1>9 DEF CInv

(* So does one to an attribute of an instance.                              *)
LEMMA SetAttributeStep ==
  ASSUME CInv, NEW variable \in Variables, NEW name \in AttributeNames, NEW value \in Numbers,
         SetAttribute(variable, name, value)
  PROVE  CInv'
<1>1. main[variable] # NULL
  BY DEF SetAttribute
<1>2. PICK id, o : id = main[variable] /\ o = instances[id]
  OBVIOUS
<1>3. CASE Knows(o.attributes, name)
  <2>1. class_set_attribute(o, name, value) /\ UNCHANGED <<declared, types, instances, main, hung>>
    BY <1>2, <1>3 DEF SetAttribute
  <2>2. PICK x : x = find(o.attributes, Label(name))
    OBVIOUS
  <2>3. PICK s : s = State
    OBVIOUS
  <2>4. Sound(types, s) /\ id \in DOMAIN s.instances /\ o = s.instances[id] /\ s.slots = slots
    BY <1>1, <1>2, <2>3, MainTypes DEF CInv, Fine, State
  <2>5. o.attributes \in FieldTable /\ name \in Word /\ id # 0
    BY <2>4, NameTypes DEF Sound, Typed, InstanceType
  <2>6. PICK k \in 1 .. Len(o.attributes.map) : x = o.attributes.map[k].value
    BY <1>3, <2>2, <2>5, FieldFind
  <2>7. x \in Held(s.instances[id])
    BY <2>4, <2>5, <2>6, FieldTypes DEF Held
  <2>8. x \in DOMAIN s.slots /\ (s.slots[x].static \/ x[2] = id)
    BY <2>4, <2>7, HeldRight
  <2>9. Unset(s.slots, x) => ~Quiet
    BY <2>4, <2>5, <2>8 DEF Sound, Settled
  <2> QED
    BY <2>1, <2>2, <2>4, <2>8, <2>9, SetStep
<1>4. CASE ~Knows(o.attributes, name)
  <2>1. \E call : Called(main[variable], call)
    BY <1>2, <1>4 DEF SetAttribute
  <2> QED
    BY <1>1, <2>1, CalledStep
<1> QED
  BY <1>3, <1>4

(* So does one to an attribute of a class.                                  *)
LEMMA SetPrototypeStep ==
  ASSUME CInv, NEW class \in Classes, NEW name \in AttributeNames, NEW value \in Numbers,
         SetPrototype(class, name, value)
  PROVE  CInv'
<1>1. PICK o, x : o = types[class] /\ x = find(o.attributes, Label(name))
  OBVIOUS
<1>2. /\ Knows(o.attributes, name) /\ class_set_attribute(o, name, value)
      /\ UNCHANGED <<declared, types, instances, main, hung>>
      /\ slots[x].value = Void => "setsPrototypes" \in Habits
  BY <1>1 DEF SetPrototype
<1>3. Unset(slots, x) => ~Quiet
  BY <1>2 DEF Unset, Quiet
<1>4. Proto(types, class) /\ class \in DOMAIN types /\ name \in Word /\ Sound(types, State)
  BY NameTypes DEF CInv, Fine, Sound, Classes
<1>5. PICK k \in 1 .. Len(o.attributes.map) : x = o.attributes.map[k].value
  BY <1>1, <1>2, <1>4, FieldFind DEF Proto
<1>6. x \in DOMAIN State.slots
  BY <1>1, <1>4, <1>5, ProtoSlots DEF Proto
<1> QED
  BY <1>1, <1>2, <1>3, <1>6, SetStep DEF State
-----------------------------------------------------------------------------
(* The attributes of a class that is being declared: sl are the slots there *)
(* were, c is the class.                                                    *)
Growing(sl, c) ==
  {m \in MadeFrom(sl) :
     /\ Quiet => m.default = 0
     /\ \A x : x \in DOMAIN m.slots <=>
                 x \in DOMAIN sl \/ \E k \in 1 .. Len(m.attributes.map) : x = <<c, 0, k>>
     /\ \A k \in 1 .. Len(m.attributes.map) : m.attributes.map[k].value = <<c, 0, k>>}

Grown(sl, c) ==
  {m \in Growing(sl, c) : \A x \in DOMAIN m.slots : m.slots[x].static /\ Unset(m.slots, x) => ~Quiet}

(* The class has no slots yet.                                              *)
Unknown(sl, c) == c \in Class /\ sl \in SlotMaps /\ \A k \in Nat : <<c, 0, k>> \notin DOMAIN sl

Grows(sl, c, v, u, x, name, at) == u \in Growing(sl, c) /\ Makes(v, u, x, name, at)

(* A class that is declared gets one attribute more.                        *)
LEMMA GrowInsert ==
  ASSUME NEW sl, NEW c, Unknown(sl, c), NEW v \in Growing(sl, c), NEW name \in Word, NEW at \in Attribute,
         NEW x, x = SlotOf(v.attributes, <<c, 0>>)
  PROVE  Grows(sl, c, v, Insert(v, <<c, 0>>, name, at), x, name, at)
<1>1. v \in Making /\ Extends(sl, v.slots) /\ v.attributes \in FieldTable /\ c \in Class
  BY DEF Growing, MadeFrom, Making, Unknown
<1>2. PICK n \in Nat : n = Len(v.attributes.map)
  BY <1>1, FieldTypes
<1>3. PICK u : u = Insert(v, <<c, 0>>, name, at)
  OBVIOUS
<1>4. x = <<c, 0, n + 1>>
  BY <1>2 DEF SlotOf
<1>5. Makes(v, u, x, name, at)
  BY <1>1, <1>2, <1>3, <1>4, MakeInsert
<1>6. x \notin DOMAIN sl
  BY <1>4 DEF Unknown
<1>7. u \in MadeFrom(sl)
  BY <1>1, <1>5, <1>6 DEF MadeFrom, Extends, Makes
<1>8. /\ Len(u.attributes.map) = n + 1
      /\ \A p \in 1 .. n : u.attributes.map[p] = v.attributes.map[p]
      /\ u.attributes.map[n + 1].value = x
      /\ DOMAIN u.slots = DOMAIN v.slots \union {x}
      /\ u.default = v.default
  BY <1>2, <1>5 DEF Makes, Gets
<1>9. \A k \in 1 .. n + 1 : k \in 1 .. n \/ k = n + 1
  OBVIOUS
<1>10. \A y : y \in DOMAIN u.slots <=>
                y \in DOMAIN sl \/ \E k \in 1 .. n + 1 : y = <<c, 0, k>>
  <2>1. \A y : y \in DOMAIN v.slots <=> y \in DOMAIN sl \/ \E k \in 1 .. n : y = <<c, 0, k>>
    BY <1>2 DEF Growing
  <2> QED
    BY <1>4, <1>8, <1>9, <2>1
<1>11. \A k \in 1 .. n + 1 : u.attributes.map[k].value = <<c, 0, k>>
  BY <1>2, <1>4, <1>8, <1>9 DEF Growing
<1>12. u \in Growing(sl, c)
  BY <1>7, <1>8, <1>10, <1>11 DEF Growing
<1> QED
  BY <1>3, <1>5, <1>12 DEF Grows

(* It stays so that a static attribute has a value at once.                 *)
LEMMA GrownInsert ==
  ASSUME NEW sl, NEW c, Unknown(sl, c), NEW v \in Grown(sl, c), NEW name \in Word, NEW at \in Attribute,
         at.static => at.value # Void
  PROVE  Insert(v, <<c, 0>>, name, at) \in Grown(sl, c)
<1>1. PICK u, x : u = Insert(v, <<c, 0>>, name, at) /\ x = SlotOf(v.attributes, <<c, 0>>)
  OBVIOUS
<1>2. v \in Growing(sl, c)
  BY DEF Grown
<1>3. Grows(sl, c, v, Insert(v, <<c, 0>>, name, at), x, name, at)
  BY <1>1, <1>2, GrowInsert
<1>4. /\ u \in Growing(sl, c)
      /\ DOMAIN u.slots = DOMAIN v.slots \union {x} /\ u.slots[x] = at
      /\ \A y \in DOMAIN v.slots \ {x} : u.slots[y] = v.slots[y]
  BY <1>1, <1>3 DEF Grows, Makes
<1>5. \A y \in DOMAIN u.slots : u.slots[y].static /\ Unset(u.slots, y) => ~Quiet
  BY <1>4 DEF Grown, Unset
<1> QED
  BY <1>1, <1>4, <1>5 DEF Grown

(* An attribute as a body declares it.                                      *)
Declared(a) ==
  /\ a \in [name : STRING, access : STRING, static : BOOLEAN, value : Value]
  /\ a.static => a.value # Void

(* An attribute of the class itself.                                        *)
LEMMA OwnStep ==
  ASSUME NEW sl, NEW c, Unknown(sl, c), NEW v \in Grown(sl, c), NEW a, Declared(a)
  PROVE  OwnAttribute(<<c, 0>>, v, a) \in Grown(sl, c)
<1>1. a.name \in Word /\ a.access \in STRING /\ a.value \in Value /\ a.static \in BOOLEAN
  BY DEF Declared, Word
<1>2. CASE a.static
  <2>1. PICK at : at = [access |-> a.access, static |-> TRUE, value |-> a.value]
    OBVIOUS
  <2>2. at \in Attribute /\ at.value # Void
    BY <1>1, <1>2, <2>1 DEF Attribute, Declared
  <2>3. Insert(v, <<c, 0>>, a.name, at) \in Grown(sl, c)
    BY <1>1, <2>2, GrownInsert
  <2> QED
    BY <1>2, <2>1, <2>3 DEF OwnAttribute
<1>3. CASE ~a.static
  <2>1. PICK at : at = [access |-> a.access, static |-> FALSE, value |-> Void]
    OBVIOUS
  <2>2. at \in Attribute /\ ~at.static
    BY <1>1, <2>1, ValueTypes DEF Attribute
  <2>3. Insert(v, <<c, 0>>, a.name, at) \in Grown(sl, c)
    BY <1>1, <2>2, GrownInsert
  <2> QED
    BY <1>3, <2>1, <2>3 DEF OwnAttribute, class_define_attribute
<1> QED
  BY <1>2, <1>3

(* A pair of a class that can be extended: without the habit no static      *)
(* attribute of it shows a number.                                          *)
Heritable(sl, e) ==
  /\ e.value \in DOMAIN sl /\ e.label[1] \in Word
  /\ sl[e.value].static /\ Quiet => sl[e.value].value # Void /\ sl[e.value].value.kind # "number"

(* An attribute of a base.                                                  *)
LEMMA InheritStep ==
  ASSUME NEW sl, NEW c, Unknown(sl, c), NEW v \in Grown(sl, c), NEW e, Heritable(sl, e)
  PROVE  InheritAttribute(<<c, 0>>, v, e) \in Grown(sl, c)
<1>1. v \in Growing(sl, c) /\ v \in Making /\ Extends(sl, v.slots)
  BY DEF Grown, Growing, MadeFrom
<1>2. PICK base \in Attribute : base = v.slots[e.value] /\ base = sl[e.value]
  BY <1>1, SlotMapIs DEF Heritable, Extends, Making
<1>3. PICK at : at = [access |-> base.access, static |-> base.static, value |-> Void]
  OBVIOUS
<1>4. at \in Attribute /\ at.static = base.static /\ at.value = Void
  BY <1>3, ValueTypes DEF Attribute
<1>5. PICK next : next = Insert(v, <<c, 0>>, e.label[1], at)
  OBVIOUS
<1>6. next = class_define_attribute(v, <<c, 0>>, e.label[1], base.access, base.static)
  BY <1>3, <1>5 DEF class_define_attribute
<1>7. CASE ~base.static
  <2>1. next \in Grown(sl, c)
    BY <1>4, <1>5, <1>7, GrownInsert DEF Heritable
  <2> QED
    BY <1>2, <1>6, <1>7, <2>1 DEF InheritAttribute
<1>8. CASE base.static
  <2>1. PICK x, w, u : x = SlotOf(v.attributes, <<c, 0>>) /\ w = Shown(v, base.value) /\ u = ob_assign(next, x, w)
    OBVIOUS
  <2>2. u = InheritAttribute(<<c, 0>>, v, e)
    BY <1>2, <1>6, <1>8, <2>1 DEF InheritAttribute
  <2>3. w \in Value /\ w # Void
    BY <1>1, <2>1, ShownNumber DEF Making, Attribute
  <2>4. Grows(sl, c, v, Insert(v, <<c, 0>>, e.label[1], at), x, e.label[1], at)
    BY <1>1, <1>4, <2>1, GrowInsert DEF Heritable
  <2>5. /\ next \in Growing(sl, c) /\ next \in Making /\ next \in MadeFrom(sl)
        /\ DOMAIN next.slots = DOMAIN v.slots \union {x} /\ next.slots[x] = at
        /\ \A y \in DOMAIN v.slots \ {x} : next.slots[y] = v.slots[y]
    BY <1>5, <2>4 DEF Grows, Makes, Growing, MadeFrom
  <2>6. next = [default |-> next.default, slots |-> next.slots, attributes |-> next.attributes]
    BY <2>5 DEF Making
  <2>7. CASE w.kind = "number"
    <3>1. u = [next EXCEPT !.default = w.number]
      BY <1>4, <2>1, <2>5, <2>7 DEF ob_assign
    <3>2. u = [default |-> w.number, slots |-> next.slots, attributes |-> next.attributes]
      BY <2>6, <3>1
    <3>3. w.number \in 0 .. MaxNumber
      BY <2>3, <2>7, ValueTypes DEF Value, Numbers, Number
    <3>4. ~Quiet
      BY <1>2, <1>8, <2>1, <2>7 DEF Heritable, Shown
    <3>5. u \in Making /\ u.slots = next.slots /\ u.attributes = next.attributes
      BY <2>5, <3>2, <3>3 DEF Making
    <3>6. u \in MadeFrom(sl)
      BY <2>5, <3>5 DEF MadeFrom
    <3> QED
      BY <2>2, <2>5, <3>4, <3>5, <3>6 DEF Grown, Growing
  <2>8. CASE w.kind # "number"
    <3>1. PICK D, old : D = DOMAIN next.slots /\ old = next.slots /\ old \in [D -> Attribute] /\ D \subseteq Slot
      BY <2>5, SlotMapIs DEF Making
    <3>2. PICK sm : sm = [old EXCEPT ![x].value = w]
      OBVIOUS
    <3>3. /\ sm \in [D -> Attribute] /\ DOMAIN sm = D
          /\ sm[x] = [access |-> old[x].access, static |-> old[x].static, value |-> w]
          /\ \A y \in D \ {x} : sm[y] = old[y]
      BY <2>3, <2>5, <3>1, <3>2, SlotSet
    <3>4. u = [next EXCEPT !.slots = sm]
      BY <2>1, <2>8, <3>1, <3>2 DEF ob_assign
    <3>5. u = [default |-> next.default, slots |-> sm, attributes |-> next.attributes]
      BY <2>6, <3>4
    <3>6. u \in Making /\ u.slots = sm /\ u.default = next.default /\ u.attributes = next.attributes
      BY <2>5, <3>1, <3>3, <3>5, SlotMapIs DEF Making
    <3>7. x \notin DOMAIN sl
      <4>1. Len(v.attributes.map) \in Nat
        BY <1>1, FieldTypes DEF Making
      <4> QED
        BY <2>1, <4>1 DEF SlotOf, Unknown
    <3>8. u \in MadeFrom(sl)
      BY <2>5, <3>1, <3>3, <3>6, <3>7 DEF MadeFrom, Extends
    <3>9. u \in Growing(sl, c)
      BY <2>5, <3>1, <3>3, <3>6, <3>8 DEF Growing
    <3>10. \A y \in DOMAIN sm : sm[y].static /\ Unset(sm, y) => ~Quiet
      BY <2>3, <2>5, <3>1, <3>3 DEF Grown, Unset
    <3> QED
      BY <2>2, <3>6, <3>9, <3>10 DEF Grown
  <2> QED
    BY <2>7, <2>8
<1> QED
  BY <1>7, <1>8
(* All attributes of the class itself.                                      *)
LEMMA OwnGrown ==
  ASSUME NEW sl, NEW c, Unknown(sl, c), NEW s \in Grown(sl, c), NEW body, NEW n \in Nat,
         DOMAIN body.attributes = 1 .. n, \A k \in 1 .. n : Declared(body.attributes[k])
  PROVE  OwnAttributes(c, s, body) \in Grown(sl, c)
<1> DEFINE V == Grown(sl, c)
           then(v, e) == OwnAttribute(<<c, 0>>, v, e)
           step == [q \in V \X (1 .. n) |-> then(q[1], body.attributes[q[2]])]
           Fix(f) == f = [t \in SUBSET DOMAIN body.attributes |->
                            IF t = {} THEN s ELSE then(f[t \ {Max(t)}], body.attributes[Max(t)])]
<1>1. DOMAIN body.attributes = 1 .. n
  OBVIOUS
<1>2. \A v \in V, k \in 1 .. n : then(v, body.attributes[k]) \in V
  BY OwnStep
<1>3. s \in V
  OBVIOUS
<1> HIDE DEF V
<1>4. Folder(n, V, s, step)
  BY <1>2, <1>3 DEF Folder
<1>5. ASSUME NEW g, NEW t \in SUBSET (1 .. n), t # {}, g[t \ {Max(t)}] \in V
      PROVE  step[<<g[t \ {Max(t)}], Max(t)>>] = then(g[t \ {Max(t)}], body.attributes[Max(t)])
  <2>1. Max(t) \in t
    BY <1>5, Positions
  <2>2. Max(t) \in 1 .. n
    BY <2>1
  <2> HIDE DEF then
  <2> QED
    BY <1>5, <2>2
<1> HIDE DEF then, step
<1>6. \E f : Fix(f)
  <2>0. PICK f \in [SUBSET (1 .. n) -> V] : Folds(f, n, s, step)
    BY <1>4, Folding
  <2>1. \A t \in SUBSET (1 .. n) : f[t] = IF t = {} THEN s ELSE step[<<f[t \ {Max(t)}], Max(t)>>]
    BY <2>0 DEF Folds
  <2>2. f = [t \in SUBSET (1 .. n) |-> f[t]]
    OBVIOUS
  <2>3. \A t \in SUBSET (1 .. n) : t # {} => f[t] = then(f[t \ {Max(t)}], body.attributes[Max(t)])
    BY <1>5, <2>1
  <2>4. Fix(f)
    BY <1>1, <2>1, <2>2, <2>3
  <2> QED
    BY <2>4
<1>7. PICK g : g = CHOOSE f : Fix(f)
  OBVIOUS
<1>8. Fix(g)
  BY <1>6, <1>7
<1>9. OwnAttributes(c, s, body) = g[1 .. n]
  BY <1>1, <1>7 DEF OwnAttributes, Prototype, FoldLeft, MapThenFoldSet, then
<1>10. FoldsAs(g, n, V, s, step)
  BY <1>1, <1>5, <1>8 DEF FoldsAs
<1>11. g[1 .. n] \in V
  BY <1>4, <1>10, FoldInside
<1> QED
  BY <1>9, <1>11 DEF V

(* All attributes of one base.                                              *)
LEMMA ExtendGrown ==
  ASSUME NEW sl, NEW c, Unknown(sl, c), NEW s \in Grown(sl, c), NEW base, NEW n \in Nat,
         DOMAIN types[base].attributes.map = 1 .. n,
         \A k \in 1 .. n : Heritable(sl, types[base].attributes.map[k])
  PROVE  ExtendAttributes(c, s, base) \in Grown(sl, c)
<1> DEFINE V == Grown(sl, c)
           then(v, e) == InheritAttribute(<<c, 0>>, v, e)
           step == [q \in V \X (1 .. n) |-> then(q[1], types[base].attributes.map[q[2]])]
           Fix(f) == f = [t \in SUBSET DOMAIN types[base].attributes.map |->
                            IF t = {} THEN s ELSE then(f[t \ {Max(t)}], types[base].attributes.map[Max(t)])]
<1>1. DOMAIN types[base].attributes.map = 1 .. n
  OBVIOUS
<1>2. \A v \in V, k \in 1 .. n : then(v, types[base].attributes.map[k]) \in V
  BY InheritStep
<1>3. s \in V
  OBVIOUS
<1> HIDE DEF V
<1>4. Folder(n, V, s, step)
  BY <1>2, <1>3 DEF Folder
<1>5. ASSUME NEW g, NEW t \in SUBSET (1 .. n), t # {}, g[t \ {Max(t)}] \in V
      PROVE  step[<<g[t \ {Max(t)}], Max(t)>>] = then(g[t \ {Max(t)}], types[base].attributes.map[Max(t)])
  <2>1. Max(t) \in t
    BY <1>5, Positions
  <2>2. Max(t) \in 1 .. n
    BY <2>1
  <2> HIDE DEF then
  <2> QED
    BY <1>5, <2>2
<1> HIDE DEF then, step
<1>6. \E f : Fix(f)
  <2>0. PICK f \in [SUBSET (1 .. n) -> V] : Folds(f, n, s, step)
    BY <1>4, Folding
  <2>1. \A t \in SUBSET (1 .. n) : f[t] = IF t = {} THEN s ELSE step[<<f[t \ {Max(t)}], Max(t)>>]
    BY <2>0 DEF Folds
  <2>2. f = [t \in SUBSET (1 .. n) |-> f[t]]
    OBVIOUS
  <2>3. \A t \in SUBSET (1 .. n) : t # {} => f[t] = then(f[t \ {Max(t)}], types[base].attributes.map[Max(t)])
    BY <1>5, <2>1
  <2>4. Fix(f)
    BY <1>1, <2>1, <2>2, <2>3
  <2> QED
    BY <2>4
<1>7. PICK g : g = CHOOSE f : Fix(f)
  OBVIOUS
<1>8. Fix(g)
  BY <1>6, <1>7
<1>9. ExtendAttributes(c, s, base) = g[1 .. n]
  BY <1>1, <1>7 DEF ExtendAttributes, Prototype, FoldLeft, MapThenFoldSet, then
<1>10. FoldsAs(g, n, V, s, step)
  BY <1>1, <1>5, <1>8 DEF FoldsAs
<1>11. g[1 .. n] \in V
  BY <1>4, <1>10, FoldInside
<1> QED
  BY <1>9, <1>11 DEF V

(* The class can be extended. *)
Extendable(sl, base) ==
  /\ \E n \in Nat : DOMAIN types[base].attributes.map = 1 .. n
  /\ \A k \in DOMAIN types[base].attributes.map : Heritable(sl, types[base].attributes.map[k])

(* The same, with the hypotheses in one.                                    *)
LEMMA ExtendStep ==
  ASSUME NEW sl, NEW c, Unknown(sl, c), NEW v \in Grown(sl, c), NEW base, Extendable(sl, base)
  PROVE  ExtendAttributes(c, v, base) \in Grown(sl, c)
BY ExtendGrown DEF Extendable

(* All attributes of a declaration.                                         *)
LEMMA AttributesGrown ==
  ASSUME NEW sl, NEW c, Unknown(sl, c), NEW body, NEW bases, NEW n \in Nat, DOMAIN bases = 1 .. n,
         \A k \in 1 .. n : Extendable(sl, bases[k]), OwnAttributes(c, Start, body) \in Grown(sl, c)
  PROVE  Attributes(c, body, bases) \in Grown(sl, c)
<1> DEFINE V == Grown(sl, c)
           then(v, e) == ExtendAttributes(c, v, e)
           step == [q \in V \X (1 .. n) |-> then(q[1], bases[q[2]])]
           Fix(f) == f = [t \in SUBSET DOMAIN bases |->
                            IF t = {} THEN OwnAttributes(c, Start, body) ELSE then(f[t \ {Max(t)}], bases[Max(t)])]
<1>1. DOMAIN bases = 1 .. n
  OBVIOUS
<1>2. \A v \in V, k \in 1 .. n : then(v, bases[k]) \in V
  BY ExtendStep
<1>3. OwnAttributes(c, Start, body) \in V
  OBVIOUS
<1> HIDE DEF V
<1>4. Folder(n, V, OwnAttributes(c, Start, body), step)
  BY <1>2, <1>3 DEF Folder
<1>5. ASSUME NEW g, NEW t \in SUBSET (1 .. n), t # {}, g[t \ {Max(t)}] \in V
      PROVE  step[<<g[t \ {Max(t)}], Max(t)>>] = then(g[t \ {Max(t)}], bases[Max(t)])
  <2>1. Max(t) \in t
    BY <1>5, Positions
  <2>2. Max(t) \in 1 .. n
    BY <2>1
  <2> HIDE DEF then
  <2> QED
    BY <1>5, <2>2
<1> HIDE DEF then, step
<1>6. \E f : Fix(f)
  <2>0. PICK f \in [SUBSET (1 .. n) -> V] : Folds(f, n, OwnAttributes(c, Start, body), step)
    BY <1>4, Folding
  <2>1. \A t \in SUBSET (1 .. n) : f[t] = IF t = {} THEN OwnAttributes(c, Start, body) ELSE step[<<f[t \ {Max(t)}], Max(t)>>]
    BY <2>0 DEF Folds
  <2>2. f = [t \in SUBSET (1 .. n) |-> f[t]]
    OBVIOUS
  <2>3. \A t \in SUBSET (1 .. n) : t # {} => f[t] = then(f[t \ {Max(t)}], bases[Max(t)])
    BY <1>5, <2>1
  <2>4. Fix(f)
    BY <1>1, <2>1, <2>2, <2>3
  <2> QED
    BY <2>4
<1>7. PICK g : g = CHOOSE f : Fix(f)
  OBVIOUS
<1>8. Fix(g)
  BY <1>6, <1>7
<1>9. Attributes(c, body, bases) = g[1 .. n]
  BY <1>1, <1>7 DEF Attributes, FoldLeft, MapThenFoldSet, then
<1>10. FoldsAs(g, n, V, OwnAttributes(c, Start, body), step)
  BY <1>1, <1>5, <1>8 DEF FoldsAs
<1>11. g[1 .. n] \in V
  BY <1>4, <1>10, FoldInside
<1> QED
  BY <1>9, <1>11 DEF V
-----------------------------------------------------------------------------
(* Tables of methods: a name is known once and has its prototypes in the    *)
(* order of their definition.                                               *)
LEMMA LabelSame ==
  ASSUME NEW a, NEW b
  PROVE  Label(a) = Label(b) <=> a = b
BY DEF Label

(* The methods a name stands for, in a coherent table.                      *)
LEMMA DefinesRight ==
  ASSUME NEW t, Coherent(Word, Seq(Kept), t), NEW name \in Word
  PROVE  /\ Knows(t, name) <=> Label(name) \in TreeLabels(t)
         /\ Defines(t, name) = IF Label(name) \in TreeLabels(t) THEN Contents(t)[Label(name)] ELSE <<>>
         /\ Defines(t, name) \in Seq(Kept)
<1>1. Label(name) \in TreeLabel(Word)
  BY LabelType
<1>2. Tree!at_find(t.tree, Label(name)) # Tree!NULL <=> Label(name) \in TreeLabels(t)
  BY <1>1, Leads
<1>3. Knows(t, name) <=> Label(name) \in TreeLabels(t)
  BY <1>2, SameTrees DEF Knows, NULL, Tree!NULL
<1>4. Tree!find(t, Label(name)) = IF Label(name) \in TreeLabels(t) THEN Contents(t)[Label(name)] ELSE Tree!NULL
  BY <1>1, FindRight
<1>5. Defines(t, name) = IF Label(name) \in TreeLabels(t) THEN Contents(t)[Label(name)] ELSE <<>>
  BY <1>3, <1>4, SameTrees DEF Defines
<1>6. Defines(t, name) \in Seq(Kept)
  <2>1. PICK o : o = [methods |-> t]
    OBVIOUS
  <2>2. o.methods = t /\ Coherent(Word, Seq(Kept), o.methods)
    BY <2>1
  <2>3. Prototypes(o, name) \in Seq(Kept)
    BY <2>2, PrototypesType
  <2> QED
    BY <2>2, <2>3 DEF Prototypes, Defines
<1> QED
  BY <1>3, <1>5, <1>6

Puts(t, u, name, p) ==
  /\ u \in MethodTable
  /\ \A n \in Word : Defines(u, n) = IF n = name THEN Append(Defines(t, n), p) ELSE Defines(t, n)

(* class_define_method appends to the methods of the name and to no other.  *)
LEMMA MethodPut ==
  ASSUME NEW t \in MethodTable, NEW name \in Word, NEW p \in Kept
  PROVE  Puts(t, class_define_method(t, name, p), name, p)
<1>1. Coherent(Word, Seq(Kept), t) /\ Label(name) \in TreeLabel(Word) /\ Label(name)[1] = name /\ t \in TreeTable(Word, Seq(Kept))
  BY LabelType DEF MethodTable
<1>2. PICK n \in Nat : n = Len(t.map)
  BY <1>1, TableTypes
<1>3. PICK u : u = class_define_method(t, name, p)
  OBVIOUS
<1>4. CASE Knows(t, name)
  <2>1. PICK v \in Seq(Kept) : v = Append(Defines(t, name), p)
    BY <1>1, DefinesRight, AppendProperties
  <2>2. u = replace(t, Label(name), v)
    BY <1>3, <1>4, <2>1 DEF class_define_method, Defines
  <2>3. u = Tree!replace(t, Label(name), v)
    BY <2>2, SameTrees
  <2>4. Label(name) \in TreeLabels(t)
    BY <1>1, <1>4, DefinesRight
  <2>5. /\ Coherent(Word, Seq(Kept), u)
        /\ Contents(u) = [k \in TreeLabels(t) |-> IF k = Label(name) THEN v ELSE Contents(t)[k]]
    BY <1>1, <2>3, <2>4, ReplaceRight
  <2>6. Len(u.map) = n /\ \A k \in 1 .. n : u.map[k].label = t.map[k].label
    <3>1. /\ Len(u.map) = Len(t.map)
          /\ \A k \in 1 .. Len(t.map) : u.map[k].label = t.map[k].label
      BY <1>1, <2>3, <2>4, ReplaceShape
    <3> QED
      BY <1>2, <3>1
  <2>7. TreeLabels(u) = TreeLabels(t)
    BY <1>2, <2>6 DEF TreeLabels
  <2>8. u \in MethodTable
    BY <1>2, <2>5, <2>6 DEF MethodTable, Coherent
  <2>9. ASSUME NEW m \in Word
        PROVE  Defines(u, m) = IF m = name THEN Append(Defines(t, m), p) ELSE Defines(t, m)
    <3>1. Defines(u, m) = IF Label(m) \in TreeLabels(u) THEN Contents(u)[Label(m)] ELSE <<>>
      BY <2>5, DefinesRight
    <3>2. Defines(t, m) = IF Label(m) \in TreeLabels(t) THEN Contents(t)[Label(m)] ELSE <<>>
      BY <1>1, DefinesRight
    <3>3. Label(m) = Label(name) <=> m = name
      BY LabelSame
    <3> QED
      BY <2>1, <2>4, <2>5, <2>7, <3>1, <3>2, <3>3
  <2> QED
    BY <1>3, <2>8, <2>9 DEF Puts
<1>5. CASE ~Knows(t, name)
  <2>1. PICK v \in Seq(Kept) : v = <<p>>
    BY Singleton
  <2>2. u = Tree!insert(t, Label(name), v)
    BY <1>3, <1>5, <2>1, SameTrees DEF class_define_method
  <2>3. Label(name) \in TreeLabel(Word) \ TreeLabels(t)
    BY <1>1, <1>5, DefinesRight
  <2>4. Coherent(Word, Seq(Kept), u)
    <3>1. PICK l \in TreeLabel(Word) \ TreeLabels(t) : l = Label(name)
      BY <2>3
    <3>2. u = Tree!insert(t, l, v) /\ Coherent(Word, Seq(Kept), t)
      BY <1>1, <2>2, <3>1
    <3> QED
      BY <3>2, InsertRight
  <2>5. /\ Len(u.map) = n + 1
        /\ \A k \in 1 .. n : u.map[k] = t.map[k]
        /\ u.map[n + 1] = [label |-> Label(name), value |-> v]
    BY <1>1, <1>2, <2>2, InsertShape
  <2>6. \A k \in 1 .. n + 1 : k \in 1 .. n \/ k = n + 1
    OBVIOUS
  <2>7. TreeLabels(u) = TreeLabels(t) \union {Label(name)}
    <3>1. TreeLabels(u) = {u.map[k].label : k \in 1 .. n + 1}
      BY <2>5 DEF TreeLabels
    <3>2. TreeLabels(t) = {t.map[k].label : k \in 1 .. n}
      BY <1>2 DEF TreeLabels
    <3>3. \A k \in 1 .. n : u.map[k].label = t.map[k].label
      BY <2>5
    <3>4. u.map[n + 1].label = Label(name) /\ n + 1 \in 1 .. n + 1 /\ 1 .. n \subseteq 1 .. n + 1
      BY <2>5
    <3> QED
      BY <2>6, <3>1, <3>2, <3>3, <3>4
  <2>10. Contents(u)[Label(name)] = v
    <3>1. \A k \in 1 .. Len(u.map) : Contents(u)[u.map[k].label] = u.map[k].value
      BY <2>4, ContentsAt
    <3> QED
      BY <2>5, <3>1
  <2>11. ASSUME NEW l \in TreeLabels(t)
         PROVE  Contents(u)[l] = Contents(t)[l]
    <3>1. PICK k \in 1 .. n : l = t.map[k].label
      BY <1>2 DEF TreeLabels
    <3>2. Contents(t)[t.map[k].label] = t.map[k].value
      BY <1>1, <1>2, ContentsAt
    <3>3. k \in 1 .. Len(u.map) /\ u.map[k] = t.map[k]
      BY <2>5
    <3>4. Contents(u)[u.map[k].label] = u.map[k].value
      BY <2>4, <3>3, ContentsAt
    <3> QED
      BY <3>1, <3>2, <3>3, <3>4
  <2>8. u \in MethodTable
    <3>1. \A k \in 1 .. n : t.map[k].label = Label(t.map[k].label[1])
      BY <1>2 DEF MethodTable
    <3>2. \A k \in 1 .. n + 1 : u.map[k].label = Label(u.map[k].label[1])
      BY <1>1, <2>5, <2>6, <3>1
    <3> QED
      BY <2>4, <2>5, <3>2 DEF MethodTable, Coherent
  <2>9. ASSUME NEW m \in Word
        PROVE  Defines(u, m) = IF m = name THEN Append(Defines(t, m), p) ELSE Defines(t, m)
    <3>1. Defines(u, m) = IF Label(m) \in TreeLabels(u) THEN Contents(u)[Label(m)] ELSE <<>>
      BY <2>4, DefinesRight
    <3>2. Defines(t, m) = IF Label(m) \in TreeLabels(t) THEN Contents(t)[Label(m)] ELSE <<>>
      BY <1>1, DefinesRight
    <3>3. Label(m) = Label(name) <=> m = name
      BY LabelSame
    <3>4. CASE m = name
      <4>1. Defines(t, m) = <<>> /\ Defines(u, m) = v
        BY <2>3, <2>7, <2>10, <3>1, <3>2, <3>4
      <4>2. Append(<<>>, p) = <<p>>
        OBVIOUS
      <4> QED
        BY <2>1, <3>4, <4>1, <4>2
    <3>5. CASE m # name
      BY <2>7, <2>11, <3>1, <3>2, <3>3, <3>5
    <3> QED
      BY <3>4, <3>5
  <2> QED
    BY <1>3, <2>8, <2>9 DEF Puts
<1> QED
  BY <1>4, <1>5

-----------------------------------------------------------------------------
(* The first prototype with a number of arguments. *)
LEMMA FitAppend ==
  ASSUME NEW all \in Seq(Kept), NEW p \in Kept, NEW argc
  PROVE  FitIn(Append(all, p), argc) = Or(FitIn(all, argc), IF p.argc = argc THEN <<p>> ELSE <<>>)
<1>1. PICK n \in Nat : n = Len(all) /\ DOMAIN all = 1 .. n
  BY LenProperties
<1>2. PICK new \in Seq(Kept) : new = Append(all, p)
  BY AppendProperties
<1>3. Len(new) = n + 1 /\ DOMAIN new = 1 .. n + 1 /\ new[n + 1] = p /\ \A i \in 1 .. n : new[i] = all[i]
  BY <1>1, <1>2, AppendProperties, LenProperties
<1>4. PICK S, U : S = Fitting(all, argc) /\ U = Fitting(new, argc)
  OBVIOUS
<1>5. /\ S \subseteq 1 .. n
      /\ U = IF p.argc = argc THEN S \union {n + 1} ELSE S
  BY <1>1, <1>3, <1>4 DEF Fitting
<1>6. CASE S # {}
  <2>1. Min(S) \in S /\ \A k \in S : Min(S) <= k
    BY <1>5, <1>6, Positions
  <2>2. Min(S) \in U /\ \A k \in U : Min(S) <= k
    <3>1. PICK m \in 1 .. n : m = Min(S)
      BY <1>5, <2>1
    <3>2. m \in U
      BY <1>5, <2>1, <3>1
    <3>3. \A k \in U : m <= k
      BY <1>5, <2>1, <3>1
    <3> QED
      BY <3>1, <3>2, <3>3
  <2>3. U \subseteq Int
    BY <1>5
  <2>4. Min(U) = Min(S)
    BY <2>2, <2>3, MinOf
  <2>5. new[Min(U)] = all[Min(S)] /\ U # {}
    BY <1>3, <1>5, <2>1, <2>4
  <2> QED
    BY <1>2, <1>4, <1>6, <2>5 DEF FitIn, Or
<1>7. CASE S = {} /\ p.argc = argc
  <2>1. U = {n + 1}
    BY <1>5, <1>7
  <2>2. Min(U) = n + 1
    <3>1. PICK m \in Int : m = n + 1
      OBVIOUS
    <3>2. U \in SUBSET Int /\ m \in U /\ \A k \in U : m <= k
      BY <2>1, <3>1
    <3> QED
      BY <3>1, <3>2, MinOf
  <2> QED
    BY <1>2, <1>3, <1>4, <1>7, <2>1, <2>2 DEF FitIn, Or
<1>8. CASE S = {} /\ p.argc # argc
  BY <1>2, <1>4, <1>5, <1>8 DEF FitIn, Or
<1> QED
  BY <1>6, <1>7, <1>8

Adds(t, u, name, p) ==
  /\ u \in MethodTable
  /\ \A n \in Word, argc \in Nat :
       Fit(u, n, argc) = Or(Fit(t, n, argc), IF n = name /\ p.argc = argc THEN <<p>> ELSE <<>>)

(* Nothing is no alternative.                                               *)
LEMMA OrNothing ==
  ASSUME NEW a
  PROVE  Or(a, <<>>) = a
BY DEF Or

(* A method that is defined answers only if no earlier one does.            *)
LEMMA DefineStep ==
  ASSUME NEW t \in MethodTable, NEW name \in Word, NEW p \in Kept
  PROVE  Adds(t, class_define_method(t, name, p), name, p)
<1>1. PICK u : u = class_define_method(t, name, p)
  OBVIOUS
<1>2. Puts(t, class_define_method(t, name, p), name, p)
  BY MethodPut
<1>3. u \in MethodTable
  BY <1>1, <1>2 DEF Puts
<1>4. ASSUME NEW n \in Word, NEW argc \in Nat
      PROVE  Fit(u, n, argc) = Or(Fit(t, n, argc), IF n = name /\ p.argc = argc THEN <<p>> ELSE <<>>)
  <2>1. Defines(u, n) = IF n = name THEN Append(Defines(t, n), p) ELSE Defines(t, n)
    BY <1>1, <1>2 DEF Puts
  <2>2. CASE n = name
    <3>1. PICK all \in Seq(Kept) : all = Defines(t, n)
      BY DefinesRight DEF MethodTable
    <3>2. FitIn(Append(all, p), argc) = Or(FitIn(all, argc), IF p.argc = argc THEN <<p>> ELSE <<>>)
      BY FitAppend
    <3> QED
      BY <2>1, <2>2, <3>1, <3>2 DEF Fit
  <2>3. CASE n # name
    BY <2>1, <2>3, OrNothing DEF Fit
  <2> QED
    BY <2>2, <2>3
<1> QED
  BY <1>1, <1>3, <1>4 DEF Adds

(* One candidate more is asked last.                                        *)
LEMMA EarliestNext ==
  ASSUME NEW g, NEW k \in Nat \ {0}
  PROVE  Earliest(g, k) = Or(Earliest(g, k - 1), g[k])
<1>1. PICK S, U : S = {j \in 1 .. k - 1 : g[j] # <<>>} /\ U = {j \in 1 .. k : g[j] # <<>>}
  OBVIOUS
<1>2. \A j \in 1 .. k : j \in 1 .. k - 1 \/ j = k
  OBVIOUS
<1>3. U = IF g[k] # <<>> THEN S \union {k} ELSE S
  BY <1>1, <1>2
<1>4. S \subseteq 1 .. k - 1 /\ k - 1 \in Nat
  BY <1>1
<1>5. CASE S # {}
  <2>1. Min(S) \in S /\ \A j \in S : Min(S) <= j
    BY <1>4, <1>5, Positions
  <2>2. Min(S) \in U /\ \A j \in U : Min(S) <= j
    <3>1. PICK m \in 1 .. k - 1 : m = Min(S)
      BY <1>4, <2>1
    <3>2. m \in U
      BY <1>3, <2>1, <3>1
    <3>3. \A j \in U : m <= j
      BY <1>3, <2>1, <3>1
    <3> QED
      BY <3>1, <3>2, <3>3
  <2>3. U \subseteq Int
    BY <1>1
  <2>4. Min(U) = Min(S)
    BY <2>2, <2>3, MinOf
  <2>5. g[Min(S)] # <<>>
    BY <1>1, <2>1
  <2> QED
    BY <1>1, <1>5, <2>2, <2>4, <2>5 DEF Earliest, Or
<1>6. CASE S = {} /\ g[k] # <<>>
  <2>1. U = {k} /\ k \in Int
    BY <1>3, <1>6
  <2>2. Min(U) = k
    BY <2>1, MinOf
  <2> QED
    BY <1>1, <1>6, <2>1, <2>2 DEF Earliest, Or
<1>7. CASE S = {} /\ g[k] = <<>>
  BY <1>1, <1>3, <1>7 DEF Earliest, Or
<1> QED
  BY <1>5, <1>6, <1>7

(* f collects the candidates of g one by one.                               *)
Collects(f, g, n) == \A k \in 1 .. n : f[k] = Or(f[k - 1], g[k])

(* What collects candidates one by one has the earliest of them.            *)
LEMMA OrSteps ==
  ASSUME NEW f, NEW g, NEW n \in Nat, Collects(f, g, n)
  PROVE  f[n] = Or(f[0], Earliest(g, n))
<1> DEFINE Ok == {k \in Nat : k <= n => f[k] = Or(f[0], Earliest(g, k))}
<1>1. ASSUME NEW k \in Nat, \A j \in 0 .. k - 1 : j \in Ok
      PROVE  k \in Ok
  <2>1. CASE k = 0
    <3>1. Earliest(g, 0) = <<>>
      BY DEF Earliest
    <3> QED
      BY <2>1, <3>1, OrNothing
  <2>2. CASE k \in 1 .. n
    <3>1. k - 1 \in Ok /\ k - 1 <= n
      BY <1>1, <2>2
    <3>2. f[k - 1] = Or(f[0], Earliest(g, k - 1))
      BY <3>1
    <3>3. f[k] = Or(f[k - 1], g[k]) /\ Earliest(g, k) = Or(Earliest(g, k - 1), g[k])
      BY <2>2, EarliestNext DEF Collects
    <3>4. f[k] = Or(f[0], Earliest(g, k))
      BY <3>2, <3>3 DEF Or
    <3> QED
      BY <3>4
  <2>3. CASE ~(k <= n)
    BY <2>3
  <2> QED
    BY <2>1, <2>2, <2>3
<1>2. Ok = Nat
  <2> HIDE DEF Ok
  <2>1. Ok \in SUBSET Nat
    BY DEF Ok
  <2> QED
    BY <1>1, <2>1, NatSet
<1> QED
  BY <1>2
-----------------------------------------------------------------------------
(* The methods of a class: what is defined first fits first. *)
Method(m) == m \in [name : STRING, argc : Nat, vargs : BOOLEAN, access : STRING]

(* A declared method has the types of a method.                             *)
LEMMA OwnedType ==
  ASSUME NEW c \in Class, NEW m, Method(m)
  PROVE  MethodLabel(c, m) \in Word /\ Owned(c, m) \in Kept /\ Owned(c, m).argc = m.argc
<1>1. c \in STRING
  BY ClassesAssumption, ElementOfSeq, LenProperties DEF Class, Range
<1> QED
  BY <1>1 DEF Method, MethodLabel, Owned, Kept, Word

(* A method of the class itself is defined.                                 *)
LEMMA OwnMethodStep ==
  ASSUME NEW c \in Class, NEW t \in MethodTable, NEW m, Method(m)
  PROVE  Adds(t, OwnMethod(c, t, m), MethodLabel(c, m), Owned(c, m))
<1>1. MethodLabel(c, m) \in Word /\ Owned(c, m) \in Kept
  BY OwnedType
<1> QED
  BY <1>1, DefineStep DEF OwnMethod

OwnRun(acc, c, body, n) ==
  acc[0] = EmptyTable /\ \A k \in 1 .. n : acc[k] = OwnMethod(c, acc[k - 1], body.methods[k])

(* The table a declaration starts with answers nothing.                     *)
LEMMA EmptyMethods ==
  /\ EmptyTable \in MethodTable
  /\ \A name \in Word : Defines(EmptyTable, name) = <<>>
  /\ \A name \in Word, argc \in Nat : Fit(EmptyTable, name, argc) = <<>>
<1>1. Coherent(Word, Seq(Kept), EmptyTable)
  BY EmptyCoherent, SameTrees
<1>2. EmptyTable.map = <<>> /\ Len(<<>>) = 0
  BY DEF EmptyTable
<1>3. ASSUME NEW name \in Word
      PROVE  Defines(EmptyTable, name) = <<>>
  <2>1. PICK o : o = [methods |-> EmptyTable]
    OBVIOUS
  <2>2. o.methods = EmptyTable
    BY <2>1
  <2>3. Prototypes(o, name) = <<>>
    BY <2>2, PrototypesEmpty
  <2> QED
    BY <2>2, <2>3 DEF Prototypes, Defines
<1>4. \A argc \in Nat : FitIn(<<>>, argc) = <<>>
  BY DEF FitIn, Fitting
<1> QED
  BY <1>1, <1>2, <1>3, <1>4 DEF MethodTable, Fit, Coherent

(* The methods of the class itself are defined one by one.                  *)
LEMMA OwnSteps ==
  ASSUME NEW c \in Class, NEW body, NEW n \in Nat,
         DOMAIN body.methods = 1 .. n, \A k \in 1 .. n : Method(body.methods[k])
  PROVE  \E acc \in [0 .. n -> MethodTable] :
           OwnRun(acc, c, body, n) /\ OwnMethods(c, EmptyTable, body) = acc[n]
<1> DEFINE V == MethodTable
           then(v, e) == OwnMethod(c, v, e)
           step == [q \in V \X (1 .. n) |-> then(q[1], body.methods[q[2]])]
           Fix(f) == f = [t \in SUBSET DOMAIN body.methods |->
                            IF t = {} THEN EmptyTable ELSE then(f[t \ {Max(t)}], body.methods[Max(t)])]
<1>1. DOMAIN body.methods = 1 .. n
  OBVIOUS
<1>2. \A v \in V, k \in 1 .. n : then(v, body.methods[k]) \in V
  <2> SUFFICES ASSUME NEW v \in V, NEW k \in 1 .. n PROVE OwnMethod(c, v, body.methods[k]) \in V
    OBVIOUS
  <2>1. PICK m : m = body.methods[k] /\ Method(m)
    OBVIOUS
  <2>2. Adds(v, OwnMethod(c, v, m), MethodLabel(c, m), Owned(c, m))
    BY <2>1, OwnMethodStep
  <2> QED
    BY <2>1, <2>2 DEF Adds
<1>3. EmptyTable \in V
  BY EmptyMethods
<1> HIDE DEF V
<1>4. Folder(n, V, EmptyTable, step)
  BY <1>2, <1>3 DEF Folder
<1>5. ASSUME NEW g, NEW t \in SUBSET (1 .. n), t # {}, g[t \ {Max(t)}] \in V
      PROVE  step[<<g[t \ {Max(t)}], Max(t)>>] = then(g[t \ {Max(t)}], body.methods[Max(t)])
  <2>1. Max(t) \in t
    BY <1>5, Positions
  <2>2. Max(t) \in 1 .. n
    BY <2>1
  <2> HIDE DEF then
  <2> QED
    BY <1>5, <2>2
<1> HIDE DEF then, step
<1>6. \E f : Fix(f)
  <2>0. PICK f \in [SUBSET (1 .. n) -> V] : Folds(f, n, EmptyTable, step)
    BY <1>4, Folding
  <2>1. \A t \in SUBSET (1 .. n) : f[t] = IF t = {} THEN EmptyTable ELSE step[<<f[t \ {Max(t)}], Max(t)>>]
    BY <2>0 DEF Folds
  <2>2. f = [t \in SUBSET (1 .. n) |-> f[t]]
    OBVIOUS
  <2>3. \A t \in SUBSET (1 .. n) : t # {} => f[t] = then(f[t \ {Max(t)}], body.methods[Max(t)])
    BY <1>5, <2>1
  <2>4. Fix(f)
    BY <1>1, <2>1, <2>2, <2>3
  <2> QED
    BY <2>4
<1>7. PICK g : g = CHOOSE f : Fix(f)
  OBVIOUS
<1>8. Fix(g)
  BY <1>6, <1>7
<1>9. OwnMethods(c, EmptyTable, body) = g[1 .. n]
  BY <1>1, <1>7 DEF OwnMethods, FoldLeft, MapThenFoldSet, then
<1>10. FoldsAs(g, n, V, EmptyTable, step)
  BY <1>1, <1>5, <1>8 DEF FoldsAs
<1>11. PICK acc \in [0 .. n -> V] :
            /\ acc[0] = EmptyTable
            /\ \A k \in 1 .. n : acc[k] = step[<<acc[k - 1], k>>]
            /\ acc[n] = g[1 .. n]
  <2>1. Folded(n, V, EmptyTable, step, g)
    BY <1>4, <1>10, FoldRun
  <2> QED
    BY <2>1 DEF Folded, Accumulates
<1>12. ASSUME NEW k \in 1 .. n
       PROVE  acc[k] = then(acc[k - 1], body.methods[k])
  <2>1. acc[k - 1] \in V /\ k \in 1 .. n
    OBVIOUS
  <2>2. step[<<acc[k - 1], k>>] = then(acc[k - 1], body.methods[k])
    BY <2>1 DEF step
  <2> QED
    BY <1>11, <2>2
<1> QED
  BY <1>9, <1>11, <1>12 DEF then, OwnRun, V


(* A pair of a method table. *)
Chosen(pair) == pair.label = Label(pair.label[1]) /\ pair.label[1] \in Word /\ pair.value \in Seq(Kept)

InheritRun(acc, table, pair, n) ==
  acc[0] = table /\ \A k \in 1 .. n : acc[k] = class_define_method(acc[k - 1], pair.label[1], pair.value[k])

(* The methods of a base with one name are defined one by one.              *)
LEMMA InheritMethodSteps ==
  ASSUME NEW table \in MethodTable, NEW pair, Chosen(pair), NEW n \in Nat, n = Len(pair.value)
  PROVE  \E acc \in [0 .. n -> MethodTable] :
           InheritRun(acc, table, pair, n) /\ InheritMethods(table, pair) = acc[n]
<1> DEFINE V == MethodTable
           then(v, e) == class_define_method(v, pair.label[1], e)
           step == [q \in V \X (1 .. n) |-> then(q[1], pair.value[q[2]])]
           Fix(f) == f = [t \in SUBSET DOMAIN pair.value |->
                            IF t = {} THEN table ELSE then(f[t \ {Max(t)}], pair.value[Max(t)])]
<1>1. DOMAIN pair.value = 1 .. n
  BY LenProperties DEF Chosen
<1>2. \A v \in V, k \in 1 .. n : then(v, pair.value[k]) \in V
  <2> SUFFICES ASSUME NEW v \in V, NEW k \in 1 .. n PROVE class_define_method(v, pair.label[1], pair.value[k]) \in V
    OBVIOUS
  <2>1. pair.label[1] \in Word /\ pair.value[k] \in Kept
    BY ElementOfSeq DEF Chosen
  <2>2. Adds(v, class_define_method(v, pair.label[1], pair.value[k]), pair.label[1], pair.value[k])
    BY <2>1, DefineStep
  <2> QED
    BY <2>2 DEF Adds
<1>3. table \in V
  OBVIOUS
<1> HIDE DEF V
<1>4. Folder(n, V, table, step)
  BY <1>2, <1>3 DEF Folder
<1>5. ASSUME NEW g, NEW t \in SUBSET (1 .. n), t # {}, g[t \ {Max(t)}] \in V
      PROVE  step[<<g[t \ {Max(t)}], Max(t)>>] = then(g[t \ {Max(t)}], pair.value[Max(t)])
  <2>1. Max(t) \in t
    BY <1>5, Positions
  <2>2. Max(t) \in 1 .. n
    BY <2>1
  <2> HIDE DEF then
  <2> QED
    BY <1>5, <2>2
<1> HIDE DEF then, step
<1>6. \E f : Fix(f)
  <2>0. PICK f \in [SUBSET (1 .. n) -> V] : Folds(f, n, table, step)
    BY <1>4, Folding
  <2>1. \A t \in SUBSET (1 .. n) : f[t] = IF t = {} THEN table ELSE step[<<f[t \ {Max(t)}], Max(t)>>]
    BY <2>0 DEF Folds
  <2>2. f = [t \in SUBSET (1 .. n) |-> f[t]]
    OBVIOUS
  <2>3. \A t \in SUBSET (1 .. n) : t # {} => f[t] = then(f[t \ {Max(t)}], pair.value[Max(t)])
    BY <1>5, <2>1
  <2>4. Fix(f)
    BY <1>1, <2>1, <2>2, <2>3
  <2> QED
    BY <2>4
<1>7. PICK g : g = CHOOSE f : Fix(f)
  OBVIOUS
<1>8. Fix(g)
  BY <1>6, <1>7
<1>9. InheritMethods(table, pair) = g[1 .. n]
  BY <1>1, <1>7 DEF InheritMethods, FoldLeft, MapThenFoldSet, then
<1>10. FoldsAs(g, n, V, table, step)
  BY <1>1, <1>5, <1>8 DEF FoldsAs
<1>11. PICK acc \in [0 .. n -> V] :
            /\ acc[0] = table
            /\ \A k \in 1 .. n : acc[k] = step[<<acc[k - 1], k>>]
            /\ acc[n] = g[1 .. n]
  <2>1. Folded(n, V, table, step, g)
    BY <1>4, <1>10, FoldRun
  <2> QED
    BY <2>1 DEF Folded, Accumulates
<1>12. ASSUME NEW k \in 1 .. n
       PROVE  acc[k] = then(acc[k - 1], pair.value[k])
  <2>1. acc[k - 1] \in V /\ k \in 1 .. n
    OBVIOUS
  <2>2. step[<<acc[k - 1], k>>] = then(acc[k - 1], pair.value[k])
    BY <2>1 DEF step
  <2> QED
    BY <1>11, <2>2
<1> QED
  BY <1>9, <1>11, <1>12 DEF then, InheritRun, V


Inherits(t, u, pair) ==
  /\ u \in MethodTable
  /\ \A name \in Word, argc \in Nat :
       Fit(u, name, argc) =
         Or(Fit(t, name, argc), IF name = pair.label[1] THEN FitIn(pair.value, argc) ELSE <<>>)

Row(g, all, n, argc, b) ==
  n = Len(all) /\ g = [k \in 1 .. n |-> IF b /\ all[k].argc = argc THEN <<all[k]>> ELSE <<>>]

(* The first of a list that fits, as the earliest of the candidates.        *)
LEMMA FitEarliest ==
  ASSUME NEW all \in Seq(Kept), NEW n \in Nat, NEW argc \in Nat, NEW b \in BOOLEAN,
         NEW g, Row(g, all, n, argc, b)
  PROVE  Earliest(g, n) = IF b THEN FitIn(all, argc) ELSE <<>>
<1>1. DOMAIN all = 1 .. n
  BY LenProperties DEF Row
<1>2. CASE b
  <2>1. {k \in 1 .. n : g[k] # <<>>} = Fitting(all, argc)
    BY <1>1, <1>2 DEF Fitting, Row
  <2>2. ASSUME Fitting(all, argc) # {}
        PROVE  g[Min(Fitting(all, argc))] = <<all[Min(Fitting(all, argc))]>>
    <3>1. Fitting(all, argc) \subseteq 1 .. n
      BY <1>1 DEF Fitting
    <3>2. PICK m : m = Min(Fitting(all, argc)) /\ m \in Fitting(all, argc)
      BY <2>2, <3>1, Positions
    <3>3. m \in 1 .. n /\ all[m].argc = argc
      BY <3>1, <3>2 DEF Fitting
    <3> QED
      BY <1>2, <3>2, <3>3 DEF Row
  <2> QED
    BY <1>2, <2>1, <2>2 DEF Earliest, FitIn
<1>3. CASE ~b
  <2>1. {k \in 1 .. n : g[k] # <<>>} = {}
    BY <1>3 DEF Row
  <2> QED
    BY <1>3, <2>1 DEF Earliest
<1> QED
  BY <1>2, <1>3

(* A name of a base answers where the class did not.                        *)
LEMMA InheritMethodsRight ==
  ASSUME NEW table \in MethodTable, NEW pair, Chosen(pair)
  PROVE  Inherits(table, InheritMethods(table, pair), pair)
<1>1. PICK n \in Nat : n = Len(pair.value)
  BY LenProperties DEF Chosen
<1>2. PICK acc \in [0 .. n -> MethodTable] :
           InheritRun(acc, table, pair, n) /\ InheritMethods(table, pair) = acc[n]
  BY <1>1, InheritMethodSteps
<1>3. PICK u : u = InheritMethods(table, pair) /\ u = acc[n] /\ u \in MethodTable
  BY <1>2
<1>4. ASSUME NEW name \in Word, NEW argc \in Nat
      PROVE  Fit(u, name, argc) =
               Or(Fit(table, name, argc), IF name = pair.label[1] THEN FitIn(pair.value, argc) ELSE <<>>)
  <2>1. PICK b \in BOOLEAN : b = (name = pair.label[1])
    OBVIOUS
  <2>2. PICK all \in Seq(Kept) : all = pair.value
    BY DEF Chosen
  <2>3. PICK g : g = [k \in 1 .. n |-> IF b /\ all[k].argc = argc THEN <<all[k]>> ELSE <<>>]
    OBVIOUS
  <2>4. PICK f : f = [k \in 0 .. n |-> Fit(acc[k], name, argc)]
    OBVIOUS
  <2>5. ASSUME NEW k \in 1 .. n
        PROVE  f[k] = Or(f[k - 1], g[k])
    <3>1. k - 1 \in 0 .. n /\ k \in 0 .. n /\ all[k] \in Kept
      BY <1>1, <2>2, ElementOfSeq
    <3>2. PICK v \in MethodTable, p \in Kept : v = acc[k - 1] /\ p = all[k]
      BY <1>2, <3>1
    <3>3. acc[k] = class_define_method(v, pair.label[1], p) /\ pair.label[1] \in Word
      BY <1>2, <2>2, <3>2 DEF InheritRun, Chosen
    <3>4. Adds(v, class_define_method(v, pair.label[1], p), pair.label[1], p)
      BY <3>3, DefineStep
    <3>5. Fit(acc[k], name, argc) =
            Or(Fit(v, name, argc), IF name = pair.label[1] /\ p.argc = argc THEN <<p>> ELSE <<>>)
      BY <3>3, <3>4 DEF Adds
    <3>6. g[k] = IF name = pair.label[1] /\ p.argc = argc THEN <<p>> ELSE <<>>
      BY <2>1, <2>3, <3>2
    <3> QED
      BY <2>4, <3>1, <3>2, <3>5, <3>6
  <2>6. Collects(f, g, n)
    BY <2>5 DEF Collects
  <2>7. f[n] = Or(f[0], Earliest(g, n))
    BY <2>6, OrSteps
  <2>8. Earliest(g, n) = IF b THEN FitIn(all, argc) ELSE <<>>
    <3>1. Row(g, all, n, argc, b)
      BY <1>1, <2>2, <2>3 DEF Row
    <3> QED
      BY <3>1, FitEarliest
  <2>9. f[n] = Fit(u, name, argc) /\ f[0] = Fit(table, name, argc)
    BY <1>2, <1>3, <2>4 DEF InheritRun
  <2> QED
    BY <2>1, <2>2, <2>7, <2>8, <2>9
<1> QED
  BY <1>3, <1>4 DEF Inherits

OwnRow(g, c, methods, n, name, argc) ==
  g = [k \in 1 .. n |-> IF MethodLabel(c, methods[k]) = name /\ methods[k].argc = argc
                        THEN <<Owned(c, methods[k])>> ELSE <<>>]

(* The first declared method that fits, in the same way.                    *)
LEMMA OwnEarliest ==
  ASSUME NEW c, NEW methods, NEW n \in Nat, DOMAIN methods = 1 .. n, NEW name, NEW argc,
         NEW g, OwnRow(g, c, methods, n, name, argc)
  PROVE  Earliest(g, n) = OwnFit(c, methods, name, argc)
<1>1. PICK S : S = OwnFits(c, methods, name, argc)
  OBVIOUS
<1>2. S \subseteq 1 .. n /\ {k \in 1 .. n : g[k] # <<>>} = S
  BY <1>1 DEF OwnFits, OwnRow
<1>3. CASE S = {}
  BY <1>1, <1>2, <1>3 DEF Earliest, OwnFit
<1>4. CASE S # {}
  <2>1. PICK m : m = Min(S) /\ m \in S
    BY <1>2, <1>4, Positions
  <2>2. g[m] = <<Owned(c, methods[m])>>
    BY <1>1, <2>1 DEF OwnFits, OwnRow
  <2> QED
    BY <1>1, <1>2, <1>4, <2>1, <2>2 DEF Earliest, OwnFit
<1> QED
  BY <1>3, <1>4

(* A body as a class has it.                                                *)
Wellformed(body) ==
  /\ \E n \in Nat : DOMAIN body.attributes = 1 .. n /\ \A k \in 1 .. n : Declared(body.attributes[k])
  /\ \E n \in Nat : DOMAIN body.methods = 1 .. n /\ \A k \in 1 .. n : Method(body.methods[k])

(* After its own methods the class answers by the first that fits.          *)
LEMMA OwnMethodsRight ==
  ASSUME NEW c \in Class, NEW body, Wellformed(body), NEW u, u = OwnMethods(c, EmptyTable, body)
  PROVE  /\ u \in MethodTable
         /\ \A name \in Word, argc \in Nat : Fit(u, name, argc) = OwnFit(c, body.methods, name, argc)
<1>1. PICK n \in Nat : DOMAIN body.methods = 1 .. n /\ \A k \in 1 .. n : Method(body.methods[k])
  BY DEF Wellformed
<1>2. PICK acc \in [0 .. n -> MethodTable] : OwnRun(acc, c, body, n) /\ u = acc[n]
  BY <1>1, OwnSteps
<1>3. ASSUME NEW name \in Word, NEW argc \in Nat
      PROVE  Fit(u, name, argc) = OwnFit(c, body.methods, name, argc)
  <2>1. PICK all : all = body.methods
    OBVIOUS
  <2>2. PICK g : OwnRow(g, c, all, n, name, argc)
    BY DEF OwnRow
  <2>3. PICK f : f = [k \in 0 .. n |-> Fit(acc[k], name, argc)]
    OBVIOUS
  <2>4. ASSUME NEW k \in 1 .. n
        PROVE  f[k] = Or(f[k - 1], g[k])
    <3>1. k - 1 \in 0 .. n /\ k \in 0 .. n
      OBVIOUS
    <3>2. PICK v, m : v \in MethodTable /\ v = acc[k - 1] /\ m = all[k] /\ Method(m)
      BY <1>1, <1>2, <2>1, <3>1
    <3>3. acc[k] = OwnMethod(c, v, m)
      BY <1>2, <2>1, <3>2 DEF OwnRun
    <3>4. Adds(v, OwnMethod(c, v, m), MethodLabel(c, m), Owned(c, m)) /\ Owned(c, m).argc = m.argc
      BY <3>2, OwnMethodStep, OwnedType
    <3>5. Fit(acc[k], name, argc) =
            Or(Fit(v, name, argc), IF name = MethodLabel(c, m) /\ m.argc = argc THEN <<Owned(c, m)>> ELSE <<>>)
      BY <3>3, <3>4 DEF Adds
    <3>6. g[k] = IF name = MethodLabel(c, m) /\ m.argc = argc THEN <<Owned(c, m)>> ELSE <<>>
      BY <2>2, <3>2 DEF OwnRow
    <3> QED
      BY <2>3, <3>1, <3>2, <3>5, <3>6
  <2>5. Collects(f, g, n)
    BY <2>4 DEF Collects
  <2>6. f[n] = Or(f[0], Earliest(g, n))
    BY <2>5, OrSteps
  <2>7. Earliest(g, n) = OwnFit(c, all, name, argc)
    BY <1>1, <2>1, <2>2, OwnEarliest
  <2>8. f[n] = Fit(u, name, argc) /\ f[0] = <<>>
    BY <1>2, <2>3, EmptyMethods DEF OwnRun
  <2> QED
    BY <2>1, <2>6, <2>7, <2>8 DEF Or
<1> QED
  BY <1>2, <1>3

(* The pairs of a table of methods.                                         *)
LEMMA PairsChosen ==
  ASSUME NEW t \in MethodTable, NEW k \in 1 .. Len(t.map)
  PROVE  Chosen(t.map[k])
<1>1. t \in TreeTable(Word, Seq(Kept)) /\ t.map[k].label = Label(t.map[k].label[1])
  BY DEF MethodTable
<1>2. t.map[k].label \in Seq(Word) /\ t.map[k].label # <<>> /\ t.map[k].value \in Seq(Kept)
  BY <1>1, TableTypes DEF TreeLabel
<1>3. Len(t.map[k].label) \in Nat /\ Len(t.map[k].label) # 0
  BY <1>2, EmptySeq
<1>4. t.map[k].label[1] \in Word
  BY <1>2, <1>3, ElementOfSeq
<1> QED
  BY <1>1, <1>2, <1>4 DEF Chosen

ExtendRun(acc, table, base, n) ==
  acc[0] = table /\ \A k \in 1 .. n : acc[k] = InheritMethods(acc[k - 1], types[base].methods.map[k])

(* The names of a base are inherited one by one.                            *)
LEMMA ExtendMethodSteps ==
  ASSUME NEW table \in MethodTable, NEW base, types[base].methods \in MethodTable,
         NEW n \in Nat, n = Len(types[base].methods.map)
  PROVE  \E acc \in [0 .. n -> MethodTable] :
           ExtendRun(acc, table, base, n) /\ ExtendMethods(table, base) = acc[n]
<1> DEFINE V == MethodTable
           then(v, e) == InheritMethods(v, e)
           step == [q \in V \X (1 .. n) |-> then(q[1], types[base].methods.map[q[2]])]
           Fix(f) == f = [t \in SUBSET DOMAIN types[base].methods.map |->
                            IF t = {} THEN table ELSE then(f[t \ {Max(t)}], types[base].methods.map[Max(t)])]
<1>1. DOMAIN types[base].methods.map = 1 .. n
  <2>1. types[base].methods.map \in Seq(TreePair(Word, Seq(Kept)))
    BY TableTypes DEF MethodTable
  <2> QED
    BY <2>1, LenProperties
<1>2. \A v \in V, k \in 1 .. n : then(v, types[base].methods.map[k]) \in V
  <2> SUFFICES ASSUME NEW v \in V, NEW k \in 1 .. n PROVE InheritMethods(v, types[base].methods.map[k]) \in V
    OBVIOUS
  <2>1. PICK pair : pair = types[base].methods.map[k] /\ Chosen(pair)
    BY PairsChosen
  <2>2. Inherits(v, InheritMethods(v, pair), pair)
    BY <2>1, InheritMethodsRight
  <2> QED
    BY <2>1, <2>2 DEF Inherits
<1>3. table \in V
  OBVIOUS
<1> HIDE DEF V
<1>4. Folder(n, V, table, step)
  BY <1>2, <1>3 DEF Folder
<1>5. ASSUME NEW g, NEW t \in SUBSET (1 .. n), t # {}, g[t \ {Max(t)}] \in V
      PROVE  step[<<g[t \ {Max(t)}], Max(t)>>] = then(g[t \ {Max(t)}], types[base].methods.map[Max(t)])
  <2>1. Max(t) \in t
    BY <1>5, Positions
  <2>2. Max(t) \in 1 .. n
    BY <2>1
  <2> HIDE DEF then
  <2> QED
    BY <1>5, <2>2
<1> HIDE DEF then, step
<1>6. \E f : Fix(f)
  <2>0. PICK f \in [SUBSET (1 .. n) -> V] : Folds(f, n, table, step)
    BY <1>4, Folding
  <2>1. \A t \in SUBSET (1 .. n) : f[t] = IF t = {} THEN table ELSE step[<<f[t \ {Max(t)}], Max(t)>>]
    BY <2>0 DEF Folds
  <2>2. f = [t \in SUBSET (1 .. n) |-> f[t]]
    OBVIOUS
  <2>3. \A t \in SUBSET (1 .. n) : t # {} => f[t] = then(f[t \ {Max(t)}], types[base].methods.map[Max(t)])
    BY <1>5, <2>1
  <2>4. Fix(f)
    BY <1>1, <2>1, <2>2, <2>3
  <2> QED
    BY <2>4
<1>7. PICK g : g = CHOOSE f : Fix(f)
  OBVIOUS
<1>8. Fix(g)
  BY <1>6, <1>7
<1>9. ExtendMethods(table, base) = g[1 .. n]
  BY <1>1, <1>7 DEF ExtendMethods, FoldLeft, MapThenFoldSet, then
<1>10. FoldsAs(g, n, V, table, step)
  BY <1>1, <1>5, <1>8 DEF FoldsAs
<1>11. PICK acc \in [0 .. n -> V] :
            /\ acc[0] = table
            /\ \A k \in 1 .. n : acc[k] = step[<<acc[k - 1], k>>]
            /\ acc[n] = g[1 .. n]
  <2>1. Folded(n, V, table, step, g)
    BY <1>4, <1>10, FoldRun
  <2> QED
    BY <2>1 DEF Folded, Accumulates
<1>12. ASSUME NEW k \in 1 .. n
       PROVE  acc[k] = then(acc[k - 1], types[base].methods.map[k])
  <2>1. acc[k - 1] \in V /\ k \in 1 .. n
    OBVIOUS
  <2>2. step[<<acc[k - 1], k>>] = then(acc[k - 1], types[base].methods.map[k])
    BY <2>1 DEF step
  <2> QED
    BY <1>11, <2>2
<1> QED
  BY <1>9, <1>11, <1>12 DEF then, ExtendRun, V


TableRow(g, t, n, name, argc) ==
  /\ n = Len(t.map)
  /\ g = [k \in 1 .. n |-> IF name = t.map[k].label[1] THEN FitIn(t.map[k].value, argc) ELSE <<>>]

(* What a table answers, as the earliest over its pairs: a name is there    *)
(* once.                                                                    *)
LEMMA TableEarliest ==
  ASSUME NEW t \in MethodTable, NEW n \in Nat, NEW name \in Word, NEW argc, NEW g, TableRow(g, t, n, name, argc)
  PROVE  Earliest(g, n) = Fit(t, name, argc)
<1>1. n = Len(t.map) /\ Coherent(Word, Seq(Kept), t) /\ t \in TreeTable(Word, Seq(Kept))
  BY DEF TableRow, MethodTable
<1>2. \A k \in 1 .. n : t.map[k].label = Label(name) <=> t.map[k].label[1] = name
  <2> SUFFICES ASSUME NEW k \in 1 .. n PROVE t.map[k].label = Label(name) <=> t.map[k].label[1] = name
    OBVIOUS
  <2>1. t.map[k].label = Label(t.map[k].label[1])
    BY <1>1 DEF MethodTable
  <2> QED
    BY <2>1, LabelSame
<1>3. Label(name) \in TreeLabel(Word)
  BY LabelType
<1>4. PICK p : p = at_find(t.tree, Label(name))
  OBVIOUS
<1>5. p = Tree!at_find(t.tree, Label(name))
  BY <1>4, SameTrees
<1>6. \A k \in 1 .. n : t.map[k].label = Label(name) => k = p
  BY <1>1, <1>3, <1>5, Leads
<1>7. PICK S : S = {k \in 1 .. n : g[k] # <<>>}
  OBVIOUS
<1>8. \A k \in S : k = p
  BY <1>2, <1>6, <1>7 DEF TableRow
<1>9. CASE ~Knows(t, name)
  <2>1. Label(name) \notin TreeLabels(t)
    BY <1>1, <1>9, DefinesRight
  <2>2. \A k \in 1 .. n : t.map[k].label # Label(name)
    BY <1>1, <2>1 DEF TreeLabels
  <2>3. S = {}
    BY <1>2, <1>7, <2>2 DEF TableRow
  <2>4. Defines(t, name) = <<>>
    BY <1>9 DEF Defines
  <2>5. FitIn(<<>>, argc) = <<>>
    BY DEF FitIn, Fitting
  <2> QED
    BY <1>7, <2>3, <2>4, <2>5 DEF Earliest, Fit
<1>10. CASE Knows(t, name)
  <2>1. Label(name) \in TreeLabels(t)
    BY <1>1, <1>10, DefinesRight
  <2>2. p \in 1 .. n /\ t.map[p].label = Label(name)
    BY <1>1, <1>3, <1>5, <2>1, Leads
  <2>3. Defines(t, name) = t.map[p].value
    <3>1. p # NULL
      BY <1>4, <1>10 DEF Knows
    <3> QED
      BY <1>4, <1>10, <3>1 DEF Defines, find
  <2>4. g[p] = Fit(t, name, argc)
    BY <1>2, <2>2, <2>3 DEF TableRow, Fit
  <2>5. CASE S = {}
    <3>1. g[p] = <<>>
      BY <1>7, <2>2, <2>5
    <3> QED
      BY <1>7, <2>4, <2>5, <3>1 DEF Earliest
  <2>6. CASE S # {}
    <3>1. S = {p} /\ p \in Int
      BY <1>8, <2>2, <2>6
    <3>2. S \in SUBSET Int /\ p \in S /\ \A k \in S : p <= k
      BY <3>1
    <3>3. Min(S) = p
      BY <3>2, MinOf
    <3> QED
      BY <1>7, <2>4, <2>6, <3>3 DEF Earliest
  <2> QED
    BY <2>5, <2>6
<1> QED
  BY <1>9, <1>10

ExtendsBy(t, u, base) ==
  /\ u \in MethodTable
  /\ \A name \in Word, argc \in Nat :
       Fit(u, name, argc) = Or(Fit(t, name, argc), Fit(types[base].methods, name, argc))

(* A base answers where the class and the bases before it did not.          *)
LEMMA ExtendMethodsRight ==
  ASSUME NEW table \in MethodTable, NEW base, types[base].methods \in MethodTable
  PROVE  ExtendsBy(table, ExtendMethods(table, base), base)
<1>0. PICK b \in MethodTable : b = types[base].methods
  OBVIOUS
<1>1. PICK n \in Nat : n = Len(b.map)
  BY TableTypes DEF MethodTable
<1>2. PICK acc \in [0 .. n -> MethodTable] :
           ExtendRun(acc, table, base, n) /\ ExtendMethods(table, base) = acc[n]
  BY <1>0, <1>1, ExtendMethodSteps
<1>3. PICK u : u = ExtendMethods(table, base) /\ u = acc[n] /\ u \in MethodTable
  BY <1>2
<1>4. ASSUME NEW name \in Word, NEW argc \in Nat
      PROVE  Fit(u, name, argc) = Or(Fit(table, name, argc), Fit(b, name, argc))
  <2>1. PICK g : TableRow(g, b, n, name, argc)
    BY <1>1 DEF TableRow
  <2>2. PICK f : f = [k \in 0 .. n |-> Fit(acc[k], name, argc)]
    OBVIOUS
  <2>3. ASSUME NEW k \in 1 .. n
        PROVE  f[k] = Or(f[k - 1], g[k])
    <3>1. k - 1 \in 0 .. n /\ k \in 0 .. n
      OBVIOUS
    <3>2. PICK v, pair : v \in MethodTable /\ v = acc[k - 1] /\ pair = b.map[k] /\ Chosen(pair)
      BY <1>1, <1>2, <3>1, PairsChosen
    <3>3. acc[k] = InheritMethods(v, pair)
      BY <1>0, <1>2, <3>2 DEF ExtendRun
    <3>4. Inherits(v, InheritMethods(v, pair), pair)
      BY <3>2, InheritMethodsRight
    <3>5. Fit(acc[k], name, argc) =
            Or(Fit(v, name, argc), IF name = pair.label[1] THEN FitIn(pair.value, argc) ELSE <<>>)
      BY <3>3, <3>4 DEF Inherits
    <3>6. g[k] = IF name = pair.label[1] THEN FitIn(pair.value, argc) ELSE <<>>
      BY <2>1, <3>2 DEF TableRow
    <3> QED
      BY <2>2, <3>1, <3>2, <3>5, <3>6
  <2>4. Collects(f, g, n)
    BY <2>3 DEF Collects
  <2>5. f[n] = Or(f[0], Earliest(g, n))
    BY <2>4, OrSteps
  <2>6. Earliest(g, n) = Fit(b, name, argc)
    BY <2>1, TableEarliest
  <2>7. f[n] = Fit(u, name, argc) /\ f[0] = Fit(table, name, argc)
    BY <1>2, <1>3, <2>2 DEF ExtendRun
  <2> QED
    BY <2>5, <2>6, <2>7
<1> QED
  BY <1>0, <1>3, <1>4 DEF ExtendsBy

MethodRun(acc, c, body, bases, n) ==
  acc[0] = OwnMethods(c, EmptyTable, body) /\ \A k \in 1 .. n : acc[k] = ExtendMethods(acc[k - 1], bases[k])

(* The bases are inherited one by one.                                      *)
LEMMA MethodSteps ==
  ASSUME NEW c \in Class, NEW body, Wellformed(body), NEW bases, NEW n \in Nat, DOMAIN bases = 1 .. n,
         \A k \in 1 .. n : types[bases[k]].methods \in MethodTable
  PROVE  \E acc \in [0 .. n -> MethodTable] :
           MethodRun(acc, c, body, bases, n) /\ Methods(c, body, bases) = acc[n]
<1> DEFINE V == MethodTable
           then(v, e) == ExtendMethods(v, e)
           step == [q \in V \X (1 .. n) |-> then(q[1], bases[q[2]])]
           Fix(f) == f = [t \in SUBSET DOMAIN bases |->
                            IF t = {} THEN OwnMethods(c, EmptyTable, body) ELSE then(f[t \ {Max(t)}], bases[Max(t)])]
<1>1. DOMAIN bases = 1 .. n
  OBVIOUS
<1>2. \A v \in V, k \in 1 .. n : then(v, bases[k]) \in V
  <2> SUFFICES ASSUME NEW v \in V, NEW k \in 1 .. n PROVE ExtendMethods(v, bases[k]) \in V
    OBVIOUS
  <2>1. PICK base : base = bases[k] /\ types[base].methods \in MethodTable
    OBVIOUS
  <2>2. ExtendsBy(v, ExtendMethods(v, base), base)
    BY <2>1, ExtendMethodsRight
  <2> QED
    BY <2>1, <2>2 DEF ExtendsBy
<1>3. OwnMethods(c, EmptyTable, body) \in V
  BY OwnMethodsRight
<1> HIDE DEF V
<1>4. Folder(n, V, OwnMethods(c, EmptyTable, body), step)
  BY <1>2, <1>3 DEF Folder
<1>5. ASSUME NEW g, NEW t \in SUBSET (1 .. n), t # {}, g[t \ {Max(t)}] \in V
      PROVE  step[<<g[t \ {Max(t)}], Max(t)>>] = then(g[t \ {Max(t)}], bases[Max(t)])
  <2>1. Max(t) \in t
    BY <1>5, Positions
  <2>2. Max(t) \in 1 .. n
    BY <2>1
  <2> HIDE DEF then
  <2> QED
    BY <1>5, <2>2
<1> HIDE DEF then, step
<1>6. \E f : Fix(f)
  <2>0. PICK f \in [SUBSET (1 .. n) -> V] : Folds(f, n, OwnMethods(c, EmptyTable, body), step)
    BY <1>4, Folding
  <2>1. \A t \in SUBSET (1 .. n) : f[t] = IF t = {} THEN OwnMethods(c, EmptyTable, body) ELSE step[<<f[t \ {Max(t)}], Max(t)>>]
    BY <2>0 DEF Folds
  <2>2. f = [t \in SUBSET (1 .. n) |-> f[t]]
    OBVIOUS
  <2>3. \A t \in SUBSET (1 .. n) : t # {} => f[t] = then(f[t \ {Max(t)}], bases[Max(t)])
    BY <1>5, <2>1
  <2>4. Fix(f)
    BY <1>1, <2>1, <2>2, <2>3
  <2> QED
    BY <2>4
<1>7. PICK g : g = CHOOSE f : Fix(f)
  OBVIOUS
<1>8. Fix(g)
  BY <1>6, <1>7
<1>9. Methods(c, body, bases) = g[1 .. n]
  BY <1>1, <1>7 DEF Methods, FoldLeft, MapThenFoldSet, then
<1>10. FoldsAs(g, n, V, OwnMethods(c, EmptyTable, body), step)
  BY <1>1, <1>5, <1>8 DEF FoldsAs
<1>11. PICK acc \in [0 .. n -> V] :
            /\ acc[0] = OwnMethods(c, EmptyTable, body)
            /\ \A k \in 1 .. n : acc[k] = step[<<acc[k - 1], k>>]
            /\ acc[n] = g[1 .. n]
  <2>1. Folded(n, V, OwnMethods(c, EmptyTable, body), step, g)
    BY <1>4, <1>10, FoldRun
  <2> QED
    BY <2>1 DEF Folded, Accumulates
<1>12. ASSUME NEW k \in 1 .. n
       PROVE  acc[k] = then(acc[k - 1], bases[k])
  <2>1. acc[k - 1] \in V /\ k \in 1 .. n
    OBVIOUS
  <2>2. step[<<acc[k - 1], k>>] = then(acc[k - 1], bases[k])
    BY <2>1 DEF step
  <2> QED
    BY <1>11, <2>2
<1> QED
  BY <1>9, <1>11, <1>12 DEF then, MethodRun, V


(* Whom a declared class asks: itself, then its bases in their order.       *)
LEMMA MethodsRight ==
  ASSUME NEW c \in Class, NEW body, Wellformed(body), NEW n \in Nat, NEW bases, DOMAIN bases = 1 .. n, Len(bases) = n,
         \A k \in 1 .. n : types[bases[k]].methods \in MethodTable
  PROVE  Dispatches(types, Methods(c, body, bases), c, body.methods, bases)
<1>1. PICK acc \in [0 .. n -> MethodTable] :
           MethodRun(acc, c, body, bases, n) /\ Methods(c, body, bases) = acc[n]
  BY MethodSteps
<1>2. PICK u : u = Methods(c, body, bases) /\ u = acc[n] /\ u \in MethodTable
  BY <1>1
<1>3. ASSUME NEW name \in Word, NEW argc \in Nat, NEW g, BaseRow(types, g, bases, n, name, argc)
      PROVE  Fit(u, name, argc) = Or(OwnFit(c, body.methods, name, argc), Earliest(g, n))
  <2>1. PICK f : f = [k \in 0 .. n |-> Fit(acc[k], name, argc)]
    OBVIOUS
  <2>2. ASSUME NEW k \in 1 .. n
        PROVE  f[k] = Or(f[k - 1], g[k])
    <3>1. k - 1 \in 0 .. n /\ k \in 0 .. n
      OBVIOUS
    <3>2. PICK v, base : v \in MethodTable /\ v = acc[k - 1] /\ base = bases[k] /\ types[base].methods \in MethodTable
      BY <1>1, <3>1
    <3>3. acc[k] = ExtendMethods(v, base)
      BY <1>1, <3>2 DEF MethodRun
    <3>4. ExtendsBy(v, ExtendMethods(v, base), base)
      BY <3>2, ExtendMethodsRight
    <3>5. Fit(acc[k], name, argc) = Or(Fit(v, name, argc), Fit(types[base].methods, name, argc))
      BY <3>3, <3>4 DEF ExtendsBy
    <3>6. g[k] = Fit(types[base].methods, name, argc)
      BY <1>3, <3>2 DEF BaseRow
    <3> QED
      BY <2>1, <3>1, <3>2, <3>5, <3>6
  <2>3. Collects(f, g, n)
    BY <2>2 DEF Collects
  <2>4. f[n] = Or(f[0], Earliest(g, n))
    BY <2>3, OrSteps
  <2>5. f[n] = Fit(u, name, argc) /\ f[0] = OwnFit(c, body.methods, name, argc)
    BY <1>1, <1>2, <2>1, OwnMethodsRight DEF MethodRun
  <2> QED
    BY <2>4, <2>5
<1> QED
  BY <1>2, <1>3 DEF Dispatches
-----------------------------------------------------------------------------
(* A class is declared. *)
LEMMA BodiesRight ==
  ASSUME NEW body \in Bodies
  PROVE  Wellformed(body)
<1>1. PICK as, ms : as = body.attributes /\ ms = body.methods
  OBVIOUS
<1>2. /\ as \in Seq([name : STRING, access : STRING, static : BOOLEAN, value : Value])
      /\ \A i \in DOMAIN as : as[i].static => as[i].value # Void
      /\ ms \in Seq([name : STRING, argc : Nat, vargs : BOOLEAN, access : STRING])
  BY <1>1, ClassesAssumption DEF Value
<1>3. PICK n \in Nat : n = Len(as) /\ DOMAIN as = 1 .. n
  BY <1>2, LenProperties
<1>4. \A k \in 1 .. n : Declared(as[k])
  BY <1>2, <1>3, ElementOfSeq DEF Declared
<1>5. PICK m \in Nat : m = Len(ms) /\ DOMAIN ms = 1 .. m
  BY <1>2, LenProperties
<1>6. \A k \in 1 .. m : Method(ms[k])
  BY <1>2, <1>5, ElementOfSeq DEF Method
<1> QED
  BY <1>1, <1>3, <1>4, <1>5, <1>6 DEF Wellformed

(* The names of the classes.                                                *)
LEMMA NamesType ==
  /\ Len(Names) \in Nat /\ DOMAIN Names = 1 .. Len(Names)
  /\ \A k \in 1 .. Len(Names) : Names[k] \in Class
BY ClassesAssumption, LenProperties DEF Class, Range

(* The class that is declared is a new one.                                 *)
LEMMA NextListed ==
  ASSUME NEW D, Listed(D), Cardinality(D) < Len(Names), NEW c, c = Names[Cardinality(D) + 1]
  PROVE  c \in Class /\ c \notin D /\ Listed(D \union {c})
<1>1. PICK m \in Nat : m = Cardinality(D)
  BY NamesType DEF Listed
<1>2. PICK n \in Nat : n = Len(Names)
  BY NamesType
<1>3. m + 1 \in 1 .. n /\ c = Names[m + 1]
  BY <1>1, <1>2
<1>4. c \in Class
  BY <1>2, <1>3, NamesType
<1>5. c \notin D
  <2>1. \A k \in 1 .. m : Names[k] # Names[m + 1]
    BY <1>2, <1>3, ClassesAssumption
  <2> QED
    BY <1>1, <1>3, <2>1 DEF Listed
<1>6. IsFiniteSet(D \union {c}) /\ Cardinality(D \union {c}) = m + 1
  BY <1>1, <1>5, FS_AddElement DEF Listed
<1>7. D \union {c} = {Names[k] : k \in 1 .. m + 1}
  <2>1. \A k \in 1 .. m + 1 : k \in 1 .. m \/ k = m + 1
    OBVIOUS
  <2>2. m + 1 \in 1 .. m + 1 /\ \A k \in 1 .. m : k \in 1 .. m + 1
    OBVIOUS
  <2>3. D = {Names[k] : k \in 1 .. m}
    BY <1>1 DEF Listed
  <2> QED
    BY <1>3, <2>1, <2>2, <2>3
<1>8. Listed(D \union {c})
  <2>1. PICK E : E = D \union {c}
    OBVIOUS
  <2>2. IsFiniteSet(E) /\ Cardinality(E) = m + 1
    BY <1>6, <2>1
  <2>3. m + 1 \in 0 .. Len(Names)
    BY <1>2, <1>3
  <2>4. E = {Names[k] : k \in 1 .. Cardinality(E)}
    BY <1>7, <2>1, <2>2
  <2> QED
    BY <2>1, <2>2, <2>3, <2>4 DEF Listed
<1> QED
  BY <1>4, <1>5, <1>8

(* A class that is not declared has no slot.                                *)
LEMMA NewClass ==
  ASSUME NEW T, NEW s, Sound(T, s), NEW c \in Class, c \notin DOMAIN T
  PROVE  Unknown(s.slots, c)
<1>1. s.slots \in SlotMaps
  BY SlotMapIs DEF Sound, Typed
<1>2. ASSUME NEW x \in DOMAIN s.slots
      PROVE  x[1] \in DOMAIN T
  <2>1. x \in AllHeld(T, s.instances)
    BY DEF Sound
  <2>2. CASE \E d \in DOMAIN T : x \in Held(T[d])
    <3>1. PICK d \in DOMAIN T : x \in Held(T[d])
      BY <2>2
    <3>2. \E k \in 1 .. Len(T[d].attributes.map) : x = <<d, 0, k>>
      BY <3>1, ProtoHeld DEF Sound
    <3> QED
      BY <3>2
  <2>3. CASE \E i \in DOMAIN s.instances : x \in Held(s.instances[i])
    <3>1. PICK i \in DOMAIN s.instances : x \in Held(s.instances[i])
      BY <2>3
    <3>2. PICK d : d = s.instances[i].class /\ d \in DOMAIN T
      BY DEF Sound, Inst
    <3>3. \E k \in 1 .. Len(T[d].attributes.map) : x = Own(s.slots, d, i, k)
      BY <3>1, <3>2, HeldRight
    <3> QED
      BY <3>2, <3>3 DEF Own
  <2> QED
    BY <2>1, <2>2, <2>3 DEF AllHeld
<1>3. \A k \in Nat : <<c, 0, k>> \notin DOMAIN s.slots
  <2> SUFFICES ASSUME NEW k \in Nat, <<c, 0, k>> \in DOMAIN s.slots PROVE FALSE
    OBVIOUS
  <2>1. <<c, 0, k>>[1] \in DOMAIN T
    BY <1>2
  <2> QED
    BY <2>1
<1> QED
  BY <1>1, <1>3 DEF Unknown

(* A base whose attributes the class can have.                              *)
LEMMA BaseExtendable ==
  ASSUME CInv, NEW base \in DOMAIN types, Counts(base) => "inheritsCounters" \in Habits
  PROVE  Extendable(slots, base)
<1>1. PICK s : s = State
  OBVIOUS
<1>2. Sound(types, s) /\ s.slots = slots /\ Proto(types, base)
  BY <1>1 DEF CInv, Fine, Sound, State
<1>3. PICK a \in FieldTable : a = types[base].attributes
  BY <1>2 DEF Proto
<1>4. PICK n \in Nat : n = Len(a.map) /\ DOMAIN a.map = 1 .. n
  BY FieldTypes
<1>5. ASSUME NEW k \in 1 .. n
      PROVE  Heritable(slots, a.map[k])
  <2>1. PICK x : x = a.map[k].value /\ x = <<base, 0, k>>
    BY <1>2, <1>3, <1>4 DEF Proto
  <2>5. <<base, 0, k>> \in DOMAIN s.slots
    BY <1>2, <1>3, <1>4, ProtoSlots
  <2>6. a.map[k].label[1] \in Word
    BY <1>4, FieldTypes
  <2>2. x \in DOMAIN slots /\ a.map[k].label[1] \in Word
    BY <1>2, <2>1, <2>5, <2>6
  <2>3. ASSUME slots[x].static, Quiet
        PROVE  slots[x].value # Void /\ slots[x].value.kind # "number"
    <3>1. slots[x].value # Void
      BY <1>2, <2>2, <2>3 DEF Sound, Settled, Unset
    <3>2. ~Counts(base)
      BY <2>3 DEF Quiet
    <3>3. Shown(Start, slots[x].value) = slots[x].value
      BY <3>1 DEF Shown
    <3> QED
      BY <2>1, <2>2, <2>3, <3>1, <3>2, <3>3 DEF Counts
  <2> QED
    BY <2>1, <2>2, <2>3 DEF Heritable
<1> QED
  BY <1>3, <1>4, <1>5 DEF Extendable

(* A declaration starts with the slots there are.                           *)
LEMMA StartGrown ==
  ASSUME CInv, NEW c, Unknown(slots, c)
  PROVE  Start \in Grown(slots, c)
<1>1. PICK s : s = State
  OBVIOUS
<1>2. Sound(types, s) /\ s.slots = slots /\ s.default = default
  BY <1>1 DEF CInv, Fine, State
<1>3. Start \in Making /\ Start.slots = slots /\ Start.default = default /\ Start.attributes = EmptyTable
  BY <1>2, EmptyFields DEF Making, Start, Sound, Typed, Unknown
<1>4. Len(EmptyTable.map) = 0
  BY EmptyFields
<1>5. Start \in Growing(slots, c)
  <2>1. \A x : ~\E k \in 1 .. Len(EmptyTable.map) : x = <<c, 0, k>>
    BY <1>4
  <2>2. Quiet => default = 0
    BY <1>2 DEF Sound, Settled
  <2> QED
    BY <1>3, <1>4, <2>1, <2>2 DEF Growing, MadeFrom, Extends
<1> QED
  BY <1>2, <1>3, <1>5 DEF Grown, Sound, Settled

(* The slots of the new class join those there are.                         *)
LEMMA DeclaredSound ==
  ASSUME NEW T, NEW s, Fine(T, s), NEW c \in Class, c \notin DOMAIN T, NEW m \in Grown(s.slots, c),
         NEW ms \in MethodTable, NEW U, U = Bind(T, c, [attributes |-> m.attributes, methods |-> ms]),
         NEW t, t = [default |-> m.default, slots |-> m.slots, instances |-> s.instances,
                     main |-> s.main, hung |-> s.hung]
  PROVE  Fine(U, t)
<1>1. Sound(T, s) /\ DOMAIN s.instances \subseteq Range(s.main)
  BY DEF Fine
<1>2. /\ m \in Making /\ Extends(s.slots, m.slots) /\ m.attributes \in FieldTable
      /\ Quiet => m.default = 0
  BY DEF Grown, Growing, MadeFrom, Making
<1>3. PICK n \in Nat : n = Len(m.attributes.map)
  BY <1>2, FieldTypes
<1>4. /\ \A x : x \in DOMAIN m.slots <=> x \in DOMAIN s.slots \/ \E k \in 1 .. n : x = <<c, 0, k>>
      /\ \A k \in 1 .. n : m.attributes.map[k].value = <<c, 0, k>>
      /\ \A x \in DOMAIN m.slots : m.slots[x].static /\ Unset(m.slots, x) => ~Quiet
  BY <1>3 DEF Grown, Growing
<1>5. /\ t.default = m.default /\ t.slots = m.slots /\ t.instances = s.instances /\ t.main = s.main
  OBVIOUS
<1>6. /\ DOMAIN U = DOMAIN T \union {c}
      /\ U[c] = [attributes |-> m.attributes, methods |-> ms]
      /\ \A d \in DOMAIN T : U[d] = T[d]
  BY DEF Bind
<1>7. Typed(t)
  <2>1. m.slots \in [DOMAIN m.slots -> Attribute] /\ DOMAIN m.slots \subseteq Slot /\ m.default \in 0 .. MaxNumber
    BY <1>2, SlotMapIs DEF Making
  <2> QED
    BY <1>1, <2>1 DEF Typed, Sound
<1>8. Settled(t)
  <2>1. ASSUME NEW x \in DOMAIN m.slots, Unset(m.slots, x)
        PROVE  x[2] = 0
    <3>1. CASE x \in DOMAIN s.slots
      BY <1>1, <1>2, <2>1, <3>1 DEF Sound, Settled, Unset, Extends
    <3>2. CASE x \notin DOMAIN s.slots
      <4>1. PICK k \in 1 .. n : x = <<c, 0, k>>
        BY <1>4, <3>2
      <4> QED
        BY <4>1
    <3> QED
      BY <3>1, <3>2
  <2> QED
    BY <1>2, <1>4, <1>5, <2>1 DEF Settled
<1>9. ASSUME NEW d \in DOMAIN U
      PROVE  Proto(U, d)
  <2>1. CASE d \in DOMAIN T
    <3>1. Proto(T, d) /\ U[d] = T[d]
      BY <1>1, <1>6, <2>1 DEF Sound
    <3> QED
      BY <3>1 DEF Proto
  <2>2. CASE d = c
    <3>1. U[d].attributes = m.attributes /\ U[d].methods = ms
      BY <1>6, <2>2
    <3> QED
      BY <1>2, <1>3, <1>4, <2>2, <3>1 DEF Proto, MethodTable
  <2> QED
    BY <1>6, <2>1, <2>2
<1>10. ASSUME NEW i \in DOMAIN s.instances
       PROVE  Inst(U, m.slots, i, s.instances[i])
  <2>1. PICK r, d : r = s.instances[i] /\ d = r.class
    OBVIOUS
  <2>2. Inst(T, s.slots, i, r) /\ d \in DOMAIN T
    BY <1>1, <2>1 DEF Sound, Inst
  <2>3. ASSUME Whole(T, s.slots, i, r), NEW k \in 1 .. Len(T[d].attributes.map)
        PROVE  <<d, 0, k>> \in DOMAIN s.slots /\ Own(s.slots, d, i, k) \in DOMAIN s.slots
    BY <1>1, <2>1, <2>2, <2>3, ProtoSlots, OwnSlots
  <2>4. Whole(T, s.slots, i, r) => Keeps(T[d].attributes, s.slots, m.slots, d, i)
    BY <1>2, <2>3 DEF Keeps, Extends
  <2>5. Inst(T, m.slots, i, r)
    BY <2>1, <2>2, <2>4, InstKept
  <2>6. U[d] = T[d] /\ d \in DOMAIN U
    BY <1>6, <2>2
  <2> QED
    BY <2>1, <2>5, <2>6 DEF Inst, Whole, Emptied, Prototypes
<1>11. DOMAIN m.slots = AllHeld(U, s.instances)
  <2>1. \A x : x \in Held(U[c]) <=> \E k \in 1 .. n : x = <<c, 0, k>>
    <3>1. c \in DOMAIN U /\ Proto(U, c) /\ U[c].attributes = m.attributes
      BY <1>6, <1>9
    <3> QED
      BY <1>3, <3>1, ProtoHeld
  <2>2. AllHeld(U, s.instances) = AllHeld(T, s.instances) \union Held(U[c])
    <3>1. \A d \in DOMAIN T : Held(U[d]) = Held(T[d])
      BY <1>6
    <3> QED
      BY <1>6, <3>1 DEF AllHeld
  <2>3. DOMAIN s.slots = AllHeld(T, s.instances)
    BY <1>1 DEF Sound
  <2> QED
    BY <1>4, <2>1, <2>2, <2>3
<1>12. Sound(U, t)
  BY <1>5, <1>7, <1>8, <1>9, <1>10, <1>11 DEF Sound
<1> QED
  BY <1>1, <1>5, <1>12 DEF Fine

(* What the bases of a class answer does not change when others are         *)
(* declared.                                                                *)
LEMMA DispatchesKept ==
  ASSUME NEW T, NEW U, NEW u, NEW c, NEW methods, NEW bases, NEW n \in Nat, Len(bases) = n,
         \A k \in 1 .. n : U[bases[k]] = T[bases[k]], Dispatches(T, u, c, methods, bases)
  PROVE  Dispatches(U, u, c, methods, bases)
<1>1. ASSUME NEW g, NEW name, NEW argc, BaseRow(U, g, bases, n, name, argc)
      PROVE  BaseRow(T, g, bases, n, name, argc)
  <2>1. \A k \in 1 .. n : Fit(U[bases[k]].methods, name, argc) = Fit(T[bases[k]].methods, name, argc)
    OBVIOUS
  <2> QED
    BY <1>1, <2>1 DEF BaseRow
<1>2. ASSUME NEW name \in Word, NEW argc \in Nat, NEW g, BaseRow(U, g, bases, Len(bases), name, argc)
      PROVE  Fit(u, name, argc) = Or(OwnFit(c, methods, name, argc), Earliest(g, Len(bases)))
  <2>1. BaseRow(T, g, bases, Len(bases), name, argc)
    BY <1>1, <1>2
  <2> QED
    BY <2>1 DEF Dispatches
<1> QED
  BY <1>2 DEF Dispatches

(* The same for a class and its declaration.                                *)
LEMMA DispatchedKept ==
  ASSUME NEW T, NEW U, NEW D, NEW E, NEW c \in DOMAIN T, Dispatched(T, D, c),
         DOMAIN T \subseteq DOMAIN U, \A d \in DOMAIN T : U[d] = T[d], E[c] = D[c]
  PROVE  Dispatched(U, E, c)
<1>1. PICK bases, methods, u : bases = D[c].bases /\ methods = D[c].body.methods /\ u = T[c].methods
  OBVIOUS
<1>2. PICK n \in Nat : DOMAIN bases = 1 .. n /\ Len(bases) = n
  BY <1>1 DEF Dispatched
<1>3. \A k \in 1 .. n : bases[k] \in DOMAIN T
  BY <1>1, <1>2 DEF Dispatched
<1>4. Dispatches(T, u, c, methods, bases)
  BY <1>1 DEF Dispatched
<1>5. \A k \in 1 .. n : U[bases[k]] = T[bases[k]]
  BY <1>3
<1>6. Dispatches(U, u, c, methods, bases)
  BY <1>2, <1>4, <1>5, DispatchesKept
<1>7. U[c].methods = u /\ E[c].bases = bases /\ E[c].body.methods = methods
  BY <1>1
<1> QED
  BY <1>2, <1>3, <1>6, <1>7 DEF Dispatched

(* A declaration keeps the invariant.                                       *)
LEMMA DeclareStep ==
  ASSUME CInv, NEW class \in Range(Names), NEW body \in Bodies, NEW m \in Nat,
         NEW bases \in [1 .. m -> Classes], Cardinality(Classes) < Len(Names),
         vm_exec_class_declaration(class, body, bases)
  PROVE  CInv'
<1>1. /\ Fine(types, State) /\ Sound(types, State) /\ Classes = DOMAIN types
      /\ DOMAIN types = DOMAIN declared /\ Listed(DOMAIN declared)
  BY DEF CInv, Fine, Classes
<1>2. class \in Class /\ class \notin DOMAIN types /\ Listed(DOMAIN declared \union {class})
  BY <1>1, NextListed DEF vm_exec_class_declaration
<1>3. Unknown(slots, class)
  BY <1>1, <1>2, NewClass DEF State
<1>4. DOMAIN bases = 1 .. m /\ Len(bases) = m /\ \A k \in 1 .. m : bases[k] \in DOMAIN types
  <2>1. bases \in Seq(Classes)
    BY SeqDef
  <2>2. DOMAIN bases = 1 .. m /\ \A k \in 1 .. m : bases[k] \in Classes
    OBVIOUS
  <2>3. PICK n \in Nat : n = Len(bases) /\ DOMAIN bases = 1 .. n
    BY <2>1, LenProperties
  <2>4. n = m
    BY <2>2, <2>3
  <2> QED
    BY <1>1, <2>2, <2>3, <2>4
<1>5. Wellformed(body)
  BY BodiesRight
<1>6. \A k \in 1 .. m : Extendable(slots, bases[k])
  <2> SUFFICES ASSUME NEW k \in 1 .. m PROVE Extendable(slots, bases[k])
    OBVIOUS
  <2>1. bases[k] \in DOMAIN types /\ bases[k] \in Range(bases)
    BY <1>4 DEF Range
  <2>2. Counts(bases[k]) => "inheritsCounters" \in Habits
    BY <2>1 DEF vm_exec_class_declaration
  <2> QED
    BY <2>1, <2>2, BaseExtendable
<1>7. PICK s : s = Attributes(class, body, bases)
  OBVIOUS
<1>8. s \in Grown(slots, class)
  <2>1. Start \in Grown(slots, class)
    BY <1>3, StartGrown
  <2>2. OwnAttributes(class, Start, body) \in Grown(slots, class)
    <3>1. PICK n \in Nat : DOMAIN body.attributes = 1 .. n /\ \A k \in 1 .. n : Declared(body.attributes[k])
      BY <1>5 DEF Wellformed
    <3> QED
      BY <1>3, <2>1, <3>1, OwnGrown
  <2>3. Attributes(class, body, bases) \in Grown(slots, class)
    BY <1>3, <1>4, <1>6, <2>2, AttributesGrown
  <2> QED
    BY <1>7, <2>3
<1>9. PICK ms : ms = Methods(class, body, bases)
  OBVIOUS
<1>10. Dispatches(types, ms, class, body.methods, bases)
  <2>1. \A k \in 1 .. m : types[bases[k]].methods \in MethodTable
    <3> SUFFICES ASSUME NEW k \in 1 .. m PROVE types[bases[k]].methods \in MethodTable
      OBVIOUS
    <3>1. Proto(types, bases[k])
      BY <1>1, <1>4 DEF Sound
    <3> QED
      BY <3>1 DEF Proto, MethodTable, Coherent
  <2>2. Dispatches(types, Methods(class, body, bases), class, body.methods, bases)
    BY <1>2, <1>4, <1>5, <2>1, MethodsRight
  <2> QED
    BY <1>9, <2>2
<1>11. ms \in MethodTable
  BY <1>10 DEF Dispatches
<1>12. types' = Bind(types, class, [attributes |-> s.attributes, methods |-> ms])
  BY <1>7, <1>9 DEF vm_exec_class_declaration
<1>13. declared' = Bind(declared, class, [body |-> body, bases |-> bases])
  BY DEF vm_exec_class_declaration
<1>14. State' = [default |-> s.default, slots |-> s.slots, instances |-> State.instances,
                 main |-> State.main, hung |-> State.hung]
  BY <1>7 DEF vm_exec_class_declaration, State
<1>15. State.slots = slots
  BY DEF State
<1>16. Fine(types', State')
  BY <1>1, <1>2, <1>8, <1>11, <1>12, <1>14, <1>15, DeclaredSound
<1>17. /\ DOMAIN types' = DOMAIN types \union {class} /\ DOMAIN declared' = DOMAIN declared \union {class}
       /\ \A d \in DOMAIN types : types'[d] = types[d] /\ declared'[d] = declared[d]
       /\ types'[class].methods = ms
       /\ declared'[class] = [body |-> body, bases |-> bases]
  BY <1>1, <1>2, <1>12, <1>13 DEF Bind
<1>18. ASSUME NEW d \in DOMAIN types'
       PROVE  Dispatched(types', declared', d)
  <2>1. CASE d \in DOMAIN types
    <3>1. Dispatched(types, declared, d)
      BY <2>1 DEF CInv
    <3> QED
      BY <1>17, <2>1, <3>1, DispatchedKept
  <2>2. CASE d = class
    <3>1. \A k \in 1 .. m : types'[bases[k]] = types[bases[k]]
      BY <1>4, <1>17
    <3>2. Dispatches(types', ms, class, body.methods, bases)
      BY <1>4, <1>10, <3>1, DispatchesKept
    <3>3. declared'[d].bases = bases /\ declared'[d].body = body
      BY <1>17, <2>2
    <3>4. \A k \in DOMAIN bases : bases[k] \in DOMAIN types'
      BY <1>4, <1>17
    <3> QED
      BY <1>4, <1>17, <2>2, <3>2, <3>3, <3>4 DEF Dispatched
  <2> QED
    BY <1>17, <2>1, <2>2
<1>19. DOMAIN types' = DOMAIN declared' /\ Listed(DOMAIN declared')
  BY <1>1, <1>2, <1>17
<1> QED
  BY <1>16, <1>18, <1>19 DEF CInv

(* The initial state.                                                       *)
LEMMA Begins ==
  Init => CInv
<1> SUFFICES ASSUME Init PROVE CInv
  OBVIOUS
<1>1. DOMAIN types = {} /\ DOMAIN declared = {} /\ DOMAIN instances = {} /\ DOMAIN slots = {}
  BY DEF Init
<1>2. Listed({})
  <2>1. PICK E : E = {} /\ Cardinality(E) = 0 /\ IsFiniteSet(E)
    BY FS_EmptySet
  <2>2. E = {Names[k] : k \in 1 .. Cardinality(E)} /\ Cardinality(E) \in 0 .. Len(Names)
    BY <2>1, NamesType
  <2> QED
    BY <2>1, <2>2 DEF Listed
<1>3. Typed(State)
  <2>1. 0 \in 0 .. MaxNumber
    BY ValueTypes
  <2>2. slots \in [DOMAIN slots -> Attribute] /\ instances \in [DOMAIN instances -> InstanceType]
    BY DEF Init
  <2>3. main \in [Variables -> DOMAIN instances \union {NULL}]
    BY DEF Init
  <2> QED
    BY <1>1, <2>1, <2>2, <2>3 DEF Typed, State, Init
<1>4. Sound(types, State)
  <2>1. Settled(State)
    BY <1>1 DEF Settled, State, Init
  <2>2. AllHeld(types, instances) = {}
    BY <1>1 DEF AllHeld
  <2> QED
    BY <1>1, <1>3, <2>1, <2>2 DEF Sound, State
<1> QED
  BY <1>1, <1>2, <1>4 DEF CInv, Fine, State

(* A step that changes nothing.                                             *)
LEMMA Stutters ==
  ASSUME CInv, UNCHANGED vars
  PROVE  CInv'
<1>1. State' = State /\ types' = types /\ declared' = declared
  BY DEF vars, State
<1> QED
  BY <1>1 DEF CInv, Fine, Sound, Dispatched, Dispatches

(* Every step keeps the invariant.                                          *)
LEMMA Steps ==
  ASSUME CInv, Next
  PROVE  CInv'
<1>1. ASSUME NEW class \in Range(Names), NEW body \in Bodies,
             NEW bases \in UNION {[1 .. n -> Classes] : n \in 0 .. MaxBases},
             Cardinality(Classes) < Len(Names), vm_exec_class_declaration(class, body, bases)
      PROVE  CInv'
  <2>1. PICK m \in Nat : bases \in [1 .. m -> Classes]
    BY ClassesAssumption
  <2> QED
    BY <1>1, <2>1, DeclareStep
<1>2. ASSUME NEW variable \in Variables, NEW class \in Classes, NEW argc \in 0 .. MaxArguments,
             vm_exec_new_operator(variable, class, argc)
      PROVE  CInv'
  BY <1>2, NewFine
<1>3. ASSUME NEW variable \in Variables, NEW other \in Variables, Assign(variable, other)
      PROVE  CInv'
  BY <1>3, AssignFine
<1>4. ASSUME NEW variable \in Variables, Forget(variable)
      PROVE  CInv'
  BY <1>4, ForgetStep
<1>5. ASSUME NEW variable \in Variables, class_assign(variable)
      PROVE  CInv'
  BY <1>5, EmptyStep
<1>6. ASSUME NEW variable \in Variables, NEW name, NEW argc, CallMethod(variable, name, argc)
      PROVE  CInv'
  BY <1>6, CalledStep DEF CallMethod
<1>7. ASSUME NEW variable \in Variables, NEW name, NEW argc, CallOperator(variable, name, argc)
      PROVE  CInv'
  BY <1>7, CalledStep DEF CallOperator
<1>8. ASSUME NEW variable \in Variables, NEW name, GetAttribute(variable, name)
      PROVE  CInv'
  BY <1>8, CalledStep DEF GetAttribute
<1>9. ASSUME NEW variable \in Variables, NEW name \in AttributeNames, NEW value \in Numbers,
             SetAttribute(variable, name, value)
      PROVE  CInv'
  BY <1>9, SetAttributeStep
<1>10. ASSUME NEW class \in Classes, NEW name \in AttributeNames, NEW value \in Numbers,
              SetPrototype(class, name, value)
       PROVE  CInv'
  BY <1>10, SetPrototypeStep
<1> QED
  BY <1>1, <1>2, <1>3, <1>4, <1>5, <1>6, <1>7, <1>8, <1>9, <1>10 DEF Next

----------------------------------------------------------------------------
(* In every state each class knows its members, each instance is whole or   *)
(* was emptied by class_free or class_assign, and nobody else has its       *)
(* attributes (class.cpp, vm.cpp).                                          *)
THEOREM Invariance == Spec => []CInv
<1>1. CInv /\ [Next]_vars => CInv'
  BY Steps, Stutters
<1> QED
  BY <1>1, Begins, PTL DEF Spec

(* Attributes have values, every one there is belongs to an object, and the *)
(* variables hold instances there are.                                      *)
THEOREM TypeCorrect == Spec => []TypeOK
<1>1. ASSUME CInv
      PROVE  TypeOK
  <2>1. Typed(State) /\ DOMAIN slots = AllHeld(types, instances)
    BY <1>1 DEF CInv, Fine, Sound, State
  <2>2. default \in 0 .. MaxNumber
    BY <2>1 DEF Typed, State
  <2>3. \A slot \in DOMAIN slots : slots[slot].value \in Numbers \union {Text, Void}
    BY <2>1 DEF Typed, State, Attribute, Value
  <2>4. AllHeld(types, instances) = UNION {Held(o) : o \in Objects}
    BY DEF AllHeld, Objects, Range
  <2>5. Range(main) \subseteq DOMAIN instances \union {NULL}
    BY <2>1 DEF Typed, State, Range
  <2> QED
    BY <2>1, <2>2, <2>3, <2>4, <2>5 DEF TypeOK
<1> QED
  BY <1>1, Invariance, PTL

(* The prototype and the instance share the static attributes, and only     *)
(* them.                                                                    *)
LEMMA StaticsShared ==
  ASSUME CInv, NEW i \in DOMAIN instances, NEW c, c = instances[i].class,
         Whole(types, slots, i, instances[i])
  PROVE  /\ StaticsOf(instances[i]) = StaticsOf(types[c])
         /\ Held(instances[i]) \cap Held(types[c]) = StaticsOf(types[c])
<1>1. PICK s : s = State
  OBVIOUS
<1>2. Sound(types, s) /\ s.slots = slots /\ s.instances = instances
  BY <1>1 DEF CInv, Fine, State
<1>3. c \in DOMAIN types /\ Proto(types, c) /\ i # 0
  BY <1>2 DEF Sound, Inst, Typed
<1>4. PICK n : n = Len(types[c].attributes.map)
  OBVIOUS
<1>5. ASSUME NEW k \in 1 .. n
      PROVE  /\ <<c, 0, k>> \in Held(types[c]) /\ Own(slots, c, i, k) \in Held(instances[i])
             /\ slots[Own(slots, c, i, k)].static = slots[<<c, 0, k>>].static
  <2>1. <<c, 0, k>> \in Held(types[c])
    BY <1>2, <1>3, <1>4, ProtoSlots
  <2>2. Own(slots, c, i, k) \in Held(instances[i])
    BY <1>2, <1>4, OwnSlots
  <2>3. Alike(slots, Own(slots, c, i, k), <<c, 0, k>>)
    BY <1>4 DEF Whole, Copied
  <2> QED
    BY <2>1, <2>2, <2>3 DEF Alike
<1>6. ASSUME NEW x \in Held(types[c]), slots[x].static
      PROVE  x \in Held(instances[i])
  <2>1. PICK k \in 1 .. n : x = <<c, 0, k>>
    BY <1>3, <1>4, ProtoHeld
  <2>2. Own(slots, c, i, k) = x
    BY <1>6, <2>1 DEF Own
  <2> QED
    BY <1>5, <2>1, <2>2
<1>7. ASSUME NEW x \in Held(instances[i])
      PROVE  /\ slots[x].static => x \in Held(types[c])
             /\ x \in Held(types[c]) => slots[x].static
  <2>1. PICK k \in 1 .. n : x = Own(slots, c, i, k)
    <3>1. x \in Held(s.instances[i]) /\ i \in DOMAIN s.instances /\ c = s.instances[i].class
      BY <1>2
    <3>2. \E k \in 1 .. Len(types[s.instances[i].class].attributes.map) :
            x = Own(s.slots, s.instances[i].class, i, k)
      BY <1>2, <3>1, HeldRight
    <3> QED
      BY <1>2, <1>4, <3>1, <3>2
  <2>2. CASE slots[<<c, 0, k>>].static
    BY <1>5, <2>1, <2>2 DEF Own
  <2>3. CASE ~slots[<<c, 0, k>>].static
    <3>1. x = <<c, i, k>> /\ ~slots[x].static
      BY <1>5, <2>1, <2>3 DEF Own
    <3>2. x \notin Held(types[c])
      <4> SUFFICES ASSUME x \in Held(types[c]) PROVE FALSE
        OBVIOUS
      <4>1. PICK j \in 1 .. n : x = <<c, 0, j>>
        BY <1>3, <1>4, ProtoHeld
      <4> QED
        BY <1>3, <3>1, <4>1
    <3> QED
      BY <3>1, <3>2
  <2> QED
    BY <2>2, <2>3
<1> QED
  BY <1>6, <1>7 DEF StaticsOf

(* The invariant says who shares attributes.                                *)
LEMMA SharedRight ==
  ASSUME CInv
  PROVE  AttributesShared
<1>1. PICK s : s = State
  OBVIOUS
<1>2. Sound(types, s) /\ s.slots = slots /\ s.instances = instances
  BY <1>1 DEF CInv, Fine, State
<1>3. ASSUME NEW a \in Classes, NEW b \in Classes, a # b
      PROVE  Held(types[a]) \cap Held(types[b]) = {}
  <2> SUFFICES ASSUME NEW x \in Held(types[a]), x \in Held(types[b]) PROVE FALSE
    OBVIOUS
  <2>1. a \in DOMAIN types /\ Proto(types, a) /\ b \in DOMAIN types /\ Proto(types, b)
    BY <1>2 DEF Sound, Classes
  <2>2. \E k : x = <<a, 0, k>>
    BY <2>1, ProtoHeld
  <2>3. \E k : x = <<b, 0, k>>
    BY <2>1, ProtoHeld
  <2> QED
    BY <1>3, <2>2, <2>3
<1>4. ASSUME NEW i \in DOMAIN instances, instances[i].attributes # EmptyTable
      PROVE  LET prototype == types[instances[i].class]
                 pairs == instances[i].attributes.map
             IN /\ StaticsOf(instances[i]) = StaticsOf(prototype)
                /\ Held(instances[i]) \cap Held(prototype) = StaticsOf(prototype)
                /\ \A j \in DOMAIN instances \ {i} :
                     \A slot \in Held(instances[i]) \cap Held(instances[j]) : slots[slot].static
                /\ Len(pairs) = Len(prototype.attributes.map)
                /\ \A k \in DOMAIN pairs :
                     LET original == prototype.attributes.map[k]
                     IN /\ pairs[k].label = original.label
                        /\ slots[pairs[k].value].access = slots[original.value].access
  <2>1. PICK c : c = instances[i].class
    OBVIOUS
  <2>2. Whole(types, slots, i, instances[i]) /\ c \in DOMAIN types /\ Proto(types, c)
    BY <1>2, <1>4, <2>1 DEF Sound, Inst, Emptied
  <2>3. /\ StaticsOf(instances[i]) = StaticsOf(types[c])
        /\ Held(instances[i]) \cap Held(types[c]) = StaticsOf(types[c])
    BY <2>1, <2>2, StaticsShared
  <2>4. ASSUME NEW j \in DOMAIN instances \ {i}, NEW x \in Held(instances[i]) \cap Held(instances[j])
        PROVE  slots[x].static
    <3>1. slots[x].static \/ x[2] = i
      BY <1>2, HeldRight
    <3>2. slots[x].static \/ x[2] = j
      BY <1>2, HeldRight
    <3> QED
      BY <2>4, <3>1, <3>2
  <2>5. PICK a, p : a = instances[i].attributes /\ p = types[c].attributes
    OBVIOUS
  <2>6. Copied(p, slots, c, i, a)
    BY <2>1, <2>2, <2>5 DEF Whole
  <2>7. Len(a.map) = Len(p.map) /\ DOMAIN a.map = 1 .. Len(p.map)
    <3>1. a \in FieldTable
      BY <1>2, <2>5 DEF Sound, Typed, InstanceType
    <3> QED
      BY <2>6, <3>1, FieldTypes DEF Copied
  <2>8. ASSUME NEW k \in DOMAIN a.map
        PROVE  /\ a.map[k].label = p.map[k].label
               /\ slots[a.map[k].value].access = slots[p.map[k].value].access
    <3>1. p.map[k].value = <<c, 0, k>>
      BY <2>2, <2>5, <2>7 DEF Proto
    <3>2. a.map[k].label = p.map[k].label /\ a.map[k].value = Own(slots, c, i, k)
          /\ Alike(slots, Own(slots, c, i, k), <<c, 0, k>>)
      BY <2>6, <2>7 DEF Copied
    <3> QED
      BY <3>1, <3>2 DEF Alike
  <2> QED
    BY <2>1, <2>3, <2>4, <2>5, <2>7, <2>8
<1> QED
  BY <1>3, <1>4 DEF AttributesShared

(* Objects share static attributes only, and all those of their class;      *)
(* every instance that was not emptied has the attributes of its class      *)
(* (class_clone, class_free).                                               *)
THEOREM SharedAttributes == Spec => []AttributesShared
  BY SharedRight, Invariance, PTL

(* The destructors of an instance run when it is emptied, all of them, and  *)
(* never before or once more (class_free, class_assign).                    *)
THEOREM ExpiresRight == Spec => []ExpiredOnce
<1>1. ASSUME CInv
      PROVE  ExpiredOnce
  <2>1. \A i \in DOMAIN instances : Inst(types, slots, i, instances[i])
    BY <1>1 DEF CInv, Fine, Sound, State
  <2> QED
    BY <2>1 DEF Inst, Whole, Emptied, ExpiredOnce
<1> QED
  BY <1>1, Invariance, PTL

(* The number that attributes without a value share stays 0, if a script    *)
(* neither extends a class that counts in a static attribute nor assigns    *)
(* to an attribute of a prototype that has no value.                        *)
THEOREM VoidStays ==
  ASSUME Quiet
  PROVE  Spec => []VoidKept
<1>1. ASSUME CInv
      PROVE  VoidKept
  <2>1. Settled(State)
    BY <1>1 DEF CInv, Fine, Sound
  <2> QED
    BY <2>1 DEF Settled, State, VoidKept
<1> QED
  BY <1>1, Invariance, PTL

-----------------------------------------------------------------------------
(* What class_get_method finds is the first prototype with the number of    *)
(* arguments of the call, if there is one.                                  *)
LEMMA GetFits ==
  ASSUME NEW o, NEW name, NEW argc \in Nat, Prototypes(o, name) \in Seq(Kept),
         NEW found, found = class_get_method(o, name, argc)
  PROVE  /\ Fits(found, argc) <=> Fit(o.methods, name, argc) # <<>>
         /\ Fits(found, argc) => found = Fit(o.methods, name, argc)
<1>1. PICK all \in Seq(Kept) : all = Prototypes(o, name)
  OBVIOUS
<1>2. Fit(o.methods, name, argc) = FitIn(all, argc)
  BY <1>1 DEF Fit, Defines, Prototypes
<1>3. PICK better : better = {i \in DOMAIN all : all[i].argc # all[1].argc /\ all[i].argc = argc}
  OBVIOUS
<1>4. found = IF better = {} THEN First(all) ELSE <<all[Min(better)]>>
  BY <1>1, <1>3 DEF class_get_method
<1>5. PICK n \in Nat : n = Len(all) /\ DOMAIN all = 1 .. n
  BY LenProperties
<1>6. PICK fit : fit = Fitting(all, argc)
  OBVIOUS
<1>7. fit = {i \in 1 .. n : all[i].argc = argc}
  BY <1>5, <1>6 DEF Fitting
<1>8. FitIn(all, argc) = IF fit = {} THEN <<>> ELSE <<all[Min(fit)]>>
  BY <1>6 DEF FitIn
<1>9. CASE n = 0
  <2>1. all = <<>> /\ better = {} /\ fit = {}
    BY <1>3, <1>5, <1>7, <1>9, EmptySeq
  <2> QED
    BY <1>2, <1>4, <1>8, <2>1 DEF First, Fits
<1>10. CASE n # 0 /\ all[1].argc = argc
  <2>1. better = {} /\ 1 \in fit /\ all # <<>>
    BY <1>3, <1>5, <1>7, <1>10, EmptySeq
  <2>2. Min(fit) = 1
    <3>1. fit \subseteq Int /\ \A k \in fit : 1 <= k
      BY <1>7
    <3> QED
      BY <2>1, <3>1, MinOf
  <2>3. found = <<all[1]>> /\ FitIn(all, argc) = <<all[1]>>
    BY <1>4, <1>8, <2>1, <2>2 DEF First
  <2> QED
    BY <1>2, <1>10, <2>3 DEF Fits
<1>11. CASE n # 0 /\ all[1].argc # argc
  <2>1. better = fit /\ all # <<>>
    BY <1>3, <1>5, <1>7, <1>11, EmptySeq
  <2>2. CASE fit = {}
    <3>1. found = <<all[1]>> /\ FitIn(all, argc) = <<>>
      BY <1>4, <1>8, <2>1, <2>2 DEF First
    <3> QED
      BY <1>2, <1>11, <3>1 DEF Fits
  <2>3. CASE fit # {}
    <3>1. found = <<all[Min(fit)]>> /\ FitIn(all, argc) = <<all[Min(fit)]>>
      BY <1>4, <1>8, <2>1, <2>3
    <3>2. Min(fit) \in fit
      BY <1>7, <2>3, Positions
    <3>3. all[Min(fit)].argc = argc
      BY <1>7, <3>2
    <3> QED
      BY <1>2, <3>1, <3>3 DEF Fits
  <2> QED
    BY <2>2, <2>3
<1> QED
  BY <1>9, <1>10, <1>11

(* The names of methods.                                                    *)
LEMMA MethodTypes ==
  ASSUME CInv
  PROVE  MethodNames \subseteq Word
<1>1. ASSUME NEW c \in DOMAIN types
      PROVE  Labels(types[c].methods) \subseteq Word
  <2>1. Dispatched(types, declared, c)
    BY DEF CInv
  <2>2. PICK t \in MethodTable : t = types[c].methods
    BY <2>1 DEF Dispatched, Dispatches
  <2>3. t.map \in Seq(TreePair(Word, Seq(Kept)))
    BY DEF MethodTable, TreeTable
  <2>4. DOMAIN t.map = 1 .. Len(t.map)
    BY <2>3, LenProperties
  <2>5. \A k \in 1 .. Len(t.map) : t.map[k].label[1] \in Word
    BY PairsChosen DEF Chosen
  <2> QED
    BY <2>2, <2>4, <2>5 DEF Labels
<1>2. "unknown" \in Word
  BY DEF Word
<1> QED
  BY <1>1, <1>2 DEF MethodNames, Classes

(* What a class answers for a name and a number of arguments.               *)
LEMMA ClassFits ==
  ASSUME CInv, NEW c \in DOMAIN types, NEW name \in Word, NEW argc \in Nat,
         NEW found, found = class_get_method(types[c], name, argc)
  PROVE  /\ Fits(found, argc) <=> Fit(types[c].methods, name, argc) # <<>>
         /\ Fits(found, argc) => found = Fit(types[c].methods, name, argc)
<1>1. Proto(types, c)
  BY DEF CInv, Fine, Sound
<1>2. Prototypes(types[c], name) \in Seq(Kept)
  BY <1>1, PrototypesType DEF Proto
<1> QED
  BY <1>2, GetFits

Answers(class, name, argc) ==
  LET methods == declared[class].body.methods
      bases == declared[class].bases
      own == OwnFits(class, methods, name, argc)
      heirs == {i \in DOMAIN bases : Fits(class_get_method(types[bases[i]], name, argc), argc)}
      found == class_get_method(types[class], name, argc)
  IN /\ own # {} => found = <<Owned(class, methods[Min(own)])>>
     /\ own = {} /\ heirs # {} => found = class_get_method(types[bases[Min(heirs)]], name, argc)
     /\ own = {} /\ heirs = {} => ~Fits(found, argc)

(* One class, one name and one number of arguments.                         *)
LEMMA DispatchOne ==
  ASSUME CInv, NEW class \in Classes, NEW name \in MethodNames, NEW argc \in 0 .. MaxArguments
  PROVE  Answers(class, name, argc)
<1> DEFINE
  methods == declared[class].body.methods
  bases == declared[class].bases
  own == OwnFits(class, methods, name, argc)
  heirs == {i \in DOMAIN bases : Fits(class_get_method(types[bases[i]], name, argc), argc)}
  found == class_get_method(types[class], name, argc)
<1> SUFFICES /\ own # {} => found = <<Owned(class, methods[Min(own)])>>
             /\ own = {} /\ heirs # {} => found = class_get_method(types[bases[Min(heirs)]], name, argc)
             /\ own = {} /\ heirs = {} => ~Fits(found, argc)
  BY DEF Answers
<1>1. class \in DOMAIN types /\ name \in Word /\ argc \in Nat
  BY MethodTypes, ClassesAssumption DEF Classes
<1>2. Dispatched(types, declared, class)
  BY <1>1 DEF CInv
<1>3. PICK n \in Nat : DOMAIN bases = 1 .. n /\ Len(bases) = n
  BY <1>2 DEF Dispatched
<1>4. \A k \in 1 .. n : bases[k] \in DOMAIN types
  BY <1>2, <1>3 DEF Dispatched
<1>5. PICK g : BaseRow(types, g, bases, n, name, argc)
  BY DEF BaseRow
<1>6. PICK f : f = Fit(types[class].methods, name, argc)
  OBVIOUS
<1>7. f = Or(OwnFit(class, methods, name, argc), Earliest(g, n))
  <2>1. Dispatches(types, types[class].methods, class, methods, bases)
    BY <1>2 DEF Dispatched
  <2> QED
    BY <1>1, <1>3, <1>5, <1>6, <2>1 DEF Dispatches
<1>8. OwnFit(class, methods, name, argc) = IF own = {} THEN <<>> ELSE <<Owned(class, methods[Min(own)])>>
  BY DEF OwnFit
<1>9. (Fits(found, argc) <=> f # <<>>) /\ (Fits(found, argc) => found = f)
  BY <1>1, <1>6, ClassFits
<1>10. ASSUME NEW k \in 1 .. n, NEW h, h = class_get_method(types[bases[k]], name, argc)
       PROVE  (Fits(h, argc) <=> g[k] # <<>>) /\ (Fits(h, argc) => h = g[k])
  <2>1. g[k] = Fit(types[bases[k]].methods, name, argc)
    BY <1>5 DEF BaseRow
  <2>2. bases[k] \in DOMAIN types
    BY <1>4
  <2> QED
    BY <1>1, <1>10, <2>1, <2>2, ClassFits
<1>11. heirs = {k \in 1 .. n : g[k] # <<>>}
  BY <1>3, <1>10
<1>12. CASE own # {}
  <2>1. PICK p : p = Owned(class, methods[Min(own)])
    OBVIOUS
  <2>2. <<p>> # <<>>
    OBVIOUS
  <2>3. f = <<p>>
    BY <1>7, <1>8, <1>12, <2>1, <2>2 DEF Or
  <2>4. found = <<p>>
    BY <1>9, <2>2, <2>3
  <2> QED
    BY <1>12, <2>1, <2>4
<1>13. CASE own = {} /\ heirs = {}
  <2>1. Earliest(g, n) = <<>>
    BY <1>11, <1>13 DEF Earliest
  <2> QED
    BY <1>7, <1>8, <1>9, <1>13, <2>1 DEF Or
<1>14. CASE own = {} /\ heirs # {}
  <2>1. Min(heirs) \in heirs
    BY <1>11, <1>14, Positions
  <2>2. PICK k \in 1 .. n : k = Min(heirs) /\ g[k] # <<>>
    BY <1>11, <2>1
  <2>3. Earliest(g, n) = g[k]
    BY <1>11, <1>14, <2>2 DEF Earliest
  <2>4. f = g[k] /\ found = g[k]
    BY <1>7, <1>8, <1>9, <1>14, <2>2, <2>3 DEF Or
  <2>5. class_get_method(types[bases[k]], name, argc) = g[k]
    BY <1>10, <2>2
  <2> QED
    BY <1>14, <2>2, <2>4, <2>5
<1> QED
  BY <1>12, <1>13, <1>14

(* A class answers a call by a method it declares for the number of         *)
(* arguments, else by the one of its first base that has one; an instance   *)
(* answers as its class until it is emptied (vm_exec_class_declaration,     *)
(* class_get_method).                                                       *)
THEOREM DispatchesRight == Spec => []DispatchRight
<1>1. ASSUME CInv
      PROVE  DispatchRight
  <2>1. ASSUME NEW o \in Range(instances)
        PROVE  \/ o.methods = types[o.class].methods
               \/ o.methods = EmptyTable /\ o.attributes = EmptyTable
    <3>1. PICK i \in DOMAIN instances : o = instances[i]
      BY DEF Range
    <3>2. Inst(types, slots, i, o)
      BY <1>1, <3>1 DEF CInv, Fine, Sound, State
    <3> QED
      BY <3>2 DEF Inst, Whole, Emptied
  <2>2. \A class \in Classes, name \in MethodNames, argc \in 0 .. MaxArguments :
          Answers(class, name, argc)
    BY <1>1, DispatchOne
  <2> QED
    BY <2>1, <2>2 DEF DispatchRight, Answers, OwnFits
<1> QED
  BY <1>1, Invariance, PTL
=============================================================================
