------------------------------- MODULE Memory -------------------------------
(***************************************************************************)
(* What the statements of a script do to the objects its variables hold    *)
(* (memory.cpp and the handlers of vm.cpp).  A frame is an index tree from *)
(* identifiers to objects; whether an object is stored itself or as a      *)
(* clone depends on its flag "referenced".                                 *)
(*                                                                         *)
(* The heap is a sequence and an object its position.  After a statement   *)
(* the objects nothing refers to any more are dropped and the others       *)
(* numbered anew: when they are freed is the GarbageCollector's affair.    *)
(***************************************************************************)
EXTENDS IndexTree, FiniteSetsExt, TLC

CONSTANTS
    Variables,  \* the identifiers the script assigns to
    Parameter,  \* the parameter of its function; further arguments have no name
    Fixed,      \* the fixed values it uses: a literal, a call without a value
    Forms,      \* the other expressions it uses
    Habits,     \* which irregular things it does
    MaxNumber,  \* bound: numbers
    MaxItems,   \* bound: the items of a collection
    MaxObjects, \* bound: the heap
    MaxFrames,  \* bound: calls
    MaxLoops    \* bound: loops around a statement

AllHabits ==
  {"overwritesItself", "assignsThrough", "shadows", "walksTwice", "changesConstants"}

AllForms ==
  {"null", "new", "sum", "reference", "item", "attribute", "construct", "array", "map", "vargs"}

ASSUME MemoryAssumption ==
  /\ Fixed \subseteq {"literal", "void"} /\ Forms \subseteq AllForms /\ Habits \subseteq AllHabits
  /\ "shadows" \notin Habits => Parameter \notin Variables
  /\ {MaxNumber, MaxItems, MaxObjects, MaxFrames, MaxLoops} \subseteq Nat

VARIABLES heap, frames
vars == <<heap, frames>>

Names == Variables \union {Parameter}

(* The objects that are there before the script runs: a literal of the     *)
(* syntax tree and the constant null, the value of a call that returns     *)
(* nothing, the error value, the prototype of a structure with one         *)
(* attribute.                                                              *)
Literal == 1
Null == 2
Void == 3
Failure == 4
Prototype == 5
Statics == 1..5

Object(kind, number, items) ==
  [kind |-> kind, number |-> number, items |-> items, referenced |-> FALSE]

Collections == {"vector", "map", "structure"}
Kinds == {"number", "reference"} \union Collections

(* A heap has the items of its objects; a reference has one or none, a map *)
(* a key with every value.                                                 *)
Heaps ==
  {h \in Seq([kind : Kinds, number : Nat, items : Seq(Nat), referenced : BOOLEAN]) :
     \A o \in DOMAIN h :
       /\ Range(h[o].items) \subseteq DOMAIN h
       /\ h[o].kind = "number" => h[o].items = <<>>
       /\ h[o].kind = "reference" => Len(h[o].items) <= 1
       /\ h[o].kind = "map" => Len(h[o].items) % 2 = 0}

Places == {place \in Heaps \X Nat : place[2] \in DOMAIN place[1]}

InitialHeap ==
  <<Object("number", 1, <<>>), Object("reference", 0, <<>>), Object("number", 0, <<>>),
    Object("number", MaxNumber, <<>>), Object("structure", 0, <<Void>>)>>

Constant(o) == o \in {Literal, Null, Prototype}

----------------------------------------------------------------------------
(* Objects.  An operator that changes the heap answers with the heap it    *)
(* leaves and the object the function of the source returns.               *)
Result(h, o) == [heap |-> h, object |-> o]
Created(h, object) == Result(Append(h, object), Len(h) + 1)
Marked(h, o) == [h EXCEPT ![o].referenced = TRUE]

(* The clones of items, one after another. *)
Clones(clone, h, items) ==
  FoldLeft(LAMBDA s, o : [heap |-> clone[<<s.heap, o>>].heap,
                          items |-> Append(s.items, clone[<<s.heap, o>>].object)],
           [heap |-> h, items |-> <<>>], items)

(* A collection is cloned with what it holds, to any depth that the heap    *)
(* has; the depth runs out only where a collection is a part of itself and  *)
(* the code would not return.                                               *)
clones[depth \in Nat] ==
  [place \in Places |->
     LET h == place[1]
         o == place[2]
         all == IF depth = 0 THEN [heap |-> h, items |-> <<>>]
                ELSE Clones(clones[depth - 1], h, h[o].items)
     IN IF h[o].kind \in Collections THEN Created(all.heap, Object(h[o].kind, 0, all.items))
        ELSE Created(h, Object(h[o].kind, h[o].number, h[o].items))]

\* Mutant of ob_clone: the items of a collection are shared.
ob_cloneShallow(h, o) == Created(h, Object(h[o].kind, h[o].number, h[o].items))

ob_clone(h, o) == clones[Len(h)][<<h, o>>]
CloneItems(h, items) == Clones(clones[Len(h)], h, items)

ob_free(h, o) == IF h[o].kind \in Collections THEN [h EXCEPT ![o].items = <<>>] ELSE h

(* A reference that is not null. *)
Refers(h, o) == h[o].kind = "reference" /\ h[o].items # <<>>

(* Where the references from an object on lead: to an object that is none,   *)
(* or to a null reference.                                                  *)
Referred(h, o) ==
  LET led[n \in 0..Len(h)] ==
        IF n = 0 THEN o
        ELSE LET t == led[n - 1]
             IN IF Refers(h, t) THEN h[t].items[1] ELSE t
  IN led[Len(h)]

(* What a reference stands for; NULL for the null reference. *)
Target(h, o) ==
  LET t == Referred(h, o) IN IF h[t].kind = "reference" THEN NULL ELSE t

(* A number takes a number; a reference passes it on; any other object is  *)
(* emptied, and the clone it answers with is the caller's to keep.         *)
ob_assign(h, me, op) ==
  LET t == Referred(h, me) IN
  CASE h[t].kind = "number" /\ h[op].kind = "number" ->
         Result([h EXCEPT ![t].number = h[op].number], t)
    [] h[t].kind = "number" /\ h[op].kind # "number" -> ob_clone(h, op)
    [] h[t].kind = "reference" -> Result(h, t)
    [] OTHER -> ob_clone(ob_free(h, t), op)

(* What an operation works on: the object, or the one a reference stands for. *)
On(h, o) == IF o = NULL THEN NULL ELSE Target(h, o)
Is(h, t, kind) == t # NULL /\ h[t].kind = kind

(* The objects that can be reached, in the order in which they are met.    *)
Join(met, objects) ==
  LET joined[n \in 0..Len(objects)] ==
        IF n = 0 THEN met
        ELSE LET seen == joined[n - 1]
             IN IF objects[n] \in Range(seen) THEN seen ELSE Append(seen, objects[n])
  IN joined[Len(objects)]

Met(h, roots) ==
  LET visited[n \in 0..Len(h)] ==
        IF n = 0 THEN Join(<<>>, roots)
        ELSE LET met == visited[n - 1]
             IN IF n <= Len(met) THEN Join(met, h[met[n]].items) ELSE met
  IN visited[Len(h)]

Reach(h, o) == Range(Met(h, <<o>>))

----------------------------------------------------------------------------
(* Frames. *)
Identifier(name) == <<name>>
Temporary(o) == <<"HTMPOBJ", o>>
IsTemporary(label) == Len(label) = 2 /\ label[1] = "HTMPOBJ"

EmptyFrame == [table |-> EmptyTable, loops |-> <<>>]
Top(fs) == Len(fs)
Table(fs) == fs[Top(fs)].table

push(table, o) == insert(table, <<"HANONYMOUSIDENTIFIER", Len(table.map)>>, o)
push_tmp(table, o) == insert(table, Temporary(o), o)
remove_tmp(table, o) == remove(table, Temporary(o))

\* Mutant of Stored: the object that is taken over is not marked.
StoredUnmarked(h, o) == IF h[o].referenced \/ Constant(o) THEN ob_clone(h, o) ELSE Result(h, o)

(* MemorySegment::add *)
Stored(h, o) == IF h[o].referenced \/ Constant(o) THEN ob_clone(h, o) ELSE Result(Marked(h, o), o)

\* Mutant of add: the value of a known name is added once more.
addTwice(h, table, name, o) ==
  LET next == Stored(h, o)
  IN [heap |-> next.heap, table |-> insert(table, Identifier(name), next.object)]

add(h, table, name, o) ==
  LET Replaced(next, prev) ==
        CASE prev = NULL ->
               [heap |-> next.heap, table |-> insert(table, Identifier(name), next.object)]
          [] prev # NULL /\ Refers(next.heap, prev) ->
               [heap |-> ob_assign(next.heap, prev, next.object).heap, table |-> table]
          [] OTHER ->
               [heap |-> ob_free(next.heap, prev),
                table |-> replace(table, Identifier(name), next.object)]
  IN Replaced(Stored(h, o), find(table, Identifier(name)))

(* vm_exec_identifier: the frame of the function first, then the main one. *)
vm_exec_identifier(fs, name) ==
  LET own == find(Table(fs), Identifier(name))
  IN IF own # NULL THEN own ELSE find(fs[1].table, Identifier(name))

(* vm_exec_assign: the main frame first, then the one of the function. *)
Home(fs, name) == IF find(fs[1].table, Identifier(name)) # NULL THEN 1 ELSE Top(fs)

Add(s, frame, name, o) ==
  LET Changed(r) == [heap |-> r.heap, frames |-> [s.frames EXCEPT ![frame].table = r.table]]
  IN Changed(add(s.heap, s.frames[frame].table, name, o))

----------------------------------------------------------------------------
(* Values of expressions; NULL where the machine gives up or raises.       *)
Atoms == {[op |-> op] : op \in Fixed} \union
         {[op |-> "variable", of |-> name] : name \in Names}

Unary(forms, operands) == {[op |-> op, of |-> operand] : op \in Forms \cap forms, operand \in operands}
Nullary(forms) == {[op |-> op] : op \in Forms \cap forms}

Expressions ==
  Atoms \union Nullary({"null", "new", "vargs"}) \union Unary({"array"}, Atoms)
    \union Unary({"sum", "reference", "item", "attribute", "construct"}, Names)
    \union {[op |-> "map", key |-> [op |-> "variable", of |-> name], of |-> atom] :
              name \in IF "map" \in Forms THEN Names ELSE {}, atom \in Atoms}

(* What the script pushes, walks and explodes; what a function returns. *)
Returned == Atoms \union Unary({"reference"}, Names)
Operands ==
  Returned \union Nullary({"vargs"}) \union Unary({"array"}, {[op |-> op] : op \in Fixed})

(* What can be changed in place. *)
Changeable == {[op |-> op, of |-> name] : op \in {"variable", "item", "attribute"}, name \in Names}

Nothing(h) == Result(h, NULL)

Atom(h, fs, e) ==
  Result(h, CASE e.op = "literal" -> Literal [] e.op = "void" -> Void [] e.op = "null" -> Null
              [] e.op = "variable" -> vm_exec_identifier(fs, e.of))

(* An object becomes an item: itself if nothing has it yet, or a clone.    *)
Item(h, o) == IF h[o].referenced THEN ob_clone(h, o) ELSE Result(Marked(h, o), o)

With(kind, items, r) == Created(r.heap, Object(kind, 0, Append(items, r.object)))

vm_exec_array(h, fs, e) ==
  LET v == Atom(h, fs, e.of).object
  IN IF v = NULL THEN Nothing(h)
     ELSE With("vector", <<>>, Item(h, v))

(* The flag of the value decides for the key as well. *)
Key(h, k, v) == IF h[v].referenced THEN ob_clone(h, k) ELSE Result(h, k)

vm_exec_map(h, fs, e) ==
  LET Pair(key, v) == With("map", <<key.object>>, Item(key.heap, v))
      New(k, v) == IF NULL \in {k, v} THEN Nothing(h) ELSE Pair(Key(h, k, v), v)
  IN New(Atom(h, fs, e.key).object, Atom(h, fs, e.of).object)

vm_exec_reference(h, fs, e) ==
  LET o == vm_exec_identifier(fs, e.of)
  IN IF o = NULL THEN Nothing(h)
     ELSE Created(Marked(h, o), Object("reference", 0, <<o>>))

(* The value of an attribute is assigned to what the attribute holds; what *)
(* the assignment answers with takes its place.                            *)
set_attribute_reference(me, r) ==
  LET Replaced(new) == [new.heap EXCEPT ![me].items = <<new.object>>]
      old == r.heap[me].items
  IN Replaced(IF old = <<>> THEN r ELSE ob_assign(r.heap, old[1], r.object))

set_attribute(h, me, o) == set_attribute_reference(me, Item(h, o))

(* A structure initialised with one value. *)
vm_exec_new(h, fs, e) ==
  LET Initialised(s, o) ==
        IF o = NULL THEN Nothing(h) ELSE Result(set_attribute(s.heap, s.object, o), s.object)
  IN Initialised(ob_clone(h, Prototype), vm_exec_identifier(fs, e.of))

(* The first item of a vector, or the attribute of a structure. *)
ItemOf(h, t, kind) ==
  Result(h, IF Is(h, t, kind) /\ h[t].items # <<>> THEN h[t].items[1] ELSE NULL)

vm_exec_add(h, t) ==
  IF Is(h, t, "number")
  THEN Created(h, Object("number", (h[t].number + 1) % (MaxNumber + 1), <<>>))
  ELSE Nothing(h)

(* Everything the frame holds, local variables and temporaries included.   *)
vm_exec_vargs(h, fs) ==
  LET held == [i \in DOMAIN Table(fs).map |-> Table(fs).map[i].value]
      marked == [o \in DOMAIN h |-> IF o \in Range(held) THEN Marked(h, o)[o] ELSE h[o]]
      all == CloneItems(marked, held)
  IN Created(all.heap, Object("vector", 0, all.items))

vm_exec(h, fs, e) ==
  CASE e.op \in {"literal", "void", "null", "variable"} -> Atom(h, fs, e)
    [] e.op = "new" -> ob_clone(h, Prototype)
    [] e.op = "construct" -> vm_exec_new(h, fs, e)
    [] e.op = "sum" -> vm_exec_add(h, On(h, vm_exec_identifier(fs, e.of)))
    [] e.op = "reference" -> vm_exec_reference(h, fs, e)
    [] e.op = "item" -> ItemOf(h, On(h, vm_exec_identifier(fs, e.of)), "vector")
    [] e.op = "attribute" -> ItemOf(h, On(h, vm_exec_identifier(fs, e.of)), "structure")
    [] e.op = "array" -> vm_exec_array(h, fs, e)
    [] e.op = "map" -> vm_exec_map(h, fs, e)
    [] e.op = "vargs" -> vm_exec_vargs(h, fs)

----------------------------------------------------------------------------
(* Steps.  The objects that can still be reached, in the order in which    *)
(* they are met, are the heap a statement leaves; chains that lead to no    *)
(* pair are left out of the trees, which answer the same without them.      *)
Held(fs) ==
  FoldLeft(LAMBDA held, f : held \o [i \in DOMAIN f.table.map |-> f.table.map[i].value],
           <<Literal, Null, Void, Failure, Prototype>>, fs)

Renumbered(s, live) ==
  LET new == [o \in Range(live) |-> CHOOSE n \in DOMAIN live : live[n] = o]
      NewLabel(label) == IF IsTemporary(label) THEN Temporary(new[label[2]]) ELSE label
      NewTree(tree) ==
        LET kept == {c \in DOMAIN tree :
                       c = <<>> \/ \E d \in DOMAIN tree : tree[d] # NULL /\ c \in Prefixes(d)}
        IN [c \in {NewLabel(d) : d \in kept} |-> tree[CHOOSE d \in kept : NewLabel(d) = c]]
      NewFrame(f) ==
        [table |-> [map  |-> [i \in DOMAIN f.table.map |->
                                [label |-> NewLabel(f.table.map[i].label),
                                 value |-> new[f.table.map[i].value]]],
                    tree |-> NewTree(f.table.tree)],
         loops |-> [i \in DOMAIN f.loops |-> [f.loops[i] EXCEPT !.over = new[f.loops[i].over]]]]
      NewObject(object) ==
        [object EXCEPT !.items = [i \in DOMAIN object.items |-> new[object.items[i]]]]
  IN [heap   |-> [n \in DOMAIN live |-> NewObject(s.heap[live[n]])],
      frames |-> [i \in DOMAIN s.frames |-> NewFrame(s.frames[i])]]

Becomes(next) == heap' = next.heap /\ frames' = next.frames

Settle(s) ==
  LET Become(live) ==
        /\ Len(live) <= MaxObjects
        /\ \A o \in Range(live) :
             Len(s.heap[o].items) <= IF s.heap[o].kind = "map" THEN 2 ELSE MaxItems
        /\ \A i \in DOMAIN s.frames : Len(s.frames[i].table.map) <= MaxItems + 2
        /\ Becomes(Renumbered(s, live))
  IN Become(Met(s.heap, Held(s.frames)))

State(h, fs) == [heap |-> h, frames |-> fs]

(* The irregular assignments: the new value holds what the variable held,   *)
(* which is emptied; the variable holds a reference and the value, or what  *)
(* the reference stands for, is no number.                                  *)
Regular(s, frame, name, o) ==
  LET Overwrites(next, prev) ==
        s.heap[prev].kind \in Collections /\ prev \in Reach(next.heap, next.object)
      Through(prev, t) ==
        /\ Refers(s.heap, prev)
        /\ ~ (Is(s.heap, t, "number") /\ s.heap[o].kind = "number")
      Allowed(prev) ==
        prev # NULL =>
          /\ Overwrites(Stored(s.heap, o), prev) => "overwritesItself" \in Habits
          /\ Through(prev, Target(s.heap, prev)) => "assignsThrough" \in Habits
  IN Allowed(find(s.frames[frame].table, Identifier(name)))

(* The value of an expression: the heap it leaves and its object. *)
Value(e) == vm_exec(heap, frames, e)
Named(name) == vm_exec_identifier(frames, name)

(* name = expression *)
Assigned(s, name, o) == Add(s, Home(s.frames, name), name, o)

Assign(name, r) ==
  /\ r.object # NULL
  /\ Regular(State(r.heap, frames), Home(frames, name), name, r.object)
  /\ Settle(Assigned(State(r.heap, frames), name, r.object))

(* A name that is added to the frame of a function whatever the main frame  *)
(* calls by it; vm_exec_assign would go on with the one of the main frame.  *)
Local(name) ==
  Top(frames) > 1 /\ find(frames[1].table, Identifier(name)) # NULL => "shadows" \in Habits

(* throw expression, with a catch block of the same frame: the exception is *)
(* added to that frame.                                                     *)
Catch(name, r) ==
  /\ r.object # NULL
  /\ Local(name)
  /\ Regular(State(r.heap, frames), Top(frames), name, r.object)
  /\ Settle(Add(State(r.heap, frames), Top(frames), name, r.object))

(* expression++ changes a number in place, whoever holds it. *)
Increment(t) ==
  /\ Is(heap, t, "number")
  /\ t \in Statics => "changesConstants" \in Habits
  /\ Settle(State([heap EXCEPT ![t].number = (@ + 1) % (MaxNumber + 1)], frames))

(* No script of the model makes a collection a part of itself. *)
Takes(t, kind, r) == Is(heap, t, kind) /\ r.object # NULL /\ t \notin Reach(r.heap, r.object)

(* name[] = expression *)
vm_exec_subscript_push(t, r) ==
  LET Pushed(item) == [item.heap EXCEPT ![t].items = Append(@, item.object)]
  IN /\ Takes(t, "vector", r)
     /\ Settle(State(Pushed(Item(r.heap, r.object)), frames))

(* name[0] = expression: the old item is emptied, whoever else has it.      *)
SetItem(t, r) ==
  LET Replaced(item) ==
        [ob_free(item.heap, item.heap[t].items[1]) EXCEPT ![t].items[1] = item.object]
  IN /\ Takes(t, "vector", r)
     /\ heap[t].items # <<>>
     /\ Settle(State(Replaced(Item(r.heap, r.object)), frames))

AddPair(t, key, value) == [key.heap EXCEPT ![t].items = @ \o <<key.object, value>>]

(* name[key] = expression: the value of a key the map has is replaced; a    *)
(* new key is cloned with the value or taken over as it is.                 *)
SetMapped(t, k, r) ==
  LET Known == /\ heap[t].items # <<>>
               /\ heap[heap[t].items[1]].kind = "number"
               /\ heap[heap[t].items[1]].number = heap[k].number
      Replaced(value) ==
        [ob_free(value.heap, value.heap[t].items[2]) EXCEPT ![t].items[2] = value.object]
      New(value) ==
        AddPair(t, IF r.heap[r.object].referenced THEN ob_clone(value.heap, k)
                                                  ELSE Result(value.heap, k), value.object)
      Mapped(value) == IF Known THEN Replaced(value) ELSE New(value)
  IN /\ Takes(t, "map", r)
     /\ Is(heap, k, "number")
     /\ Settle(State(Mapped(Item(r.heap, r.object)), frames))

(* name.attribute = expression: the structure is a temporary of the frame   *)
(* while the expression is evaluated.  An attribute that holds a reference  *)
(* passes the value on, and the structure takes what it stands for.         *)
SetAttribute(t, r) ==
  /\ Takes(t, "structure", r)
  /\ (\E a \in Range(heap[t].items) : Refers(heap, a)) => "assignsThrough" \in Habits
  /\ Settle(State(set_attribute(r.heap, t, r.object),
                  [frames EXCEPT ![Top(frames)].table = remove_tmp(push_tmp(@, t), t)]))

----------------------------------------------------------------------------
(* Calls.  An argument is bound as it is, without a clone: the parameter    *)
(* and the variable of the caller are one object until one is assigned to.  *)
Bound(s, argument) ==
  LET Taken(r) ==
        State(Marked(r.heap, r.object),
              [s.frames EXCEPT ![Top(s.frames)].table =
                 IF @.map = <<>> THEN insert(@, Identifier(Parameter), r.object)
                                 ELSE push(@, r.object)])
  IN Taken(vm_exec(s.heap, SubSeq(s.frames, 1, Top(s.frames) - 1), argument))

Arguments == {<<a>> : a \in Atoms} \union {<<[op |-> op], [op |-> op]>> : op \in Fixed}

vm_prepare_stack(arguments) ==
  /\ Top(frames) < MaxFrames
  /\ \A i \in DOMAIN arguments : Value(arguments[i]).object # NULL
  /\ Settle(FoldLeft(Bound, State(heap, Append(frames, EmptyFrame)), arguments))

(* return expression, and the statement of the caller that goes on: the     *)
(* value is left or assigned.                                               *)
Return(into, r) ==
  LET s == State(r.heap, SubSeq(frames, 1, Top(frames) - 1))
  IN /\ Top(frames) > 1 /\ r.object # NULL
     /\ \A i \in DOMAIN into : Regular(s, Home(s.frames, into[i]), into[i], r.object)
     /\ Settle(IF into = <<>> THEN s ELSE Assigned(s, into[1], r.object))

----------------------------------------------------------------------------
(* Loops.  The collection is a temporary of the frame until the loop ends;  *)
(* how often it goes round is decided at its start.                         *)
Loops(fs) == fs[Top(fs)].loops
Temporaries(frame) == {i \in DOMAIN frame.table.map : IsTemporary(frame.table.map[i].label)}

Foreach(kind, names, r) ==
  LET Walked(t) ==
        /\ Is(r.heap, t, kind)
        /\ kind = "map" => r.object = t
        /\ Settle(State(r.heap, [frames EXCEPT ![Top(frames)] =
             [table |-> push_tmp(@.table, r.object),
              loops |-> Append(@.loops, [names |-> names, over |-> r.object, index |-> 0,
                                         size |-> Len(r.heap[t].items) \div Len(names)])]]))
  IN /\ r.object # NULL
     /\ \A i \in DOMAIN names : Local(names[i])
     /\ \A i \in DOMAIN frames : Len(frames[i].loops) < IF i = Top(frames) THEN MaxLoops ELSE 1
     /\ (\E i \in DOMAIN Loops(frames) : Loops(frames)[i].over = r.object)
          => "walksTwice" \in Habits
     /\ Walked(On(r.heap, r.object))

vm_exec_foreach(name, r) == Foreach("vector", <<name>>, r)
vm_exec_foreach_mapping(key, value, r) == Foreach("map", <<key, value>>, r)

\* Mutant of LoopDone: the temporary stays.
LoopDoneKeeps(s) ==
  [s EXCEPT !.frames[Top(s.frames)].loops = SubSeq(@, 1, Len(@) - 1)]

(* The loop ends after its last round, or with a break. *)
LoopDone(s) ==
  LET n == Len(Loops(s.frames))
      over == Loops(s.frames)[n].over
  IN State(s.heap, [s.frames EXCEPT ![Top(s.frames)] =
                      [table |-> remove_tmp(@.table, over), loops |-> SubSeq(@.loops, 1, n - 1)]])

EndLoop == Loops(frames) # <<>> /\ Settle(LoopDone(State(heap, frames)))

(* A round adds the next item to the frame of the loop.  A vector that has  *)
(* lost the item raises an exception: the variable gets the error value and *)
(* the loops of the frame are left.  A map is read without a test, so the   *)
(* script has to leave alone the map it walks.                              *)
AllDone(s) ==
  LET done[n \in 0..Len(Loops(s.frames))] == IF n = 0 THEN s ELSE LoopDone(done[n - 1])
  IN done[Len(Loops(s.frames))]

AddAll(s, names, values) ==
  FoldLeft(LAMBDA t, i : Add(t, Top(t.frames), names[i], values[i]), s, [i \in DOMAIN values |-> i])

RegularAll(s, names, values) ==
  \A i \in DOMAIN values :
    Regular(AddAll(s, SubSeq(names, 1, i - 1), SubSeq(values, 1, i - 1)), Top(s.frames),
            names[i], values[i])

Given(s, names, there, values) ==
  LET After(next) == Settle(IF there THEN next ELSE AllDone(next))
  IN RegularAll(s, names, values) /\ After(AddAll(s, names, values))

Iterate ==
  LET Round(loop, items, width) ==
        LET there == (loop.index + 1) * width <= Len(items)
        IN /\ loop.index < loop.size
           /\ width = 2 => there
           /\ Given(State(heap, [frames EXCEPT ![Top(frames)].loops[Len(Loops(frames))].index = @ + 1]),
                    loop.names, there,
                    IF there THEN SubSeq(items, loop.index * width + 1, (loop.index + 1) * width)
                             ELSE <<Failure>>)
  IN /\ Loops(frames) # <<>>
     /\ Target(heap, Last(Loops(frames)).over) # NULL
     /\ Round(Last(Loops(frames)), heap[Target(heap, Last(Loops(frames)).over)].items,
              Len(Last(Loops(frames)).names))

(* explode expression into names: each is set to false first, which empties *)
(* what it held, the exploded vector itself if it is one of them; an item   *)
(* that is gone raises an exception and the error value is added.           *)
Cleared(s, name) ==
  LET Set(false) == Add(State(false.heap, s.frames), Top(s.frames), name, false.object)
  IN Set(Created(s.heap, Object("number", 0, <<>>)))

vm_exec_explode(names, r) ==
  LET Fill(s, values) == RegularAll(s, names, values) /\ Settle(AddAll(s, names, values))
      Left(items, i) == IF i <= Len(items) THEN items[i] ELSE Failure
      Exploded(t, s) ==
        /\ Is(r.heap, t, "vector")
        /\ Fill(s, [i \in 1..Min({Len(names), Len(r.heap[t].items)}) |->
                      Left(s.heap[t].items, i)])
  IN /\ r.object # NULL
     /\ \A i \in DOMAIN names : Local(names[i])
     /\ RegularAll(State(r.heap, frames), names, [i \in DOMAIN names |-> Void])
     /\ Exploded(On(r.heap, r.object), FoldLeft(Cleared, State(r.heap, frames), names))

----------------------------------------------------------------------------
Init == heap = InitialHeap /\ frames = <<EmptyFrame>>

(* The main program has no parameter, the function no variable of its own   *)
(* but its parameter.                                                       *)
Assignable ==
  IF Top(frames) = 1 THEN Variables
  ELSE {name \in Names : name = Parameter \/ find(frames[1].table, Identifier(name)) # NULL}

Next ==
  \/ \E name \in Assignable, e \in Expressions : Assign(name, Value(e))
  \/ \E name \in Assignable, e \in Atoms : Catch(name, Value(e))
  \/ \E e \in Changeable : Increment(On(heap, Value(e).object))
  \/ \E name \in Names, e \in Operands : vm_exec_subscript_push(On(heap, Named(name)), Value(e))
  \/ \E name \in Names, e \in Operands : SetItem(On(heap, Named(name)), Value(e))
  \/ \E name, key \in Names, e \in Atoms :
       SetMapped(On(heap, Named(name)), Named(key), Value(e))
  \/ \E name \in Names, e \in Operands : SetAttribute(On(heap, Named(name)), Value(e))
  \/ \E arguments \in Arguments : vm_prepare_stack(arguments)
  \/ \E into \in {<<name>> : name \in Variables} \union {<<>>}, e \in Returned :
       Return(into, Value(e))
  \/ \E name \in Assignable, e \in Operands : vm_exec_foreach(name, Value(e))
  \/ \E key, value \in Assignable, e \in Atoms : vm_exec_foreach_mapping(key, value, Value(e))
  \/ Iterate
  \/ EndLoop
  \/ \E name \in Assignable, e \in Operands : vm_exec_explode(<<name>>, Value(e))

Spec == Init /\ [][Next]_vars
----------------------------------------------------------------------------
(* The array and the tree of a frame agree: every pair is the one its label *)
(* leads to, whatever was inserted, replaced or removed before (itree.h:    *)
(* "They points to the same objects"), and holds an object of the heap      *)
(* whose own items are there, a key with every value.  References lead to an *)
(* object in the end, as the recursion of their operators needs.            *)
TableAgrees ==
  /\ \A i \in DOMAIN frames :
       /\ Shadowed(frames[i].table) = {}
       /\ \A j \in DOMAIN frames[i].table.map : frames[i].table.map[j].value \in DOMAIN heap
  /\ \A o \in DOMAIN heap :
       /\ \A i \in DOMAIN heap[o].items : heap[o].items[i] \in DOMAIN heap
       /\ heap[o].kind = "map" => Len(heap[o].items) % 2 = 0
       /\ ~Refers(heap, Referred(heap, o))

(* The flag "referenced" keeps count as well as a flag can: an object no    *)
(* variable and no collection has marked is held by one of them at most,    *)
(* and a marked one, which is cloned from then on, by two.  Arguments and   *)
(* the keys of a map are bound without looking at the flag and not counted. *)
Slots ==
  {s \in (DOMAIN frames) \X (1..(MaxItems + 2)) :
     LET map == frames[s[1]].table.map
     IN s[2] \in DOMAIN map /\ Len(map[s[2]].label) = 1 /\ map[s[2]].label[1] \in Variables}
Items ==
  {s \in (DOMAIN heap \ Statics) \X (1..(MaxItems + 2)) :
     LET holder == heap[s[1]]
     IN /\ s[2] \in DOMAIN holder.items /\ holder.kind \in Collections
        /\ holder.kind = "map" => s[2] = 2}
Holders(o) ==
  Cardinality({s \in Slots : frames[s[1]].table.map[s[2]].value = o})
    + Cardinality({s \in Items : heap[s[1]].items[s[2]] = o})

HoldersBounded ==
  \A o \in DOMAIN heap : Holders(o) <= IF heap[o].referenced THEN 2 ELSE 1

(* A value as the script sees it, to a depth. *)
shown[depth \in Nat] ==
  [place \in Places |->
     LET h == place[1]
         t == h[Referred(h, place[2])]
     IN IF depth = 0 THEN <<>>
        ELSE <<t.kind, IF t.kind = "number" THEN t.number ELSE 0,
               [i \in DOMAIN t.items |-> shown[depth - 1][<<h, t.items[i]>>]]>>]

(* The object and, if it is a collection, what it holds; a reference does   *)
(* not own what it stands for.                                              *)
Owned(h, o) ==
  Reach([n \in DOMAIN h |->
           IF h[n].kind \in Collections THEN h[n] ELSE [h[n] EXCEPT !.items = <<>>]], o)

(* After name = expression the name stands for the value the expression     *)
(* had, in the frame that runs; and where the value was an object others    *)
(* have, the name has none of its objects but the ones it was given: what   *)
(* is done to one of them never shows in the other.                         *)
AssignmentCopies ==
  LET Fresh(r, before, s, after) ==
        /\ shown[Len(r.heap)][<<s.heap, after>>] = shown[Len(r.heap)][<<r.heap, r.object>>]
        /\ r.heap[r.object].referenced /\ after # before
             => Owned(s.heap, after) \cap DOMAIN r.heap = {}
      After(r, name, s) ==
        Fresh(r, find(frames[Home(frames, name)].table, Identifier(name)), s,
              vm_exec_identifier(s.frames, name))
      Copied(r, name) ==
        r.object # NULL /\ Regular(State(r.heap, frames), Home(frames, name), name, r.object)
          => After(r, name, Assigned(State(r.heap, frames), name, r.object))
  IN \A name \in Assignable, e \in Expressions : Copied(Value(e), name)

(* A temporary stays in its frame as long as its loop and no longer         *)
(* (memory.h: "Special method to remove temporary values from the stack").  *)
TempsReleased ==
  \A i \in DOMAIN frames :
    LET temporaries == Temporaries(frames[i])
    IN /\ Cardinality(temporaries) = Len(frames[i].loops)
       /\ {frames[i].table.map[j].value : j \in temporaries}
            = {frames[i].loops[j].over : j \in DOMAIN frames[i].loops}
=============================================================================
