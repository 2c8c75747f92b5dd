------------------------------ MODULE Classes ------------------------------
(***************************************************************************)
(* Classes and their instances (class.cpp, the handlers of vm.cpp that     *)
(* declare, create and use them): inheritance, the choice of a method,     *)
(* static and plain attributes, clones and destructors.                    *)
(*                                                                         *)
(* An attribute is a slot of its own (class_attribute_t), so that a static *)
(* one can be had by many objects.  Methods and operators are chosen here; *)
(* the statements of their bodies are the other modules' affair, but for   *)
(* what a destructor does, which runs in the middle of an assignment.      *)
(***************************************************************************)
EXTENDS IndexTree, FiniteSetsExt

CONSTANTS
    Variables,    \* variables of the main program that hold instances
    Names,        \* the classes, in the order of their declaration
    Bodies,       \* the declarations a class can have
    Expire,       \* what a destructor does: "counts", "assigns"
    Habits,       \* which irregular things the script does
    MaxBases,     \* bound: the classes one class extends
    MaxArguments, \* bound: the arguments of a call
    MaxNumber     \* bound: numbers

AllHabits == {"inheritsCounters", "setsPrototypes", "overwritesItself"}

Void == [kind |-> "void", number |-> 0]
Number(n) == [kind |-> "number", number |-> n]
Text == [kind |-> "text", number |-> 0]
Numbers == {Number(n) : n \in 0..MaxNumber}

ASSUME ClassesAssumption ==
  /\ Expire \in {"counts", "assigns"} /\ Habits \subseteq AllHabits
  /\ {MaxBases, MaxArguments, MaxNumber} \subseteq Nat
  /\ IsFiniteSet(Variables)
  /\ Names \in Seq(STRING)
  /\ \A i, j \in 1..Len(Names) : Names[i] = Names[j] => i = j  \* vm.cpp: "Class ... already defined"
  /\ \A body \in Bodies :
       /\ body.attributes \in Seq([name : STRING, access : STRING, static : BOOLEAN,
                                   value : Numbers \union {Text, Void}])
       /\ \A i \in DOMAIN body.attributes :
            body.attributes[i].static => body.attributes[i].value # Void
       /\ body.methods \in Seq([name : STRING, argc : Nat, vargs : BOOLEAN, access : STRING])

VARIABLES
    default,   \* the number every attribute without a value shows
    slots,     \* the attributes there are
    declared,  \* what was declared: class to body and bases
    types,     \* the prototypes
    instances, \* the instances a variable holds
    main,      \* variable to instance, or NULL
    hung       \* the thread waits for a mutex it holds
vars == <<default, slots, declared, types, instances, main, hung>>

(* A function with one entry more, or another one. *)
Bind(f, key, value) == [k \in DOMAIN f \union {key} |-> IF k = key THEN value ELSE f[k]]

Label(name) == <<name>>
Knows(table, name) == at_find(table.tree, Label(name)) # NULL
Labels(table) == {table.map[i].label[1] : i \in DOMAIN table.map}

(* What an attribute shows. *)
Shown(s, value) == IF value = Void THEN Number(s.default) ELSE value

(* ob_assign to the value of an attribute.  The void value is one number    *)
(* all attributes share, and a number takes a number in place.              *)
ob_assign(s, slot, value) ==
  IF s.slots[slot].value = Void /\ value.kind = "number"
  THEN [s EXCEPT !.default = value.number]
  ELSE [s EXCEPT !.slots[slot].value = value]

----------------------------------------------------------------------------
(* Declarations. *)
(* owner: a class and the number of its instance, 0 for the prototype. *)
SlotOf(table, owner) == <<owner[1], owner[2], Len(table.map) + 1>>
Prototype(class) == <<class, 0>>

(* s: the state, with the attributes of the object that is being made. *)
Insert(s, owner, name, attribute) ==
  LET slot == SlotOf(s.attributes, owner)
  IN [default |-> s.default, slots |-> Bind(s.slots, slot, attribute),
      attributes |-> insert(s.attributes, Label(name), slot)]

class_define_attribute(s, owner, name, access, static) ==
  Insert(s, owner, name, [access |-> access, static |-> static, value |-> Void])

class_define_method(table, name, prototype) ==
  IF Knows(table, name)
  THEN replace(table, Label(name), Append(find(table, Label(name)), prototype))
  ELSE insert(table, Label(name), <<prototype>>)

(* Own members: a static attribute has its value at once. *)
OwnAttribute(owner, s, a) ==
  IF a.static
  THEN Insert(s, owner, a.name, [access |-> a.access, static |-> TRUE, value |-> a.value])
  ELSE class_define_attribute(s, owner, a.name, a.access, FALSE)

MethodLabel(class, method) == IF method.name = "constructor" THEN class ELSE method.name

Owned(class, method) ==
  [of |-> class, name |-> method.name, argc |-> method.argc, vargs |-> method.vargs,
   access |-> method.access]

OwnMethod(class, table, method) ==
  class_define_method(table, MethodLabel(class, method), Owned(class, method))

(* Inherited members: each is defined once more, after the own ones; the    *)
(* value of a static one is assigned to the void value it is defined with.  *)
InheritAttribute(owner, s, pair) ==
  LET base == s.slots[pair.value]
      next == class_define_attribute(s, owner, pair.label[1], base.access, base.static)
  IN IF base.static
     THEN ob_assign(next, SlotOf(s.attributes, owner), Shown(s, base.value))
     ELSE next

InheritMethods(table, pair) ==
  FoldLeft(LAMBDA t, p : class_define_method(t, pair.label[1], p), table, pair.value)

ExtendAttributes(class, s, base) ==
  FoldLeft(LAMBDA t, a : InheritAttribute(Prototype(class), t, a), s, types[base].attributes.map)

ExtendMethods(table, base) == FoldLeft(InheritMethods, table, types[base].methods.map)

(* What a declaration makes: the attributes, each with its slot, and the    *)
(* methods, which are a table of their own.                                 *)
Start == [default |-> default, slots |-> slots, attributes |-> EmptyTable]

OwnAttributes(class, s, body) ==
  FoldLeft(LAMBDA t, a : OwnAttribute(Prototype(class), t, a), s, body.attributes)

OwnMethods(class, table, body) ==
  FoldLeft(LAMBDA t, m : OwnMethod(class, t, m), table, body.methods)

Attributes(class, body, bases) ==
  FoldLeft(LAMBDA s, base : ExtendAttributes(class, s, base),
           OwnAttributes(class, Start, body), bases)

\* Mutant of Methods: the bases come before the members of the class.
MethodsFirst(class, body, bases) ==
  OwnMethods(class, FoldLeft(ExtendMethods, EmptyTable, bases), body)

Methods(class, body, bases) ==
  FoldLeft(ExtendMethods, OwnMethods(class, EmptyTable, body), bases)

Counts(base) == \E slot \in DOMAIN slots :
  /\ slot[1] = base /\ slots[slot].static
  /\ Shown(Start, slots[slot].value).kind = "number"

vm_exec_class_declaration(class, body, bases) ==
  /\ class = Names[Cardinality(DOMAIN declared) + 1]
  /\ Range(bases) \subseteq DOMAIN declared
  /\ (\E base \in Range(bases) : Counts(base)) => "inheritsCounters" \in Habits
  /\ LET s == Attributes(class, body, bases)
     IN /\ default' = s.default /\ slots' = s.slots
        /\ types' = Bind(types, class, [attributes |-> s.attributes,
                                       methods |-> Methods(class, body, bases)])
  /\ declared' = Bind(declared, class, [body |-> body, bases |-> bases])
  /\ UNCHANGED <<instances, main, hung>>

----------------------------------------------------------------------------
(* The choice of a method: the first prototype, or the first one with the   *)
(* number of arguments of the call if the first has another number.         *)
First(all) == IF all = <<>> THEN <<>> ELSE <<all[1]>>
Prototypes(o, name) == IF Knows(o.methods, name) THEN find(o.methods, Label(name)) ELSE <<>>

\* Mutant of class_get_method: the last one that fits is taken.
class_get_methodLast(o, name, argc) ==
  LET all == Prototypes(o, name)
      fit == {i \in DOMAIN all : all[i].argc = argc}
  IN IF fit = {} THEN First(all) ELSE <<all[Max(fit)]>>

class_get_method(o, name, argc) ==
  LET all == Prototypes(o, name)
      better == {i \in DOMAIN all : all[i].argc # all[1].argc /\ all[i].argc = argc}
  IN IF better = {} THEN First(all) ELSE <<all[Min(better)]>>

Runs(prototype) == [outcome |-> "runs", method |-> <<prototype>>]
Stops(outcome) == [outcome |-> outcome, method |-> <<>>]

class_call_undefined_method(o) ==
  LET found == class_get_method(o, "__method", 2)
  IN IF found = <<>> THEN Stops("fatal") ELSE Runs(found[1])

(* owner: the identifier the method is called on.  The loop over the        *)
(* arguments reads past the last child of the prototype.                    *)
Accepted(m, argc) ==
  IF argc < m.argc \/ (~m.vargs /\ argc > m.argc) THEN Stops("fatal")
  ELSE IF argc > m.argc + 1 THEN Stops("crash")
  ELSE Runs(m)

class_call_method(o, owner, name, argc) ==
  LET found == class_get_method(o, name, argc)
  IN IF found = <<>> THEN class_call_undefined_method(o)
     ELSE IF found[1].access # "public" /\ owner # "me" THEN Stops("fatal")
     ELSE Accepted(found[1], argc)

(* Operators and descriptors ask for the exact number and for no access. *)
class_call_overloaded_operator(o, name, argc) ==
  LET found == class_get_method(o, name, argc)
  IN IF found = <<>> \/ found[1].argc # argc THEN Stops("fatal") ELSE Runs(found[1])

class_call_overloaded_descriptor(o, name, lazy, argc) ==
  IF lazy /\ class_get_method(o, name, argc) = <<>> THEN Stops("undefined")
  ELSE class_call_overloaded_operator(o, name, argc)

(* A constructor may get fewer arguments than it has parameters; without    *)
(* one the arguments are not evaluated.                                     *)
Constructed(o, class, argc) ==
  LET found == class_get_method(o, class, argc)
  IN found # <<>> => IF found[1].vargs THEN argc >= found[1].argc ELSE argc <= found[1].argc

----------------------------------------------------------------------------
(* Attributes. *)
class_get_attribute(o, name) ==
  IF Knows(o.attributes, name) THEN Stops("value")
  ELSE class_call_overloaded_descriptor(o, "__attribute", TRUE, 1)

vm_exec_attribute_request(o, owner, name) ==
  LET got == class_get_attribute(o, name)
  IN IF \/ got.outcome = "undefined"
        \/ /\ got.outcome = "value" /\ owner # "me"
           /\ slots[find(o.attributes, Label(name))].access # "public"
     THEN Stops("fatal") ELSE got

(* An assignment looks at no access. *)
class_set_attribute(o, name, value) ==
  LET s == ob_assign(Start, find(o.attributes, Label(name)), value)
  IN default' = s.default /\ slots' = s.slots

----------------------------------------------------------------------------
(* Instances. *)
State == [default |-> default, slots |-> slots, instances |-> instances, main |-> main,
          hung |-> hung]

Becomes(s) ==
  /\ default' = s.default /\ slots' = s.slots /\ main' = s.main /\ hung' = s.hung
  /\ instances' = [i \in DOMAIN s.instances \cap Range(s.main) |-> s.instances[i]]
  /\ UNCHANGED <<declared, types>>

Fresh(s) == Min((1..Cardinality(Variables) + 1) \ DOMAIN s.instances)

\* Mutant of ClonedPair: static attributes are cloned as well.
ClonedPairAll(owner, s, pair) ==
  Insert(s, owner, pair.label[1],
         [s.slots[pair.value] EXCEPT !.value = Shown(s, @)])

\* Mutant of ClonedPair: the value of an attribute is not cloned.
ClonedPairShallow(owner, s, pair) ==
  LET attribute == s.slots[pair.value]
  IN IF attribute.static
     THEN [s EXCEPT !.attributes = insert(@, pair.label, pair.value)]
     ELSE Insert(s, owner, pair.label[1], attribute)

(* class_clone: a static attribute is taken over, any other gets a slot and *)
(* a value of its own.                                                      *)
ClonedPair(owner, s, pair) ==
  LET attribute == s.slots[pair.value]
  IN IF attribute.static
     THEN [s EXCEPT !.attributes = insert(@, pair.label, pair.value)]
     ELSE Insert(s, owner, pair.label[1], [attribute EXCEPT !.value = Shown(s, @)])

Cloned(owner, s, table) ==
  FoldLeft(LAMBDA t, pair : ClonedPair(owner, t, pair),
           [default |-> s.default, slots |-> s.slots, attributes |-> EmptyTable], table.map)

class_clone(s, class, o) ==
  LET id == Fresh(s)
      new == Cloned(<<class, id>>, s, o.attributes)
  IN [s EXCEPT !.slots = new.slots,
               !.instances = Bind(@, id, [class |-> class, attributes |-> new.attributes,
                                          methods |-> o.methods, referenced |-> FALSE,
                                          expired |-> <<>>])]

(* The body of a destructor counts in a static attribute, or assigns to a   *)
(* variable of the main program: that takes the mutex of its frame, which   *)
(* add holds while it empties the old value of a variable.                  *)
Body(id, s, destructor) ==
  LET o == s.instances[id]
      slot == find(o.attributes, Label("count"))
      run == [s EXCEPT !.instances[id].expired = Append(@, destructor)]
  IN IF Expire = "assigns" THEN [run EXCEPT !.hung = TRUE]
     ELSE IF ~Knows(o.attributes, "count") THEN run
     ELSE ob_assign(run, slot, Number((Shown(s, s.slots[slot].value).number + 1) % (MaxNumber + 1)))

(* class_free: every destructor runs, the inherited ones after the own; the *)
(* slots of the instance go, static ones stay with the prototype.           *)
Expired(s, id) == FoldLeft(LAMBDA t, d : Body(id, t, d), s, Prototypes(s.instances[id], "__expire"))
Held(o) == {o.attributes.map[i].value : i \in DOMAIN o.attributes.map}

\* Mutant of Deleted: the structures of static attributes go as well.
DeletedAll(s, id) == Held(s.instances[id])

Deleted(s, id) == {slot \in Held(s.instances[id]) : ~s.slots[slot].static}

\* Mutant of Cleared: the methods stay.
ClearedAttributes(s, id) ==
  [s EXCEPT !.slots = [slot \in (DOMAIN @) \ Deleted(s, id) |-> @[slot]],
            !.instances[id].attributes = EmptyTable]

Cleared(s, id) ==
  [s EXCEPT !.slots = [slot \in (DOMAIN @) \ Deleted(s, id) |-> @[slot]],
            !.instances[id].attributes = EmptyTable,
            !.instances[id].methods = EmptyTable]

class_free(s, id) == Cleared(Expired(s, id), id)

(* MemorySegment::add to the frame of the main program. *)
add(s, variable, id) ==
  LET prev == s.main[variable]
      next == [s EXCEPT !.main[variable] = id]
  IN IF prev = NULL THEN next ELSE class_free(next, prev)

Marked(s, id) == [s EXCEPT !.instances[id].referenced = TRUE]

(* variable = new class( arguments ) *)
vm_exec_new_operator(variable, class, argc) ==
  /\ Constructed(types[class], class, argc)
  /\ LET id == Fresh(State)
     IN Becomes(add(Marked(class_clone(State, class, types[class]), id), variable, id))

(* variable = other: the instance itself, if it is not marked, or a clone,  *)
(* which stays unmarked.                                                    *)
Assign(variable, other) ==
  LET o == instances[main[other]]
  IN /\ main[other] # NULL
     /\ IF o.referenced
        THEN Becomes(add(class_clone(State, o.class, o), variable, Fresh(State)))
        ELSE /\ main[variable] = main[other] => "overwritesItself" \in Habits
             /\ Becomes(add(Marked(State, main[other]), variable, main[other]))

(* variable = anything else *)
Forget(variable) == main[variable] # NULL /\ Becomes(add(State, variable, NULL))

(* An assignment to a reference to the instance: class_assign empties it;   *)
(* nothing keeps the clone it answers with.                                 *)
class_assign(variable) ==
  main[variable] # NULL /\ Becomes(class_free(State, main[variable]))

(* A method, an operator or a descriptor that runs marks its instance. *)
Called(id, call) == call.outcome = "runs" /\ Becomes(Marked(State, id))

CallMethod(variable, name, argc) ==
  /\ main[variable] # NULL
  /\ Called(main[variable], class_call_method(instances[main[variable]], variable, name, argc))

CallOperator(variable, name, argc) ==
  /\ main[variable] # NULL
  /\ Called(main[variable], class_call_overloaded_operator(instances[main[variable]], name, argc))

GetAttribute(variable, name) ==
  /\ main[variable] # NULL
  /\ Called(main[variable], vm_exec_attribute_request(instances[main[variable]], variable, name))

(* variable.name = value; a name the class does not know goes to its        *)
(* descriptor.                                                              *)
SetAttribute(variable, name, value) ==
  LET o == instances[main[variable]]
  IN /\ main[variable] # NULL
     /\ IF Knows(o.attributes, name)
        THEN class_set_attribute(o, name, value) /\ UNCHANGED <<declared, types, instances, main, hung>>
        ELSE Called(main[variable],
                    class_call_overloaded_descriptor(o, "__attribute", FALSE, 2))

(* class.name = value: the name of a class stands for its prototype.        *)
SetPrototype(class, name, value) ==
  /\ Knows(types[class].attributes, name)
  /\ slots[find(types[class].attributes, Label(name))].value = Void => "setsPrototypes" \in Habits
  /\ class_set_attribute(types[class], name, value)
  /\ UNCHANGED <<declared, types, instances, main, hung>>

----------------------------------------------------------------------------
Init ==
  /\ default = 0 /\ slots = <<>> /\ declared = <<>> /\ types = <<>> /\ instances = <<>>
  /\ main = [variable \in Variables |-> NULL]
  /\ hung = FALSE

Classes == DOMAIN types
AttributeNames == {"unknown"} \union UNION {Labels(types[class].attributes) : class \in Classes}
MethodNames == {"unknown"} \union UNION {Labels(types[class].methods) : class \in Classes}

Next ==
  /\ ~hung
  /\ \/ \E class \in Range(Names), body \in Bodies,
           bases \in UNION {[1..n -> Classes] : n \in 0..MaxBases} :
          Cardinality(Classes) < Len(Names) /\ vm_exec_class_declaration(class, body, bases)
     \/ \E variable \in Variables, class \in Classes, argc \in 0..MaxArguments :
          vm_exec_new_operator(variable, class, argc)
     \/ \E variable, other \in Variables : Assign(variable, other)
     \/ \E variable \in Variables : Forget(variable)
     \/ \E variable \in Variables : class_assign(variable)
     \/ \E variable \in Variables, name \in MethodNames, argc \in 0..MaxArguments :
          CallMethod(variable, name, argc)
     \/ \E variable \in Variables, name \in MethodNames, argc \in 0..MaxArguments :
          CallOperator(variable, name, argc)
     \/ \E variable \in Variables, name \in AttributeNames : GetAttribute(variable, name)
     \/ \E variable \in Variables, name \in AttributeNames, value \in Numbers :
          SetAttribute(variable, name, value)
     \/ \E class \in Classes, name \in AttributeNames, value \in Numbers :
          SetPrototype(class, name, value)

Spec == Init /\ [][Next]_vars
----------------------------------------------------------------------------
(* Every attribute there is belongs to an object, and every object finds    *)
(* its attributes: class_free deletes what the instance owns, no more and   *)
(* no less, whoever shares it.                                              *)
Objects == Range(types) \union Range(instances)

TypeOK ==
  /\ default \in 0..MaxNumber
  /\ \A slot \in DOMAIN slots : slots[slot].value \in Numbers \union {Text, Void}
  /\ DOMAIN slots = UNION {Held(o) : o \in Objects}
  /\ Range(main) \subseteq DOMAIN instances \union {NULL}

(* A call runs the method of the class itself if it declares one for that   *)
(* number of arguments, or else the one of the first base that has one,     *)
(* declared or inherited in its turn: a base never hides what the class     *)
(* declares (types.h: "search for the best match among methods with the     *)
(* same name").  An instance that was not emptied answers as its class does. *)
Fits(found, argc) == found # <<>> /\ found[1].argc = argc

DispatchRight ==
  /\ \A class \in Classes, name \in MethodNames, argc \in 0..MaxArguments :
       LET methods == declared[class].body.methods
           bases == declared[class].bases
           own == {i \in DOMAIN methods : MethodLabel(class, methods[i]) = name /\ methods[i].argc = argc}
           heirs == {i \in DOMAIN bases : Fits(class_get_method(types[bases[i]], name, argc), argc)}
           found == class_get_method(types[class], name, argc)
       IN /\ own # {} => found = <<Owned(class, methods[Min(own)])>>
          /\ own = {} /\ heirs # {} => found = class_get_method(types[bases[Min(heirs)]], name, argc)
          /\ own = {} /\ heirs = {} => ~Fits(found, argc)
  /\ \A o \in Range(instances) :
       \/ o.methods = types[o.class].methods
       \/ o.methods = EmptyTable /\ o.attributes = EmptyTable

(* Two objects have an attribute in common only if it is static and they    *)
(* are the prototype and the instances of one class, which then all have    *)
(* it; the attributes of an instance are those of its class (class.cpp:     *)
(* "insert a reference to the static attribute structure").                 *)
StaticsOf(o) == {slot \in Held(o) : slots[slot].static}

AttributesShared ==
  /\ \A a, b \in Classes : a # b => Held(types[a]) \cap Held(types[b]) = {}
  /\ \A i \in DOMAIN instances : instances[i].attributes # EmptyTable =>
       LET prototype == types[instances[i].class]
           pairs == instances[i].attributes.map
       IN /\ StaticsOf(instances[i]) = StaticsOf(prototype)
          /\ Held(instances[i]) \cap Held(prototype) = StaticsOf(prototype)
          /\ \A j \in DOMAIN instances \ {i} :
               \A slot \in Held(instances[i]) \cap Held(instances[j]) : slots[slot].static
          /\ Len(pairs) = Len(prototype.attributes.map)
          /\ \A k \in DOMAIN pairs :
               LET original == prototype.attributes.map[k]
               IN /\ pairs[k].label = original.label
                  /\ slots[pairs[k].value].access = slots[original.value].access

(* A destructor runs once in the life of an instance, however many          *)
(* variables shared it and were assigned to, the own before the inherited;  *)
(* none runs while the instance is whole.                                   *)
ExpiredOnce ==
  \A i \in DOMAIN instances :
    /\ instances[i].expired \in {<<>>, Prototypes(types[instances[i].class], "__expire")}
    /\ instances[i].methods # EmptyTable => instances[i].expired = <<>>

(* An attribute nobody assigned to shows 0 (vm.cpp: "non ini'ed attributes  *)
(* are set to 0 by default").                                               *)
VoidKept == default = 0

(* A destructor comes back: the assignment that ran it ends.                *)
AssignmentEnds == ~hung
=============================================================================
