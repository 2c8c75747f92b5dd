# Verification of the hybris virtual machine

TLA+ specifications of the hybris interpreter (`src/`), configurations that
model-check them with TLC, and proofs checked by TLAPS.  The first part of this
file is the inventory of the system; the rest says what each module models, what
each run checks, what is proved, and what is left out.

Everything runs in this directory: `tlc -config X.cfg M` for a run,
`tlapm M.tla` for a module of proofs.  `PROJECT.json` lists the runs, the source
lines of every definition, the hazards of the code with the properties that
address them, and the theorems.

## 1. Inventory

Hybris parses a script and executes its syntax tree.  A script's values are C++
objects owned by one garbage collector; its variables live in memory frames; a
stack of frames (a *scope*) belongs to each thread the script creates.

| Component | State | Operations | Talks to |
|---|---|---|---|
| Garbage collector (`vm/gc.cpp`, `gc.h`) | three lists of objects (heap, lag, constants), marks, survival counts, memory usage, thresholds | `gc_track`, `gc_mark`, `gc_collect`, `gc_sweep_generation`, `gc_free`, `gc_release` | reads the frames of a scope under VM_MM; runs `ob_free` of a type, and through it destructors |
| Interpreter (`vm/vm.cpp`) | state of the frame being run (Exception, Return, Next, Break), C++ locals holding values | `vm_exec` and a handler per kind of node; `vm_prepare_stack`, `vm_dismiss_stack` | pushes and pops frames, allocates, collects at each statement |
| Threads and scopes (`std/os/threads.cc`, `vm.h`) | map from thread to scope, VM_TSYNC, VM_MM | create, worker, exit, join; `vm_pool`, `vm_depool`, `vm_find_scope` | every call of the interpreter looks its scope up |
| Errors and end (`core/common.cpp`, `vm_release`, `main.cpp`) | `releasing` | `hyb_error`, `yyerror`, `vm_release` | empties the map of scopes, signals the threads, releases the pool |
| Memory frame (`memory.h`, `memory.cpp`) | names and values (`itree.h`, `asciitree.cpp`) | `add`, `push`, `push_tmp`, `remove_tmp`, `get`, `clone` | clones or takes over the value; empties the replaced one |
| Types (`core/types/*.cpp`, `types.h`) | value, `referenced`, children | traverse, clone, free, assign, collection operators, methods | children are what the collector follows |
| Classes (`class.cpp`) | attributes, methods with prototypes | attribute access, method resolution, operators, `__expire` | calls the interpreter back |
| Containers (`llist.cpp`, `darray.cpp`, `asciitree.cpp`, `itree.h`) | pointers and counters | append, move, remove, merge; insert, find, remove | used by all of the above, with and without a lock |
| Code segment and caches (`code.cpp`, `vm.h`) | function nodes, function cache, pattern cache | add, get; check, then insert | shared by all threads |
| Front end (lexer, parser, nodes), modules, debugger, standard library | syntax tree, handles | parsing, `dlopen`, system calls | |

What is hard here:

* **Concurrency.**  Threads share the pool, the map of scopes and the caches.
  VM_MM guards frames and the map, but not every reader takes it; the pool has a
  mutex of its own that the collector never takes.
* **Who still needs an object.**  Roots are the frames of one scope.  Values held
  by a C++ local of an expression, by a class prototype or by another thread are
  not roots.
* **Failure in the middle.**  `hyb_error` can be called from anywhere, also under
  VM_MM, and releases the whole machine, which takes VM_MM.
* **Callbacks.**  A sweep runs destructors, which run the interpreter, which
  pushes frames and collects.
* **Sharing.**  Values are copied on assignment, but only when one bit says that
  somebody has them already; arguments, keys and loops are bound without a copy.
* **Everything twice.**  Each operator exists plain and compound, for six types; each
  container keeps a counter or an index beside its items.
* **Numbers.**  Unsigned counters and indices, a survival rate, a limit on nested calls.

What makes each part correct:

* collector: an object that a frame reaches is never deleted; what is not reached
  is; each object is in one list; the counter is the memory of the lists; one
  collector at a time, on frames that stand still; a collection ends;
* threads: a thread finds its own, complete scope from its first lookup to its
  last; a scope is changed by its thread only; an id given out again starts
  afresh; a created thread starts; a fatal error ends the process; no deadlock;
* interpreter: an exception reaches the nearest `try` or the end of the program, and
  no statement runs in between; a flag is left behind by no construct;
* frames: the two containers of a frame agree; what a name is assigned is what it
  shows, and later changes of other names do not show in it; the temporaries of
  loops leave with them;
* types: an operator and its compound form agree, as do comparisons and `cmp`; a
  collection's counters, its children and its items are in step; an index is tested
  before it is used; a map is a function of the keys that its comparison tells apart;
* classes: the method that runs is the one that was declared for the call; only
  static attributes are shared; a destructor runs once.

## 2. Modules

| Module | What it is |
|---|---|
| `ObjectPool` | what the collector promises: a pool that shrinks only by objects nothing reaches |
| `GarbageCollector` | the collector, and what the interpreter does to the object graph and the frames |
| `CallStacks` | what the machine promises to threads: a stack of calls of their own |
| `ThreadScopes` | threads, the handshake of their creation, the map of scopes, exceptions, errors, release |
| `StructuredControl` | what a script may rely on when it leaves a construct early |
| `FrameStates` | the flags of the memory frames through statements, loops, `try` and calls |
| `IndexTree` | the table from labels to values below frames, classes and the code segment |
| `Memory` | what statements do to the values variables hold: copies, references, loops, calls |
| `Types` | which operations each builtin type has |
| `Scalars`, `Operators`, `Expressions` | numbers of a width; the operator functions of each type; scripts that evaluate them |
| `Vectors`, `Strings`, `Maps` | the functions of the collection types |
| `Dictionary` | what a map promises: a function from keys to values, where a key may be taken for another |
| `Collections` | scripts that call the functions of a collection in any order |
| `Classes` | declarations, inheritance, methods, attributes, clones and destructors |
| `MC...` | the constants and symmetries of the runs |
| `Foundations` | what the other proofs keep needing: least elements, induction and recursion over numbers, folds, sums, sequences; and that an index tree is a dictionary |
| `...Proofs` | theorems about the module of that name |

How they fit together: `GarbageCollector` and `ThreadScopes` look at the same mutex VM_MM
from two sides: the former has the frames' contents and treats a call as one critical
section; the latter has the map of scopes and the steps around each critical section, and
abstracts from what frames contain.  `FrameStates` looks at the scope of one thread: the
flags of its frames, and nothing else in them.  `Memory` has the other part of a frame, its
names and values, and none of its flags; it extends `IndexTree`, as does `Classes`, for the
containers.  `Expressions` and `Collections` are the values themselves.  What `Memory` gives up
(an object nothing refers to) is what `GarbageCollector` frees.

### GarbageCollector

*State.*  `heap`, `lag`, `constants` are the three lists as sets of objects;
`mark`, `count` the fields of an object; `kids` what `ob_traverse` returns;
`referenced` the flag of the same name; `frames[t]` the scope of thread t, each frame
a set of objects; `temps[t]` what the expression being evaluated in each frame holds
in C++ locals; `statics` the values held by class prototypes; `pc[t]` whether t runs,
waits for VM_MM, marks or sweeps; `spared` is a history variable.  An object is an
address: once deleted it may be allocated again.  Every object weighs one unit.

*Actions of the interpreter.*  `New`, `NewReference`, `Literal` evaluate to an object;
`Assign` is `MemorySegment::add` with its clone rule and the `ob_free` of the previous
value; `PushTmp`/`RemoveTmp`, `Link`, `Replace`, `Pop`, `Subscript` are the collection
operators as they change the graph; `Call` is `vm_prepare_stack` with the evaluated
arguments, `Return` dismisses the frame; `Throw` marks the exception; `DeclareStatic`
marks a static value and hands it to the prototype; `Statement` is the head of a
statement, where `gc_collect` looks at the threshold.

*Actions of the collector.*  `Acquire` (VM_MM), `MarkFrame` (one frame each), `EndMark`
(counts the collection and chooses the lists), `SweepConstant`, `SweepAlive`,
`SweepDead`, `SweepDestructor` (one item each), `LagDone`, `HeapDone`, `Release`.

*Abstractions.*  Evaluating arguments and inserting them into the callee's frame is one
step; `gc_track` and `gc_free` are one step each, so that the race between their list
operations (different mutexes) is not in the model; a list is a set, swept in any order;
collections are acyclic (`Link` and `Replace` exclude the cycle that `gc_mark` would
follow for ever); references are not assigned through; a destructor that an assignment
runs is a call like any other and not modelled separately.

### ThreadScopes

*State.*  `pc[t]` where thread t is; `pool` the keys of `th_frames`; `scope[t]` its frames;
`child[t]` the thread t is creating; `tsync`, `mm` the owners of the mutexes; `released`,
`releasing`, `doomed` (SIGTERM pending), `alive`.

*Actions.*  `CreateLock`, `Spawn` or `SpawnFails`, `PoolBegin`, `PoolEnd`, `AppendArgs`,
`CreateUnlock` are `hpthread_create`; `StartLock` and `Enter` the worker up to its function;
`Call` and `PushFrame`, `Return` and `PopFrame` the two halves of a call (a lookup, then a
critical section); `Exit`, `DepoolBegin`, `DepoolEnd`, `Join`; `Raise`, `RaiseDone`,
`RaiseFails` are `vm_raise_exception`; `Fatal`, `Error` are `hyb_error` and `yyerror`;
`MainEnds`, `ReleaseBegin`, `Release`, `Finish` the end.  `ProcessEnds` is the kernel's part:
the default action of SIGTERM, and the end of the last thread.

A thread that dereferences an absent entry is `"lost"`: what follows is undefined, so no
action of it is enabled; the property says it can only happen when the process is being
ended.  A critical section without a step of another kind inside is one action guarded
by the mutex.  Two constants open behaviours of the environment: `OutOfMemory` (the
allocation in `vm_raise_exception` may hit the memory limit) and `TornLookups` (a
`std::map` search may miss an entry while another thread rebalances the tree, the
undefined behaviour of the unlocked lookup in `vm_find_scope`).

### FrameStates

*State.*  `scope` is the scope of a thread, each frame being its mask (`vframe_state_t`) as a
set of flags; `ctl` the recursion of `vm_exec`, each handler with the frame it was given;
`uncaught` is a history variable.  The script is any script: what comes next is a choice.

*Actions.*  `Block`, `Jump`, `Throw`, `Return`, `Loop`, `Try` start a statement, under the
test at the head of `vm_exec` (`Executes`); `BlockEnds`, `Thrown`, `Returned`, `Iterate`,
`Over`, `WhileBodyEnds`, `EachBodyEnds`, `Catch`, `Finally`, `TryEnds` are what the handlers do
after the part they executed; `Call`, `ArgsFail`, `Invoke`, `CallEnds` are `vm_prepare_stack`
and the callers of it; `Overload` and `OverloadEnds` an operator of a class, `NativeEnds` a
method of a builtin type or a function of a shared library, `Raise` the machine's own
exceptions; `Finish` the end of the main program and `vm_release`.

*Two frames.*  A handler tests and sets the flags of the frame it was given, while
`vm_raise_exception` and operators set those of the newest frame.  The callee's frame is in
the scope before its arguments are evaluated in the caller's, so the two differ there.

*Habits.*  `StructuredControl` does not hold of every script.  The constant `Habits` opens the
constructs where the code departs from it; each was found as a counterexample of TLC, and
each alone brings it back:

| Habit | What the code does | Refuted by it |
|---|---|---|
| `jumpOutside` | `break` and `next` outside a loop set a flag that nothing clears | `LoopFlags`, `ImplementsControl` |
| `afterBreak` | `vm_exec` does not stop at Break: statements after it run, and in `foreach` a `next` after it stays set behind the loop | `SuspendedClean`, `LoopFlags`, `ImplementsControl` |
| `returnCalls` | `try { return f(); }` sets Return also when f throws: the catch block is skipped, the exception returned as a value | `ImplementsControl` |
| `failsInArgs` | an operator that fails among the arguments of a call marks the callee's frame: the other arguments are evaluated, and a method of a builtin type loses the exception | `SuspendedClean`, `ExceptionHeld`, `ImplementsControl` |
| `nativeFails` | the frame of a builtin type's method is popped unread | `ExceptionHeld`, `ImplementsControl` |

The run `frm` has `Habits = {}` and so shows that nothing else goes wrong; `FramesLost.cfg` keeps the
last habit.

*Abstractions.*  `while`, `do` and `for` are one loop, the two `foreach` another; `if`, `unless`,
`switch` and lists of statements are a block; all calls with a frame of their own differ only
in what happens when they end.  Values are left out, and builtin functions that call back
into the script, and exceptions of a thread's main function, which end with the thread.

### IndexTree

An `ITree` (`itree.h`) is an array of pairs and a tree of bytes (`asciitree.cpp`) that leads
from a label to a pair.  The tree is a function from the chains of bytes it has to their
markers, a marker being a position in the array: the position of a pair moves when one before
it is removed, as `Erased` says.  `insert`, `find`, `replace`, `remove`, `clear` are the functions of
the class.  `insert` adds a pair whether the label is known or not, although a comment in it
says otherwise (`itree.h:134`); the users look first.

### Memory

*State.*  `heap`, the objects as a sequence (kind, number, items, the flag `referenced`);
`frames`, each the index tree of its names and the loops that run in it.  After each step the
objects nothing refers to are dropped and the rest numbered anew, so that equal
situations are one state.

*Actions.*  `Assign`, `Catch`, `Increment`, `vm_exec_subscript_push`, `SetItem`, `SetMapped`, `SetAttribute`,
`vm_prepare_stack`, `Return`, `vm_exec_foreach`, `vm_exec_foreach_mapping`, `Iterate`, `EndLoop`,
`vm_exec_explode`.  Each evaluates expressions (`vm_exec`) and hands the result to
`MemorySegment::add`, whose rule is `Stored`: an object that is marked `referenced`, or a
constant, is cloned, any other one is stored itself and marked.

*Forms and habits.*  `Forms` are the kinds of expression of the script, so that the runs can divide
them.  `Habits` are what regular scripts do not do, each the cause of a real departure: a
variable that overwrites what it is part of (`overwritesItself`), an assignment through a
reference to anything but a number (`assignsThrough`), a local name that a main variable has, which
assignments and reads resolve in opposite order (`shadows`), two loops over one
object (`walksTwice`), a change of a literal, of null or of the value of a void call
(`changesConstants`).  Both runs have none.  An attribute that holds a reference passes what it is
assigned on to it, so `SetAttribute` falls under `assignsThrough` as well; a loop over a reference that has
become null ends (`reference.cpp:21-27`), which is a guard of `Iterate`.

*Recursions.*  What the code does by calling itself (`ob_clone`, the chains of references) and what the model
needs to renumber the heap are recursive functions over a depth or a position: `clones` and `shown` by the depth
of a value, `Referred` by the length of a chain, `Join` and `Met` by the objects met so far.  The heap has as many
objects as any of them can be deep, unless a collection is a part of itself, where the code would not return.

### Scalars, Operators, Expressions

`Scalars` has the arithmetic of C at small widths: two's complement that wraps, division
towards zero, conversions that cut, doubles as halves with infinities and NaN.  `Operators`
has one operator per family of functions of a type; `Expressions` the dispatch of the
`ob_` functions through the table of `Types`, references that are followed, and the handlers.
The variables of the script hold values of any type (`Object`), `ref` is the reference, `status` says
whether the program still runs.  The bitwise operators are a recursive function on
the bits of two words, from the last one on.

### Vectors, Strings, Maps, Collections

The functions of `vector.cpp`, `binary.cpp`, `string.cpp` and `map.cpp` are operators on an object,
its items and its counter; each gives what it leaves and what it answers: a value, an exception, or
the end of the program (`hyb_error`, a signal, a loop without end).  `Collections` calls them
in any order on one object, keeps an answer of the same type as a second operand, and lets
a wrong call (a slot the type's table leaves out) end the program.

*Elements.*  An element has a type and what it holds: a number; a double, in halves; the place of a text
in a dictionary; or, for an object without `cmp` (a structure or an instance), its size.  `element_cmp` is
`ob_cmp`, which the type of the left one decides: integers, characters, booleans and handles compare
their number with the `ivalue` of the right one (a double is cut, a text read as far as it is a number), floats with
its `fvalue`, strings with its `svalue`, and an element without `cmp` ends the program.  The conversions between
numbers and texts are constants (`Printed`, `Atol`, `Atof`) about which nothing is assumed.

*A map* looks for a key from its first one on, by the `ob_cmp` of the keys it has.  So `Dictionary` has a relation
`Takes` between keys: under k a map stores the value of a key that is taken for k, and a new key only
when there is none.

*Abstractions.*  The elements of a vector or map are neither collections nor references nor aliases, whose
`cmp` or `ivalue` leads to other objects; a whole number is exact as a double; the
script of a `__to_string`, which runs when a string is compared with an instance that has one, is not run.

### Classes

*State.*  `types`, the prototypes; `instances` and `main`, what the variables have; `slots`, the
attributes, each a place of its own, since a static one is shared; `default`, the
number in `__default_return_value`, which every attribute without a value shows;
`declared`, history; `hung`, the thread waits for a mutex it holds.

*Actions.*  `vm_exec_class_declaration`, `vm_exec_new_operator`, `Assign`, `Forget` (overwriting with
a number), `class_assign`, `CallMethod`, `CallOperator`, `GetAttribute`, `SetAttribute`, `SetPrototype`.  `class_get_method`,
`class_call_method` and the descriptors `__attribute` and `__method` are operators that say which
prototype runs or how the program stops.  A destructor runs in the middle of an assignment,
so its body is in the model: it counts, or assigns to a variable of the main program.

*Habits.*  `inheritsCounters` (a base with a static number: the value is written into the one
default value of the machine, `vm.cpp:1459`), `setsPrototypes`, `overwritesItself`.  The run has
none of them.

*Abstractions.*  The bodies of other methods are not run; a value is a number, a text or void.

## 3. Runs

| Run | Bounds | Shows |
|---|---|---|
| `gc_seq` | one thread, two plain objects and a constant, two frames, two collections | type correctness, accounting, `NoDangling`, `MarksReset`, the refinement of `ObjectPool`, no deadlock |
| `gc_kinds` | one frame; a reference, a static value, an instance with a destructor, two temporaries | exactness of the sweep, the survival rate |
| `gc_conc` | two threads, one object | one collector, frames stand still, `CollectionTerminates` |
| `thr_pool` | main and two workers, depth 3, two creations, failing allocations, torn lookups | types and depth, `NoStaleScope`, refinement of `CallStacks` |
| `thr_live` | the same, without failing allocations and torn lookups | `ScopeFound`, `StartsEventually`, `FatalEnds`, no deadlock |
| `frm` | six constructs open at a time, four frames, no habits | `ExceptionHeld`, `SuspendedClean`, `LoopFlags`, refinement of `StructuredControl` |
| `ops` | two variables and a reference; long, int, char of 4, 3, 2 bits; eleven literals of seven types | `CompoundAgrees`, `OrderAgrees`, `RemainderRight`, `ReferenceTransparent` |
| `col` | collections of up to three items, answers of up to two; six elements of four types (with NaN and a structure), five of them keys, two values; a size of four bits, a byte of two | `ItemsExact`, `AccessExact`, `MethodsExact`, `CmpOrders`, `RoundTrip`, refinement of `Dictionary` |
| `mem` | two variables and a parameter, two frames, seven objects, one item each | `HoldersBounded`, `AssignmentCopies` |
| `mem_loops` | one frame, two loops, collections of two items, maps and structures | `TableAgrees`, `TempsReleased` |
| `cls` | two classes of three kinds, the second with or without the first as base, two variables, two arguments | `DispatchRight`, `AttributesShared`, `ExpiredOnce`, `VoidKept` |
| `cls_hang` | the same, a destructor that assigns | **violated** `AssignmentEnds` |

Why the bounds are enough for the interesting cases:

* two collections are what it takes for a mark to be set in one cycle and used in the
  next, for an object to survive, move to the lag space and die there, and for a value
  marked once to be freed;
* frames two deep give a caller with temporaries and a callee that collects; three give
  a worker with arguments, a function and a nested call at the limit;
* three threads give two workers and a creator, hence a lookup during another creation
  and an id that is joined and given out again (two creations and a reused id);
* an object graph of three objects has shared children, chains and an object
  freed before its parent;
* six constructs over four frames nest a loop in a `try` in a call among the arguments of a
  call, and what a handler does depends on its own frame and the one below only;
* widths of 4, 3 and 2 bits are all different, so each of the casts between long, int and char cuts
  something, and each has a least number whose negation overflows;
* three items have a first, a middle and a last, which is what searches, removals,
  adjacent matches and duplicates need; an index runs from -1 to past the end; the six elements have
  two of one type, an integer that is the whole part of a double and the number of a text, a
  number that equals nothing and an object that cannot be compared, so each way of being taken
  for another one happens, in both orders;
* two variables and a parameter share an object three ways; seven objects are the five the
  machine starts with and two more, or a collection of a collection after a clone; an assignment,
  what it shares and a later change need no more, since `add` looks at one old and one new object;
* two nested loops over up to two items have a first and a last round each, a break, and a
  body that shrinks or assigns what the outer loop walks;
* two classes give an override, an overload, an inherited destructor and a static attribute seen
  from a prototype, a base and two instances; one instance in two variables is emptied by one
  and used by the other.  Two bases take too long for a run; `MCHierarchy` has
  the classes for it, and `DispatchesRight` (section 5) is about any number of bases.

Deadlock is checked in `gc_seq`, `thr_live` and `frm`.  It is switched off in the runs whose model may
stop for a reason that is not in question there: the bound on collections
(`gc_kinds`, `gc_conc`), the self-deadlock of a failing allocation or a lost thread (`thr_pool`),
and the end of the program (`ops`, `col`, `cls`, the latter also by the hang of `cls_hang`) or the
bound on the heap (`mem`, `mem_loops`).

### Fairness

* `GarbageCollector`: weak fairness of a thread's collector steps, since a thread in the
  collector is runnable unless it waits for VM_MM, and strong fairness of taking VM_MM, which
  another thread that collects again and again disables in between.  Nothing is assumed
  of the script.
* `ThreadScopes`: strong fairness of each thread's `Continue` steps, which are those the
  code has committed to, and weak fairness of the kernel's.  Strong, because a thread
  that waits for a mutex is enabled and disabled as others take it: that it gets the
  mutex in the end is an assumption about the scheduler and the mutex (glibc's default
  mutex promises no order, but a waiter is woken at each release).  Script decisions
  (`Script`) are not fair: a script may loop for ever.
* The other modules have none: what they are about is a safety question, and whether a script
  goes on is the script's affair.

## 4. What does not hold

A violated run: `cls_hang`.  `MemorySegment::add` holds the frame's mutex while it empties the
value it replaces (`memory.cpp:45-75`); if that is an instance with a destructor, and the
destructor assigns to a global variable, it takes the same mutex and the assignment never
ends.

Six more configurations are kept for the counterexamples they give; they belong to no run.

| Configuration (module) | Violates | Says |
|---|---|---|
| `GcTemps` (`MCGarbageCollector`) | `TempsKept` | collecting at statements only does not protect temporaries: the callee's first statement is a statement (`vm.cpp:975-982`) |
| `GcThreads` (`MCGarbageCollector`) | `NoDangling` | only the collecting thread's scope is marked (`gc.cpp:264`), but all threads share the lists |
| `GcDtor` (`MCGarbageCollector`) | `CollectionTerminates` | a destructor run by a sweep waits for the mutex its own thread holds (`class.cpp:327`, `gc.cpp:260`) |
| `GcStatic` (`MCGarbageCollector`) | `StaticsKept` | a static attribute's value survives one collection, not all (`vm.cpp:1391-1395`) |
| `ThrError` (`MCThreadScopes`) | `FatalEnds` | reaching the memory limit inside `vm_raise_exception` does not end the program (`vm.cpp:413-429`, `vm.cpp:201`) |
| `FramesLost` (`FrameStates`) | `ExceptionHeld` | the exception of a builtin type's method, such as `pop` of an empty vector, never reaches the frame of its caller (`vector.cpp:492-497`) |

`ScopeFound` holds under `TornLookups = FALSE` only, as its theorem says: `vm_find_scope` takes no
lock (`vm.h:406-417`), so a thread may miss its scope while another one is created or ends.

Departures that the models contain as the code has them, and that the properties exclude by
name (`Deviates`, `Comparable`, `drifted`, `Habits`):

* Numbers: `|=` of integers and characters computes `&=` (`integer.cpp:334`, `char.cpp:324`); the
  bit operators of floats cast to int in one form and to long in the other; handles compare the
  truth of their addresses; `cmp` calls NaN less than anything; a division by zero, and
  the least number by -1, is a signal.
* Strings: `items` and the characters part after an assignment, an erasure or a stream; `replace` skips a
  match that follows another one; an empty token or pattern makes `split` and `replace` loop for ever; `substr`
  beyond the end throws.
* Elements of different types: `ob_cmp` converts the right one to the type of the left one (`types.h:1110`, `integer.cpp:74`,
  `float.cpp:63`, `string.cpp:229`), so it is no order, although its comment promises one
  (`types.h:505-511`).  `[1]` compares equal to `[1.5]`, which is greater than `[1]`; `[1].contains(1.5)` is true and
  `[1.5].contains(1)` is not; `[1, 1.5].unique()` is `[1]`; `[1.5, 1].min()` is 1.5, as an integer is compared with it.
  `m[1] = a; m[1.5] = b` stores b under 1, and `m[0] = a; m["abc"] = b` under 0, while in the other order each
  gets a key of its own.  `CmpOrders` is about elements that agree in type place by place; of `MethodsExact` the
  bounds, and that nothing else is found or dropped, are about elements of one type; `ImplementsDictionary` has the
  relation `Takes`.  An element without `cmp` ends the program when it is on the left.
* Vectors: `-` with several elements drops the first of them only; `-=` reads a variable that
  was never set (`vector.cpp:339`); `min` of an empty vector reads past its end.
* Maps: the test for an empty map in `pop` never holds; removing a key that is missing answers the map; two
  maps with the same pairs, inserted in another order, compare different; NaN is a new key each time, unless
  a key before it is taken for it (an integer that is the least one, the text that NaN prints); a structure can be the first key, and no key after it is found.
* Assignment: a literal of an array display is put into the collection itself; a parameter is bound to the
  argument's object; `x = f()` of a function without a value binds the machine's one default value, and
  `x++` then changes it for everyone; assignment through a reference works for numbers of
  the same type only, against the note at `memory.h:132`.
* Classes: the destructor of a base runs as well; a method with a variable number of arguments ends the
  program when it gets two extra ones; assignment to an attribute ignores its access; `new` without a
  constructor ignores its arguments.

## 5. Proofs

For every value of the constants, from the named `ASSUME`s of the modules, which TLC evaluates
in every run.

`GarbageCollectorProofs`, for any objects, threads and bounds:

* `GInv` is inductive: types; frames and temporaries in step; a thread that marks or
  sweeps owns VM_MM (`MutexInv`); the lists are disjoint (`ListsInv`); what remains to be
  swept is in the swept list (`TodoInv`); usage is the size of the lists (`UsageInv`);
  counts do not exceed collections (`SurvivalInv`).  The mutex part is needed since two sweeps at
  once would subtract an object twice.  From it: `TypeCorrect`, `AccountingCorrect`,
  `OneCollectorCorrect`, `CountCorrect`, `FramesStableCorrect`.
* `SInv` is inductive under `Sequential` (one thread, no references, no static values,
  no temporaries kept over calls): what frames and temporaries reach is tracked
  (`LiveInv`), untracked objects have no children (`LeafInv`), temporaries of suspended
  frames are empty (`TempsInv`), and while the collector works the marks cover what was
  visited and all live objects once the sweep starts (`MarkInv`).  From it: `SequentialSafe`,
  `SequentialTempsKept`, `SequentialImplements`.  Three conditions of `Sequential` are
  those `GcThreads`, `GcStatic` and `GcTemps` show to be needed; the fourth excludes references,
  whose marking is cut short by a marked value.
* `ResetInv` is inductive with one thread: while the heap is swept, a marked object of it is
  one the sweep has yet to visit (`OneThreadMarksReset`).  `ExactInv` adds to `SInv` that whatever the marks cover
  is reached from the roots, so a sweep spares nothing it should free: `SequentialExact`.
* Lemmas about reachability (`Reach` is the least closed set: its monotonicity, roots and
  closure, and that deleting an unreached object changes nothing) carry the argument.

`ThreadScopesProofs`, for any number of threads and any depth: `TInv` is inductive: who
holds which mutex (`LockInv`), what a creator knows of its child (`ChildInv`), that a thread
not yet started will find its arguments (`StartInv`), that a started one is in the map
until the release (`PoolInv`), that after a release without a signal no worker is left
(`DoomInv`), and that a scope keeps its length between the check and the change of its
depth (`DepthInv`).  From it: `ThreadTypesCorrect`, `NoStaleScopeCorrect`,
`ScopeFoundCorrect` (assuming `TornLookups = FALSE`), and `StacksImplemented`, the refinement
of `CallStacks`: every step maps to a step of it or a stutter.

`FrameStatesProofs`, for any nesting and any number of frames, assuming `Habits = {}`.  The three
safety properties say which frames may have flags; none is inductive, since what a flag means
depends on which handler looks at it next.  The inductive invariant `Inv` has two parts.  `Fits`: the
recursion of `vm_exec` is a sequence of handlers in which each may only be inside of certain
others, and in which the length of the scope is a function of the calls and arguments that are open
(`DepthsFit`), so that the frame a handler was given and the newest frame differ among arguments only.
`FlagsFit`: only the frame of the innermost handler has flags, and which ones depends on its
kind.  From it: `ExceptionIsHeld`, `SuspendedIsClean`, `LoopsResetFlags`.

From the same invariant, `FlagsAreCompletions`: the refinement of `StructuredControl`.  The
nest of constructs is the sequence of handlers, the completion is read off the flags of the innermost frame (`Completion`); each action maps to opening a
construct, to ending the innermost one with the completion it hands on, or to a stutter.  `Inv` gives
which flags a handler can find, hence which end is the right one.

`Foundations` has two parts.  The first makes induction and recursion over numbers first-order.  Every set of
numbers has a least element (`LeastElement`, from the finite sets of the library); what holds of 0 and of n + 1
whenever it holds of n is stated of the set of numbers for which it holds (`NatSet`); a function defined step by
step exists (`Recursion`); a fold over a sequence is the last value of such a function (`FoldSteps`, `Folded`,
`FoldInside`).  The loops of the code over members, items and characters are folds in the models, so a property of
a loop becomes a property of each of its rounds.

The second is about the index tree, for any bytes, labels and values: a tree in which the markers and the array lead
to each other (`Coherent`) stays so through `insert` of an unknown label, `replace` and `remove`, and each
changes what the tree stands for (`Contents`, a function) at that label only (`InsertRight`,
`ReplaceRight`, `RemoveRight`); `find` reads that function (`FindRight`).  `InsertedTwice` says what the
comment in `insert` denies: a known label, inserted again, leaves its first pair out of reach.

`MemoryProofs`, for any names, forms, habits and bounds, on one condition: `"walksTwice" \notin Habits`.  The
condition is needed.  A loop keeps the object it walks in the frame under a label made of the object's
address (`memory.h:173-190`); a second loop over the same object inserts that label again, and the first of them
to end removes the only pair the other can find.  The invariant `Sound` is about heap and frames together:

* the heap is well formed (`Heaps`): the items of an object are in the heap, a reference has one at most, a map a
  key with every value; the objects of the machine are there;
* references fall (`RefsFall`): some rank of the objects is lower behind every reference than at it, so that no chain
  of references comes back to itself, and the recursion of the code from a reference to its target ends;
* the table of each frame is `Coherent`, its values are in the heap, and each label is that of a name, of a
  further argument or of a temporary, the last made of the value's own number (`TableRight`);
* the loops of a frame walk different objects, none of them a structure, and an object has a temporary in a
  frame exactly if a loop of the frame walks it (`LoopsRight`).

The last part makes the others inductive: `push_tmp` inserts without looking, which is right for a label that is
unknown, and only the loops say which temporaries are known.  The steps need five families of lemmas:

* cloning (`CloneRight`, by induction on the depth of a value): no object that was there changes, and the clone is
  a new object whose items, to any depth, are new, unmarked and held by one collection each;
* assignment and `add` (`AssignYields`, `AddRight`): the heap grows, no object changes its kind, so that the table of
  every frame remains right;
* references (`RefsFallOn`, `ChainsEnd`): a reference keeps its target, and a new one stands for an object
  older than itself (`RefsKept`), so that the ranks carry over; by the pigeonhole principle `Referred` then leads to an
  object that is no reference;
* what is reached (`MetRight`): the objects met are the least set with the roots that is closed under items, each
  of them once, so that new numbers are a bijection (`NumbersRight`);
* renumbering (`SettleSound`): a `Sound` state is `Sound` when every object, label of a temporary and path of the
  tree has its new number, because different labels remain different.

From it: `SoundAlways`, `TableAgreesAlways`, `TempsReleasedAlways`.  `CloneApart` and `AssignmentApart` are about the
operations alone: the result of `ob_clone` owns nothing that was there before, to any depth; and in every sound state a
name that is assigned an object others have, or a constant, keeps its object or owns nothing that was there before,
which is the half of `AssignmentCopies` about sharing.  Two guards of the model were missing when the
first attempt failed, both of them found by the proof: the one of `SetAttribute` and the one of `Iterate` that
section 2 describes.

`CollectionsProofs`, for any elements, keys, characters, bounds and conversions between numbers and texts; the
assumptions on the constants are that a size holds one item more than a collection can have
(`MaxItems + 1 < 2^SizeBits`, the sizes are the code's `unsigned` and `size_t`), that a power of two is a positive number,
which no prover derives, and that NaN is an odd number, as no whole number is in halves (`ElementsAssumption`, `WidthsAssumption`,
`ConversionsAssumption`).  The invariant `CInv` says that both collections have the type of their kind, within its
bound; that each counter is the number of its items, but for a string the script has made drift (section 4); and
that of two keys of a map the first can be compared, and is not taken for the second (`OneEach`).  The last part is
needed since a lookup answers the first key that is taken for the given one, and a second one would outlive its
removal.  It says nothing of the other direction: 1.5 before 1 are two keys.  Each operation leaves a `Sound` collection
and answers with a `Good` one.  From it:

* `TypeCorrect`, `CountersExact`, `RoundTripRight`;
* `AccessRight`: a key that a map holds answers the value beside it whatever the keys of other types
  before it (`AtRight`), and what was mapped is what the same key answers next (`SetAccess`);
* `OrderRight`: antisymmetry, and zero for equal contents only, of collections whose elements agree in
  type place by place, have a `cmp` and are not NaN.  Such elements compare by what they hold (`AlikeOrder`); others do not
  (section 4), so the condition is needed;
* `Implements`: the refinement of `Dictionary` with `Takes`, for keys of any types.  The function of a map is defined
  on its keys that compare as themselves (`Own`).  A mapping changes the value of the first key that is taken for
  the given one (`PutStep`), a removal drops that key (`DropStep`); if it is not `Own`, or the search ends the program,
  the function stays as it was.

`ExpressionsProofs`, for words of any width (long, int and char in this order), any names and any
literals of the types the code has; `WidthAssumption` adds what no prover knows of powers of two, that each is twice the one
before.  The invariant `Inv` says that each variable holds an `Object`: a word, character or double of its
width, and a text of well-formed pieces (`Invariance`, one lemma per family of operators, since a result
that leaves its width would be the next operand).  From it:

* `ComparisonsAgree`: both the operators and `cmp` of a type compare the same two numbers (`SameNumbers`), and numbers are
  ordered;
* `RemaindersRight`: where `b & (b - 1)` is zero, the mask `b - 1` yields the remainder by b
  (`MaskIsRemainder`) and b divides the number of words (`MaskDivides`), so the remainder is right for negative
  dividends and for the bits of a negative divisor.  Both are inductions over numbers that halve (`NatSet`);
* `ReferencesTransparent`: each operator reads its right operand through the `ob_` conversions, which follow a
  reference;
* `CompoundsAgree`: for each type the compound form and the operator compute the same words; for floats
  the two casts yield the same number where it fits an int (`Narrow`).

The first attempt failed for a good reason: several definitions used `CASE` with guards that overlap.  TLC takes
the first guard that holds, TLA+ any of them, so the model said less than was checked.  The guards are
disjoint now (`float_inplace`, `ref_logic`, the dispatch through the table); those of the other
modules were disjoint before.

`ClassesProofs`, for any classes, bodies, variables and bounds; `ClassesAssumption` says what the parser
delivers (different names of classes, members with a name and an access, a static attribute with a value).
The invariant `CInv` has four parts:

* the attributes of a class are slots of its own, in the order of their declaration; an instance is
  `Whole`, a copy of its class that has the very slots of the static attributes and one of its own for
  each other, or `Emptied`, with neither attributes nor methods; and nothing else has a slot (`Sound`);
* an instance is held by a variable (`Fine`); without it a new instance could get a number whose
  slots are still there;
* the classes declared so far are the first of `Names` (`Listed`), so a class is declared after its bases and
  has no slot before;
* a class answers for a name and a number of arguments what its own declaration has, else what the first of its
  bases answers that answers anything (`Dispatched`).  It is shown of the fold over the bases, of
  the fold over the names of a base and of the fold over the methods of a name: what is defined later
  answers only where nothing before it did (`DefineStep`, `OrSteps`).

From it: `TypeCorrect`, `SharedAttributes`, `ExpiresRight`, `DispatchesRight` and, if the script
neither extends a class with a static number nor assigns to an unset attribute of a prototype (`Quiet`),
`VoidStays`.  Both habits write the default value of the machine (`vm.cpp:1459`), so the
condition is needed.  `DispatchesRight` follows one level of the hierarchy; that the answer of a
base is again its own or that of one of its bases is the same statement about the base.

Every safety property of the runs `gc_*`, `thr_*`, `frm`, `ops`, `cls` and `mem_loops` is proved, and those of
`col` but one.  Only model-checked are

* the liveness properties `CollectionTerminates`, `StartsEventually` and `FatalEnds`: fairness and `ENABLED`
  are out of the prover's reach;
* `MethodsExact` of `col`: its reference definitions of `split`, `find` and `replace` search with patterns that overlap,
  and relating them to the loops of the code needs an induction for each;
* `HoldersBounded` of `mem`, which counts holders across every renumbering;
* `AssignmentCopies` of `mem`, as far as it is about what a name shows: it compares values to any depth in the heap
  before and after.  The half about sharing is `AssignmentApart`.

## 6. Not modelled

* Lexer, parser and syntax tree: the grammar is input of a generator; building the tree is sequential
  and changes no run-time state.
* Module and namespace loading, the standard library, the debugger, the command line: calls of the
  operating system, text, and pure functions.  The include library is scripts.
* `llist.cpp` and `darray.cpp`: lists are sequences or sets here.  Their pointers matter to the race
  of `gc_track` and `gc_free` (different mutexes, `gc.cpp:70`), an undefined behaviour whose
  outcomes are states of memory and not of lists.
* The caches of functions, types and patterns: a check and an insertion without a lock.  That
  both threads insert equal entries changes no answer; what the race does to the links of
  the tree is again memory.  The key of a compiled pattern leaves its options out.
* Printing, conversion of numbers to and from text, the matching of patterns by the library,
  serialisation of instances, `$`, backtick, range and include statements, and functions of shared
  libraries that call back into a script.
