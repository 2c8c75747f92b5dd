-------------------------- MODULE GarbageCollector --------------------------
(***************************************************************************)
(* The mark-and-sweep collector of the hybris virtual machine together     *)
(* with the part of the interpreter that decides what it may free: the     *)
(* memory frames of every thread, the temporaries an expression keeps in   *)
(* C++ locals, and the statements at which a collection starts.            *)
(*                                                                         *)
(* An object is a model value, an address: it is fresh again once it has   *)
(* been deleted, as memory is.  A frame is the                             *)
(* set of the objects its variables hold (which name holds which object is *)
(* the subject of a memory segment, not of the collector).  Every object   *)
(* weighs one unit of memory.                                              *)
(***************************************************************************)
EXTENDS Integers, Sequences, FiniteSets

CONSTANTS
  Obj,            \* every object the program ever allocates
  Refs,           \* those of type reference
  Const,          \* literals of the program text (attribute H_OA_CONSTANT)
  Statics,        \* those used as the value of a static class attribute
  Dtors,          \* instances of a class that defines a destructor
  Threads, Main,  \* the script's threads; Main owns the global frame
  None,           \* no object, or no thread
  MaxFrames,      \* bound: nested calls of a thread (VM_MAX_RECURSION)
  MaxArgs,        \* bound: arguments of a call
  MaxTemps,       \* bound: temporaries of an expression
  MaxCollections, \* bound: collections in a run
  GcThreshold,    \* usage from which a statement collects
  MmThreshold,    \* usage from which an allocation is a fatal error
  KeepTemps       \* may an expression call a function while it holds
                  \* temporaries that are not arguments of that call?

ASSUME ObjAssumption ==
  /\ IsFiniteSet(Obj) /\ None \notin Obj
  /\ Refs \subseteq Obj /\ Const \subseteq Obj
  /\ Statics \subseteq Obj /\ Dtors \subseteq Obj
  /\ Refs \cap Const = {} /\ Dtors \cap (Const \cup Refs) = {}
ASSUME ThreadAssumption == Main \in Threads /\ None \notin Threads
ASSUME BoundAssumption ==
  /\ MaxFrames \in Nat \ {0} /\ MaxArgs \in Nat /\ MaxTemps \in Nat /\ MaxCollections \in Nat
  /\ GcThreshold \in Nat /\ MmThreshold \in Nat /\ KeepTemps \in BOOLEAN

VARIABLES
  heap, lag, constants,  \* the three lists of the pool
  mark,         \* objects whose gc_mark is set
  count,        \* gc_count of each object
  collections,  \* collection cycles so far
  usage,        \* memory usage counter
  kids,         \* what ob_traverse returns for each object
  referenced,   \* objects whose `referenced` flag is set
  frames,       \* scope of each thread: its frames, oldest first
  temps,        \* per frame: values held only by the expression being run
  statics,      \* static attribute values of the declared classes
  spared,       \* history: heap objects marked before the collection began
  pc,           \* what each thread is doing
  next,         \* collector: index of the next frame to mark
  todo,         \* collector: items of the swept list still to visit
  mmOwner,      \* owner of the VM_MM mutex
  exited        \* vm_release was called

pool   == <<heap, lag, constants, usage>>
marks  == <<mark, spared>>
graph  == <<kids, referenced, statics>>
stack  == <<frames, temps>>
cycle  == <<count, collections, next, todo>>
vars   == <<pool, marks, graph, stack, cycle, pc, mmOwner, exited>>

-----------------------------------------------------------------------------
(* The object graph.                                                       *)

Closed(S, edges) == \A o \in S : edges[o] \subseteq S

\* The least set that holds `roots` and is closed under `edges`.
Reach(roots, edges) ==
  {o \in Obj : \A S \in SUBSET Obj : roots \subseteq S /\ Closed(S, edges) => o \in S}

Tracked == heap \cup lag \cup constants
Fresh   == Obj \ Tracked

Depth(t)   == Len(frames[t])
Top(t)     == IF Depth(t) = 0 THEN {} ELSE frames[t][Depth(t)]
Temps(t)   == IF Depth(t) = 0 THEN {} ELSE temps[t][Depth(t)]
Globals    == IF Depth(Main) = 0 THEN {} ELSE frames[Main][1]
ScopeOf(t) == UNION {frames[t][i] : i \in DOMAIN frames[t]}
Rooted     == Reach(UNION {ScopeOf(t) : t \in Threads}, kids)

\* What the running function of t can name or holds in an expression.  A
\* deleted object is left out: its use has no defined behaviour.
Visible(t) == Reach(Top(t) \cup Globals \cup Temps(t) \cup statics, kids) \cap Tracked

Collecting(t) == pc[t] \in {"mark", "lag", "heap"}

-----------------------------------------------------------------------------
(* Marking.                                                                *)

\* A reference is skipped when it and its value are already marked.
Skipped(o) == o \in Refs /\ o \in mark /\ kids[o] \subseteq mark

GcMark(roots) ==
  mark \cup Reach(roots, [o \in Obj |-> IF Skipped(o) THEN {} ELSE kids[o]])

-----------------------------------------------------------------------------
Init ==
  /\ heap = Const /\ lag = {} /\ constants = {}
  /\ usage = Cardinality(Const)
  /\ mark = {} /\ spared = {}
  /\ kids = [o \in Obj |-> {}] /\ referenced = {} /\ statics = {}
  /\ frames = [t \in Threads |-> <<{}>>] /\ temps = [t \in Threads |-> <<{}>>]
  /\ count = [o \in Obj |-> 0] /\ collections = 0
  /\ next = 1 /\ todo = {}
  /\ pc = [t \in Threads |-> "run"] /\ mmOwner = None /\ exited = FALSE

-----------------------------------------------------------------------------
(* The interpreter of one thread.                                          *)

Running(t) == ~exited /\ pc[t] = "run"

SetTemps(t, S) ==
  /\ Cardinality(S) <= MaxTemps
  /\ temps' = [temps EXCEPT ![t][Depth(t)] = S]
\* gc_track: an item appended to the list being swept is still visited,
\* unless the sweep has already left the last item.
GcTrack(o) ==
  /\ usage < MmThreshold
  /\ heap' = heap \cup {o} /\ usage' = usage + 1
  /\ todo' = IF todo # {} /\ (\E t \in Threads : pc[t] = "heap") THEN todo \cup {o} ELSE todo
  /\ UNCHANGED <<lag, constants, count, collections, next>>

\* What the parameters of an operation range over is stated in Mutator.
\* A new value: the result of an operator, a copy, an empty collection.
New(t, o) ==
  /\ Running(t) /\ o \notin Refs
  /\ GcTrack(o)
  /\ SetTemps(t, Temps(t) \cup {o})
  /\ UNCHANGED <<marks, graph, frames, pc, mmOwner, exited>>

\* &v: a reference object whose only child is v.
NewReference(t, o, v) ==
  /\ Running(t) /\ o \in Refs
  /\ GcTrack(o)
  /\ kids' = [kids EXCEPT ![o] = {v}]
  /\ referenced' = referenced \cup {v}
  /\ SetTemps(t, Temps(t) \cup {o})
  /\ UNCHANGED <<marks, statics, frames, pc, mmOwner, exited>>

\* A literal evaluates to the constant object of its node.
Literal(t, o) ==
  /\ Running(t)
  /\ SetTemps(t, Temps(t) \cup {o})
  /\ UNCHANGED <<pool, marks, graph, frames, cycle, pc, mmOwner, exited>>

\* A value that may be stored as it is; any other is cloned first (New).
Storable(t) == Temps(t) \ (referenced \cup Const)

\* A variable of the running function, or a global one, takes a new value;
\* a previous value loses its content (ob_free) but stays in the pool.  Left
\* out: a variable holding a reference (it is assigned through it), and the
\* destructor a replaced instance runs, which is a call like any other.
Assign(t, x, u, i, old) ==
  /\ Running(t) /\ x \in Storable(t)
  /\ old \in (Tracked \ (Refs \cup Dtors)) \cup {None}
  /\ frames' = [frames EXCEPT ![u][i] = (@ \ {old}) \cup {x}]
  /\ kids' = [o \in Obj |-> IF o = old THEN {} ELSE kids[o]]
  /\ referenced' = referenced \cup {x}
  /\ SetTemps(t, Temps(t) \ {x})
  /\ UNCHANGED <<pool, marks, statics, cycle, pc, mmOwner, exited>>

\* push_tmp roots a temporary in the running frame, remove_tmp undoes it.
PushTmp(t, x) ==
  /\ Running(t) /\ x \in Storable(t)
  /\ frames' = [frames EXCEPT ![t][Depth(t)] = @ \cup {x}]
  /\ SetTemps(t, Temps(t) \ {x})
  /\ UNCHANGED <<pool, marks, graph, cycle, pc, mmOwner, exited>>

RemoveTmp(t, x) ==
  /\ Running(t) /\ x \in Top(t) \ referenced
  /\ frames' = [frames EXCEPT ![t][Depth(t)] = @ \ {x}]
  /\ SetTemps(t, Temps(t) \cup {x})
  /\ UNCHANGED <<pool, marks, graph, cycle, pc, mmOwner, exited>>

\* A collection takes an element, attribute or map value: the value of the
\* expression, flagged, or a clone of it, whose flag stays clear.  Left out: a
\* collection put below itself, which gc_mark would follow for ever.
Link(t, p, c) ==
  /\ Running(t) /\ c \in Storable(t)
  /\ p \notin Refs \cup Const \cup Reach({c}, kids)
  /\ kids' = [kids EXCEPT ![p] = @ \cup {c}]
  /\ referenced' \in {referenced, referenced \cup {c}}
  /\ SetTemps(t, Temps(t) \ {c})
  /\ UNCHANGED <<pool, marks, statics, frames, cycle, pc, mmOwner, exited>>

\* Replacing an element empties the old one (ob_free) and drops it.
Replace(t, p, old, c) ==
  /\ Running(t) /\ c \in Storable(t)
  /\ p \notin Refs \cup Const \cup Reach({c}, kids)
  /\ old \in Tracked \ (Refs \cup Dtors)
  /\ kids' = [kids EXCEPT ![p] = (@ \ {old}) \cup {c}, ![old] = {}]
  /\ referenced' \in {referenced, referenced \cup {c}}
  /\ SetTemps(t, Temps(t) \ {c})
  /\ UNCHANGED <<pool, marks, statics, frames, cycle, pc, mmOwner, exited>>

\* p[i] is the element itself, not a copy of it.
Subscript(t, p, c) ==
  /\ Running(t) /\ p \notin Refs /\ c \in Tracked
  /\ SetTemps(t, Temps(t) \cup {c})
  /\ UNCHANGED <<pool, marks, graph, frames, cycle, pc, mmOwner, exited>>

\* pop and remove hand the element back to the expression.
Pop(t, p, c) ==
  /\ Running(t) /\ p \notin Refs /\ c \in Tracked
  /\ kids' = [kids EXCEPT ![p] = @ \ {c}]
  /\ SetTemps(t, Temps(t) \cup {c})
  /\ UNCHANGED <<pool, marks, referenced, statics, frames, cycle, pc, mmOwner, exited>>

\* Mutant of Call: the frame is appended without the VM_MM mutex.
CallUnlocked(t, args) ==
  /\ Running(t) /\ Depth(t) < MaxFrames
  /\ Cardinality(args) <= MaxArgs
  /\ KeepTemps \/ Temps(t) \subseteq args
  /\ frames' = [frames EXCEPT ![t] = Append(@, args)]
  /\ temps' = [temps EXCEPT ![t] = SubSeq(@, 1, Depth(t) - 1) \o <<Temps(t) \ args, {}>>]
  /\ referenced' = referenced \cup args
  /\ UNCHANGED <<pool, marks, kids, statics, cycle, pc, mmOwner, exited>>

\* The frame of the callee is in the scope before its arguments are inserted.
Call(t, args) ==
  /\ Running(t) /\ mmOwner = None /\ Depth(t) < MaxFrames
  /\ Cardinality(args) <= MaxArgs
  /\ KeepTemps \/ Temps(t) \subseteq args
  /\ frames' = [frames EXCEPT ![t] = Append(@, args)]
  /\ temps' = [temps EXCEPT ![t] = SubSeq(@, 1, Depth(t) - 1) \o <<Temps(t) \ args, {}>>]
  /\ referenced' = referenced \cup args
  /\ UNCHANGED <<pool, marks, kids, statics, cycle, pc, mmOwner, exited>>

\* The callee's frame is dismissed, its result is a value of the caller.
Return(t, r) ==
  LET d == Depth(t) - 1 IN
  /\ Running(t) /\ mmOwner = None /\ d > 0
  /\ Cardinality(temps[t][d] \cup {r}) <= MaxTemps
  /\ frames' = [frames EXCEPT ![t] = SubSeq(@, 1, d)]
  /\ temps' = [temps EXCEPT ![t] = Append(SubSeq(@, 1, d - 1), temps[t][d] \cup {r})]
  /\ UNCHANGED <<pool, marks, graph, cycle, pc, mmOwner, exited>>

\* throw and vm_raise_exception set the exception alive, with all it refers
\* to (what the exception unwinds is not a matter of the collector).
Throw(t, x) ==
  /\ Running(t)
  /\ mark' = GcMark({x})
  /\ UNCHANGED <<pool, spared, graph, stack, cycle, pc, mmOwner, exited>>

\* A static attribute of a class being declared: its value is set alive once
\* and kept by the prototype, which no frame holds.
DeclareStatic(t, x) ==
  /\ Running(t) /\ x \in Statics
  /\ mark' = GcMark({x})
  /\ statics' = statics \cup {x} /\ referenced' = referenced \cup {x}
  /\ SetTemps(t, Temps(t) \ {x})
  /\ UNCHANGED <<pool, spared, kids, frames, cycle, pc, mmOwner, exited>>

-----------------------------------------------------------------------------
(* The collector, run by the thread that starts a statement.               *)

\* The values of the previous statement of this function are gone; those of
\* the expressions of its callers are not.
Statement(t) ==
  /\ Running(t)
  /\ SetTemps(t, {})
  /\ \/ usage < GcThreshold /\ UNCHANGED pc
     \/ /\ usage >= GcThreshold /\ collections < MaxCollections
        /\ pc' = [pc EXCEPT ![t] = "wait"]
  /\ UNCHANGED <<pool, marks, graph, frames, cycle, mmOwner, exited>>

\* Mutant of Acquire: the collection starts whoever holds the mutex.
AcquireUnlocked(t) ==
  /\ ~exited /\ pc[t] = "wait"
  /\ mmOwner' = t /\ next' = 1 /\ spared' = mark \cap heap
  /\ pc' = [pc EXCEPT ![t] = "mark"]
  /\ UNCHANGED <<pool, mark, graph, stack, count, collections, todo, exited>>

\* gc_collect takes the mutex after it has read the usage counter.
Acquire(t) ==
  /\ ~exited /\ pc[t] = "wait" /\ mmOwner = None
  /\ mmOwner' = t /\ next' = 1 /\ spared' = mark \cap heap
  /\ pc' = [pc EXCEPT ![t] = "mark"]
  /\ UNCHANGED <<pool, mark, graph, stack, count, collections, todo, exited>>

\* Mutant of MarkFrame: the children of a collection are not marked.
MarkFrameShallow(t) ==
  /\ pc[t] = "mark" /\ next <= Depth(t)
  /\ mark' = mark \cup frames[t][next]
  /\ next' = next + 1
  /\ UNCHANGED <<pool, spared, graph, stack, count, collections, todo, pc, mmOwner, exited>>

\* Only the scope of the collecting thread is marked.
MarkFrame(t) ==
  /\ pc[t] = "mark" /\ next <= Depth(t)
  /\ mark' = GcMark(frames[t][next])
  /\ next' = next + 1
  /\ UNCHANGED <<pool, spared, graph, stack, count, collections, todo, pc, mmOwner, exited>>

\* Mutant of EndMark: the cycle is not counted.
EndMarkUncounted(t) ==
  /\ pc[t] = "mark" /\ next > Depth(t)
  /\ IF Cardinality(lag) > Cardinality(heap)
     THEN pc' = [pc EXCEPT ![t] = "lag"] /\ todo' = lag
     ELSE pc' = [pc EXCEPT ![t] = "heap"] /\ todo' = heap
  /\ UNCHANGED <<pool, marks, graph, stack, count, collections, next, mmOwner, exited>>

\* The lag list is swept only when it is longer than the heap list.
EndMark(t) ==
  /\ pc[t] = "mark" /\ next > Depth(t)
  /\ collections' = collections + 1
  /\ IF Cardinality(lag) > Cardinality(heap)
     THEN pc' = [pc EXCEPT ![t] = "lag"] /\ todo' = lag
     ELSE pc' = [pc EXCEPT ![t] = "heap"] /\ todo' = heap
  /\ UNCHANGED <<pool, marks, graph, stack, count, next, mmOwner, exited>>

\* GC_IS_LAGGING: survived at least 70% of the collections.
IsLagging(n) == 10 * n >= 7 * collections

\* Mutant of SweepConstant: the literal leaves its list for no other.
SweepConstantLost(t, o) ==
  /\ pc[t] \in {"lag", "heap"} /\ o \in todo \cap Const
  /\ todo' = todo \ {o}
  /\ heap' = heap \ {o} /\ lag' = lag \ {o} /\ usage' = usage - 1
  /\ UNCHANGED <<constants, marks, graph, stack, count, collections, next, pc, mmOwner, exited>>

\* Mutant of SweepConstant: its memory is no longer counted.
SweepConstantUncounted(t, o) ==
  /\ pc[t] \in {"lag", "heap"} /\ o \in todo \cap Const
  /\ todo' = todo \ {o} /\ usage' = usage - 1
  /\ heap' = heap \ {o} /\ lag' = lag \ {o} /\ constants' = constants \cup {o}
  /\ UNCHANGED <<marks, graph, stack, count, collections, next, pc, mmOwner, exited>>

\* A literal goes to the constants list, whatever its mark.
SweepConstant(t, o) ==
  /\ pc[t] \in {"lag", "heap"} /\ o \in todo \cap Const
  /\ todo' = todo \ {o}
  /\ heap' = heap \ {o} /\ lag' = lag \ {o} /\ constants' = constants \cup {o}
  /\ UNCHANGED <<usage, marks, graph, stack, count, collections, next, pc, mmOwner, exited>>

\* Mutant of SweepAlive: an object promoted to the lag space keeps its mark,
\* and the heap list keeps the object too.
SweepAliveKept(t, o) ==
  /\ pc[t] \in {"lag", "heap"} /\ o \in (todo \ Const) \cap mark
  /\ todo' = todo \ {o}
  /\ count' = [count EXCEPT ![o] = IF pc[t] = "heap" THEN @ + 1 ELSE @]
  /\ IF pc[t] = "heap" /\ IsLagging(count'[o])
     THEN lag' = lag \cup {o} ELSE UNCHANGED lag
  /\ UNCHANGED <<heap, constants, usage, marks, graph, stack, collections, next, pc, mmOwner, exited>>

\* A survivor loses its mark; one of the heap may move to the lag space.
SweepAlive(t, o) ==
  /\ pc[t] \in {"lag", "heap"} /\ o \in (todo \ Const) \cap mark
  /\ todo' = todo \ {o} /\ mark' = mark \ {o}
  /\ count' = [count EXCEPT ![o] = IF pc[t] = "heap" THEN @ + 1 ELSE @]
  /\ IF pc[t] = "heap" /\ IsLagging(count'[o])
     THEN heap' = heap \ {o} /\ lag' = lag \cup {o}
     ELSE UNCHANGED <<heap, lag>>
  /\ UNCHANGED <<constants, usage, spared, graph, stack, collections, next, pc, mmOwner, exited>>

\* Mutant of SweepDead: the memory of the object stays counted.
SweepDeadCounted(t, o) ==
  /\ pc[t] \in {"lag", "heap"} /\ o \in todo \ (Const \cup mark \cup Dtors)
  /\ todo' = todo \ {o}
  /\ heap' = heap \ {o} /\ lag' = lag \ {o}
  /\ kids' = [kids EXCEPT ![o] = {}] /\ referenced' = referenced \ {o}
  /\ count' = [count EXCEPT ![o] = 0]
  /\ UNCHANGED <<constants, usage, marks, statics, stack, collections, next, pc, mmOwner, exited>>

\* Mutant of SweepDead: a collection that dies takes its elements with it, as
\* a recursive gc_free would.
SweepDeadDeep(t, o) ==
  LET dead == {o} \cup (kids[o] \ Const) IN
  /\ pc[t] \in {"lag", "heap"} /\ o \in todo \ (Const \cup mark \cup Dtors)
  /\ todo' = todo \ dead
  /\ usage' = usage - Cardinality(dead \cap (heap \cup lag))
  /\ heap' = heap \ dead /\ lag' = lag \ dead
  /\ kids' = [x \in Obj |-> IF x \in dead THEN {} ELSE kids[x]]
  /\ referenced' = referenced \ dead
  /\ count' = [x \in Obj |-> IF x \in dead THEN 0 ELSE count[x]]
  /\ UNCHANGED <<constants, marks, statics, stack, collections, next, pc, mmOwner, exited>>

\* gc_free: the object is emptied, deleted, and its list item removed.
SweepDead(t, o) ==
  /\ pc[t] \in {"lag", "heap"} /\ o \in todo \ (Const \cup mark \cup Dtors)
  /\ todo' = todo \ {o}
  /\ usage' = usage - 1
  /\ heap' = heap \ {o} /\ lag' = lag \ {o}
  /\ kids' = [kids EXCEPT ![o] = {}] /\ referenced' = referenced \ {o}
  /\ count' = [count EXCEPT ![o] = 0]
  /\ UNCHANGED <<constants, marks, statics, stack, collections, next, pc, mmOwner, exited>>

\* A dead instance with a destructor: its call pushes a frame, hence waits
\* for the mutex this very thread holds.  No action of t is enabled again.
SweepDestructor(t, o) ==
  /\ pc[t] \in {"lag", "heap"} /\ o \in (todo \cap Dtors) \ mark
  /\ usage' = usage - 1
  /\ pc' = [pc EXCEPT ![t] = "dtor"]
  /\ UNCHANGED <<heap, lag, constants, marks, graph, stack, cycle, mmOwner, exited>>

\* Mutant of LagDone: sweeping the lag space replaces sweeping the heap.
LagDoneOnly(t) ==
  /\ pc[t] = "lag" /\ todo = {}
  /\ pc' = [pc EXCEPT ![t] = "heap"]
  /\ UNCHANGED <<pool, marks, graph, stack, cycle, mmOwner, exited>>

LagDone(t) ==
  /\ pc[t] = "lag" /\ todo = {}
  /\ todo' = heap /\ pc' = [pc EXCEPT ![t] = "heap"]
  /\ UNCHANGED <<pool, marks, graph, stack, count, collections, next, mmOwner, exited>>

\* Mutant of HeapDone: the VM_MM mutex is not released.
HeapDoneLocked(t) ==
  /\ pc[t] = "heap" /\ todo = {}
  /\ pc' = [pc EXCEPT ![t] = "run"]
  /\ spared' = {}
  /\ UNCHANGED <<pool, mark, graph, stack, cycle, mmOwner, exited>>

HeapDone(t) ==
  /\ pc[t] = "heap" /\ todo = {}
  /\ pc' = [pc EXCEPT ![t] = "run"]
  /\ mmOwner' = None /\ spared' = {}
  /\ UNCHANGED <<pool, mark, graph, stack, cycle, exited>>

\* vm_release, at the end of the program or after a fatal error: the threads
\* are killed and gc_release frees the three lists.
Release(t) ==
  /\ ~exited /\ pc[t] = "run" /\ mmOwner = None
  /\ exited' = TRUE
  /\ heap' = {} /\ lag' = {} /\ constants' = {}
  /\ usage' = usage - Cardinality(Tracked)
  /\ frames' = [u \in Threads |-> <<>>] /\ temps' = [u \in Threads |-> <<>>]
  /\ UNCHANGED <<marks, graph, cycle, pc, mmOwner>>

Terminated == exited /\ UNCHANGED vars

-----------------------------------------------------------------------------
Mutator(t) ==
  \/ \E o \in Fresh : New(t, o) \/ (\E v \in Visible(t) : NewReference(t, o, v))
  \/ \E o \in Const : Literal(t, o)
  \/ \E x \in Temps(t) :
       \/ PushTmp(t, x) \/ DeclareStatic(t, x)
       \/ \E old \in Top(t) \cup {None} : Assign(t, x, t, Depth(t), old)
       \/ \E old \in Globals \cup {None} : Assign(t, x, Main, 1, old)
       \/ \E p \in Visible(t) : Link(t, p, x) \/ (\E old \in kids[p] : Replace(t, p, old, x))
  \/ \E x \in Top(t) : RemoveTmp(t, x)
  \/ \E x \in Visible(t) :
       \/ Throw(t, x) \/ Return(t, x)
       \/ \E c \in kids[x] : Subscript(t, x, c) \/ Pop(t, x, c)
  \/ \E args \in SUBSET Visible(t) : Call(t, args)
  \/ Statement(t)

Collector(t) ==
  \/ Acquire(t) \/ MarkFrame(t) \/ EndMark(t) \/ LagDone(t) \/ HeapDone(t)
  \/ \E o \in Obj :
       \/ SweepConstant(t, o) \/ SweepAlive(t, o)
       \/ SweepDead(t, o) \/ SweepDestructor(t, o)

Next == (\E t \in Threads : Mutator(t) \/ Collector(t) \/ Release(t)) \/ Terminated

Spec == Init /\ [][Next]_vars

\* A thread that collects is not descheduled for ever, and one that waits for
\* VM_MM gets it in the end, however often others take it.
FairSpec == Spec /\ \A t \in Threads : WF_vars(Collector(t)) /\ SF_vars(Acquire(t))

-----------------------------------------------------------------------------
(* Properties.                                                             *)

\* The programs whose live values the collector preserves: one thread, no
\* reference objects, no static attributes, and no call while the expression
\* holds a temporary that is not an argument of it.
Sequential == Threads = {Main} /\ Refs = {} /\ Statics = {} /\ ~KeepTemps

\* Every variable keeps its type; in particular the usage counter, which is
\* unsigned in the code, never goes below zero, and the temporaries of a
\* thread have one entry per frame.
TypeOK ==
  /\ heap \in SUBSET Obj /\ lag \in SUBSET Obj /\ constants \in SUBSET Obj
  /\ mark \in SUBSET Obj /\ spared \in SUBSET Obj
  /\ referenced \in SUBSET Obj /\ statics \in SUBSET Obj /\ todo \in SUBSET Obj
  /\ kids \in [Obj -> SUBSET Obj]
  /\ count \in [Obj -> Nat] /\ collections \in Nat /\ usage \in Nat /\ next \in Nat \ {0}
  /\ frames \in [Threads -> Seq(SUBSET Obj)]
  /\ temps \in [Threads -> Seq(SUBSET Obj)]
  /\ \A t \in Threads : Len(temps[t]) = Len(frames[t])
  /\ pc \in [Threads -> {"run", "wait", "mark", "lag", "heap", "dtor"}]
  /\ mmOwner \in Threads \cup {None} /\ exited \in BOOLEAN

\* ll_move and gc_free keep an object in exactly one of the three lists, and
\* the usage counter is the memory of what they hold (less the instance whose
\* destructor is being called, already subtracted by gc_free).
Accounting ==
  /\ heap \cap lag = {} /\ heap \cap constants = {} /\ lag \cap constants = {}
  /\ usage = Cardinality(Tracked) - Cardinality({t \in Threads : pc[t] = "dtor"})

\* No object that a frame of the program reaches has been deleted: gc_collect
\* frees garbage only.
NoDangling == Rooted \subseteq Tracked

\* A value that an expression of a running function, or of one of its callers,
\* still holds has not been deleted: the reason vm_exec gives for collecting
\* at statements only.
TempsKept ==
  \A t \in Threads : \A i \in DOMAIN temps[t] : temps[t][i] \subseteq Tracked

\* The values of the static attributes are there until the program ends, as
\* the class declaration says they are.
StaticsKept == ~exited => statics \subseteq Tracked

\* When gc_collect has swept the heap, what is left there is reachable from
\* the frames of the collecting thread, or was marked before the collection
\* began (gc_set_alive outside gc_collect): no garbage survives a sweep.
HeapExact ==
  \A t \in Threads :
    pc[t] = "heap" /\ todo = {} => heap \subseteq Reach(ScopeOf(t), kids) \cup spared

\* A sweep of the heap leaves no mark behind for the next collection.
MarksReset == \A t \in Threads : pc[t] = "heap" /\ todo = {} => mark \cap heap = {}

\* An object survives at most every collection there was, so that the rate
\* GC_IS_LAGGING divides is at most one.
CountBounded == \A o \in Obj : count[o] <= collections

\* The collector with its three lists, marks and sweeps is an ObjectPool.
Promise == INSTANCE ObjectPool WITH pool <- Tracked, rooted <- Rooted, open <- ~exited

\* The pool shrinks only by garbage, one object at a time, until vm_release,
\* and the program never comes to reach an object outside of it.
KeepsPromise == Promise!Spec

\* The VM_MM mutex admits one collector, which no other step displaces.
OneCollector ==
  \A t \in Threads : Collecting(t) => mmOwner = t /\ \A u \in Threads : Collecting(u) => u = t

\* "Lock the virtual machine to prevent new frames to be added": while a
\* thread collects, no thread enters or leaves a function.
FramesStable ==
  [][\A t \in Threads : Collecting(t) /\ Collecting(t)' => \A u \in Threads : Depth(u)' = Depth(u)]_vars

\* A thread that starts a collection gets to run its statement, or the program
\* has ended.
CollectionTerminates == \A t \in Threads : pc[t] = "wait" ~> pc[t] = "run" \/ exited

=============================================================================
