---------------------------- MODULE ThreadScopes ----------------------------
(***************************************************************************)
(* The life of the script's threads and the mutexes it takes: VM_TSYNC,    *)
(* which holds a new thread back until its scope is ready, and VM_MM,      *)
(* which guards the map from threads to scopes and the frames in them.     *)
(*                                                                         *)
(* A critical section that nothing can interrupt is one action, guarded by *)
(* the mutex being free; the owner is recorded where a thread takes further *)
(* steps while it holds the mutex.                                         *)
(***************************************************************************)
EXTENDS Naturals, Sequences

CONSTANTS
  Threads, Main,  \* thread ids; Main runs the script
  None,           \* no thread
  MaxFrames,      \* VM_MAX_RECURSION
  MaxCreates,     \* bound: calls of pthread_create that succeed
  OutOfMemory,    \* may the allocation of an exception's message fail?
  TornLookups     \* may a lookup miss while the map is being changed?

ASSUME ThreadAssumption == Main \in Threads /\ None \notin Threads
ASSUME BoundAssumption ==
  /\ MaxFrames \in Nat /\ MaxFrames >= 2 /\ MaxCreates \in Nat
  /\ OutOfMemory \in BOOLEAN /\ TornLookups \in BOOLEAN

VARIABLES
  pc,        \* where each thread is
  pool,      \* threads with an entry in th_frames
  scope,     \* frames of each thread, oldest first
  child,     \* the thread each thread is creating
  creates,   \* threads created so far
  tsync, mm, \* owners of the two mutexes
  released,  \* vm_release has emptied th_frames
  releasing, \* vm_t::releasing
  doomed,    \* a SIGTERM is pending for the process
  alive      \* the process has not ended

vars == <<pc, pool, scope, child, creates, tsync, mm, released, releasing, doomed, alive>>

ending  == <<released, releasing, doomed, alive>>
mutexes == <<tsync, mm>>
spawn   == <<child, creates>>

States ==
  {"none", "start", "enter", "run", "push", "pop", "leave", "depooling", "ended",
   "create", "pool", "pooling", "append", "signal",
   "raise", "fatal", "release", "locking", "freed", "lost"}

Frames == {"main", "args", "call"}

-----------------------------------------------------------------------------
Init ==
  /\ pc = [t \in Threads |-> IF t = Main THEN "run" ELSE "none"]
  /\ pool = {} /\ scope = [t \in Threads |-> IF t = Main THEN <<"main">> ELSE <<>>]
  /\ child = [t \in Threads |-> None] /\ creates = 0
  /\ tsync = None /\ mm = None
  /\ released = FALSE /\ releasing = FALSE /\ doomed = FALSE /\ alive = TRUE

At(t, state) == alive /\ pc[t] = state
Goto(t, state) == pc' = [pc EXCEPT ![t] = state]

\* vm_find_scope: an absent entry is dereferenced all the same, and so may be
\* one that another thread's insertion or removal hides for a moment.
HasScope(t) == t = Main \/ t \in pool
Torn(t) ==
  /\ TornLookups /\ t # Main
  /\ \E u \in Threads : pc[u] = "pooling" \/ (pc[u] = "depooling" /\ u \in pool)

Lookup(t, state) ==
  \/ HasScope(t) /\ Goto(t, state)
  \/ (~HasScope(t) \/ Torn(t)) /\ Goto(t, "lost")

-----------------------------------------------------------------------------
(* hpthread_create, by any thread that runs.                               *)

CreateLock(t) ==
  /\ At(t, "run") /\ tsync = None
  /\ tsync' = t /\ Goto(t, "create")
  /\ UNCHANGED <<pool, scope, spawn, mm, ending>>

Spawn(t, u) ==
  /\ At(t, "create") /\ pc[u] = "none" /\ creates < MaxCreates
  /\ pc' = [pc EXCEPT ![t] = "pool", ![u] = "start"]
  /\ child' = [child EXCEPT ![t] = u] /\ creates' = creates + 1
  /\ UNCHANGED <<pool, scope, mutexes, ending>>

\* Mutant of SpawnFails: the early return forgets the mutex.
SpawnFailsLocked(t) ==
  /\ At(t, "create")
  /\ Goto(t, "run")
  /\ UNCHANGED <<pool, scope, spawn, mutexes, ending>>

\* pthread_create fails: a warning, and the mutex is released.
SpawnFails(t) ==
  /\ At(t, "create")
  /\ Goto(t, "signal")
  /\ UNCHANGED <<pool, scope, spawn, mutexes, ending>>

PoolBegin(t) ==
  /\ At(t, "pool") /\ mm = None
  /\ mm' = t /\ Goto(t, "pooling")
  /\ UNCHANGED <<pool, scope, spawn, tsync, ending>>

\* Mutant of PoolEnd: VM_TSYNC is released before the arguments are appended.
PoolEndUnlocks(t) ==
  /\ At(t, "pooling")
  /\ pool' = pool \cup {child[t]} /\ scope' = [scope EXCEPT ![child[t]] = <<>>]
  /\ mm' = None /\ tsync' = None /\ Goto(t, "append")
  /\ UNCHANGED <<spawn, ending>>

PoolEnd(t) ==
  /\ At(t, "pooling")
  /\ pool' = pool \cup {child[t]} /\ scope' = [scope EXCEPT ![child[t]] = <<>>]
  /\ mm' = None /\ Goto(t, "append")
  /\ UNCHANGED <<spawn, tsync, ending>>

\* Without VM_MM: should vm_release have deleted the scope meanwhile, this
\* writes to memory that is no longer owned.
AppendArgs(t) ==
  /\ At(t, "append")
  /\ IF child[t] \in pool
     THEN Goto(t, "signal") /\ scope' = [scope EXCEPT ![child[t]] = Append(@, "args")]
     ELSE Goto(t, "lost") /\ UNCHANGED scope
  /\ UNCHANGED <<pool, spawn, mutexes, ending>>

CreateUnlock(t) ==
  /\ At(t, "signal")
  /\ tsync' = None /\ child' = [child EXCEPT ![t] = None] /\ Goto(t, "run")
  /\ UNCHANGED <<pool, scope, creates, mm, ending>>

-----------------------------------------------------------------------------
(* hyb_pthread_worker and the calls of any thread.                         *)

\* Mutant of StartLock: the worker does not wait for its creator.
StartUnsynced(t) ==
  /\ At(t, "start")
  /\ Goto(t, "enter")
  /\ UNCHANGED <<pool, scope, spawn, mutexes, ending>>

\* The worker takes VM_TSYNC and gives it back: from here its scope is ready.
StartLock(t) ==
  /\ At(t, "start") /\ tsync = None
  /\ Goto(t, "enter")
  /\ UNCHANGED <<pool, scope, spawn, mutexes, ending>>

\* Mutant of Call: the limit on nested calls is not checked.
CallUnchecked(t) ==
  /\ At(t, "run") /\ Len(scope[t]) <= MaxFrames
  /\ Lookup(t, "push")
  /\ UNCHANGED <<pool, scope, spawn, mutexes, ending>>

\* vm_prepare_stack reads the size of the scope, then adds the frame.
Call(t) ==
  /\ At(t, "run") /\ Len(scope[t]) < MaxFrames
  /\ Lookup(t, "push")
  /\ UNCHANGED <<pool, scope, spawn, mutexes, ending>>

\* vm_exec_threaded_call calls the thread's function in the same way.
Enter(t) ==
  /\ At(t, "enter") /\ Len(scope[t]) < MaxFrames
  /\ Lookup(t, "push")
  /\ UNCHANGED <<pool, scope, spawn, mutexes, ending>>

PushFrame(t) ==
  /\ At(t, "push") /\ mm = None
  /\ IF HasScope(t)
     THEN Goto(t, "run") /\ scope' = [scope EXCEPT ![t] = Append(@, "call")]
     ELSE Goto(t, "lost") /\ UNCHANGED scope
  /\ UNCHANGED <<pool, spawn, mutexes, ending>>

\* vm_pop_frame looks the scope up before it takes VM_MM.
Return(t) ==
  /\ At(t, "run") /\ (Len(scope[t]) > 1 \/ ~HasScope(t))
  /\ Lookup(t, "pop")
  /\ UNCHANGED <<pool, scope, spawn, mutexes, ending>>

\* A worker whose function returns has only the frame of its arguments left.
PopFrame(t) ==
  /\ At(t, "pop") /\ mm = None
  /\ IF HasScope(t)
     THEN /\ scope' = [scope EXCEPT ![t] = SubSeq(@, 1, Len(@) - 1)]
          /\ Goto(t, IF t # Main /\ Len(scope[t]) = 2 THEN "leave" ELSE "run")
     ELSE Goto(t, "lost") /\ UNCHANGED scope
  /\ UNCHANGED <<pool, spawn, mutexes, ending>>

\* hpthread_exit: at any depth, by the main thread too.
Exit(t) ==
  /\ At(t, "run")
  /\ Goto(t, "leave")
  /\ UNCHANGED <<pool, scope, spawn, mutexes, ending>>

DepoolBegin(t) ==
  /\ At(t, "leave") /\ mm = None
  /\ mm' = t /\ Goto(t, "depooling")
  /\ UNCHANGED <<pool, scope, spawn, tsync, ending>>

\* Mutant of DepoolEnd: the thread ends without leaving the pool.
DepoolEndKept(t) ==
  /\ At(t, "depooling")
  /\ mm' = None /\ Goto(t, "ended")
  /\ UNCHANGED <<pool, scope, spawn, tsync, ending>>

DepoolEnd(t) ==
  /\ At(t, "depooling")
  /\ pool' = pool \ {t}
  /\ scope' = IF t \in pool THEN [scope EXCEPT ![t] = <<>>] ELSE scope
  /\ mm' = None /\ Goto(t, "ended")
  /\ UNCHANGED <<spawn, tsync, ending>>

\* hpthread_join: the id of a joined thread may be given to a new one.
Join(t, u) ==
  /\ At(t, "run") /\ u # Main /\ pc[u] = "ended"
  /\ Goto(u, "none")
  /\ UNCHANGED <<pool, scope, spawn, mutexes, ending>>

-----------------------------------------------------------------------------
(* Exceptions, fatal errors and the end of the program.                    *)

\* vm_raise_exception allocates the message while it holds VM_MM.
Raise(t) ==
  /\ At(t, "run") /\ mm = None
  /\ mm' = t /\ Goto(t, "raise")
  /\ UNCHANGED <<pool, scope, spawn, tsync, ending>>

\* Mutant of RaiseDone: VM_MM stays locked.
RaiseDoneLocked(t) ==
  /\ At(t, "raise")
  /\ IF HasScope(t) THEN Goto(t, "run") ELSE Goto(t, "lost")
  /\ UNCHANGED <<pool, scope, spawn, mutexes, ending>>

RaiseDone(t) ==
  /\ At(t, "raise")
  /\ IF HasScope(t) THEN Goto(t, "run") /\ mm' = None ELSE Goto(t, "lost") /\ UNCHANGED mm
  /\ UNCHANGED <<pool, scope, spawn, tsync, ending>>

RaiseFails(t) ==
  /\ OutOfMemory /\ At(t, "raise")
  /\ Goto(t, "fatal")
  /\ UNCHANGED <<pool, scope, spawn, mutexes, ending>>

\* hyb_error in the script's code, too many nested calls, wrong arguments.
Fatal(t) ==
  /\ At(t, "enter") \/ At(t, "run")
  /\ Goto(t, "fatal")
  /\ UNCHANGED <<pool, scope, spawn, mutexes, ending>>

\* yyerror: an error while the machine is released ends the process at once.
Error(t) ==
  /\ At(t, "fatal")
  /\ IF releasing THEN alive' = FALSE /\ UNCHANGED pc ELSE Goto(t, "release") /\ UNCHANGED alive
  /\ UNCHANGED <<pool, scope, spawn, mutexes, released, releasing, doomed>>

MainEnds ==
  /\ At(Main, "run") /\ Len(scope[Main]) = 1
  /\ Goto(Main, "release")
  /\ UNCHANGED <<pool, scope, spawn, mutexes, ending>>

ReleaseBegin(t) ==
  /\ At(t, "release")
  /\ releasing' = TRUE /\ Goto(t, "locking")
  /\ UNCHANGED <<pool, scope, spawn, mutexes, released, doomed, alive>>

\* pthread_kill(SIGTERM) directs the signal at a thread, but its action, for
\* want of a handler, is to end the process.
Release(t) ==
  /\ At(t, "locking") /\ mm = None
  /\ released' = TRUE /\ doomed' = (doomed \/ pool # {})
  /\ pool' = {} /\ scope' = [u \in Threads |-> IF u = Main THEN scope[u] ELSE <<>>]
  /\ Goto(t, "freed")
  /\ UNCHANGED <<spawn, mutexes, releasing, alive>>

Finish(t) ==
  /\ At(t, "freed")
  /\ alive' = FALSE
  /\ UNCHANGED <<pc, pool, scope, spawn, mutexes, released, releasing, doomed>>

\* The signal is delivered, or the last thread has ended.
ProcessEnds ==
  /\ alive /\ (doomed \/ \A t \in Threads : pc[t] \in {"none", "ended"})
  /\ alive' = FALSE
  /\ UNCHANGED <<pc, pool, scope, spawn, mutexes, released, releasing, doomed>>

Terminated == ~alive /\ UNCHANGED vars

-----------------------------------------------------------------------------
\* What the script decides.
Script(t) ==
  \/ CreateLock(t) \/ Call(t) \/ Return(t) \/ Exit(t) \/ Raise(t) \/ Fatal(t)
  \/ t = Main /\ MainEnds
  \/ \E u \in Threads : Join(t, u)

\* What follows once it has decided, or once a thread has been created.
Continue(t) ==
  \/ SpawnFails(t) \/ PoolBegin(t) \/ PoolEnd(t) \/ AppendArgs(t) \/ CreateUnlock(t)
  \/ StartLock(t) \/ Enter(t) \/ PushFrame(t) \/ PopFrame(t) \/ DepoolBegin(t) \/ DepoolEnd(t)
  \/ RaiseDone(t) \/ RaiseFails(t)
  \/ Error(t) \/ ReleaseBegin(t) \/ Release(t) \/ Finish(t)
  \/ \E u \in Threads : Spawn(t, u)

Next ==
  \/ \E t \in Threads : Script(t) \/ Continue(t)
  \/ ProcessEnds \/ Terminated

Spec == Init /\ [][Next]_vars

\* A thread that can go on does, also when it needs a mutex others keep taking.
FairSpec == Spec /\ WF_vars(ProcessEnds) /\ \A t \in Threads : SF_vars(Continue(t))

-----------------------------------------------------------------------------
(* Properties.                                                             *)

Started(t) == t = Main \/ pc[t] \notin {"none", "start", "ended"}

\* Every variable keeps its type; no thread ever has more frames than
\* VM_MAX_RECURSION, though the check and the insertion are not one step.
TypeOK ==
  /\ pc \in [Threads -> States] /\ pool \subseteq Threads \ {Main}
  /\ scope \in [Threads -> Seq(Frames)]
  /\ \A t \in Threads : Len(scope[t]) <= MaxFrames
  /\ child \in [Threads -> Threads \cup {None}] /\ creates \in 0..MaxCreates
  /\ tsync \in Threads \cup {None} /\ mm \in Threads \cup {None}
  /\ released \in BOOLEAN /\ releasing \in BOOLEAN /\ doomed \in BOOLEAN /\ alive \in BOOLEAN

\* A thread that looks its scope up finds it, until vm_release has emptied the
\* map and the process is about to be ended.
ScopeFound == \A t \in Threads : pc[t] = "lost" => doomed

\* The map holds no thread that has ended or that was never created, so that
\* an id given out again starts from an empty scope.
NoStaleScope == \A t \in pool : pc[t] \notin {"none", "ended"}

\* The threads with their handshake, their map and its mutex are CallStacks:
\* a scope comes into being complete, and then only its own thread changes it.
Stacks == INSTANCE CallStacks WITH
  running <- IF released THEN {} ELSE {t \in Threads : Started(t)},
  stack   <- [t \in Threads |-> IF ~released /\ Started(t) THEN scope[t] ELSE <<>>],
  open    <- ~released

ImplementsStacks == Stacks!Spec

\* "It's safe to start the thread now": a thread that was created starts to
\* run, or the process ends.
StartsEventually == \A t \in Threads : pc[t] = "start" ~> pc[t] # "start" \/ ~alive

\* A fatal error ends the program.
FatalEnds == \A t \in Threads : pc[t] = "fatal" ~> ~alive

=============================================================================
