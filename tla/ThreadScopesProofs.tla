------------------------- MODULE ThreadScopesProofs -------------------------
(***************************************************************************)
(* Proofs about ThreadScopes, for any number of threads.                   *)
(*                                                                         *)
(* The inductive invariant follows the handshake of hpthread_create: who   *)
(* holds which mutex, what a creator knows of its child, and what a thread *)
(* that has not started yet will find.                                     *)
(***************************************************************************)
EXTENDS ThreadScopes, TLAPS

HoldsTsync(t) == pc[t] \in {"create", "pool", "pooling", "append", "signal"}
HoldsMm(t)    == pc[t] \in {"pooling", "depooling", "raise"}
Creating(t)   == pc[t] \in {"pool", "pooling", "append"}

LockInv == \A t \in Threads : (HoldsTsync(t) => tsync = t) /\ (HoldsMm(t) => mm = t)

MainInv == pc[Main] \notin {"none", "start"}

\* A thread being created waits, and its scope is empty until the arguments
\* are appended.
ChildInv ==
  \A t \in Threads :
    /\ Creating(t) => child[t] \in Threads \ {Main} /\ pc[child[t]] = "start"
    /\ pc[t] = "append" =>
         /\ ~released => child[t] \in pool
         /\ child[t] \in pool => scope[child[t]] = <<>>

\* One whose creator is done waits for the mutex only.
StartInv ==
  \A u \in Threads :
    pc[u] = "start" /\ ~released /\ (\A t \in Threads : Creating(t) => child[t] # u) =>
      u \in pool /\ scope[u] = <<"args">>

PoolInv ==
  /\ NoStaleScope
  /\ ~released => \A u \in Threads \ {Main} : Started(u) => u \in pool

\* If no signal is pending after vm_release, no worker was left.
DoomInv ==
  released /\ ~doomed =>
    pc[Main] = "freed" /\ \A u \in Threads \ {Main} : pc[u] \in {"none", "ended"}

\* Between the check and the change of its depth a scope keeps its length.
DepthInv ==
  \A t \in Threads :
    /\ pc[t] = "push" => Len(scope[t]) < MaxFrames
    /\ pc[t] = "pop" /\ ~released => Len(scope[t]) > 1

TInv ==
  /\ TypeOK /\ LockInv /\ MainInv /\ ChildInv
  /\ StartInv /\ PoolInv /\ DoomInv /\ DepthInv

USE ThreadAssumption, BoundAssumption
USE DEF HoldsTsync, HoldsMm, Creating, Started, HasScope, At, Goto, States,
        spawn, mutexes, ending

-----------------------------------------------------------------------------
(* Sequences of frames.                                                    *)

\* Appending a frame.
LEMMA FrameAppend ==
  ASSUME NEW s \in Seq(Frames), NEW f \in Frames
  PROVE  Append(s, f) \in Seq(Frames) /\ Len(Append(s, f)) = Len(s) + 1
OBVIOUS

\* A prefix of a scope.
LEMMA FramePrefix ==
  ASSUME NEW s \in Seq(Frames), NEW d \in 0..Len(s)
  PROVE  SubSeq(s, 1, d) \in Seq(Frames) /\ Len(SubSeq(s, 1, d)) = d
OBVIOUS

\* Dropping the newest frame.
LEMMA FramePop ==
  ASSUME NEW s \in Seq(Frames), Len(s) >= 1
  PROVE  /\ SubSeq(s, 1, Len(s) - 1) \in Seq(Frames)
         /\ Len(SubSeq(s, 1, Len(s) - 1)) = Len(s) - 1
<1> DEFINE d == Len(s) - 1
<1>1. d \in 0..Len(s)
  OBVIOUS
<1> HIDE DEF d
<1>2. SubSeq(s, 1, d) \in Seq(Frames) /\ Len(SubSeq(s, 1, d)) = d
  BY <1>1, FramePrefix
<1> QED
  BY <1>2 DEF d

\* The first arguments of an empty scope.
LEMMA FirstFrame ==
  Append(<<>>, "args") = <<"args">> /\ <<>> \in Seq(Frames) /\ Len(<<>>) = 0
BY DEF Frames

\* The invariant holds when the virtual machine starts.
LEMMA TInit == Init => TInv
<1> SUFFICES ASSUME Init PROVE TInv
  OBVIOUS
<1>1. TypeOK
  <2>1. <<"main">> \in Seq(Frames) /\ Len(<<"main">>) = 1
    BY DEF Frames
  <2>2. scope \in [Threads -> Seq(Frames)] /\ \A t \in Threads : Len(scope[t]) <= MaxFrames
    BY <2>1, FirstFrame DEF Init
  <2>3. pc \in [Threads -> States] /\ child \in [Threads -> Threads \cup {None}]
    BY DEF Init
  <2>4. creates \in 0..MaxCreates
    BY DEF Init
  <2> QED
    BY <2>2, <2>3, <2>4 DEF Init, TypeOK
<1> QED
  BY <1>1 DEF Init, TInv, LockInv, MainInv, ChildInv, StartInv, PoolInv, NoStaleScope, DoomInv, DepthInv

\* A step that only moves a running thread on.
LEMMA Moves ==
  ASSUME TInv, NEW t \in Threads,
         NEW x \in {"run", "push", "pop", "lost", "fatal", "release", "locking"},
         pc[t] \in {"enter", "run", "push", "pop", "raise", "fatal", "release"},
         Goto(t, x), UNCHANGED <<pool, scope, spawn, tsync, released, doomed>>,
         mm' = mm \/ (mm = t /\ mm' = None),
         releasing' \in BOOLEAN, alive' \in BOOLEAN,
         x = "push" => Len(scope[t]) < MaxFrames,
         x = "pop" /\ ~released => Len(scope[t]) > 1
  PROVE  TInv'
<1> USE DEF TInv, TypeOK
<1>1. /\ pc' \in [Threads -> States] /\ pc'[t] = x
      /\ \A u \in Threads \ {t} : pc'[u] = pc[u]
  OBVIOUS
<1>2. TypeOK'
  BY <1>1
<1>3. LockInv' /\ MainInv'
  BY <1>1 DEF LockInv, MainInv
<1>4. \A u \in Threads : Creating(u)' = Creating(u) /\ (pc'[u] = "start" <=> pc[u] = "start")
  BY <1>1
<1>5. ChildInv' /\ StartInv'
  BY <1>1, <1>4 DEF ChildInv, StartInv
<1>6. PoolInv'
  BY <1>1 DEF PoolInv, NoStaleScope
<1>7. DoomInv' /\ DepthInv'
  BY <1>1 DEF DoomInv, DepthInv
<1> QED
  BY <1>2, <1>3, <1>5, <1>6, <1>7

\* A step that changes the scope of a thread that has started, and only its.
LEMMA Stacks1 ==
  ASSUME TInv, NEW t \in Threads, NEW x \in {"run", "leave"},
         pc[t] \in {"push", "pop"}, HasScope(t), Goto(t, x),
         NEW s \in Seq(Frames), Len(s) <= MaxFrames, scope' = [scope EXCEPT ![t] = s],
         UNCHANGED <<pool, spawn, mutexes, ending>>
  PROVE  TInv'
<1> USE DEF TInv, TypeOK
<1>1. /\ pc' \in [Threads -> States] /\ pc'[t] = x
      /\ \A u \in Threads \ {t} : pc'[u] = pc[u] /\ scope'[u] = scope[u]
  OBVIOUS
<1>2. TypeOK'
  BY <1>1
<1>3. LockInv' /\ MainInv'
  BY <1>1 DEF LockInv, MainInv
<1>4. \A u \in Threads : Creating(u)' = Creating(u) /\ (pc'[u] = "start" <=> pc[u] = "start")
  BY <1>1
<1>5. \A u \in Threads : Creating(u) => child[u] # t
  BY DEF ChildInv
<1>6. ChildInv' /\ StartInv'
  BY <1>1, <1>4, <1>5 DEF ChildInv, StartInv
<1>7. PoolInv'
  BY <1>1 DEF PoolInv, NoStaleScope
<1>8. DoomInv' /\ DepthInv'
  BY <1>1 DEF DoomInv, DepthInv
<1> QED
  BY <1>2, <1>3, <1>6, <1>7, <1>8

\* The end of the process.
LEMMA TKept ==
  ASSUME TInv, UNCHANGED <<pc, pool, scope, spawn, mutexes, released, doomed>>,
         releasing' \in BOOLEAN, alive' \in BOOLEAN
  PROVE  TInv'
BY DEF TInv, TypeOK, LockInv, MainInv, ChildInv, StartInv, PoolInv, NoStaleScope, DoomInv, DepthInv

\* Every action preserves it.
LEMMA TNext == TInv /\ Next => TInv'
<1> SUFFICES ASSUME TInv, Next PROVE TInv'
  OBVIOUS
<1> USE DEF TInv, TypeOK, LockInv, MainInv, ChildInv, StartInv, PoolInv, NoStaleScope, DoomInv, DepthInv, Lookup
<1>0. \A t, u \in Threads : HoldsTsync(t) /\ HoldsTsync(u) => t = u
  BY DEF LockInv
<1>1. ASSUME NEW t \in Threads, CreateLock(t) PROVE TInv'
  BY <1>1, FirstFrame DEF CreateLock
<1>2. ASSUME NEW t \in Threads, SpawnFails(t) PROVE TInv'
  BY <1>2, FirstFrame, ZenonT(40) DEF SpawnFails
<1>3. ASSUME NEW t \in Threads, PoolBegin(t) PROVE TInv'
  BY <1>3, FirstFrame, SMTT(30) DEF PoolBegin
<1>4. ASSUME NEW t \in Threads, PoolEnd(t) PROVE TInv'
  BY <1>4, FirstFrame DEF PoolEnd
<1>5. ASSUME NEW t \in Threads, AppendArgs(t) PROVE TInv'
  <2>1. CASE child[t] \in pool
    <3>0. /\ pc[t] = "append" /\ pc' = [pc EXCEPT ![t] = "signal"]
          /\ scope' = [scope EXCEPT ![child[t]] = Append(scope[child[t]], "args")]
      BY <1>5, <2>1 DEF AppendArgs
    <3>c. child[t] \in Threads \ {Main} /\ scope[child[t]] = <<>>
      BY <2>1, <3>0
    <3>1. /\ pc' \in [Threads -> States] /\ pc'[t] = "signal" /\ child[t] \in Threads \ {Main}
          /\ \A u \in Threads \ {t} : pc'[u] = pc[u]
          /\ scope[child[t]] = <<>> /\ scope'[child[t]] = <<"args">>
          /\ \A u \in Threads \ {child[t]} : scope'[u] = scope[u]
      BY <3>0, <3>c, FirstFrame
    <3>2. TypeOK'
      <4>1. <<"args">> \in Seq(Frames) /\ Len(<<"args">>) = 1
        BY DEF Frames
      <4>2. scope' = [scope EXCEPT ![child[t]] = <<"args">>]
        BY <1>5, <2>1, <3>1, FirstFrame DEF AppendArgs
      <4>3. scope' \in [Threads -> Seq(Frames)] /\ \A u \in Threads : Len(scope'[u]) <= MaxFrames
        BY <3>1, <4>1, <4>2
      <4>4. UNCHANGED <<pool, child, creates, tsync, mm, released, releasing, doomed, alive>>
        BY <1>5 DEF AppendArgs
      <4> QED
        BY <3>1, <4>3, <4>4
    <3>3. LockInv' /\ MainInv'
      BY <1>5, <3>1 DEF AppendArgs
    <3>4. \A u \in Threads \ {t} : ~Creating(u)
      <4>1. \A u \in Threads : Creating(u) => HoldsTsync(u)
        OBVIOUS
      <4>2. HoldsTsync(t)
        BY <3>0
      <4> HIDE DEF Creating, HoldsTsync, TInv
      <4> QED
        BY <1>0, <4>1, <4>2
    <3>u. UNCHANGED <<pool, child, released>>
      BY <1>5 DEF AppendArgs
    <3>k. \A u \in Threads : ~Creating(u)'
      BY <3>1, <3>4
    <3>i. ChildInv'
      BY <3>k
    <3>s. ASSUME NEW u \in Threads, pc'[u] = "start", ~released'
          PROVE  u \in pool' /\ scope'[u] = <<"args">>
      <4>1. CASE u = child[t]
        BY <2>1, <3>1, <3>u, <4>1
      <4>2. CASE u # child[t]
        <5>1. pc[u] = "start" /\ ~released /\ \A w \in Threads : Creating(w) => child[w] # u
          BY <3>s, <3>1, <3>4, <3>u, <4>2
        <5>2. u \in pool /\ scope[u] = <<"args">>
          BY <5>1
        <5> QED
          BY <3>1, <3>u, <4>2, <5>2
      <4> QED
        BY <4>1, <4>2
    <3>5. ChildInv' /\ StartInv'
      BY <3>i, <3>s
    <3>6. pc[t] = "append" /\ UNCHANGED <<pool, released, doomed>>
      BY <1>5 DEF AppendArgs
    <3>7. PoolInv'
      BY <3>1, <3>6
    <3>8. DoomInv'
      BY <3>1, <3>6
    <3>9. pc[child[t]] = "start"
      BY <3>6
    <3>10. DepthInv'
      BY <3>1, <3>6, <3>9
    <3> QED
      BY <3>2, <3>3, <3>5, <3>7, <3>8, <3>10
  <2>2. CASE child[t] \notin pool
    <3>1. /\ pc' \in [Threads -> States] /\ pc'[t] = "lost" /\ pc[t] = "append"
          /\ \A u \in Threads \ {t} : pc'[u] = pc[u]
          /\ UNCHANGED <<pool, scope, child, creates, tsync, mm, released, releasing, doomed, alive>>
      BY <1>5, <2>2 DEF AppendArgs
    <3>2. TypeOK' /\ LockInv' /\ MainInv'
      BY <3>1
    <3>3. ChildInv' /\ StartInv'
      BY <2>2, <3>1
    <3>4. PoolInv'
      BY <3>1
    <3>5. DoomInv' /\ DepthInv'
      BY <3>1
    <3> QED
      BY <3>2, <3>3, <3>4, <3>5
  <2> QED
    BY <2>1, <2>2
<1>6. ASSUME NEW t \in Threads, CreateUnlock(t) PROVE TInv'
  BY <1>6, FirstFrame, ZenonT(40) DEF CreateUnlock
<1>7. ASSUME NEW t \in Threads, StartLock(t) PROVE TInv'
  BY <1>7, FirstFrame, ZenonT(40) DEF StartLock
<1>8. ASSUME NEW t \in Threads, Call(t) PROVE TInv'
  BY <1>8, Moves DEF Call
<1>9. ASSUME NEW t \in Threads, Enter(t) PROVE TInv'
  BY <1>9, Moves DEF Enter
<1>10. ASSUME NEW t \in Threads, PushFrame(t) PROVE TInv'
  <2>1. CASE HasScope(t)
    <3> DEFINE s == Append(scope[t], "call")
    <3>1. scope[t] \in Seq(Frames) /\ "call" \in Frames /\ Len(scope[t]) < MaxFrames
      BY <1>10 DEF PushFrame, Frames
    <3>2. s \in Seq(Frames) /\ Len(s) <= MaxFrames
      BY <3>1, FrameAppend
    <3>3. scope' = [scope EXCEPT ![t] = s]
      BY <1>10, <2>1 DEF PushFrame
    <3> HIDE DEF s
    <3> QED
      BY <1>10, <2>1, <3>2, <3>3, Stacks1 DEF PushFrame
  <2>2. CASE ~HasScope(t)
    BY <1>10, <2>2, Moves DEF PushFrame
  <2> QED
    BY <2>1, <2>2
<1>11. ASSUME NEW t \in Threads, Return(t) PROVE TInv'
  <2>1. ~released => Len(scope[t]) > 1
    BY <1>11 DEF Return
  <2> QED
    BY <1>11, <2>1, Moves DEF Return
<1>12. ASSUME NEW t \in Threads, PopFrame(t) PROVE TInv'
  <2>1. CASE HasScope(t)
    <3> DEFINE s == SubSeq(scope[t], 1, Len(scope[t]) - 1)
    <3>1. scope[t] \in Seq(Frames) /\ Len(scope[t]) \in Nat /\ Len(scope[t]) <= MaxFrames
      BY <1>12 DEF PopFrame
    <3>2. s \in Seq(Frames) /\ Len(s) <= MaxFrames
      <4>1. CASE Len(scope[t]) >= 1
        BY <3>1, <4>1, FramePop
      <4>2. CASE Len(scope[t]) = 0
        <5>1. s = <<>>
          BY <3>1, <4>2
        <5> QED
          BY <5>1, FirstFrame
      <4> QED
        BY <3>1, <4>1, <4>2
    <3>3. scope' = [scope EXCEPT ![t] = s]
      BY <1>12, <2>1 DEF PopFrame
    <3> HIDE DEF s
    <3> QED
      BY <1>12, <2>1, <3>2, <3>3, Stacks1 DEF PopFrame
  <2>2. CASE ~HasScope(t)
    BY <1>12, <2>2, Moves DEF PopFrame
  <2> QED
    BY <2>1, <2>2
<1>13. ASSUME NEW t \in Threads, Exit(t) PROVE TInv'
  BY <1>13, FirstFrame DEF Exit
<1>14. ASSUME NEW t \in Threads, DepoolBegin(t) PROVE TInv'
  BY <1>14, FirstFrame DEF DepoolBegin
<1>15. ASSUME NEW t \in Threads, DepoolEnd(t) PROVE TInv'
  <2>1. /\ pc' \in [Threads -> States] /\ pc'[t] = "ended" /\ pc[t] = "depooling"
        /\ \A u \in Threads \ {t} : pc'[u] = pc[u]
        /\ pool' = pool \ {t} /\ mm = t /\ mm' = None
        /\ UNCHANGED <<child, creates, tsync, released, releasing, doomed, alive>>
    BY <1>15 DEF DepoolEnd
  <2>2. /\ scope' \in [Threads -> Seq(Frames)]
        /\ scope'[t] = scope[t] \/ scope'[t] = <<>>
        /\ \A u \in Threads \ {t} : scope'[u] = scope[u]
    BY <1>15, FirstFrame DEF DepoolEnd
  <2>3. TypeOK'
    <3>1. Len(scope'[t]) <= MaxFrames
      BY <2>2, FirstFrame
    <3>2. \A u \in Threads : Len(scope'[u]) <= MaxFrames
      BY <2>2, <3>1
    <3> QED
      BY <2>1, <2>2, <3>2
  <2>4. LockInv' /\ MainInv'
    BY <2>1
  <2>5. \A u \in Threads : Creating(u) => child[u] # t
    BY <2>1
  <2>6. ChildInv' /\ StartInv'
    BY <2>1, <2>2, <2>5
  <2>7. PoolInv'
    BY <2>1
  <2>8. DoomInv' /\ DepthInv'
    BY <2>1, <2>2
  <2> QED
    BY <2>3, <2>4, <2>6, <2>7, <2>8
<1>16. ASSUME NEW t \in Threads, Raise(t) PROVE TInv'
  BY <1>16, FirstFrame DEF Raise
<1>17. ASSUME NEW t \in Threads, RaiseDone(t) PROVE TInv'
  BY <1>17, Moves DEF RaiseDone
<1>18. ASSUME NEW t \in Threads, RaiseFails(t) PROVE TInv'
  BY <1>18, Moves DEF RaiseFails
<1>19. ASSUME NEW t \in Threads, Fatal(t) PROVE TInv'
  BY <1>19, Moves DEF Fatal
<1>20. ASSUME NEW t \in Threads, Error(t) PROVE TInv'
  <2>1. CASE releasing
    <3>1. UNCHANGED <<pc, pool, scope, spawn, mutexes, released, releasing, doomed>> /\ alive' = FALSE
      BY <1>20, <2>1 DEF Error
    <3> QED
      BY <3>1, TKept
  <2>2. CASE ~releasing
    BY <1>20, <2>2, Moves DEF Error
  <2> QED
    BY <2>1, <2>2
<1>21. ASSUME NEW t \in Threads, ReleaseBegin(t) PROVE TInv'
  BY <1>21, Moves DEF ReleaseBegin
<1>22. ASSUME NEW t \in Threads, Release(t) PROVE TInv'
  <2>1. /\ pc' \in [Threads -> States] /\ pc'[t] = "freed" /\ pc[t] = "locking"
        /\ \A u \in Threads \ {t} : pc'[u] = pc[u]
    BY <1>22 DEF Release
  <2>2. TypeOK'
    <3>1. scope' \in [Threads -> Seq(Frames)] /\ \A u \in Threads : Len(scope'[u]) <= MaxFrames
      BY <1>22, FirstFrame DEF Release
    <3> QED
      BY <1>22, <2>1, <3>1 DEF Release
  <2>3. LockInv' /\ MainInv'
    BY <1>22, <2>1 DEF Release
  <2>4. ChildInv' /\ StartInv' /\ PoolInv'
    BY <1>22, <2>1 DEF Release
  <2>5. DoomInv'
    <3> SUFFICES ASSUME ~doomed' PROVE pc'[Main] = "freed" /\ \A u \in Threads \ {Main} : pc'[u] \in {"none", "ended"}
      OBVIOUS
    <3>1. ~doomed /\ pool = {}
      BY <1>22 DEF Release
    <3>2. ~released /\ t = Main
      BY <2>1, <3>1
    <3>3. \A u \in Threads : ~Creating(u)
      BY <2>1, <3>1, <3>2, ZenonT(40)
    <3>4. \A u \in Threads \ {Main} : pc[u] \in {"none", "ended"}
      BY <3>1, <3>2, <3>3
    <3> QED
      BY <2>1, <3>2, <3>4
  <2>6. DepthInv'
    <3> SUFFICES ASSUME NEW u \in Threads, pc'[u] = "push" PROVE Len(scope'[u]) < MaxFrames
      BY <1>22 DEF Release
    <3>1. u # t /\ pc[u] = "push" /\ Len(scope[u]) < MaxFrames
      BY <2>1
    <3>2. scope'[u] = scope[u] \/ scope'[u] = <<>>
      BY <1>22 DEF Release
    <3> QED
      BY <3>1, <3>2, FirstFrame
  <2> QED
    BY <2>2, <2>3, <2>4, <2>5, <2>6
<1>23. ASSUME NEW t \in Threads, Finish(t) PROVE TInv'
  BY <1>23, TKept DEF Finish
<1>24. ASSUME NEW t \in Threads, NEW u \in Threads, Spawn(t, u) PROVE TInv'
  <2>1. /\ pc' \in [Threads -> States] /\ t # u /\ u # Main
        /\ pc[t] = "create" /\ pc[u] = "none" /\ pc'[t] = "pool" /\ pc'[u] = "start"
        /\ \A w \in Threads \ {t, u} : pc'[w] = pc[w]
        /\ child' \in [Threads -> Threads \cup {None}] /\ child'[t] = u
        /\ \A w \in Threads \ {t} : child'[w] = child[w]
    BY <1>24 DEF Spawn
  <2>0. /\ creates < MaxCreates /\ creates' = creates + 1 /\ tsync = t
        /\ UNCHANGED <<pool, scope, tsync, mm, released, releasing, doomed, alive>>
    BY <1>24 DEF Spawn
  <2>2. TypeOK'
    <3>1. creates' \in 0..MaxCreates
      BY <2>0
    <3> QED
      BY <2>0, <2>1, <3>1
  <2>3. \A w \in Threads \ {t} : ~Creating(w) /\ ~Creating(w)'
    BY <2>1
  <2>4. LockInv' /\ MainInv' /\ ChildInv'
    BY <1>24, <2>1, <2>3 DEF Spawn
  <2>5. StartInv'
    BY <1>24, <2>1, <2>3, SMTT(40) DEF Spawn
  <2>6. PoolInv'
    BY <2>0, <2>1, ZenonT(40)
  <2>7. DoomInv'
    BY <2>0, <2>1
  <2>8. DepthInv'
    BY <2>0, <2>1
  <2> QED
    BY <2>2, <2>4, <2>5, <2>6, <2>7, <2>8
<1>25. ASSUME NEW t \in Threads, NEW u \in Threads, Join(t, u) PROVE TInv'
  BY <1>25 DEF Join
<1>26. ASSUME MainEnds PROVE TInv'
  BY <1>26, Moves DEF MainEnds
<1>27. ASSUME ProcessEnds PROVE TInv'
  BY <1>27, TKept DEF ProcessEnds
<1>28. ASSUME Terminated PROVE TInv'
  BY <1>28, TKept DEF Terminated, vars
<1> HIDE DEF TInv, TypeOK, LockInv, MainInv, ChildInv, StartInv, PoolInv, NoStaleScope, DoomInv, DepthInv, Lookup
<1> QED
  BY <1>1, <1>2, <1>3, <1>4, <1>5, <1>6, <1>7, <1>8, <1>9, <1>10, <1>11, <1>12, <1>13, <1>14,
     <1>15, <1>16, <1>17, <1>18, <1>19, <1>20, <1>21, <1>22, <1>23, <1>24, <1>25, <1>26, <1>27, <1>28
  DEF Next, Script, Continue

-----------------------------------------------------------------------------
\* It is an invariant.
LEMMA TInvariant == Spec => []TInv
<1>1. TInv /\ UNCHANGED vars => TInv'
  <2>1. TInv => releasing \in BOOLEAN /\ alive \in BOOLEAN
    BY DEF TInv, TypeOK
  <2> QED
    BY <2>1, TKept DEF vars
<1> QED
  BY <1>1, TInit, TNext, PTL DEF Spec

\* No variable leaves its type, and no thread is ever more than
\* VM_MAX_RECURSION calls deep, for any number of threads.
THEOREM ThreadTypesCorrect == Spec => []TypeOK
<1>1. TInv => TypeOK
  BY DEF TInv
<1> QED
  BY <1>1, TInvariant, PTL

\* The map of scopes never holds a thread that has ended: vm_depool removes the
\* entry before the id can be joined and given out again.
THEOREM NoStaleScopeCorrect == Spec => []NoStaleScope
<1>1. TInv => NoStaleScope
  BY DEF TInv, PoolInv
<1> QED
  BY <1>1, TInvariant, PTL


-----------------------------------------------------------------------------
(* A scope is found.                                                       *)

\* A thread without a scope is one vm_release has signalled.
LEMMA LostDoomed ==
  ASSUME TInv, NEW t \in Threads,
         pc[t] \notin {"none", "start", "ended", "freed"}, released \/ ~HasScope(t)
  PROVE  doomed
BY DEF TInv, PoolInv, DoomInv

\* Nothing is lost but for a release, if no lookup is torn.
LEMMA LostStep ==
  ASSUME TInv, ScopeFound, TornLookups = FALSE, Next
  PROVE  ScopeFound'
<1> DEFINE Kept == (doomed => doomed') /\ \A w \in Threads : pc'[w] = "lost" => pc[w] = "lost" \/ doomed
<1>0. ASSUME NEW t \in Threads, NEW x \in States, x = "lost" => doomed, Goto(t, x), doomed => doomed'
      PROVE  Kept
  <2>1. \A w \in Threads : pc'[w] = IF w = t THEN x ELSE pc[w]
    BY <1>0 DEF TInv, TypeOK
  <2> QED
    BY <1>0, <2>1
<1> USE DEF Torn, Lookup
<1>1. ASSUME NEW t \in Threads, CreateLock(t) PROVE Kept
  BY <1>0, <1>1 DEF CreateLock
<1>2. ASSUME NEW t \in Threads, SpawnFails(t) PROVE Kept
  BY <1>0, <1>2 DEF SpawnFails
<1>3. ASSUME NEW t \in Threads, PoolBegin(t) PROVE Kept
  BY <1>0, <1>3 DEF PoolBegin
<1>4. ASSUME NEW t \in Threads, PoolEnd(t) PROVE Kept
  BY <1>0, <1>4 DEF PoolEnd
<1>5. ASSUME NEW t \in Threads, AppendArgs(t) PROVE Kept
  <2>1. child[t] \in pool \/ doomed
    BY <1>5, LostDoomed DEF AppendArgs, TInv, ChildInv
  <2> QED
    BY <1>0, <1>5, <2>1 DEF AppendArgs
<1>6. ASSUME NEW t \in Threads, CreateUnlock(t) PROVE Kept
  BY <1>0, <1>6 DEF CreateUnlock
<1>7. ASSUME NEW t \in Threads, StartLock(t) PROVE Kept
  BY <1>0, <1>7 DEF StartLock
<1>8. ASSUME NEW t \in Threads, Call(t) PROVE Kept
  <2>1. HasScope(t) \/ doomed
    BY <1>8, LostDoomed DEF Call
  <2> QED
    BY <1>0, <1>8, <2>1 DEF Call
<1>9. ASSUME NEW t \in Threads, Enter(t) PROVE Kept
  <2>1. HasScope(t) \/ doomed
    BY <1>9, LostDoomed DEF Enter
  <2> QED
    BY <1>0, <1>9, <2>1 DEF Enter
<1>10. ASSUME NEW t \in Threads, PushFrame(t) PROVE Kept
  <2>1. HasScope(t) \/ doomed
    BY <1>10, LostDoomed DEF PushFrame
  <2> QED
    BY <1>0, <1>10, <2>1 DEF PushFrame
<1>11. ASSUME NEW t \in Threads, Return(t) PROVE Kept
  <2>1. HasScope(t) \/ doomed
    BY <1>11, LostDoomed DEF Return
  <2> QED
    BY <1>0, <1>11, <2>1 DEF Return
<1>12. ASSUME NEW t \in Threads, PopFrame(t) PROVE Kept
  <2>1. HasScope(t) \/ doomed
    BY <1>12, LostDoomed DEF PopFrame
  <2> QED
    BY <1>0, <1>12, <2>1 DEF PopFrame
<1>13. ASSUME NEW t \in Threads, Exit(t) PROVE Kept
  BY <1>0, <1>13 DEF Exit
<1>14. ASSUME NEW t \in Threads, DepoolBegin(t) PROVE Kept
  BY <1>0, <1>14 DEF DepoolBegin
<1>15. ASSUME NEW t \in Threads, DepoolEnd(t) PROVE Kept
  BY <1>0, <1>15 DEF DepoolEnd
<1>16. ASSUME NEW t \in Threads, Raise(t) PROVE Kept
  BY <1>0, <1>16 DEF Raise
<1>17. ASSUME NEW t \in Threads, RaiseDone(t) PROVE Kept
  <2>1. HasScope(t) \/ doomed
    BY <1>17, LostDoomed DEF RaiseDone
  <2> QED
    BY <1>0, <1>17, <2>1 DEF RaiseDone
<1>18. ASSUME NEW t \in Threads, RaiseFails(t) PROVE Kept
  BY <1>0, <1>18 DEF RaiseFails
<1>19. ASSUME NEW t \in Threads, Fatal(t) PROVE Kept
  BY <1>0, <1>19 DEF Fatal
<1>20. ASSUME NEW t \in Threads, Error(t) PROVE Kept
  <2>1. CASE releasing
    BY <1>20, <2>1 DEF Error
  <2>2. CASE ~releasing
    BY <1>0, <1>20, <2>2 DEF Error
  <2> QED
    BY <2>1, <2>2
<1>21. ASSUME NEW t \in Threads, ReleaseBegin(t) PROVE Kept
  BY <1>0, <1>21 DEF ReleaseBegin
<1>22. ASSUME NEW t \in Threads, Release(t) PROVE Kept
  BY <1>0, <1>22 DEF Release
<1>23. ASSUME NEW t \in Threads, Finish(t) PROVE Kept
  BY <1>23 DEF Finish, vars
<1>24. ASSUME NEW t \in Threads, NEW u \in Threads, Spawn(t, u) PROVE Kept
  BY <1>24 DEF Spawn, TInv, TypeOK
<1>25. ASSUME NEW t \in Threads, NEW u \in Threads, Join(t, u) PROVE Kept
  BY <1>25 DEF Join, TInv, TypeOK
<1>26. ASSUME MainEnds PROVE Kept
  BY <1>0, <1>26 DEF MainEnds
<1>27. ASSUME ProcessEnds PROVE Kept
  BY <1>27 DEF ProcessEnds, vars
<1>28. ASSUME Terminated PROVE Kept
  BY <1>28 DEF Terminated, vars
<1> HIDE DEF Kept, Torn, Lookup
<1>k. Kept
  BY <1>1, <1>2, <1>3, <1>4, <1>5, <1>6, <1>7, <1>8, <1>9, <1>10, <1>11, <1>12, <1>13, <1>14, <1>15,
     <1>16, <1>17, <1>18, <1>19, <1>20, <1>21, <1>22, <1>23, <1>24, <1>25, <1>26, <1>27, <1>28
  DEF Next, Script, Continue
<1> QED
  BY <1>k DEF Kept, ScopeFound

\* A lookup in the map finds the scope of the thread, which hyb_pthread_worker
\* and every call rely on, until the process is being ended; provided a lookup
\* without VM_MM is not disturbed by an insertion or removal.
THEOREM ScopeFoundCorrect ==
  ASSUME TornLookups = FALSE
  PROVE  Spec => []ScopeFound
<1>1. Init => ScopeFound
  BY DEF Init, ScopeFound
<1>2. TInv /\ ScopeFound /\ [Next]_vars => ScopeFound'
  <2>1. TInv /\ ScopeFound /\ Next => ScopeFound'
    BY LostStep
  <2>2. ScopeFound /\ UNCHANGED vars => ScopeFound'
    BY DEF ScopeFound, vars
  <2> QED
    BY <2>1, <2>2
<1> QED
  BY <1>1, <1>2, TInvariant, PTL DEF Spec


-----------------------------------------------------------------------------
(* The threads are CallStacks.                                             *)

Runs == IF released THEN {} ELSE {t \in Threads : Started(t)}
Owns == [t \in Threads |-> IF ~released /\ Started(t) THEN scope[t] ELSE <<>>]

\* What the promise reads: a step that keeps it stutters.
LEMMA StacksStutter ==
  ASSUME released' = released,
         \A t \in Threads : Started(t)' = Started(t) /\ (Started(t) => scope'[t] = scope[t])
  PROVE  UNCHANGED Stacks!vars
<1>1. Runs' = Runs
  BY DEF Runs
<1>2. Owns' = Owns
  BY DEF Owns
<1> HIDE DEF Started
<1> QED
  BY <1>1, <1>2 DEF Stacks!vars, Runs, Owns

\* A step of the program is a step of the promise or keeps what it reads.
LEMMA StacksStep ==
  ASSUME TInv, Next
  PROVE  [Stacks!Next]_(Stacks!vars)
<1> DEFINE Goal == [Stacks!Next]_(Stacks!vars)
<1>t. TypeOK
  BY DEF TInv
<1>0. ASSUME NEW t \in Threads, NEW x \in States, Goto(t, x), UNCHANGED released,
             t = Main \/ (pc[t] \in {"none", "start", "ended"} <=> x \in {"none", "start", "ended"}),
             \A w \in Threads : Started(w) => scope'[w] = scope[w]
      PROVE  Goal
  <2>1. \A w \in Threads : pc'[w] = IF w = t THEN x ELSE pc[w]
    BY <1>t, <1>0 DEF TypeOK
  <2>2. \A w \in Threads : Started(w)' = Started(w)
    BY <1>0, <2>1
  <2> QED
    BY <1>0, <2>2, StacksStutter
<1>w. ASSUME UNCHANGED <<pc, scope, released>> PROVE Goal
  BY <1>w, StacksStutter
<1>1. ASSUME NEW t \in Threads, CreateLock(t) PROVE Goal
  BY <1>0, <1>1 DEF CreateLock
<1>2. ASSUME NEW t \in Threads, SpawnFails(t) PROVE Goal
  BY <1>0, <1>2 DEF SpawnFails
<1>3. ASSUME NEW t \in Threads, PoolBegin(t) PROVE Goal
  BY <1>0, <1>3 DEF PoolBegin
<1>4. ASSUME NEW t \in Threads, PoolEnd(t) PROVE Goal
  <2>1. child[t] \in Threads /\ ~Started(child[t])
    BY <1>4 DEF PoolEnd, TInv, ChildInv
  <2>2. \A w \in Threads : Started(w) => scope'[w] = scope[w]
    BY <1>t, <1>4, <2>1 DEF PoolEnd, TypeOK
  <2> QED
    BY <1>0, <1>4, <2>2 DEF PoolEnd
<1>5. ASSUME NEW t \in Threads, AppendArgs(t) PROVE Goal
  <2>1. child[t] \in Threads /\ ~Started(child[t])
    BY <1>5 DEF AppendArgs, TInv, ChildInv
  <2>2. \A w \in Threads : Started(w) => scope'[w] = scope[w]
    BY <1>t, <1>5, <2>1 DEF AppendArgs, TypeOK
  <2> QED
    BY <1>0, <1>5, <2>2 DEF AppendArgs
<1>6. ASSUME NEW t \in Threads, CreateUnlock(t) PROVE Goal
  BY <1>0, <1>6 DEF CreateUnlock
<1>7. ASSUME NEW t \in Threads, StartLock(t) PROVE Goal
  <2>p. /\ pc[t] = "start" /\ \A w \in Threads : pc'[w] = IF w = t THEN "enter" ELSE pc[w]
        /\ UNCHANGED <<scope, released>> /\ tsync = None /\ t # Main
    BY <1>t, <1>7 DEF StartLock, TypeOK, TInv, MainInv
  <2>1. CASE released
    BY <2>p, <2>1 DEF Stacks!vars
  <2>2. CASE ~released
    <3>1. \A w \in Threads : ~Creating(w)
      BY <2>p DEF TInv, LockInv
    <3>2. scope[t] = <<"args">>
      BY <2>2, <2>p, <3>1 DEF TInv, StartInv
    <3>3. t \notin Runs /\ Runs' = Runs \cup {t}
      BY <2>2, <2>p DEF Runs
    <3>4. Owns' = [Owns EXCEPT ![t] = <<"args">>]
      BY <2>2, <2>p, <3>2 DEF Owns
    <3>5. Stacks!Start(t)
      BY <2>2, <2>p, <3>3, <3>4 DEF Stacks!Start, Runs, Owns
    <3> QED
      BY <3>5 DEF Stacks!Next
  <2> QED
    BY <2>1, <2>2
<1>8. ASSUME NEW t \in Threads, Call(t) PROVE Goal
  BY <1>0, <1>8 DEF Call, Lookup
<1>9. ASSUME NEW t \in Threads, Enter(t) PROVE Goal
  BY <1>0, <1>9 DEF Enter, Lookup
<1>10. ASSUME NEW t \in Threads, PushFrame(t) PROVE Goal
  <2>1. CASE ~HasScope(t) \/ released
    <3>1. CASE ~HasScope(t)
      BY <1>0, <1>10, <3>1 DEF PushFrame
    <3>2. CASE released
      BY <1>10, <3>2 DEF PushFrame, Stacks!vars
    <3> QED
      BY <2>1, <3>1, <3>2
  <2>2. CASE HasScope(t) /\ ~released
    <3>p. /\ pc[t] = "push" /\ UNCHANGED released /\ Len(scope[t]) < MaxFrames
          /\ \A w \in Threads \ {t} : pc'[w] = pc[w]
          /\ pc'[t] \in {"run", "leave"}
          /\ scope' = [scope EXCEPT ![t] = Append(scope[t], "call")]
      BY <1>t, <1>10, <2>2 DEF PushFrame, TypeOK, TInv, DepthInv
    <3>1. Started(t) /\ \A w \in Threads : Started(w)' = Started(w)
      BY <3>p
    <3>2. t \in Runs /\ Runs' = Runs
      BY <2>2, <3>p, <3>1 DEF Runs
    <3>3. Owns[t] = scope[t]
      BY <2>2, <3>1 DEF Owns
    <3>4. Owns' = [Owns EXCEPT ![t] = Append(scope[t], "call")]
      BY <1>t, <2>2, <3>p, <3>1 DEF Owns, TypeOK
    <3>5. Stacks!Call(t)
      BY <2>2, <3>p, <3>2, <3>3, <3>4 DEF Stacks!Call, Runs, Owns
    <3> QED
      BY <3>5 DEF Stacks!Next
  <2> QED
    BY <2>1, <2>2
<1>11. ASSUME NEW t \in Threads, Return(t) PROVE Goal
  BY <1>0, <1>11 DEF Return, Lookup
<1>12. ASSUME NEW t \in Threads, PopFrame(t) PROVE Goal
  <2>1. CASE ~HasScope(t) \/ released
    <3>1. CASE ~HasScope(t)
      BY <1>0, <1>12, <3>1 DEF PopFrame
    <3>2. CASE released
      BY <1>12, <3>2 DEF PopFrame, Stacks!vars
    <3> QED
      BY <2>1, <3>1, <3>2
  <2>2. CASE HasScope(t) /\ ~released
    <3>p. /\ pc[t] = "pop" /\ UNCHANGED released /\ Len(scope[t]) > 1
          /\ \A w \in Threads \ {t} : pc'[w] = pc[w]
          /\ pc'[t] \in {"run", "leave"}
          /\ scope' = [scope EXCEPT ![t] = SubSeq(scope[t], 1, Len(scope[t]) - 1)]
      BY <1>t, <1>12, <2>2 DEF PopFrame, TypeOK, TInv, DepthInv
    <3>1. Started(t) /\ \A w \in Threads : Started(w)' = Started(w)
      BY <3>p
    <3>2. t \in Runs /\ Runs' = Runs
      BY <2>2, <3>p, <3>1 DEF Runs
    <3>3. Owns[t] = scope[t]
      BY <2>2, <3>1 DEF Owns
    <3>4. Owns' = [Owns EXCEPT ![t] = SubSeq(scope[t], 1, Len(scope[t]) - 1)]
      BY <1>t, <2>2, <3>p, <3>1 DEF Owns, TypeOK
    <3>5. Stacks!Return(t)
      BY <2>2, <3>p, <3>2, <3>3, <3>4 DEF Stacks!Return, Runs, Owns
    <3> QED
      BY <3>5 DEF Stacks!Next
  <2> QED
    BY <2>1, <2>2
<1>13. ASSUME NEW t \in Threads, Exit(t) PROVE Goal
  BY <1>0, <1>13 DEF Exit
<1>14. ASSUME NEW t \in Threads, DepoolBegin(t) PROVE Goal
  BY <1>0, <1>14 DEF DepoolBegin
<1>15. ASSUME NEW t \in Threads, DepoolEnd(t) PROVE Goal
  <2>p. /\ pc[t] = "depooling" /\ \A w \in Threads : pc'[w] = IF w = t THEN "ended" ELSE pc[w]
        /\ \A w \in Threads \ {t} : scope'[w] = scope[w]
        /\ UNCHANGED released
    BY <1>t, <1>15 DEF DepoolEnd, TypeOK
  <2>1. CASE released
    BY <2>p, <2>1 DEF Stacks!vars
  <2>2. CASE ~released /\ t # Main
    <3>1. t \in Runs /\ Runs' = Runs \ {t}
      BY <2>p, <2>2 DEF Runs
    <3>2. Owns' = [Owns EXCEPT ![t] = <<>>]
      BY <2>p, <2>2 DEF Owns
    <3>3. Stacks!End(t)
      BY <2>p, <2>2, <3>1, <3>2 DEF Stacks!End, Runs, Owns
    <3> QED
      BY <3>3 DEF Stacks!Next
  <2>3. CASE t = Main
    <3>1. UNCHANGED scope
      BY <1>t, <1>15, <2>3 DEF DepoolEnd, TypeOK
    <3> QED
      BY <1>0, <1>15, <2>3, <3>1 DEF DepoolEnd
  <2> QED
    BY <2>1, <2>2, <2>3
<1>16. ASSUME NEW t \in Threads, Raise(t) PROVE Goal
  BY <1>0, <1>16 DEF Raise
<1>17. ASSUME NEW t \in Threads, RaiseDone(t) PROVE Goal
  BY <1>0, <1>17 DEF RaiseDone, Lookup
<1>18. ASSUME NEW t \in Threads, RaiseFails(t) PROVE Goal
  BY <1>0, <1>18 DEF RaiseFails
<1>19. ASSUME NEW t \in Threads, Fatal(t) PROVE Goal
  BY <1>0, <1>19 DEF Fatal
<1>20. ASSUME NEW t \in Threads, Error(t) PROVE Goal
  <2>1. CASE releasing
    BY <1>w, <1>20, <2>1 DEF Error
  <2>2. CASE ~releasing
    BY <1>0, <1>20, <2>2 DEF Error
  <2> QED
    BY <2>1, <2>2
<1>21. ASSUME NEW t \in Threads, ReleaseBegin(t) PROVE Goal
  BY <1>0, <1>21 DEF ReleaseBegin
<1>22. ASSUME NEW t \in Threads, Release(t) PROVE Goal
  <2>1. CASE released
    BY <1>22, <2>1 DEF Release, Stacks!vars
  <2>2. CASE ~released
    <3>1. Stacks!Close
      BY <1>22, <2>2 DEF Release, Stacks!Close
    <3> QED
      BY <3>1 DEF Stacks!Next
  <2> QED
    BY <2>1, <2>2
<1>23. ASSUME NEW t \in Threads, Finish(t) PROVE Goal
  BY <1>w, <1>23 DEF Finish
<1>24. ASSUME NEW t \in Threads, NEW u \in Threads, Spawn(t, u) PROVE Goal
  <2>1. \A w \in Threads : Started(w)' = Started(w)
    BY <1>t, <1>24 DEF Spawn, TypeOK
  <2> QED
    BY <1>24, <2>1, StacksStutter DEF Spawn
<1>25. ASSUME NEW t \in Threads, NEW u \in Threads, Join(t, u) PROVE Goal
  BY <1>0, <1>25 DEF Join
<1>26. ASSUME MainEnds PROVE Goal
  BY <1>0, <1>26 DEF MainEnds
<1>27. ASSUME ProcessEnds PROVE Goal
  BY <1>w, <1>27 DEF ProcessEnds
<1>28. ASSUME Terminated PROVE Goal
  BY <1>w, <1>28 DEF Terminated, vars
<1> HIDE DEF Goal
<1>k. Goal
  BY <1>1, <1>2, <1>3, <1>4, <1>5, <1>6, <1>7, <1>8, <1>9, <1>10, <1>11, <1>12, <1>13, <1>14, <1>15,
     <1>16, <1>17, <1>18, <1>19, <1>20, <1>21, <1>22, <1>23, <1>24, <1>25, <1>26, <1>27, <1>28
  DEF Next, Script, Continue
<1> QED
  BY <1>k DEF Goal

\* The threads, their handshake and the map of scopes keep the promise of
\* CallStacks: hpthread_create hands a thread a complete scope, and from then on
\* only that thread changes it, until it ends or the machine is released.
THEOREM StacksImplemented == Spec => ImplementsStacks
<1>1. Init => Stacks!Init
  BY DEF Init, Stacks!Init
<1>2. TInv /\ [Next]_vars => [Stacks!Next]_(Stacks!vars)
  <2>1. TInv /\ Next => [Stacks!Next]_(Stacks!vars)
    BY StacksStep
  <2>2. UNCHANGED vars => UNCHANGED Stacks!vars
    BY DEF vars, Stacks!vars
  <2> QED
    BY <2>1, <2>2
<1> QED
  BY <1>1, <1>2, TInvariant, PTL DEF Spec, ImplementsStacks, Stacks!Spec

=============================================================================
