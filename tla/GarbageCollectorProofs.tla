----------------------- MODULE GarbageCollectorProofs -----------------------
(***************************************************************************)
(* What the collector guarantees for every program, proved with TLAPS.     *)
(*                                                                         *)
(* The first part holds for any number of threads: types, the accounting   *)
(* of the three lists, the VM_MM mutex and the survival counters.  The     *)
(* second part holds for the programs that the collector was written for,  *)
(* stated by Sequential: that nothing reachable is freed, and that the     *)
(* collector implements ObjectPool.                                        *)
(***************************************************************************)
EXTENDS GarbageCollector, FiniteSetTheorems, SequenceTheorems, TLAPS

(* Reachability.                                                           *)

\* The roots are reachable, and only objects are.
LEMMA ReachRoots ==
  ASSUME NEW R \in SUBSET Obj, NEW E
  PROVE  R \subseteq Reach(R, E) /\ Reach(R, E) \subseteq Obj
BY DEF Reach

\* What is reachable is closed under the edges.
LEMMA ReachClosed ==
  ASSUME NEW R \in SUBSET Obj, NEW E \in [Obj -> SUBSET Obj]
  PROVE  Closed(Reach(R, E), E)
<1> SUFFICES ASSUME NEW o \in Reach(R, E), NEW c \in E[o] PROVE c \in Reach(R, E)
  BY DEF Closed
<1>1. o \in Obj /\ c \in Obj
  BY DEF Reach
<1>2. ASSUME NEW S \in SUBSET Obj, R \subseteq S, Closed(S, E) PROVE c \in S
  <2>1. o \in S
    BY <1>2 DEF Reach
  <2> QED
    BY <2>1, <1>2 DEF Closed
<1> QED
  BY <1>1, <1>2 DEF Reach

\* It is below every closed set that holds the roots.
LEMMA ReachLeast ==
  ASSUME NEW R, NEW E, NEW S \in SUBSET Obj, R \subseteq S, Closed(S, E)
  PROVE  Reach(R, E) \subseteq S
BY DEF Reach

\* More roots reach more.
LEMMA ReachMono ==
  ASSUME NEW R \in SUBSET Obj, NEW Q \in SUBSET Obj, R \subseteq Q,
         NEW E \in [Obj -> SUBSET Obj]
  PROVE  Reach(R, E) \subseteq Reach(Q, E)
<1>1. Closed(Reach(Q, E), E)
  BY ReachClosed
<1>2. Q \subseteq Reach(Q, E) /\ Reach(Q, E) \subseteq Obj
  BY ReachRoots
<1> QED
  BY <1>1, <1>2, ReachLeast

\* Nothing is reachable from nothing.
LEMMA ReachNone ==
  ASSUME NEW E PROVE Reach({}, E) = {}
<1>1. Closed({}, E)
  BY DEF Closed
<1> QED
  BY <1>1, ReachLeast

Updated(F, u, i, v) == [F EXCEPT ![u][i] = v]

\* Replacing one set of one sequence of sets, as a thread does with the
\* variables or the temporaries of one frame.
LEMMA StackUpdate ==
  ASSUME NEW F \in [Threads -> Seq(SUBSET Obj)], NEW u \in Threads, NEW i, NEW v \in SUBSET Obj
  PROVE  /\ Updated(F, u, i, v) \in [Threads -> Seq(SUBSET Obj)]
         /\ \A w \in Threads : Len(Updated(F, u, i, v)[w]) = Len(F[w])
<1> DEFINE T == SUBSET Obj
<1>0. v \in T /\ F \in [Threads -> Seq(T)]
  OBVIOUS
<1> HIDE DEF T
<1> DEFINE s == F[u]
           r == [s EXCEPT ![i] = v]
<1>1. s \in [1..Len(s) -> T] /\ Len(s) \in Nat
  BY <1>0
<1>2. r \in [1..Len(s) -> T]
  BY <1>0, <1>1
<1>3. r \in Seq(T) /\ Len(r) = Len(s)
  BY <1>1, <1>2
<1>4. [F EXCEPT ![u][i] = v] = [F EXCEPT ![u] = r]
  BY <1>0
<1> QED
  BY <1>0, <1>3, <1>4 DEF T, Updated

-----------------------------------------------------------------------------
(* The invariant of any number of threads.                                 *)

Busy(t) == pc[t] \in {"mark", "lag", "heap", "dtor"}

MutexInv == \A t \in Threads : Busy(t) => mmOwner = t

ListsInv == heap \cap lag = {} /\ heap \cap constants = {} /\ lag \cap constants = {}

TodoInv ==
  \A t \in Threads :
    /\ pc[t] = "lag" => todo \subseteq lag
    /\ pc[t] = "heap" => todo \subseteq heap
    /\ pc[t] = "dtor" => todo \cap (heap \cup lag) # {}

UsageInv ==
  usage = Cardinality(Tracked) - (IF \E t \in Threads : pc[t] = "dtor" THEN 1 ELSE 0)

FrameInv == exited \/ \A t \in Threads : Depth(t) >= 1

\* An object still to be visited in the heap has survived earlier collections
\* only, not this one.
SurvivalInv ==
  /\ exited \/ \A o \in Fresh : count[o] = 0
  /\ \A o \in Obj : count[o] <= collections
  /\ \A t \in Threads :
       /\ pc[t] \in {"lag", "heap"} => collections >= 1
       /\ pc[t] = "lag" => \A o \in heap : count[o] < collections
       /\ pc[t] = "heap" => \A o \in todo : count[o] < collections

PoolInv == MutexInv /\ ListsInv /\ TodoInv /\ UsageInv /\ SurvivalInv

GInv == TypeOK /\ FrameInv /\ PoolInv

USE DEF Fresh, Tracked, Depth, Busy

\* The tracked objects can be counted.
LEMMA TrackedFinite ==
  ASSUME TypeOK PROVE IsFiniteSet(Tracked) /\ Cardinality(Tracked) \in Nat
<1>1. Tracked \subseteq Obj
  BY DEF TypeOK
<1> QED
  BY <1>1, ObjAssumption, FS_Subset, FS_CardinalityType

\* The invariant holds when the virtual machine starts.
LEMMA GInit == Init => GInv
<1> SUFFICES ASSUME Init PROVE GInv
  OBVIOUS
<1>1. <<{}>> \in Seq(SUBSET Obj) /\ Len(<<{}>>) = 1
  OBVIOUS
<1>2. IsFiniteSet(Const) /\ Cardinality(Const) \in Nat
  BY ObjAssumption, FS_Subset, FS_CardinalityType
<1>3. TypeOK
  <2>1. next \in Nat \ {0} /\ usage \in Nat
    BY <1>2 DEF Init
  <2> QED
    BY <1>1, <2>1, ObjAssumption DEF Init, TypeOK
<1>4. FrameInv
  BY <1>1 DEF Init, FrameInv
<1>5. MutexInv /\ ListsInv /\ TodoInv
  BY DEF Init, MutexInv, ListsInv, TodoInv
<1>6. UsageInv
  BY <1>2 DEF Init, UsageInv
<1>7. SurvivalInv
  BY ObjAssumption DEF Init, SurvivalInv
<1> QED
  BY <1>3, <1>4, <1>5, <1>6, <1>7 DEF GInv, PoolInv

\* A step of the interpreter that allocates nothing keeps the pool's part.
LEMMA PoolKept ==
  ASSUME PoolInv, UNCHANGED <<pool, cycle, mmOwner, exited>>,
         pc' = pc \/ \E t \in Threads : pc[t] = "run" /\ pc' = [pc EXCEPT ![t] = "wait"],
         pc \in [Threads -> {"run", "wait", "mark", "lag", "heap", "dtor"}]
  PROVE  PoolInv'
<1>1. Tracked' = Tracked
  BY DEF pool
<1>2. \A t \in Threads : pc'[t] = pc[t] \/ (pc[t] = "run" /\ pc'[t] = "wait")
  OBVIOUS
<1>3. MutexInv'
  BY <1>2 DEF PoolInv, MutexInv
<1>4. ListsInv'
  BY DEF PoolInv, ListsInv, pool
<1>5. TodoInv'
  BY <1>2 DEF PoolInv, TodoInv, pool, cycle
<1>6. UsageInv'
  <2>1. (\E t \in Threads : pc'[t] = "dtor") <=> (\E t \in Threads : pc[t] = "dtor")
    BY <1>2
  <2> QED
    BY <1>1, <2>1 DEF PoolInv, UsageInv, pool
<1>7. SurvivalInv'
  BY <1>1, <1>2 DEF PoolInv, SurvivalInv, pool, cycle
<1> QED
  BY <1>3, <1>4, <1>5, <1>6, <1>7 DEF PoolInv

\* gc_track keeps it too.
LEMMA PoolTrack ==
  ASSUME TypeOK, PoolInv, ~exited, NEW o \in Fresh, GcTrack(o), UNCHANGED <<pc, mmOwner, exited>>
  PROVE  /\ PoolInv'
         /\ heap' \in SUBSET Obj /\ todo' \in SUBSET Obj /\ usage' \in Nat
<1>1. Tracked' = Tracked \cup {o} /\ o \notin Tracked /\ o \in Obj
  BY DEF GcTrack
<1>2. MutexInv'
  BY DEF PoolInv, MutexInv
<1>3. ListsInv'
  BY DEF PoolInv, ListsInv, GcTrack
<1>4. TodoInv'
  <2> SUFFICES ASSUME NEW t \in Threads PROVE
        /\ pc[t] = "lag" => todo' \subseteq lag
        /\ pc[t] = "heap" => todo' \subseteq heap'
        /\ pc[t] = "dtor" => todo' \cap (heap' \cup lag) # {}
    BY DEF TodoInv, GcTrack
  <2>1. todo' = todo \/ (todo' = todo \cup {o} /\ \E u \in Threads : pc[u] = "heap")
    BY DEF GcTrack
  <2>2. (\E u \in Threads : pc[u] = "heap") => pc[t] # "lag"
    BY DEF PoolInv, MutexInv
  <2> QED
    BY <2>1, <2>2 DEF PoolInv, TodoInv, GcTrack
<1>5. UsageInv'
  <2>1. Cardinality(Tracked \cup {o}) = Cardinality(Tracked) + 1
    BY <1>1, TrackedFinite, FS_AddElement
  <2>2. Cardinality(Tracked') = Cardinality(Tracked) + 1 /\ Cardinality(Tracked) \in Nat
    BY <1>1, <2>1, TrackedFinite
  <2>3. usage' = usage + 1 /\ pc' = pc
    BY DEF GcTrack
  <2> HIDE DEF Tracked
  <2> QED
    BY <2>2, <2>3 DEF PoolInv, UsageInv
<1>6. SurvivalInv'
  <2>1. count[o] = 0
    BY DEF PoolInv, SurvivalInv
  <2>2. collections \in Nat
    BY DEF TypeOK
  <2> QED
    BY <1>1, <2>1, <2>2 DEF PoolInv, SurvivalInv, GcTrack
<1>7. heap' \in SUBSET Obj /\ todo' \in SUBSET Obj /\ usage' \in Nat
  BY <1>1 DEF GcTrack, TypeOK
<1> QED
  BY <1>2, <1>3, <1>4, <1>5, <1>6, <1>7 DEF PoolInv

\* The frames of a program that runs.
LEMMA StackTypes ==
  ASSUME TypeOK, FrameInv, ~exited, NEW t \in Threads
  PROVE  /\ Depth(t) \in Nat \ {0}
         /\ \A i \in 1..Depth(t) : frames[t][i] \in SUBSET Obj /\ temps[t][i] \in SUBSET Obj
         /\ Top(t) = frames[t][Depth(t)] /\ Top(t) \in SUBSET Obj
         /\ Temps(t) = temps[t][Depth(t)] /\ Temps(t) \in SUBSET Obj
         /\ Visible(t) \in SUBSET Tracked /\ Tracked \in SUBSET Obj
<1>1. /\ frames[t] \in Seq(SUBSET Obj) /\ temps[t] \in Seq(SUBSET Obj)
      /\ Len(temps[t]) = Len(frames[t])
  BY DEF TypeOK
<1>2. Depth(t) \in Nat \ {0}
  BY <1>1 DEF FrameInv
<1>3. \A i \in 1..Depth(t) : frames[t][i] \in SUBSET Obj /\ temps[t][i] \in SUBSET Obj
  BY <1>1
<1>4. Visible(t) \in SUBSET Tracked /\ Tracked \in SUBSET Obj
  BY DEF Visible, TypeOK
<1> QED
  BY <1>2, <1>3, <1>4 DEF Top, Temps

\* Setting the temporaries of the running frame keeps the stacks' shape.
LEMMA SetTempsType ==
  ASSUME TypeOK, NEW t \in Threads, NEW S \in SUBSET Obj, SetTemps(t, S)
  PROVE  /\ temps' \in [Threads -> Seq(SUBSET Obj)]
         /\ \A w \in Threads : Len(temps'[w]) = Len(temps[w])
<1>1. temps' = Updated(temps, t, Depth(t), S)
  BY DEF SetTemps, Updated
<1>2. temps \in [Threads -> Seq(SUBSET Obj)]
  BY DEF TypeOK
<1> QED
  BY <1>1, <1>2, StackUpdate

\* What an operation that leaves the pool, the cycle and the stacks' shape
\* alone has to show.
LEMMA Preserved ==
  ASSUME GInv, UNCHANGED <<pool, cycle, mmOwner, exited>>,
         pc' = pc \/ \E t \in Threads : pc[t] = "run" /\ pc' = [pc EXCEPT ![t] = "wait"],
         mark' \in SUBSET Obj, spared' = spared,
         referenced' \in SUBSET Obj, statics' \in SUBSET Obj, kids' \in [Obj -> SUBSET Obj],
         frames' \in [Threads -> Seq(SUBSET Obj)], temps' \in [Threads -> Seq(SUBSET Obj)],
         \A w \in Threads : Len(temps'[w]) = Len(frames'[w]) /\ Len(frames'[w]) >= 1
  PROVE  GInv'
<1>1. pc' \in [Threads -> {"run", "wait", "mark", "lag", "heap", "dtor"}]
  BY DEF GInv, TypeOK
<1>2. TypeOK'
  BY <1>1 DEF GInv, TypeOK, pool, cycle
<1>3. FrameInv'
  BY DEF FrameInv
<1>4. PoolInv'
  BY PoolKept DEF GInv, TypeOK
<1> QED
  BY <1>2, <1>3, <1>4 DEF GInv

\* Marking marks objects.
LEMMA MarkType ==
  ASSUME TypeOK, NEW R \in SUBSET Obj PROVE GcMark(R) \in SUBSET Obj
BY ReachRoots DEF GcMark, TypeOK

\* Every operation of the interpreter preserves the invariant.
LEMMA MutatorStep ==
  ASSUME GInv, NEW t \in Threads, Mutator(t) PROVE GInv'
<1> USE DEF GInv, stack, graph, marks
<1>r. /\ TypeOK /\ FrameInv /\ PoolInv
      /\ kids \in [Obj -> SUBSET Obj] /\ frames \in [Threads -> Seq(SUBSET Obj)]
      /\ temps \in [Threads -> Seq(SUBSET Obj)]
      /\ mark \in SUBSET Obj /\ referenced \in SUBSET Obj /\ statics \in SUBSET Obj
      /\ \A w \in Threads : Len(temps[w]) = Len(frames[w])
      /\ ~exited => \A w \in Threads : Len(frames[w]) >= 1
  BY DEF TypeOK, FrameInv
<1>n. ASSUME NEW o \in Fresh, GcTrack(o), ~exited, kids' \in [Obj -> SUBSET Obj],
             referenced' \in SUBSET Obj, SetTemps(t, Temps(t) \cup {o}),
             UNCHANGED <<mark, spared, statics, frames, pc, mmOwner, exited>>
      PROVE  GInv'
  <2>1. /\ PoolInv' /\ heap' \in SUBSET Obj /\ todo' \in SUBSET Obj /\ usage' \in Nat
    BY <1>r, <1>n, PoolTrack
  <2>2. /\ temps' \in [Threads -> Seq(SUBSET Obj)]
        /\ \A w \in Threads : Len(temps'[w]) = Len(temps[w])
    BY <1>r, <1>n, StackTypes, SetTempsType
  <2>3. TypeOK'
    BY <1>r, <1>n, <2>1, <2>2 DEF TypeOK, GcTrack
  <2>4. FrameInv'
    BY <1>n DEF FrameInv
  <2> QED
    BY <2>1, <2>3, <2>4
<1>1. ASSUME NEW o \in Fresh, New(t, o) PROVE GInv'
  BY <1>r, <1>1, <1>n DEF New, Running
<1>2. ASSUME NEW o \in Fresh, NEW v \in Visible(t), NewReference(t, o, v) PROVE GInv'
  <2>1. v \in Obj
    BY <1>r, <1>2, StackTypes DEF NewReference, Running
  <2> QED
    BY <1>r, <1>2, <1>n, <2>1 DEF NewReference, Running
<1>3. ASSUME NEW o \in Const, Literal(t, o) PROVE GInv'
  <2>1. temps' \in [Threads -> Seq(SUBSET Obj)] /\ \A w \in Threads : Len(temps'[w]) = Len(temps[w])
    BY <1>r, <1>3, StackTypes, SetTempsType, ObjAssumption DEF Literal, Running
  <2> QED
    BY <1>r, <1>3, <2>1, Preserved DEF Literal, Running
<1>s. ASSUME ~exited, NEW S \in SUBSET Obj, SetTemps(t, S), NEW u \in Threads, NEW i, NEW v \in SUBSET Obj,
             frames' = [frames EXCEPT ![u][i] = v]
      PROVE  /\ temps' \in [Threads -> Seq(SUBSET Obj)] /\ frames' \in [Threads -> Seq(SUBSET Obj)]
             /\ \A w \in Threads : Len(temps'[w]) = Len(frames'[w]) /\ Len(frames'[w]) >= 1
  <2>1. temps' \in [Threads -> Seq(SUBSET Obj)] /\ \A w \in Threads : Len(temps'[w]) = Len(temps[w])
    BY <1>r, <1>s, SetTempsType
  <2>2. frames' \in [Threads -> Seq(SUBSET Obj)] /\ \A w \in Threads : Len(frames'[w]) = Len(frames[w])
    <3>1. frames' = Updated(frames, u, i, v)
      BY <1>s DEF Updated
    <3>2. frames \in [Threads -> Seq(SUBSET Obj)]
      BY <1>r
    <3>3. /\ Updated(frames, u, i, v) \in [Threads -> Seq(SUBSET Obj)]
          /\ \A w \in Threads : Len(Updated(frames, u, i, v)[w]) = Len(frames[w])
      BY <3>2, StackUpdate
    <3> QED
      BY <3>1, <3>3
  <2> QED
    BY <1>r, <1>s, <2>1, <2>2
<1>4. ASSUME NEW x \in Temps(t), NEW u \in Threads, ~exited => 1 <= Depth(u), NEW i, ~exited => i \in 1..Depth(u),
             NEW old, Assign(t, x, u, i, old)
      PROVE  GInv'
  <2>1. ~exited /\ frames[u][i] \in SUBSET Obj /\ x \in Obj /\ Temps(t) \in SUBSET Obj
    BY <1>r, <1>4, StackTypes DEF Assign, Running
  <2>2. (frames[u][i] \ {old}) \cup {x} \in SUBSET Obj
    BY <2>1
  <2>3. /\ temps' \in [Threads -> Seq(SUBSET Obj)] /\ frames' \in [Threads -> Seq(SUBSET Obj)]
        /\ \A w \in Threads : Len(temps'[w]) = Len(frames'[w]) /\ Len(frames'[w]) >= 1
    <3>1. frames' = [frames EXCEPT ![u][i] = (frames[u][i] \ {old}) \cup {x}]
      BY <1>4 DEF Assign
    <3>2. SetTemps(t, Temps(t) \ {x}) /\ Temps(t) \ {x} \in SUBSET Obj
      BY <1>4, <2>1 DEF Assign
    <3> QED
      BY <2>1, <2>2, <3>1, <3>2, <1>s
  <2>4. kids' \in [Obj -> SUBSET Obj] /\ referenced' \in SUBSET Obj
    BY <1>r, <1>4, <2>1 DEF Assign
  <2> QED
    BY <1>r, <1>4, <2>3, <2>4, Preserved DEF Assign
<1>5. ASSUME NEW x \in Temps(t), PushTmp(t, x) PROVE GInv'
  <2>1. ~exited /\ x \in Obj /\ Temps(t) \in SUBSET Obj /\ frames[t][Depth(t)] \in SUBSET Obj
    BY <1>r, <1>5, StackTypes DEF PushTmp, Running
  <2>2. /\ temps' \in [Threads -> Seq(SUBSET Obj)] /\ frames' \in [Threads -> Seq(SUBSET Obj)]
        /\ \A w \in Threads : Len(temps'[w]) = Len(frames'[w]) /\ Len(frames'[w]) >= 1
    <3>1. frames' = [frames EXCEPT ![t][Depth(t)] = frames[t][Depth(t)] \cup {x}]
      BY <1>5 DEF PushTmp
    <3>2. SetTemps(t, Temps(t) \ {x}) /\ Temps(t) \ {x} \in SUBSET Obj
      BY <1>5, <2>1 DEF PushTmp
    <3> QED
      BY <2>1, <3>1, <3>2, <1>s, ZenonT(40)
  <2> QED
    BY <1>r, <1>5, <2>2, Preserved DEF PushTmp
<1>6. ASSUME NEW x \in Top(t), RemoveTmp(t, x) PROVE GInv'
  <2>1. ~exited /\ x \in Obj /\ Temps(t) \in SUBSET Obj /\ frames[t][Depth(t)] \in SUBSET Obj
    BY <1>r, <1>6, StackTypes DEF RemoveTmp, Running
  <2>2. /\ temps' \in [Threads -> Seq(SUBSET Obj)] /\ frames' \in [Threads -> Seq(SUBSET Obj)]
        /\ \A w \in Threads : Len(temps'[w]) = Len(frames'[w]) /\ Len(frames'[w]) >= 1
    <3>1. frames' = [frames EXCEPT ![t][Depth(t)] = frames[t][Depth(t)] \ {x}]
      BY <1>6 DEF RemoveTmp
    <3>2. SetTemps(t, Temps(t) \cup {x}) /\ Temps(t) \cup {x} \in SUBSET Obj
      BY <1>6, <2>1 DEF RemoveTmp
    <3> QED
      BY <2>1, <3>1, <3>2, <1>s, ZenonT(40)
  <2> QED
    BY <1>r, <1>6, <2>2, Preserved DEF RemoveTmp
<1>t. ASSUME ~exited, NEW S \in SUBSET Obj, SetTemps(t, S), frames' = frames
      PROVE  /\ temps' \in [Threads -> Seq(SUBSET Obj)] /\ frames' \in [Threads -> Seq(SUBSET Obj)]
             /\ \A w \in Threads : Len(temps'[w]) = Len(frames'[w]) /\ Len(frames'[w]) >= 1
  BY <1>r, <1>t, SetTempsType
<1>7. ASSUME NEW x \in Temps(t), NEW p \in Visible(t), Link(t, p, x) PROVE GInv'
  <2>1. ~exited /\ x \in Obj /\ Temps(t) \ {x} \in SUBSET Obj
    BY <1>r, <1>7, StackTypes DEF Link, Running
  <2>2. kids' \in [Obj -> SUBSET Obj] /\ referenced' \in SUBSET Obj
    BY <1>r, <1>7, <2>1 DEF Link
  <2> QED
    BY <1>r, <1>7, <1>t, <2>1, <2>2, Preserved DEF Link
<1>8. ASSUME NEW x \in Temps(t), NEW p \in Visible(t), NEW old \in kids[p], Replace(t, p, old, x) PROVE GInv'
  <2>1. ~exited /\ x \in Obj /\ Temps(t) \ {x} \in SUBSET Obj
    BY <1>r, <1>8, StackTypes DEF Replace, Running
  <2>2. kids' \in [Obj -> SUBSET Obj] /\ referenced' \in SUBSET Obj
    BY <1>r, <1>8, <2>1 DEF Replace
  <2> QED
    BY <1>r, <1>8, <1>t, <2>1, <2>2, Preserved DEF Replace
<1>9. ASSUME NEW p \in Visible(t), NEW c \in kids[p], Pop(t, p, c) PROVE GInv'
  <2>1. ~exited /\ c \in Obj /\ Temps(t) \cup {c} \in SUBSET Obj
    BY <1>r, <1>9, StackTypes DEF Pop, Running
  <2>2. kids' \in [Obj -> SUBSET Obj]
    BY <1>r, <1>9 DEF Pop
  <2> QED
    BY <1>r, <1>9, <1>t, <2>1, <2>2, Preserved DEF Pop
<1>10. ASSUME NEW args \in SUBSET Visible(t), Call(t, args) PROVE GInv'
  <2>1. ~exited /\ args \in SUBSET Obj /\ temps[t][Depth(t)] \in SUBSET Obj
    BY <1>r, <1>10, StackTypes DEF Call, Running
  <2>2. /\ Append(frames[t], args) \in Seq(SUBSET Obj)
        /\ Len(Append(frames[t], args)) = Len(frames[t]) + 1
    BY <1>r, <2>1
  <2>3. frames' \in [Threads -> Seq(SUBSET Obj)]
        /\ \A w \in Threads : Len(frames'[w]) = IF w = t THEN Len(frames[w]) + 1 ELSE Len(frames[w])
    BY <1>r, <1>10, <2>2 DEF Call
  <2> DEFINE s == SubSeq(temps[t], 1, Depth(t) - 1) \o <<Temps(t) \ args, {}>>
  <2>4. s \in Seq(SUBSET Obj) /\ Len(s) = Len(temps[t]) + 1
    <3>1. Temps(t) \ args \in SUBSET Obj /\ Depth(t) \in Nat \ {0} /\ Depth(t) = Len(temps[t])
      BY <1>r, <2>1, StackTypes
    <3>2. /\ SubSeq(temps[t], 1, Depth(t) - 1) \in Seq(SUBSET Obj)
          /\ Len(SubSeq(temps[t], 1, Depth(t) - 1)) = Len(temps[t]) - 1
      BY <1>r, <3>1
    <3>3. <<Temps(t) \ args, {}>> \in Seq(SUBSET Obj) /\ Len(<<Temps(t) \ args, {}>>) = 2
      BY <3>1
    <3> QED
      BY <1>r, <3>1, <3>2, <3>3
  <2>5. temps' = [temps EXCEPT ![t] = s]
    BY <1>10 DEF Call
  <2> HIDE DEF s
  <2>6. temps' \in [Threads -> Seq(SUBSET Obj)]
        /\ \A w \in Threads : Len(temps'[w]) = IF w = t THEN Len(temps[w]) + 1 ELSE Len(temps[w])
    BY <1>r, <2>4, <2>5
  <2>7. \A w \in Threads : Len(temps'[w]) = Len(frames'[w]) /\ Len(frames'[w]) >= 1
    BY <1>r, <2>1, <2>3, <2>6
  <2> QED
    BY <1>r, <1>10, <2>1, <2>3, <2>6, <2>7, Preserved DEF Call
<1>11. ASSUME NEW r \in Visible(t), Return(t, r) PROVE GInv'
  <2> DEFINE d == Depth(t) - 1
             f == SubSeq(frames[t], 1, d)
             q == Append(SubSeq(temps[t], 1, d - 1), temps[t][d] \cup {r})
  <2>1. /\ ~exited /\ r \in Obj /\ d \in Nat \ {0} /\ temps[t][d] \in SUBSET Obj
        /\ Len(frames[t]) \in Nat /\ d = Len(frames[t]) - 1 /\ d = Len(temps[t]) - 1
    BY <1>r, <1>11, StackTypes DEF Return, Running
  <2>5. frames' = [frames EXCEPT ![t] = f] /\ temps' = [temps EXCEPT ![t] = q]
    BY <1>11 DEF Return
  <2> HIDE DEF d
  <2>2. f \in Seq(SUBSET Obj) /\ Len(f) = d
    <3>1. frames[t] \in Seq(SUBSET Obj) /\ d \in 0..Len(frames[t])
      BY <1>r, <2>1
    <3> QED
      BY <3>1
  <2>3. SubSeq(temps[t], 1, d - 1) \in Seq(SUBSET Obj) /\ Len(SubSeq(temps[t], 1, d - 1)) = d - 1
    <3>1. temps[t] \in Seq(SUBSET Obj) /\ d - 1 \in 0..Len(temps[t])
      BY <1>r, <2>1
    <3> QED
      BY <3>1
  <2>4. q \in Seq(SUBSET Obj) /\ Len(q) = d
    BY <2>1, <2>3
  <2> HIDE DEF f, q
  <2>6. frames' \in [Threads -> Seq(SUBSET Obj)] /\ temps' \in [Threads -> Seq(SUBSET Obj)]
    BY <1>r, <2>2, <2>4, <2>5
  <2>7. \A w \in Threads : Len(temps'[w]) = Len(frames'[w]) /\ Len(frames'[w]) >= 1
    BY <1>r, <2>1, <2>2, <2>4, <2>5
  <2> QED
    BY <1>r, <1>11, <2>6, <2>7, Preserved DEF Return
<1>12. ASSUME NEW x \in Visible(t), Throw(t, x) PROVE GInv'
  <2>1. ~exited /\ mark' \in SUBSET Obj
    BY <1>r, <1>12, StackTypes, MarkType DEF Throw, Running
  <2> QED
    BY <1>r, <1>12, <2>1, Preserved DEF Throw
<1>13. ASSUME NEW x \in Temps(t), DeclareStatic(t, x) PROVE GInv'
  <2>1. ~exited /\ x \in Obj /\ mark' \in SUBSET Obj /\ Temps(t) \ {x} \in SUBSET Obj
    BY <1>r, <1>13, StackTypes, MarkType, SMTT(30) DEF DeclareStatic, Running
  <2> QED
    BY <1>r, <1>13, <1>t, <2>1, Preserved DEF DeclareStatic
<1>14. ASSUME Statement(t) PROVE GInv'
  <2>1. pc' = pc \/ (pc[t] = "run" /\ pc' = [pc EXCEPT ![t] = "wait"])
    BY <1>14 DEF Statement, Running
  <2>2. ~exited
    BY <1>14 DEF Statement, Running
  <2> QED
    BY <1>r, <1>14, <1>t, <2>1, <2>2, Preserved DEF Statement
<1>15. ASSUME NEW x \in Temps(t), NEW old, Assign(t, x, t, Depth(t), old) PROVE GInv'
  <2>1. Depth(t) >= 1 /\ Depth(t) \in 1..Depth(t)
    BY <1>r, <1>15, StackTypes DEF Assign, Running
  <2> QED
    BY <1>15, <1>4, <2>1
<1>16. ASSUME NEW x \in Temps(t), NEW old, Assign(t, x, Main, 1, old) PROVE GInv'
  <2>1. Main \in Threads /\ Depth(Main) >= 1 /\ 1 \in 1..Depth(Main)
    BY <1>r, <1>16, StackTypes, ThreadAssumption DEF Assign, Running
  <2> QED
    BY <1>16, <1>4, <2>1
<1>17. ASSUME NEW p \in Visible(t), NEW c \in kids[p], Subscript(t, p, c) PROVE GInv'
  <2>1. ~exited /\ c \in Obj /\ Temps(t) \cup {c} \in SUBSET Obj
    BY <1>r, <1>17, StackTypes DEF Subscript, Running
  <2> QED
    BY <1>r, <1>17, <1>t, <2>1, Preserved DEF Subscript
<1> QED
  BY <1>1, <1>2, <1>3, <1>5, <1>6, <1>7, <1>8, <1>9, <1>10, <1>11, <1>12, <1>13, <1>14, <1>15, <1>16,
     <1>17 DEF Mutator

\* What a step of the collector has to show: it leaves the program alone.
LEMMA CollectorTypes ==
  ASSUME GInv, UNCHANGED <<stack, statics, exited>>,
         heap' \in SUBSET Obj, lag' \in SUBSET Obj, constants' \in SUBSET Obj,
         mark' \in SUBSET Obj, spared' \in SUBSET Obj, referenced' \in SUBSET Obj, todo' \in SUBSET Obj,
         kids' \in [Obj -> SUBSET Obj], count' \in [Obj -> Nat],
         collections' \in Nat, usage' \in Nat, next' \in Nat \ {0}, mmOwner' \in Threads \cup {None},
         NEW t \in Threads, NEW p \in {"mark", "lag", "heap", "run", "dtor"},
         pc' = pc \/ pc' = [pc EXCEPT ![t] = p]
  PROVE  TypeOK' /\ FrameInv'
<1>1. pc' \in [Threads -> {"run", "wait", "mark", "lag", "heap", "dtor"}]
  BY DEF GInv, TypeOK
<1>2. TypeOK'
  BY <1>1 DEF GInv, TypeOK, stack
<1>3. FrameInv'
  BY DEF GInv, FrameInv, stack
<1> QED
  BY <1>2, <1>3

\* Every step of gc_collect preserves it.
LEMMA CollectorStep ==
  ASSUME GInv, NEW t \in Threads, Collector(t) PROVE GInv'
<1> USE DEF GInv, PoolInv, pool, marks, graph, cycle, stack
<1>r. /\ heap \in SUBSET Obj /\ lag \in SUBSET Obj /\ constants \in SUBSET Obj
      /\ mark \in SUBSET Obj /\ spared \in SUBSET Obj /\ todo \in SUBSET Obj
      /\ referenced \in SUBSET Obj
      /\ kids \in [Obj -> SUBSET Obj] /\ count \in [Obj -> Nat]
      /\ collections \in Nat /\ usage \in Nat /\ next \in Nat \ {0}
      /\ pc \in [Threads -> {"run", "wait", "mark", "lag", "heap", "dtor"}]
      /\ mmOwner \in Threads \cup {None}
  BY DEF TypeOK
<1>m. ASSUME Busy(t) PROVE mmOwner = t /\ \A u \in Threads \ {t} : ~Busy(u)
  BY <1>m DEF MutexInv
<1>1. ASSUME Acquire(t) PROVE GInv'
  <2>1. \A u \in Threads : ~Busy(u)
    BY <1>1, ThreadAssumption DEF Acquire, MutexInv
  <2>2. pc' = [pc EXCEPT ![t] = "mark"] /\ mmOwner' = t
    BY <1>1 DEF Acquire
  <2>3. TypeOK' /\ FrameInv'
    <3>1. next' \in Nat \ {0} /\ spared' \in SUBSET Obj /\ mmOwner' \in Threads \cup {None}
      BY <1>r, <1>1 DEF Acquire
    <3> QED
      BY <1>r, <1>1, <2>2, <3>1, CollectorTypes DEF Acquire
  <2>4. MutexInv' /\ TodoInv'
    BY <1>r, <2>1, <2>2 DEF MutexInv, TodoInv
  <2>5. ListsInv' /\ UsageInv'
    <3>1. \A u \in Threads : pc[u] # "dtor" /\ pc'[u] # "dtor"
      BY <1>r, <2>1, <2>2
    <3> QED
      BY <1>1, <3>1 DEF Acquire, ListsInv, UsageInv
  <2>6. SurvivalInv'
    BY <1>r, <1>1, <2>1 DEF Acquire, SurvivalInv
  <2> QED
    BY <2>3, <2>4, <2>5, <2>6
<1>2. ASSUME MarkFrame(t) PROVE GInv'
  <2>1. mark' \in SUBSET Obj
    <3>1. frames[t] \in Seq(SUBSET Obj) /\ next \in Nat \ {0} /\ next <= Len(frames[t])
      BY <1>2 DEF MarkFrame, TypeOK
    <3>2. frames[t][next] \in SUBSET Obj
      BY <3>1
    <3> QED
      BY <1>r, <1>2, <3>2, MarkType DEF MarkFrame, TypeOK
  <2>2. TypeOK' /\ FrameInv'
    BY <1>r, <1>2, <2>1, CollectorTypes DEF MarkFrame
  <2>3. PoolInv'
    BY <1>r, <1>2 DEF MarkFrame, MutexInv, ListsInv, TodoInv, UsageInv, SurvivalInv
  <2> QED
    BY <2>2, <2>3
<1>3. ASSUME EndMark(t) PROVE GInv'
  <2>1. /\ pc[t] = "mark" /\ mmOwner = t /\ \A u \in Threads \ {t} : ~Busy(u)
    BY <1>3, <1>m DEF EndMark
  <2>2. \/ pc' = [pc EXCEPT ![t] = "lag"] /\ todo' = lag
        \/ pc' = [pc EXCEPT ![t] = "heap"] /\ todo' = heap
    BY <1>3 DEF EndMark
  <2>3. TypeOK' /\ FrameInv'
    BY <1>r, <1>3, <2>2, CollectorTypes DEF EndMark
  <2>4. MutexInv' /\ TodoInv'
    BY <1>r, <1>3, <2>1, <2>2 DEF EndMark, MutexInv, TodoInv
  <2>5. ListsInv' /\ UsageInv'
    <3>1. \A u \in Threads : pc[u] # "dtor" /\ pc'[u] # "dtor"
      BY <1>r, <2>1, <2>2
    <3> QED
      BY <1>3, <3>1 DEF EndMark, ListsInv, UsageInv
  <2>6. SurvivalInv'
    <3>1. collections' = collections + 1 /\ \A o \in Obj : count[o] < collections'
      BY <1>r, <1>3 DEF EndMark, SurvivalInv
    <3> QED
      BY <1>r, <1>3, <2>1, <2>2, <3>1 DEF EndMark, SurvivalInv
  <2> QED
    BY <2>3, <2>4, <2>5, <2>6
<1>4. ASSUME LagDone(t) PROVE GInv'
  <2>1. /\ pc[t] = "lag" /\ mmOwner = t /\ \A u \in Threads \ {t} : ~Busy(u)
    BY <1>4, <1>m DEF LagDone
  <2>2. pc' = [pc EXCEPT ![t] = "heap"] /\ todo' = heap
    BY <1>4 DEF LagDone
  <2>3. TypeOK' /\ FrameInv'
    BY <1>r, <1>4, <2>2, CollectorTypes DEF LagDone
  <2>4. MutexInv' /\ TodoInv'
    BY <1>r, <1>4, <2>1, <2>2 DEF LagDone, MutexInv, TodoInv
  <2>5. ListsInv' /\ UsageInv'
    <3>1. \A u \in Threads : pc[u] # "dtor" /\ pc'[u] # "dtor"
      BY <1>r, <2>1, <2>2
    <3> QED
      BY <1>4, <3>1 DEF LagDone, ListsInv, UsageInv
  <2>6. SurvivalInv'
    BY <1>r, <1>4, <2>1, <2>2 DEF LagDone, SurvivalInv
  <2> QED
    BY <2>3, <2>4, <2>5, <2>6
<1>5. ASSUME HeapDone(t) PROVE GInv'
  <2>1. /\ pc[t] = "heap" /\ mmOwner = t /\ \A u \in Threads \ {t} : ~Busy(u)
    BY <1>5, <1>m DEF HeapDone
  <2>2. pc' = [pc EXCEPT ![t] = "run"]
    BY <1>5 DEF HeapDone
  <2>3. TypeOK' /\ FrameInv'
    BY <1>r, <1>5, <2>2, CollectorTypes DEF HeapDone
  <2>4. MutexInv' /\ TodoInv'
    BY <1>r, <1>5, <2>1, <2>2 DEF HeapDone, MutexInv, TodoInv
  <2>5. ListsInv' /\ UsageInv'
    <3>1. \A u \in Threads : pc[u] # "dtor" /\ pc'[u] # "dtor"
      BY <1>r, <2>1, <2>2
    <3> QED
      BY <1>5, <3>1 DEF HeapDone, ListsInv, UsageInv
  <2>6. SurvivalInv'
    BY <1>r, <1>5, <2>1, <2>2 DEF HeapDone, SurvivalInv
  <2> QED
    BY <2>3, <2>4, <2>5, <2>6
<1>6. ASSUME NEW o \in Obj, SweepConstant(t, o) PROVE GInv'
  <2>1. /\ pc[t] \in {"lag", "heap"} /\ mmOwner = t /\ \A u \in Threads \ {t} : ~Busy(u)
        /\ o \in todo /\ (pc[t] = "lag" => o \in lag) /\ (pc[t] = "heap" => o \in heap)
    BY <1>6, <1>m DEF SweepConstant, TodoInv
  <2>2. Tracked' = Tracked
    BY <1>6, <2>1 DEF SweepConstant
  <2>3. TypeOK' /\ FrameInv'
    BY <1>r, <1>6, CollectorTypes DEF SweepConstant
  <2>4. MutexInv' /\ TodoInv' /\ ListsInv'
    BY <1>r, <1>6, <2>1 DEF SweepConstant, MutexInv, TodoInv, ListsInv
  <2>5. UsageInv'
    BY <1>6, <2>2 DEF SweepConstant, UsageInv
  <2>6. SurvivalInv'
    BY <1>r, <1>6, <2>1, <2>2 DEF SweepConstant, SurvivalInv
  <2> QED
    BY <2>3, <2>4, <2>5, <2>6
<1>7. ASSUME NEW o \in Obj, SweepAlive(t, o) PROVE GInv'
  <2>1. /\ pc[t] \in {"lag", "heap"} /\ mmOwner = t /\ \A u \in Threads \ {t} : ~Busy(u)
        /\ o \in todo /\ (pc[t] = "lag" => o \in lag) /\ (pc[t] = "heap" => o \in heap)
    BY <1>7, <1>m DEF SweepAlive, TodoInv
  <2>2. \/ heap' = heap /\ lag' = lag
        \/ pc[t] = "heap" /\ heap' = heap \ {o} /\ lag' = lag \cup {o}
    BY <1>7 DEF SweepAlive
  <2>3. Tracked' = Tracked
    BY <1>7, <2>1, <2>2 DEF SweepAlive
  <2>c. /\ count' \in [Obj -> Nat]
        /\ \A x \in Obj : count'[x] = IF x = o /\ pc[t] = "heap" THEN count[x] + 1 ELSE count[x]
    BY <1>r, <1>7 DEF SweepAlive
  <2>4. TypeOK' /\ FrameInv'
    BY <1>r, <1>7, <2>2, <2>c, CollectorTypes DEF SweepAlive
  <2>5. MutexInv' /\ TodoInv' /\ ListsInv'
    BY <1>r, <1>7, <2>1, <2>2 DEF SweepAlive, MutexInv, TodoInv, ListsInv
  <2>6. UsageInv'
    BY <1>7, <2>3 DEF SweepAlive, UsageInv
  <2>7. SurvivalInv'
    <3>1. todo' = todo \ {o} /\ pc' = pc /\ collections' = collections /\ exited' = exited
      BY <1>7 DEF SweepAlive
    <3>2. exited \/ \A x \in Fresh : count'[x] = 0
      BY <1>r, <2>1, <2>c DEF SurvivalInv
    <3>3. \A x \in Obj : count'[x] <= collections
      BY <1>r, <2>1, <2>c DEF SurvivalInv
    <3>4. \A u \in Threads : pc[u] \in {"lag", "heap"} => u = t
      BY <2>1
    <3>5. /\ collections >= 1
          /\ pc[t] = "lag" => \A x \in heap' : count'[x] < collections
          /\ pc[t] = "heap" => \A x \in todo' : count'[x] < collections
      BY <1>r, <2>1, <2>2, <2>c, <3>1 DEF SurvivalInv
    <3> QED
      BY <2>3, <3>1, <3>2, <3>3, <3>4, <3>5 DEF SurvivalInv
  <2> QED
    BY <2>4, <2>5, <2>6, <2>7
<1>8. ASSUME NEW o \in Obj, SweepDead(t, o) PROVE GInv'
  <2>1. /\ pc[t] \in {"lag", "heap"} /\ mmOwner = t /\ \A u \in Threads \ {t} : ~Busy(u)
        /\ o \in todo /\ (pc[t] = "lag" => o \in lag) /\ (pc[t] = "heap" => o \in heap)
    BY <1>8, <1>m DEF SweepDead, TodoInv
  <2>2. Tracked' = Tracked \ {o} /\ o \in Tracked
    BY <1>8, <2>1 DEF SweepDead, ListsInv
  <2>3. Cardinality(Tracked') = Cardinality(Tracked) - 1 /\ Cardinality(Tracked) \in Nat \ {0}
    <3>1. Cardinality(Tracked \ {o}) = Cardinality(Tracked) - 1
      BY <2>2, TrackedFinite, FS_RemoveElement
    <3>2. Cardinality(Tracked) # 0
      BY <2>2, TrackedFinite, FS_EmptySet
    <3> HIDE DEF Tracked
    <3> QED
      BY <2>2, <3>1, <3>2, TrackedFinite
  <2>4. usage' = usage - 1 /\ usage = Cardinality(Tracked) /\ (\A u \in Threads : pc'[u] # "dtor")
    <3>1. (~\E u \in Threads : pc[u] = "dtor") /\ usage' = usage - 1 /\ pc' = pc
      BY <1>8, <2>1 DEF SweepDead
    <3> HIDE DEF Tracked
    <3> QED
      BY <3>1, TrackedFinite DEF UsageInv
  <2>c. /\ count' \in [Obj -> Nat]
        /\ \A x \in Obj : count'[x] = IF x = o THEN 0 ELSE count[x]
    BY <1>r, <1>8 DEF SweepDead
  <2>5. TypeOK' /\ FrameInv'
    <3>1. usage' \in Nat /\ kids' \in [Obj -> SUBSET Obj]
      BY <1>r, <1>8, <2>3, <2>4 DEF SweepDead
    <3>2. /\ heap' \in SUBSET Obj /\ lag' \in SUBSET Obj /\ todo' \in SUBSET Obj
          /\ referenced' \in SUBSET Obj
      BY <1>r, <1>8 DEF SweepDead
    <3>3. UNCHANGED <<frames, temps, statics, exited, constants, mark, spared, collections, next, pc, mmOwner>>
      BY <1>8 DEF SweepDead
    <3> QED
      BY <1>r, <2>c, <3>1, <3>2, <3>3, CollectorTypes
  <2>6. MutexInv' /\ TodoInv' /\ ListsInv'
    BY <1>r, <1>8, <2>1 DEF SweepDead, MutexInv, TodoInv, ListsInv
  <2>7. UsageInv'
    <3> HIDE DEF Tracked
    <3> QED
      BY <2>3, <2>4 DEF UsageInv
  <2>8. SurvivalInv'
    <3>1. /\ todo' = todo \ {o} /\ pc' = pc /\ collections' = collections /\ exited' = exited
          /\ heap' = heap \ {o}
      BY <1>8 DEF SweepDead
    <3>2. exited \/ \A x \in Fresh' : count'[x] = 0
      BY <2>2, <2>c DEF SurvivalInv
    <3>3. \A x \in Obj : count'[x] <= collections
      BY <1>r, <2>c DEF SurvivalInv
    <3>4. \A u \in Threads : pc[u] \in {"lag", "heap"} => u = t
      BY <2>1
    <3>5. /\ collections >= 1
          /\ pc[t] = "lag" => \A x \in heap' : count'[x] < collections
          /\ pc[t] = "heap" => \A x \in todo' : count'[x] < collections
      BY <1>r, <2>1, <2>c, <3>1 DEF SurvivalInv
    <3> QED
      BY <3>1, <3>2, <3>3, <3>4, <3>5 DEF SurvivalInv
  <2> QED
    BY <2>5, <2>6, <2>7, <2>8
<1>9. ASSUME NEW o \in Obj, SweepDestructor(t, o) PROVE GInv'
  <2>1. /\ pc[t] \in {"lag", "heap"} /\ mmOwner = t /\ \A u \in Threads \ {t} : ~Busy(u)
        /\ o \in todo /\ o \in heap \cup lag
    BY <1>9, <1>m DEF SweepDestructor, TodoInv
  <2>2. pc' = [pc EXCEPT ![t] = "dtor"] /\ usage' = usage - 1
    BY <1>9 DEF SweepDestructor
  <2>3. usage = Cardinality(Tracked)
    <3>1. ~\E u \in Threads : pc[u] = "dtor"
      BY <2>1
    <3> HIDE DEF Tracked
    <3> QED
      BY <3>1, TrackedFinite DEF UsageInv
  <2>4. Cardinality(Tracked) \in Nat \ {0}
    <3>1. Tracked # {}
      BY <2>1
    <3> QED
      BY <3>1, TrackedFinite, FS_EmptySet
  <2>5. TypeOK' /\ FrameInv'
    <3>1. usage' \in Nat
      BY <2>2, <2>3, <2>4
    <3> QED
      BY <1>r, <1>9, <2>2, <3>1, CollectorTypes DEF SweepDestructor
  <2>6. MutexInv' /\ TodoInv' /\ ListsInv'
    BY <1>r, <1>9, <2>1, <2>2 DEF SweepDestructor, MutexInv, TodoInv, ListsInv
  <2>7. UsageInv'
    <3>1. Tracked' = Tracked /\ \E u \in Threads : pc'[u] = "dtor"
      BY <1>r, <1>9, <2>2 DEF SweepDestructor
    <3> HIDE DEF Tracked
    <3> QED
      BY <2>2, <2>3, <3>1 DEF UsageInv
  <2>8. SurvivalInv'
    BY <1>r, <1>9, <2>1, <2>2 DEF SweepDestructor, SurvivalInv
  <2> QED
    BY <2>5, <2>6, <2>7, <2>8
<1> QED
  BY <1>1, <1>2, <1>3, <1>4, <1>5, <1>6, <1>7, <1>8, <1>9 DEF Collector

\* vm_release preserves it.
LEMMA ReleaseStep ==
  ASSUME GInv, NEW t \in Threads, Release(t) PROVE GInv'
<1> USE DEF GInv, PoolInv, marks, graph, cycle
<1>1. \A u \in Threads : ~Busy(u) /\ ~Busy(u)'
  BY ThreadAssumption DEF Release, MutexInv
<1>2. usage = Cardinality(Tracked)
  <2>1. ~\E u \in Threads : pc[u] = "dtor"
    BY <1>1
  <2> HIDE DEF Tracked
  <2> QED
    BY <2>1, TrackedFinite DEF UsageInv
<1>3. Tracked' = {} /\ usage' = 0
  <2>1. usage' = usage - Cardinality(Tracked)
    BY DEF Release
  <2> QED
    BY <1>2, <2>1, TrackedFinite DEF Release
<1>4. TypeOK'
  <2>1. <<>> \in Seq(SUBSET Obj)
    OBVIOUS
  <2> QED
    BY <1>3, <2>1 DEF Release, TypeOK
<1>5. FrameInv'
  BY DEF Release, FrameInv
<1>6. MutexInv' /\ TodoInv' /\ ListsInv'
  BY <1>1 DEF Release, MutexInv, TodoInv, ListsInv
<1>7. UsageInv'
  <2>1. Cardinality({}) = 0
    BY FS_EmptySet
  <2>2. ~\E u \in Threads : pc'[u] = "dtor"
    BY <1>1
  <2> QED
    BY <1>3, <2>1, <2>2 DEF UsageInv
<1>8. SurvivalInv'
  BY <1>1 DEF Release, SurvivalInv
<1> QED
  BY <1>4, <1>5, <1>6, <1>7, <1>8

\* Every step preserves it.
LEMMA GStep == GInv /\ [Next]_vars => GInv'
<1> SUFFICES ASSUME GInv, [Next]_vars PROVE GInv'
  OBVIOUS
<1>1. ASSUME UNCHANGED vars PROVE GInv'
  BY <1>1 DEF vars, pool, marks, graph, stack, cycle, GInv, TypeOK, FrameInv, PoolInv,
     MutexInv, ListsInv, TodoInv, UsageInv, SurvivalInv
<1>2. CASE Terminated
  BY <1>1, <1>2 DEF Terminated
<1> QED
  BY <1>1, <1>2, MutatorStep, CollectorStep, ReleaseStep DEF Next

\* It is an invariant of every program.
LEMMA GInvariant == Spec => []GInv
BY GInit, GStep, PTL DEF Spec

\* Every variable keeps its type, whatever the threads do; in particular the
\* unsigned usage counter never wraps below zero.
THEOREM TypeCorrect == Spec => []TypeOK
<1>1. GInv => TypeOK
  BY DEF GInv
<1> QED
  BY <1>1, GInvariant, PTL

\* No object is ever in two lists of the pool, and the usage counter is the
\* memory of the objects tracked.
THEOREM AccountingCorrect == Spec => []Accounting
<1>1. ASSUME GInv PROVE Accounting
  <2> DEFINE D == {t \in Threads : pc[t] = "dtor"}
  <2>1. \A t, u \in D : t = u
    BY <1>1 DEF GInv, PoolInv, MutexInv
  <2>2. Cardinality(D) = IF \E t \in Threads : pc[t] = "dtor" THEN 1 ELSE 0
    <3>1. CASE \E t \in Threads : pc[t] = "dtor"
      <4>1. PICK t \in Threads : pc[t] = "dtor"
        BY <3>1
      <4>2. D = {t}
        BY <2>1, <4>1
      <4>3. Cardinality({t}) = 1
        BY FS_Singleton
      <4> QED
        BY <3>1, <4>2, <4>3
    <3>2. CASE ~\E t \in Threads : pc[t] = "dtor"
      BY <3>2, FS_EmptySet
    <3> QED
      BY <3>1, <3>2
  <2> HIDE DEF D, Tracked
  <2>3. usage = Cardinality(Tracked) - Cardinality(D)
    BY <1>1, <2>2 DEF GInv, PoolInv, UsageInv
  <2> QED
    BY <1>1, <2>3 DEF Accounting, GInv, PoolInv, ListsInv, D
<1> QED
  BY <1>1, GInvariant, PTL

\* At most one thread collects, and it owns the VM_MM mutex.
THEOREM OneCollectorCorrect == Spec => []OneCollector
<1>1. GInv => OneCollector
  BY DEF GInv, PoolInv, MutexInv, OneCollector, Collecting
<1> QED
  BY <1>1, GInvariant, PTL

\* gc_count never exceeds the number of collections, with any thread started.
THEOREM CountCorrect == Spec => []CountBounded
<1>1. GInv => CountBounded
  BY DEF GInv, PoolInv, SurvivalInv, CountBounded
<1> QED
  BY <1>1, GInvariant, PTL

\* While a thread collects, no thread enters or leaves a function.
THEOREM FramesStableCorrect == Spec => FramesStable
<1> DEFINE A == \A t \in Threads : Collecting(t) /\ Collecting(t)' => \A u \in Threads : Depth(u)' = Depth(u)
<1>1. ASSUME GInv, [Next]_vars PROVE [A]_vars
  <2> SUFFICES ASSUME NEW t \in Threads, Collecting(t), Next, NEW u \in Threads
               PROVE Depth(u)' = Depth(u)
    BY <1>1 DEF vars
  <2>1. mmOwner # None
    BY <1>1, ThreadAssumption DEF Collecting, GInv, PoolInv, MutexInv
  <2>2. frames \in [Threads -> Seq(SUBSET Obj)]
    BY <1>1 DEF GInv, TypeOK
  <2>3. ASSUME NEW w \in Threads, NEW i, NEW v, frames' = [frames EXCEPT ![w][i] = v]
        PROVE  Depth(u)' = Depth(u)
    <3>1. frames[w] \in Seq(SUBSET Obj)
      BY <2>2
    <3>2. Len([frames[w] EXCEPT ![i] = v]) = Len(frames[w])
      BY <3>1
    <3>3. frames' = [frames EXCEPT ![w] = [frames[w] EXCEPT ![i] = v]]
      BY <2>3
    <3> QED
      BY <2>2, <3>2, <3>3
  <2>4. ASSUME NEW w \in Threads, Mutator(w) PROVE Depth(u)' = Depth(u)
    <3>1. ASSUME NEW args, Call(w, args) PROVE FALSE
      BY <2>1, <3>1 DEF Call
    <3>2. ASSUME NEW r, Return(w, r) PROVE FALSE
      BY <2>1, <3>2 DEF Return
    <3>3. ASSUME NEW x, NEW y \in Threads, NEW i, NEW old, Assign(w, x, y, i, old)
          PROVE  Depth(u)' = Depth(u)
      BY <2>3, <3>3 DEF Assign
    <3>4. ASSUME NEW x, PushTmp(w, x) \/ RemoveTmp(w, x) PROVE Depth(u)' = Depth(u)
      BY <2>3, <3>4 DEF PushTmp, RemoveTmp
    <3>5. \/ UNCHANGED frames
          \/ \E args : Call(w, args)
          \/ \E r : Return(w, r)
          \/ \E x, old : Assign(w, x, w, Depth(w), old) \/ Assign(w, x, Main, 1, old)
          \/ \E x : PushTmp(w, x) \/ RemoveTmp(w, x)
      BY <2>4 DEF Mutator, New, NewReference, Literal, Link, Replace, Subscript, Pop, Throw,
         DeclareStatic, Statement, stack
    <3> QED
      BY <3>1, <3>2, <3>3, <3>4, <3>5, ThreadAssumption
  <2>5. ASSUME NEW w \in Threads, Collector(w) PROVE Depth(u)' = Depth(u)
    BY <2>5 DEF Collector, Acquire, MarkFrame, EndMark, LagDone, HeapDone, SweepConstant,
       SweepAlive, SweepDead, SweepDestructor, stack
  <2>6. ASSUME NEW w \in Threads, Release(w) PROVE FALSE
    BY <2>1, <2>6 DEF Release
  <2>7. CASE Terminated
    BY <2>7 DEF Terminated, vars, stack
  <2> QED
    BY <2>4, <2>5, <2>6, <2>7 DEF Next
<1> QED
  BY <1>1, GInvariant, PTL DEF Spec, FramesStable

-----------------------------------------------------------------------------
(* The invariant of a sequential program.                                  *)

Roots(F) == UNION {F[Main][i] : i \in DOMAIN F[Main]}

Live == Reach(Roots(frames) \cup Roots(temps), kids)

LiveInv == Live \subseteq Tracked

\* Literals and deleted objects have no children.
LeafInv ==
  /\ statics = {}
  /\ \A o \in Const : kids[o] = {}
  /\ exited \/ (Const \subseteq Tracked /\ \A o \in Fresh : kids[o] = {})

\* The callers hold no temporaries, and nobody does while a collection is due.
TempsInv ==
  /\ \A i \in 1..(Depth(Main) - 1) : temps[Main][i] = {}
  /\ pc[Main] # "run" => \A i \in 1..Depth(Main) : temps[Main][i] = {}

\* What is live is marked before the sweep comes to it.
MarkInv ==
  /\ pc[Main] = "mark" => \A i \in 1..Depth(Main) : i < next => Reach(frames[Main][i], kids) \subseteq mark
  /\ pc[Main] = "lag" => Live \cap (heap \cup todo) \subseteq mark \cup Const
  /\ pc[Main] = "heap" => Live \cap todo \subseteq mark \cup Const

ExitInv == exited => pc[Main] = "run"

SInv == LiveInv /\ LeafInv /\ TempsInv /\ MarkInv /\ ExitInv

\* What holds the roots and is closed under the edges holds all that is live.
LEMMA LiveLeast ==
  ASSUME NEW S \in SUBSET Obj, Roots(frames) \cup Roots(temps) \subseteq S, Closed(S, kids)
  PROVE  Live \subseteq S
BY ReachLeast DEF Live

\* The live objects and the edges between them.
LEMMA LiveFacts ==
  ASSUME TypeOK
  PROVE  /\ Roots(frames) \cup Roots(temps) \subseteq Live
         /\ Live \in SUBSET Obj
         /\ Closed(Live, kids)
<1>1. \A F \in [Threads -> Seq(SUBSET Obj)] : Roots(F) \in SUBSET Obj
  <2> SUFFICES ASSUME NEW F \in [Threads -> Seq(SUBSET Obj)], NEW i \in DOMAIN F[Main]
               PROVE  F[Main][i] \in SUBSET Obj
    BY DEF Roots
  <2>1. F[Main] \in Seq(SUBSET Obj)
    BY ThreadAssumption
  <2> QED
    BY <2>1
<1>2. Roots(frames) \cup Roots(temps) \in SUBSET Obj /\ kids \in [Obj -> SUBSET Obj]
  BY <1>1 DEF TypeOK
<1> QED
  BY <1>2, ReachRoots, ReachClosed DEF Live

\* The roots after the update of one frame.
LEMMA RootsUpdate ==
  ASSUME NEW F \in [Threads -> Seq(SUBSET Obj)], NEW u \in Threads, NEW i, NEW v
  PROVE  /\ Roots(Updated(F, u, i, v)) \subseteq Roots(F) \cup v
         /\ \A w \in Threads : Len(Updated(F, u, i, v)[w]) = Len(F[w])
         /\ \A w \in Threads : \A j \in 1..Len(F[w]) :
              Updated(F, u, i, v)[w][j] = IF w = u /\ j = i THEN v ELSE F[w][j]
<1> DEFINE G == Updated(F, u, i, v)
<1>1. G = [F EXCEPT ![u] = [F[u] EXCEPT ![i] = v]]
  BY DEF Updated
<1>2. \A w \in Threads : F[w] \in Seq(SUBSET Obj) /\ DOMAIN F[w] = 1..Len(F[w]) /\ Len(F[w]) \in Nat
  OBVIOUS
<1>3. \A w \in Threads : DOMAIN G[w] = DOMAIN F[w] /\ Len(G[w]) = Len(F[w])
  <2>1. /\ DOMAIN [F[u] EXCEPT ![i] = v] = 1..Len(F[u])
        /\ Len([F[u] EXCEPT ![i] = v]) = Len(F[u])
    BY <1>2
  <2> HIDE DEF G
  <2> QED
    BY <1>1, <1>2, <2>1
<1>4. \A w \in Threads : \A j \in DOMAIN F[w] : G[w][j] = IF w = u /\ j = i THEN v ELSE F[w][j]
  BY <1>1, <1>2
<1> HIDE DEF G
<1>5. Roots(G) \subseteq Roots(F) \cup v
  BY <1>3, <1>4, ThreadAssumption DEF Roots
<1> QED
  BY <1>2, <1>3, <1>4, <1>5 DEF G

\* The elements of a concatenation of frames.
LEMMA ConcatSets ==
  ASSUME NEW a \in Seq(SUBSET Obj), NEW b \in Seq(SUBSET Obj)
  PROVE  /\ DOMAIN (a \o b) = 1..(Len(a) + Len(b))
         /\ \A j \in 1..(Len(a) + Len(b)) : (a \o b)[j] = IF j <= Len(a) THEN a[j] ELSE b[j - Len(a)]
<1> DEFINE T == SUBSET Obj
<1>1. a \in Seq(T) /\ b \in Seq(T)
  OBVIOUS
<1> HIDE DEF T
<1>2. /\ a \o b \in Seq(T) /\ Len(a \o b) = Len(a) + Len(b)
      /\ \A j \in 1..(Len(a) + Len(b)) : (a \o b)[j] = IF j <= Len(a) THEN a[j] ELSE b[j - Len(a)]
  BY <1>1, ConcatProperties
<1>3. DOMAIN (a \o b) = 1..Len(a \o b)
  BY <1>2
<1> QED
  BY <1>2, <1>3

\* Without references, marking reaches what is reachable.
LEMMA MarkIsReach ==
  ASSUME TypeOK, Refs = {}, NEW R
  PROVE  GcMark(R) = mark \cup Reach(R, kids)
<1>1. [o \in Obj |-> IF Skipped(o) THEN {} ELSE kids[o]] = kids
  BY DEF TypeOK, Skipped
<1> QED
  BY <1>1 DEF GcMark

\* A sequential program starts with nothing live.
LEMMA SInit == Sequential /\ Init => SInv
<1> SUFFICES ASSUME Sequential, Init PROVE SInv
  OBVIOUS
<1>1. Roots(frames) = {} /\ Roots(temps) = {}
  BY ThreadAssumption DEF Init, Roots
<1>2. Live = {}
  BY <1>1, ReachNone DEF Live
<1>3. pc[Main] = "run" /\ Depth(Main) = 1
  BY ThreadAssumption DEF Init
<1>4. LeafInv
  BY ObjAssumption DEF LeafInv, Init
<1>5. LiveInv /\ MarkInv
  BY <1>2, <1>3 DEF LiveInv, MarkInv
<1>6. TempsInv /\ ExitInv
  BY <1>3 DEF TempsInv, ExitInv
<1> QED
  BY <1>4, <1>5, <1>6 DEF SInv

\* What an interpreter's step has to show: what it now names was live, or is
\* a leaf of the pool.
LEMMA SMutate ==
  ASSUME GInv, GInv', SInv, pc[Main] = "run", ~exited,
         UNCHANGED exited, statics' = {},
         pc'[Main] = "run" \/ (pc'[Main] = "wait" /\ \A i \in 1..Depth(Main)' : temps'[Main][i] = {}),
         NEW L \in SUBSET (Tracked'), \A o \in L : kids'[o] = {},
         Roots(frames)' \cup Roots(temps)' \subseteq Live \cup L,
         \A o \in Live : kids'[o] \subseteq Live \cup L,
         \A i \in 1..(Depth(Main)' - 1) : temps'[Main][i] = {},
         Tracked \subseteq Tracked', \A o \in Const : kids'[o] = {}, \A o \in Fresh' : kids'[o] = {}
  PROVE  SInv'
<1>1. Live \subseteq Tracked /\ Live \subseteq Obj /\ Tracked' \subseteq Obj
  BY LiveFacts DEF SInv, LiveInv, GInv, TypeOK
<1>2. Closed(Live \cup L, kids')
  BY DEF Closed
<1>3. Live' \subseteq Live \cup L
  <2>1. Live \cup L \in SUBSET Obj
    BY <1>1
  <2>2. Live' = Reach(Roots(frames)' \cup Roots(temps)', kids')
    BY DEF Live
  <2> QED
    BY <1>2, <2>1, <2>2, ReachLeast
<1>4. LiveInv'
  BY <1>1, <1>3 DEF LiveInv
<1>5. LeafInv'
  BY DEF LeafInv, SInv
<1>6. TempsInv'
  BY DEF TempsInv
<1>7. MarkInv' /\ ExitInv'
  BY DEF MarkInv, ExitInv
<1> QED
  BY <1>4, <1>5, <1>6, <1>7 DEF SInv

\* Every operation of the interpreter preserves the sequential invariant.
LEMMA SMutatorStep ==
  ASSUME Sequential, GInv, GInv', SInv, Mutator(Main) PROVE SInv'
<1> DEFINE d == Depth(Main)
<1>r. /\ TypeOK /\ FrameInv /\ Main \in Threads
      /\ kids \in [Obj -> SUBSET Obj] /\ frames \in [Threads -> Seq(SUBSET Obj)]
      /\ temps \in [Threads -> Seq(SUBSET Obj)] /\ pc \in [Threads -> {"run", "wait", "mark", "lag", "heap", "dtor"}]
      /\ Len(temps[Main]) = d /\ statics = {}
      /\ Refs = {} /\ Statics = {} /\ KeepTemps = FALSE
  BY ThreadAssumption, BoundAssumption DEF GInv, TypeOK, SInv, LeafInv, Sequential
<1>l. /\ Roots(frames) \cup Roots(temps) \subseteq Live /\ Closed(Live, kids)
      /\ Live \subseteq Tracked /\ Live \in SUBSET Obj /\ kids \in [Obj -> SUBSET Obj]
      /\ \A o \in Const : kids[o] = {}
      /\ \A i \in 1..(d - 1) : temps[Main][i] = {}
  BY <1>r, LiveFacts DEF SInv, LiveInv, LeafInv, TempsInv
<1>v. ASSUME ~exited
      PROVE  /\ d \in Nat \ {0} /\ Temps(Main) = temps[Main][d] /\ Temps(Main) \subseteq Live
             /\ Top(Main) = frames[Main][d] /\ Top(Main) \subseteq Live
             /\ Visible(Main) \subseteq Live
             /\ Const \subseteq Tracked /\ \A o \in Fresh : kids[o] = {}
  <2>1. /\ d \in Nat \ {0} /\ Temps(Main) = temps[Main][d] /\ Top(Main) = frames[Main][d]
    BY <1>r, <1>v, StackTypes
  <2>2. Temps(Main) \subseteq Live /\ Top(Main) \subseteq Live /\ Globals \subseteq Live
    <3>1. /\ DOMAIN temps[Main] = 1..d /\ DOMAIN frames[Main] = 1..d
          /\ d \in 1..d /\ 1 \in 1..d
      <4>1. temps[Main] \in Seq(SUBSET Obj) /\ frames[Main] \in Seq(SUBSET Obj)
        BY <1>r
      <4> QED
        BY <1>r, <2>1, <4>1
    <3>2. \A i \in 1..d : temps[Main][i] \subseteq Roots(temps) /\ frames[Main][i] \subseteq Roots(frames)
      BY <3>1 DEF Roots
    <3>3. Globals = frames[Main][1]
      BY <2>1 DEF Globals
    <3> HIDE DEF d
    <3> QED
      BY <1>l, <2>1, <3>1, <3>2, <3>3
  <2>3. Visible(Main) \subseteq Live
    BY <1>r, <1>l, <2>2, ReachLeast DEF Visible
  <2> QED
    BY <1>v, <2>1, <2>2, <2>3 DEF SInv, LeafInv
<1>s. ASSUME ~exited, NEW S, SetTemps(Main, S)
      PROVE  /\ Roots(temps)' \subseteq Roots(temps) \cup S
             /\ \A i \in 1..(d - 1) : temps'[Main][i] = {}
             /\ S = {} => \A i \in 1..d : temps'[Main][i] = {}
  <2>1. temps' = Updated(temps, Main, d, S)
    BY <1>s DEF SetTemps, Updated
  <2>2. /\ Roots(Updated(temps, Main, d, S)) \subseteq Roots(temps) \cup S
        /\ \A j \in 1..Len(temps[Main]) :
             Updated(temps, Main, d, S)[Main][j] = IF j = d THEN S ELSE temps[Main][j]
    <3>1. temps \in [Threads -> Seq(SUBSET Obj)] /\ Main \in Threads
      BY <1>r
    <3>2. /\ Roots(Updated(temps, Main, d, S)) \subseteq Roots(temps) \cup S
          /\ \A w \in Threads : \A j \in 1..Len(temps[w]) :
               Updated(temps, Main, d, S)[w][j] = IF w = Main /\ j = d THEN S ELSE temps[w][j]
      BY <3>1, RootsUpdate
    <3> QED
      BY <3>1, <3>2
  <2>3. Roots(temps)' = Roots(Updated(temps, Main, d, S))
    BY <2>1 DEF Roots
  <2>4. d \in Nat \ {0} /\ d = Len(temps[Main])
    BY <1>r, <1>s, <1>v
  <2>5. \A j \in 1..d : temps'[Main][j] = IF j = d THEN S ELSE temps[Main][j]
    BY <2>1, <2>2, <2>4
  <2> QED
    BY <1>l, <2>2, <2>3, <2>4, <2>5
<1>1. ASSUME NEW o \in Fresh, New(Main, o) PROVE SInv'
  <2>1. /\ ~exited /\ pc[Main] = "run" /\ frames' = frames /\ kids' = kids /\ pc' = pc
        /\ exited' = exited /\ statics' = {} /\ Tracked' = Tracked \cup {o}
        /\ SetTemps(Main, Temps(Main) \cup {o})
    BY <1>r, <1>1 DEF New, Running, GcTrack, graph
  <2>2. Roots(frames)' = Roots(frames) /\ Depth(Main)' = d
    BY <2>1 DEF Roots
  <2>3. Roots(temps)' \subseteq Live \cup {o}
    BY <1>l, <1>s, <1>v, <2>1
  <2>4. \A x \in Live : kids'[x] \subseteq Live \cup {o}
    BY <1>l, <2>1 DEF Closed
  <2>5. /\ \A x \in {o} : kids'[x] = {}
        /\ {o} \in SUBSET (Tracked') /\ \A x \in Fresh' : kids'[x] = {}
    BY <1>v, <2>1
  <2> HIDE DEF Tracked, Fresh
  <2>6. \A i \in 1..(Depth(Main)' - 1) : temps'[Main][i] = {}
    BY <1>s, <2>1, <2>2
  <2>7. Tracked \subseteq Tracked' /\ \A x \in Const : kids'[x] = {}
    BY <1>l, <2>1
  <2>8. Roots(frames)' \cup Roots(temps)' \subseteq Live \cup {o}
    BY <1>l, <2>2, <2>3
  <2> QED
    BY <2>1, <2>4, <2>5, <2>6, <2>7, <2>8, SMutate
<1>g. ASSUME ~exited, pc[Main] = "run", UNCHANGED <<pool, pc, exited, statics>>,
             NEW S, SetTemps(Main, S), NEW L \in SUBSET Const, S \subseteq Live \cup L,
             Depth(Main)' = d, Roots(frames)' \subseteq Live,
             \A o \in Live : kids'[o] \subseteq Live, \A o \in Const \cup Fresh : kids'[o] = {}
      PROVE  SInv'
  <2>1. Tracked' = Tracked /\ Fresh' = Fresh /\ L \in SUBSET (Tracked')
    BY <1>v, <1>g DEF pool
  <2>2. /\ Roots(temps)' \subseteq Roots(temps) \cup S
        /\ \A i \in 1..(Depth(Main)' - 1) : temps'[Main][i] = {}
    BY <1>g, <1>s
  <2>3. Roots(frames)' \cup Roots(temps)' \subseteq Live \cup L
    BY <1>l, <1>g, <2>2
  <2>4. \A o \in L : kids'[o] = {}
    BY <1>g
  <2>5. \A o \in Live : kids'[o] \subseteq Live \cup L
    BY <1>g
  <2>6. \A o \in Const : kids'[o] = {}
    BY <1>g
  <2>7. \A o \in Fresh' : kids'[o] = {}
    BY <1>g, <2>1
  <2>8. Tracked \subseteq Tracked' /\ UNCHANGED exited /\ statics' = {} /\ pc'[Main] = "run"
    BY <1>r, <1>g, <2>1
  <2> HIDE DEF Tracked, Fresh, d
  <2> QED
    BY <1>g, <2>1, <2>2, <2>3, <2>4, <2>5, <2>6, <2>7, <2>8, SMutate
<1>h. ASSUME ~exited, pc[Main] = "run", UNCHANGED <<pool, pc, exited, statics>>,
             NEW S, SetTemps(Main, S), S \subseteq Live,
             Depth(Main)' = d, Roots(frames)' \subseteq Live,
             \A o \in Live : kids'[o] \subseteq Live, \A o \in Const \cup Fresh : kids'[o] = {}
      PROVE  SInv'
  <2>1. {} \in SUBSET Const /\ S \subseteq Live \cup {}
    BY <1>h
  <2> QED
    BY <1>g, <1>h, <2>1
<1>f. ASSUME UNCHANGED frames PROVE Roots(frames)' \subseteq Live /\ Depth(Main)' = d
  BY <1>l, <1>f DEF Roots
<1>u. ASSUME NEW i, NEW v, frames' = [frames EXCEPT ![Main][i] = v], v \subseteq Live
      PROVE  Roots(frames)' \subseteq Live /\ Depth(Main)' = d
  <2>1. frames' = Updated(frames, Main, i, v)
    BY <1>u DEF Updated
  <2>2. frames \in [Threads -> Seq(SUBSET Obj)] /\ Main \in Threads
    BY <1>r
  <2>3. /\ Roots(Updated(frames, Main, i, v)) \subseteq Roots(frames) \cup v
        /\ \A w \in Threads : Len(Updated(frames, Main, i, v)[w]) = Len(frames[w])
    BY <2>2, RootsUpdate
  <2>4. Roots(frames)' = Roots(frames')
    BY DEF Roots
  <2> QED
    BY <1>l, <1>u, <2>1, <2>2, <2>3, <2>4
<1>2. ASSUME NEW o \in Const, Literal(Main, o) PROVE SInv'
  <2>1. /\ ~exited /\ pc[Main] = "run" /\ UNCHANGED <<pool, pc, exited, statics, frames, kids>>
        /\ SetTemps(Main, Temps(Main) \cup {o})
    BY <1>2 DEF Literal, Running, graph, stack
  <2>2. Temps(Main) \cup {o} \subseteq Live \cup {o} /\ {o} \in SUBSET Const
    BY <1>v, <2>1
  <2>3. /\ \A x \in Live : kids'[x] \subseteq Live
        /\ \A x \in Const \cup Fresh : kids'[x] = {}
    BY <1>l, <1>v, <2>1 DEF Closed
  <2> QED
    BY <1>g, <1>f, <2>1, <2>2, <2>3
<1>3. ASSUME NEW x \in Temps(Main), NEW u \in Threads, NEW i, ~exited => i \in 1..d,
             NEW old, Assign(Main, x, u, i, old)
      PROVE  SInv'
  <2>1. /\ ~exited /\ pc[Main] = "run" /\ UNCHANGED <<pool, pc, exited, statics>>
        /\ SetTemps(Main, Temps(Main) \ {x})
        /\ frames' = [frames EXCEPT ![Main][i] = (frames[Main][i] \ {old}) \cup {x}]
        /\ kids' = [o \in Obj |-> IF o = old THEN {} ELSE kids[o]]
    BY <1>3 DEF Assign, Running, Sequential
  <2>2. x \in Live /\ Temps(Main) \ {x} \subseteq Live
    BY <1>v, <1>3, <2>1
  <2>3. frames[Main][i] \subseteq Live
    <3>1. frames[Main] \in Seq(SUBSET Obj)
      BY <1>r
    <3>2. i \in DOMAIN frames[Main]
      BY <1>3, <2>1, <3>1
    <3> QED
      BY <1>l, <3>2 DEF Roots
  <2>4. /\ \A o \in Live : kids'[o] \subseteq Live
        /\ \A o \in Const \cup Fresh : kids'[o] = {}
    BY <1>l, <1>v, <2>1, ObjAssumption DEF Closed
  <2>5. (frames[Main][i] \ {old}) \cup {x} \subseteq Live
    BY <2>2, <2>3
  <2>6. Roots(frames)' \subseteq Live /\ Depth(Main)' = d
    BY <1>u, <2>1, <2>5
  <2> QED
    BY <1>h, <2>1, <2>2, <2>4, <2>6
<1>4. ASSUME NEW x \in Temps(Main), PushTmp(Main, x) PROVE SInv'
  <2>1. /\ ~exited /\ pc[Main] = "run" /\ UNCHANGED <<pool, pc, exited, statics, kids>>
        /\ SetTemps(Main, Temps(Main) \ {x})
        /\ frames' = [frames EXCEPT ![Main][d] = frames[Main][d] \cup {x}]
    BY <1>4 DEF PushTmp, Running, graph
  <2>2. Temps(Main) \ {x} \subseteq Live /\ frames[Main][d] \cup {x} \subseteq Live
    BY <1>v, <1>4, <2>1
  <2>3. /\ \A o \in Live : kids'[o] \subseteq Live
        /\ \A o \in Const \cup Fresh : kids'[o] = {}
    BY <1>l, <1>v, <2>1 DEF Closed
  <2>4. Roots(frames)' \subseteq Live /\ Depth(Main)' = d
    BY <1>u, <2>1, <2>2
  <2> QED
    BY <1>h, <2>1, <2>2, <2>3, <2>4
<1>5. ASSUME NEW x \in Top(Main), RemoveTmp(Main, x) PROVE SInv'
  <2>1. /\ ~exited /\ pc[Main] = "run" /\ UNCHANGED <<pool, pc, exited, statics, kids>>
        /\ SetTemps(Main, Temps(Main) \cup {x})
        /\ frames' = [frames EXCEPT ![Main][d] = frames[Main][d] \ {x}]
    BY <1>5 DEF RemoveTmp, Running, graph
  <2>2. Temps(Main) \cup {x} \subseteq Live /\ frames[Main][d] \ {x} \subseteq Live
    BY <1>v, <1>5, <2>1
  <2>3. /\ \A o \in Live : kids'[o] \subseteq Live
        /\ \A o \in Const \cup Fresh : kids'[o] = {}
    BY <1>l, <1>v, <2>1 DEF Closed
  <2>4. Roots(frames)' \subseteq Live /\ Depth(Main)' = d
    BY <1>u, <2>1, <2>2
  <2> QED
    BY <1>h, <2>1, <2>2, <2>3, <2>4
<1>6. ASSUME NEW x \in Temps(Main), NEW p \in Visible(Main), Link(Main, p, x) PROVE SInv'
  <2>1. /\ ~exited /\ pc[Main] = "run" /\ UNCHANGED <<pool, pc, exited, statics, frames>>
        /\ SetTemps(Main, Temps(Main) \ {x}) /\ p \notin Const /\ p \in Tracked
        /\ kids' = [kids EXCEPT ![p] = kids[p] \cup {x}]
    BY <1>6 DEF Link, Running, Visible
  <2>2. x \in Live /\ p \in Live /\ Temps(Main) \ {x} \subseteq Live
    BY <1>v, <1>6, <2>1
  <2>3. /\ \A o \in Live : kids'[o] \subseteq Live
        /\ \A o \in Const \cup Fresh : kids'[o] = {}
    BY <1>l, <1>v, <2>1, <2>2, ObjAssumption DEF Closed
  <2> QED
    BY <1>h, <1>f, <2>1, <2>2, <2>3
<1>7. ASSUME NEW x \in Temps(Main), NEW p \in Visible(Main), NEW old \in kids[p], Replace(Main, p, old, x)
      PROVE  SInv'
  <2>1. /\ ~exited /\ pc[Main] = "run" /\ UNCHANGED <<pool, pc, exited, statics, frames>>
        /\ SetTemps(Main, Temps(Main) \ {x}) /\ p \notin Const /\ p \in Tracked
        /\ kids' = [kids EXCEPT ![p] = (kids[p] \ {old}) \cup {x}, ![old] = {}]
    BY <1>7 DEF Replace, Running, Visible
  <2>2. x \in Live /\ p \in Live /\ Temps(Main) \ {x} \subseteq Live
    BY <1>v, <1>7, <2>1
  <2>3. \A o \in Obj : kids'[o] = IF o = old THEN {} ELSE IF o = p THEN (kids[p] \ {old}) \cup {x} ELSE kids[o]
    BY <1>l, <2>1
  <2>4. /\ \A o \in Live : kids'[o] \subseteq Live
        /\ \A o \in Const \cup Fresh : kids'[o] = {}
    BY <1>l, <1>v, <2>1, <2>2, <2>3, ObjAssumption DEF Closed
  <2> QED
    BY <1>h, <1>f, <2>1, <2>2, <2>4
<1>8. ASSUME NEW p \in Visible(Main), NEW c \in kids[p], Pop(Main, p, c) PROVE SInv'
  <2>1. /\ ~exited /\ pc[Main] = "run" /\ UNCHANGED <<pool, pc, exited, statics, frames>>
        /\ SetTemps(Main, Temps(Main) \cup {c})
        /\ kids' = [kids EXCEPT ![p] = kids[p] \ {c}]
    BY <1>8 DEF Pop, Running
  <2>2. c \in Live /\ p \in Live /\ Temps(Main) \cup {c} \subseteq Live
    BY <1>l, <1>v, <1>8, <2>1 DEF Closed
  <2>3. /\ \A o \in Live : kids'[o] \subseteq Live
        /\ \A o \in Const \cup Fresh : kids'[o] = {}
    BY <1>l, <1>v, <2>1, <2>2, ObjAssumption DEF Closed
  <2> QED
    BY <1>h, <1>f, <2>1, <2>2, <2>3
<1>15. ASSUME NEW p \in Visible(Main), NEW c \in kids[p], Subscript(Main, p, c) PROVE SInv'
  <2>1. /\ ~exited /\ pc[Main] = "run" /\ UNCHANGED <<pool, pc, exited, statics, frames, kids>>
        /\ SetTemps(Main, Temps(Main) \cup {c})
    BY <1>15 DEF Subscript, Running, graph
  <2>2. c \in Live /\ p \in Live /\ Temps(Main) \cup {c} \subseteq Live
    BY <1>l, <1>v, <1>15, <2>1 DEF Closed
  <2>3. /\ \A o \in Live : kids'[o] \subseteq Live
        /\ \A o \in Const \cup Fresh : kids'[o] = {}
    BY <1>l, <1>v, <2>1, <2>2, ObjAssumption DEF Closed
  <2> QED
    BY <1>h, <1>f, <2>1, <2>2, <2>3
<1>k. ASSUME ~exited, pc[Main] = "run", UNCHANGED <<pool, pc, exited, statics, kids>>,
             Roots(frames)' \cup Roots(temps)' \subseteq Live,
             \A i \in 1..(Depth(Main)' - 1) : temps'[Main][i] = {}
      PROVE  SInv'
  <2>1. Tracked' = Tracked /\ Fresh' = Fresh /\ {} \in SUBSET (Tracked')
    BY <1>k DEF pool
  <2>2. /\ \A o \in Live : kids'[o] \subseteq Live \cup {}
        /\ \A o \in Const : kids'[o] = {}
        /\ \A o \in Fresh' : kids'[o] = {}
        /\ \A o \in {} : kids'[o] = {}
    BY <1>l, <1>v, <1>k, <2>1 DEF Closed
  <2>3. Tracked \subseteq Tracked' /\ UNCHANGED exited /\ statics' = {} /\ pc'[Main] = "run"
        /\ Roots(frames)' \cup Roots(temps)' \subseteq Live \cup {}
    BY <1>r, <1>k, <2>1
  <2> HIDE DEF Tracked, Fresh, d
  <2> QED
    BY <1>k, <2>1, <2>2, <2>3, SMutate
<1>9. ASSUME NEW args \in SUBSET Visible(Main), Call(Main, args) PROVE SInv'
  <2> DEFINE h == SubSeq(temps[Main], 1, d - 1)
             q == h \o <<Temps(Main) \ args, {}>>
  <2>1. /\ ~exited /\ pc[Main] = "run" /\ UNCHANGED <<pool, pc, exited, statics, kids>>
        /\ frames' = [frames EXCEPT ![Main] = Append(frames[Main], args)]
        /\ temps' = [temps EXCEPT ![Main] = q]
        /\ Temps(Main) \ args = {}
    BY <1>r, <1>9 DEF Call, Running
  <2>2. /\ d \in Nat \ {0} /\ frames[Main] \in Seq(SUBSET Obj) /\ temps[Main] \in Seq(SUBSET Obj)
        /\ Len(frames[Main]) = d /\ Len(temps[Main]) = d /\ args \subseteq Live /\ args \subseteq Obj
    BY <1>r, <1>l, <1>v, <2>1
  <2>3. /\ frames'[Main] = Append(frames[Main], args)
        /\ temps'[Main] = q
    BY <1>r, <2>1
  <2> HIDE DEF d
  <2>4. /\ Depth(Main)' = d + 1 /\ DOMAIN frames'[Main] = 1..(d + 1)
        /\ \A j \in 1..(d + 1) : frames'[Main][j] = IF j = d + 1 THEN args ELSE frames[Main][j]
    BY <2>2, <2>3
  <2>5. h \in Seq(SUBSET Obj) /\ Len(h) = d - 1 /\ \A j \in 1..(d - 1) : h[j] = temps[Main][j]
    <3>1. d - 1 \in 0..Len(temps[Main])
      BY <2>2
    <3> QED
      BY <2>2, <3>1
  <2>6. DOMAIN q = 1..(d + 1) /\ \A j \in 1..(d + 1) : q[j] = {}
    <3>1. \A j \in 1..(d - 1) : h[j] = {}
      BY <1>l, <2>5 DEF d
    <3>2. <<Temps(Main) \ args, {}>> = <<{}, {}>>
      BY <2>1
    <3> HIDE DEF h
    <3> DEFINE z == <<{}, {}>>
    <3>3. z \in Seq(SUBSET Obj) /\ Len(z) = 2 /\ \A j \in 1..2 : z[j] = {}
      OBVIOUS
    <3>4. q = h \o z
      BY <3>2
    <3> HIDE DEF z, q, h
    <3>5. /\ DOMAIN (h \o z) = 1..(Len(h) + Len(z))
          /\ \A j \in 1..(Len(h) + Len(z)) : (h \o z)[j] = IF j <= Len(h) THEN h[j] ELSE z[j - Len(h)]
      BY <2>5, <3>3, ConcatSets
    <3>6. /\ Len(h) + Len(z) = d + 1
          /\ \A j \in 1..(d + 1) : IF j <= Len(h) THEN j \in 1..(d - 1) ELSE j - Len(h) \in 1..2
      BY <2>2, <2>5, <3>3
    <3> QED
      BY <3>1, <3>3, <3>4, <3>5, <3>6
  <2> HIDE DEF q
  <2>7. Roots(frames)' \subseteq Live
    <3>1. \A j \in 1..d : frames[Main][j] \subseteq Live
      BY <1>l, <2>2 DEF Roots
    <3>2. args \subseteq Live /\ \A j \in 1..(d + 1) : j = d + 1 \/ j \in 1..d
      BY <2>2
    <3>3. \A j \in 1..(d + 1) : frames'[Main][j] \subseteq Live
      BY <2>4, <3>1, <3>2
    <3> QED
      BY <2>4, <3>3 DEF Roots
  <2>8. Roots(temps)' = {}
    BY <2>3, <2>6 DEF Roots
  <2>9. \A j \in 1..(Depth(Main)' - 1) : temps'[Main][j] = {}
    <3>1. \A j \in 1..((d + 1) - 1) : j \in 1..(d + 1)
      BY <2>2
    <3>2. Depth(Main)' = d + 1 /\ temps'[Main] = q /\ \A j \in 1..(d + 1) : q[j] = {}
      BY <2>3, <2>4, <2>6
    <3> HIDE DEF Depth
    <3> QED
      BY <3>1, <3>2
  <2> QED
    BY <1>k, <2>1, <2>7, <2>8, <2>9
<1>10. ASSUME NEW r \in Visible(Main), Return(Main, r) PROVE SInv'
  <2> DEFINE e == d - 1
             f == SubSeq(frames[Main], 1, e)
             h == SubSeq(temps[Main], 1, e - 1)
             q == Append(h, temps[Main][e] \cup {r})
  <2>1. /\ ~exited /\ pc[Main] = "run" /\ UNCHANGED <<pool, pc, exited, statics, kids>>
        /\ frames' = [frames EXCEPT ![Main] = f] /\ temps' = [temps EXCEPT ![Main] = q]
        /\ e > 0
    BY <1>10 DEF Return, Running, graph
  <2>2. /\ e \in Nat \ {0} /\ frames[Main] \in Seq(SUBSET Obj) /\ temps[Main] \in Seq(SUBSET Obj)
        /\ Len(frames[Main]) = e + 1 /\ Len(temps[Main]) = e + 1 /\ r \in Live
        /\ \A j \in 1..e : temps[Main][j] = {}
    BY <1>r, <1>l, <1>v, <2>1
  <2>3. frames'[Main] = f /\ temps'[Main] = q
    BY <1>r, <2>1
  <2> HIDE DEF d, e
  <2>4. Len(f) = e /\ DOMAIN f = 1..e /\ \A j \in 1..e : f[j] = frames[Main][j]
    BY <2>2
  <2>5. h \in Seq(SUBSET Obj) /\ Len(h) = e - 1 /\ \A j \in 1..(e - 1) : h[j] = temps[Main][j]
    <3>1. e - 1 \in 0..Len(temps[Main])
      BY <2>2
    <3> QED
      BY <2>2, <3>1
  <2>6. \A j \in 1..(e - 1) : h[j] = {}
    BY <2>2, <2>5
  <2> HIDE DEF f, h
  <2>7. /\ DOMAIN q = 1..e
        /\ \A j \in 1..e : q[j] = IF j = e THEN {r} ELSE {}
    <3>1. temps[Main][e] \cup {r} = {r}
      BY <2>2
    <3>2. r \in Obj /\ {r} \in SUBSET Obj
      BY <1>l, <2>2
    <3>3. q = Append(h, {r})
      BY <3>1
    <3>4. /\ DOMAIN Append(h, {r}) = 1..(e - 1 + 1)
          /\ \A j \in 1..(e - 1 + 1) : Append(h, {r})[j] = IF j = e - 1 + 1 THEN {r} ELSE h[j]
      BY <2>5, <3>2
    <3>5. e - 1 + 1 = e /\ \A j \in 1..e : j # e => j \in 1..(e - 1)
      BY <2>2
    <3> HIDE DEF q
    <3> QED
      BY <2>6, <3>3, <3>4, <3>5
  <2>8. Roots(frames)' \subseteq Live
    <3>1. \A j \in 1..e : frames[Main][j] \subseteq Live
      BY <1>l, <2>2 DEF Roots
    <3> QED
      BY <2>3, <2>4, <3>1 DEF Roots
  <2> HIDE DEF q
  <2>9. Roots(temps)' \subseteq Live
    BY <2>2, <2>3, <2>7 DEF Roots
  <2>10. \A j \in 1..(Depth(Main)' - 1) : temps'[Main][j] = {}
    BY <2>2, <2>3, <2>4, <2>7
  <2> QED
    BY <1>k, <2>1, <2>8, <2>9, <2>10
<1>11. ASSUME NEW x, Throw(Main, x) PROVE SInv'
  <2>1. /\ ~exited /\ pc[Main] = "run" /\ UNCHANGED <<pool, pc, exited, statics, kids>>
        /\ frames' = frames /\ temps' = temps
    BY <1>11 DEF Throw, Running, graph, stack
  <2> QED
    BY <1>k, <1>l, <2>1 DEF Roots
<1>12. ASSUME Statement(Main) PROVE SInv'
  <2>1. /\ ~exited /\ pc[Main] = "run" /\ UNCHANGED <<pool, exited, statics, kids, frames>>
        /\ SetTemps(Main, {}) /\ pc'[Main] \in {"run", "wait"}
    BY <1>r, <1>12 DEF Statement, Running, graph
  <2>2. /\ Roots(temps)' \subseteq Live /\ \A i \in 1..d : temps'[Main][i] = {}
    BY <1>l, <1>s, <2>1
  <2>3. Roots(frames)' \subseteq Live /\ Depth(Main)' = d
    BY <1>f, <2>1
  <2>4. Tracked' = Tracked /\ Fresh' = Fresh /\ {} \in SUBSET (Tracked')
    BY <2>1 DEF pool
  <2>5. /\ \A o \in Live : kids'[o] \subseteq Live \cup {}
        /\ \A o \in Const : kids'[o] = {}
        /\ \A o \in Fresh' : kids'[o] = {}
        /\ \A o \in {} : kids'[o] = {}
    BY <1>l, <1>v, <2>1, <2>4 DEF Closed
  <2>6. Tracked \subseteq Tracked' /\ UNCHANGED exited /\ statics' = {}
        /\ Roots(frames)' \cup Roots(temps)' \subseteq Live \cup {}
    BY <1>r, <2>1, <2>2, <2>3, <2>4
  <2>7. /\ \A i \in 1..Depth(Main)' : temps'[Main][i] = {}
        /\ \A i \in 1..(Depth(Main)' - 1) : temps'[Main][i] = {}
    BY <1>v, <2>1, <2>2, <2>3
  <2> HIDE DEF Tracked, Fresh, d
  <2> QED
    BY <2>1, <2>4, <2>5, <2>6, <2>7, SMutate
<1>13. ASSUME NEW x \in Temps(Main), NEW old, Assign(Main, x, Main, d, old) \/ Assign(Main, x, Main, 1, old)
       PROVE  SInv'
  <2>1. ~exited => d \in 1..d /\ 1 \in 1..d
    BY <1>v
  <2> HIDE DEF d
  <2> QED
    BY <1>3, <1>13, <1>r, <2>1
<1>14. \A o, v : ~NewReference(Main, o, v) /\ ~DeclareStatic(Main, o)
  BY <1>r DEF NewReference, DeclareStatic
<1> QED
  BY <1>1, <1>2, <1>4, <1>5, <1>6, <1>7, <1>8, <1>9, <1>10, <1>11, <1>12, <1>13, <1>14, <1>15 DEF Mutator

\* Once every frame is marked, everything live is.
LEMMA AllMarked ==
  ASSUME TypeOK, TempsInv, pc[Main] # "run",
         \A i \in 1..Depth(Main) : Reach(frames[Main][i], kids) \subseteq mark
  PROVE  Live \subseteq mark
<1>1. /\ kids \in [Obj -> SUBSET Obj] /\ frames[Main] \in Seq(SUBSET Obj)
      /\ temps[Main] \in Seq(SUBSET Obj) /\ Len(temps[Main]) = Depth(Main)
  BY ThreadAssumption DEF TypeOK
<1> DEFINE S == UNION {Reach(frames[Main][i], kids) : i \in 1..Depth(Main)}
<1>2. \A i \in 1..Depth(Main) : frames[Main][i] \in SUBSET Obj
  BY <1>1
<1>3. \A i \in 1..Depth(Main) : /\ frames[Main][i] \subseteq Reach(frames[Main][i], kids)
                                /\ Reach(frames[Main][i], kids) \subseteq Obj
                                /\ Closed(Reach(frames[Main][i], kids), kids)
  BY <1>1, <1>2, ReachRoots, ReachClosed
<1>4. S \in SUBSET Obj /\ Closed(S, kids)
  BY <1>3 DEF Closed
<1>5. Roots(frames) \subseteq S
  BY <1>1, <1>3 DEF Roots
<1>6. Roots(temps) = {}
  BY <1>1 DEF Roots, TempsInv
<1>7. Live \subseteq S
  BY <1>4, <1>5, <1>6, LiveLeast
<1> QED
  BY <1>7

\* Every step of gc_collect preserves it.
LEMMA SCollectorStep ==
  ASSUME Sequential, GInv, GInv', SInv, Collector(Main) PROVE SInv'
<1>r. /\ TypeOK /\ PoolInv /\ Main \in Threads
      /\ kids \in [Obj -> SUBSET Obj] /\ pc \in [Threads -> {"run", "wait", "mark", "lag", "heap", "dtor"}]
      /\ Refs = {} /\ statics = {} /\ Live \subseteq Tracked /\ Live \in SUBSET Obj
      /\ next \in Nat \ {0} /\ frames[Main] \in Seq(SUBSET Obj)
  BY ThreadAssumption, LiveFacts DEF GInv, TypeOK, SInv, LeafInv, LiveInv, Sequential
<1>d. /\ pc[Main] = "lag" => todo \subseteq lag
      /\ pc[Main] = "heap" => todo \subseteq heap
      /\ heap \cap lag = {} /\ heap \cap constants = {} /\ lag \cap constants = {}
  BY <1>r DEF PoolInv, TodoInv, ListsInv
\* The steps that leave the graph, the stacks and the tracked objects alone.
<1>k. ASSUME UNCHANGED <<kids, frames, temps, statics, exited>>, Tracked' = Tracked,
             pc'[Main] = "run" \/ pc[Main] # "run", MarkInv'
      PROVE  SInv'
  <2>1. Live' = Live
    BY <1>k DEF Live, Roots
  <2>2. LiveInv'
    BY <1>k, <1>r, <2>1 DEF LiveInv
  <2>3. Depth(Main)' = Depth(Main) /\ Fresh' = Fresh
    BY <1>k
  <2> HIDE DEF Tracked, Fresh, Depth
  <2>4. LeafInv' /\ TempsInv' /\ ExitInv'
    BY <1>k, <2>3 DEF SInv, LeafInv, TempsInv, ExitInv
  <2> QED
    BY <1>k, <2>2, <2>4 DEF SInv
<1>1. ASSUME Acquire(Main) PROVE SInv'
  <2>1. /\ UNCHANGED <<kids, frames, temps, statics, exited, pool>> /\ pc[Main] = "wait"
        /\ pc'[Main] = "mark" /\ next' = 1
    BY <1>r, <1>1 DEF Acquire, graph, stack
  <2>2. MarkInv'
    BY <2>1 DEF MarkInv
  <2> QED
    BY <1>k, <2>1, <2>2 DEF pool
<1>2. ASSUME MarkFrame(Main) PROVE SInv'
  <2>1. /\ UNCHANGED <<kids, frames, temps, statics, exited, pool, pc>> /\ pc[Main] = "mark"
        /\ next' = next + 1 /\ mark' = GcMark(frames[Main][next])
    BY <1>2 DEF MarkFrame, graph, stack
  <2>2. mark' = mark \cup Reach(frames[Main][next], kids)
    BY <1>r, <2>1, MarkIsReach
  <2>3. \A i \in 1..Depth(Main) : i < next + 1 => i < next \/ i = next
    BY <1>r
  <2>4. MarkInv'
    BY <2>1, <2>2, <2>3 DEF MarkInv, SInv
  <2> QED
    BY <1>k, <2>1, <2>4 DEF pool
<1>3. ASSUME EndMark(Main) PROVE SInv'
  <2>1. /\ UNCHANGED <<kids, frames, temps, statics, exited, pool, mark>> /\ pc[Main] = "mark"
        /\ pc'[Main] \in {"lag", "heap"} /\ next > Depth(Main)
    BY <1>r, <1>3 DEF EndMark, graph, stack, marks
  <2>2. \A i \in 1..Depth(Main) : i < next
    BY <1>r, <2>1
  <2>3. Live \subseteq mark
    BY <1>r, <2>1, <2>2, AllMarked DEF SInv, MarkInv
  <2>4. Live' = Live
    BY <2>1 DEF Live, Roots
  <2>5. MarkInv'
    BY <2>1, <2>3, <2>4 DEF MarkInv
  <2> QED
    BY <1>k, <2>1, <2>5 DEF pool
<1>4. ASSUME LagDone(Main) PROVE SInv'
  <2>1. /\ UNCHANGED <<kids, frames, temps, statics, exited, pool, mark>> /\ pc[Main] = "lag"
        /\ pc'[Main] = "heap" /\ todo' = heap
    BY <1>r, <1>4 DEF LagDone, graph, stack, marks
  <2>2. Live' = Live
    BY <2>1 DEF Live, Roots
  <2>3. MarkInv'
    BY <2>1, <2>2 DEF MarkInv, SInv
  <2> QED
    BY <1>k, <2>1, <2>3 DEF pool
<1>5. ASSUME HeapDone(Main) PROVE SInv'
  <2>1. /\ UNCHANGED <<kids, frames, temps, statics, exited, pool>> /\ pc'[Main] = "run"
    BY <1>r, <1>5 DEF HeapDone, graph, stack
  <2>2. MarkInv'
    BY <2>1 DEF MarkInv
  <2> QED
    BY <1>k, <2>1, <2>2 DEF pool
<1>6. ASSUME NEW o \in Obj, SweepConstant(Main, o) PROVE SInv'
  <2>1. /\ UNCHANGED <<kids, frames, temps, statics, exited, mark, pc>>
        /\ pc[Main] \in {"lag", "heap"} /\ o \in todo /\ todo' = todo \ {o}
        /\ heap' = heap \ {o} /\ lag' = lag \ {o} /\ constants' = constants \cup {o}
    BY <1>6 DEF SweepConstant, graph, stack, marks
  <2>2. Live' = Live
    BY <2>1 DEF Live, Roots
  <2>3. MarkInv'
    BY <2>1, <2>2 DEF MarkInv, SInv
  <2>4. Tracked' = Tracked
    BY <1>d, <2>1
  <2> QED
    BY <1>k, <2>1, <2>3, <2>4
<1>7. ASSUME NEW o \in Obj, SweepAlive(Main, o) PROVE SInv'
  <2>1. /\ UNCHANGED <<kids, frames, temps, statics, exited, constants, pc>>
        /\ pc[Main] \in {"lag", "heap"} /\ o \in todo /\ todo' = todo \ {o} /\ mark' = mark \ {o}
        /\ \/ heap' = heap /\ lag' = lag
           \/ pc[Main] = "heap" /\ heap' = heap \ {o} /\ lag' = lag \cup {o}
    BY <1>7 DEF SweepAlive, graph, stack
  <2>2. Live' = Live
    BY <2>1 DEF Live, Roots
  <2>3. MarkInv'
    BY <1>d, <2>1, <2>2 DEF MarkInv, SInv
  <2>4. Tracked' = Tracked
    BY <1>d, <2>1
  <2> QED
    BY <1>k, <2>1, <2>3, <2>4
<1>8. ASSUME NEW o \in Obj, SweepDead(Main, o) PROVE SInv'
  <2>1. /\ UNCHANGED <<frames, temps, statics, exited, constants, mark, pc>>
        /\ pc[Main] \in {"lag", "heap"} /\ o \in todo /\ todo' = todo \ {o}
        /\ o \notin Const /\ o \notin mark
        /\ heap' = heap \ {o} /\ lag' = lag \ {o} /\ kids' = [kids EXCEPT ![o] = {}]
    BY <1>8 DEF SweepDead, stack, marks
  <2>2. o \notin Live
    BY <2>1 DEF SInv, MarkInv
  <2>3. Tracked' = Tracked \ {o}
    BY <1>d, <2>1
  <2>4. \A x \in Obj : kids'[x] = IF x = o THEN {} ELSE kids[x]
    BY <1>r, <2>1
  <2>5. Live' \subseteq Live
    <3>1. Roots(frames) \cup Roots(temps) \subseteq Live /\ Closed(Live, kids)
      BY <1>r, LiveFacts
    <3>2. Closed(Live, kids')
      BY <1>r, <2>4, <3>1 DEF Closed
    <3>3. Live' = Reach(Roots(frames) \cup Roots(temps), kids')
      BY <2>1 DEF Live, Roots
    <3> QED
      BY <1>r, <3>1, <3>2, <3>3, ReachLeast
  <2>6. LiveInv'
    BY <1>r, <2>2, <2>3, <2>5 DEF LiveInv
  <2>7. LeafInv'
    BY <2>1, <2>3, <2>4, ObjAssumption DEF SInv, LeafInv
  <2>8. TempsInv'
    BY <2>1 DEF SInv, TempsInv
  <2>9. MarkInv' /\ ExitInv'
    BY <2>1, <2>5 DEF SInv, MarkInv, ExitInv
  <2> QED
    BY <2>6, <2>7, <2>8, <2>9 DEF SInv
<1>9. ASSUME NEW o \in Obj, SweepDestructor(Main, o) PROVE SInv'
  <2>1. /\ UNCHANGED <<kids, frames, temps, statics, exited, heap, lag, constants>>
        /\ pc[Main] # "run" /\ pc'[Main] = "dtor"
    BY <1>r, <1>9 DEF SweepDestructor, graph, stack
  <2>2. MarkInv'
    BY <2>1 DEF MarkInv
  <2> QED
    BY <1>k, <2>1, <2>2
<1> QED
  BY <1>1, <1>2, <1>3, <1>4, <1>5, <1>6, <1>7, <1>8, <1>9 DEF Collector

\* vm_release preserves it.
LEMMA SReleaseStep ==
  ASSUME Sequential, GInv, GInv', SInv, Release(Main) PROVE SInv'
<1>1. /\ frames'[Main] = <<>> /\ temps'[Main] = <<>> /\ kids' = kids /\ statics' = statics
      /\ pc'[Main] = "run" /\ exited'
  BY ThreadAssumption DEF Release, graph
<1>2. Live' = {}
  <2>1. Roots(frames)' = {} /\ Roots(temps)' = {}
    BY <1>1 DEF Roots
  <2> QED
    BY <2>1, ReachNone DEF Live
<1> QED
  BY <1>1, <1>2 DEF SInv, LiveInv, LeafInv, TempsInv, MarkInv, ExitInv

\* Every step preserves it.
LEMMA SStep ==
  ASSUME Sequential, GInv, SInv, [Next]_vars PROVE SInv'
<1>1. GInv'
  BY GStep
<1>2. ASSUME UNCHANGED vars PROVE SInv'
  BY <1>2 DEF vars, pool, marks, graph, stack, cycle, SInv, LiveInv, LeafInv, TempsInv, MarkInv,
     ExitInv, Live, Roots
<1>3. CASE Terminated
  BY <1>2, <1>3 DEF Terminated
<1> QED
  BY <1>1, <1>2, <1>3, SMutatorStep, SCollectorStep, SReleaseStep DEF Next, Sequential

\* It is an invariant of every sequential program.
LEMMA SInvariant ==
  ASSUME Sequential PROVE Spec => [](GInv /\ SInv)
<1>1. Init => GInv /\ SInv
  BY GInit, SInit
<1>2. GInv /\ SInv /\ [Next]_vars => (GInv /\ SInv)'
  BY GStep, SStep
<1> QED
  BY <1>1, <1>2, PTL DEF Spec

\* No value that an expression of a sequential program still holds is deleted
\* by a collection one of its callees starts.
THEOREM SequentialTempsKept ==
  ASSUME Sequential PROVE Spec => []TempsKept
<1>1. GInv /\ SInv => TempsKept
  <2> SUFFICES ASSUME GInv, SInv, NEW t \in Threads, NEW i \in DOMAIN temps[t]
               PROVE  temps[t][i] \subseteq Tracked
    BY DEF TempsKept
  <2>1. t = Main
    BY DEF Sequential
  <2>2. temps[t][i] \subseteq Roots(temps)
    BY <2>1 DEF Roots
  <2> QED
    BY <2>2, LiveFacts DEF GInv, SInv, LiveInv
<1> QED
  BY <1>1, SInvariant, PTL

-----------------------------------------------------------------------------
(* A sweep of the heap leaves neither garbage nor marks.                   *)

\* With one thread nothing is marked while the heap is swept, so that what is
\* marked is still to be visited.
ResetInv == pc[Main] = "heap" => mark \cap heap \subseteq todo

LEMMA ResetStep ==
  ASSUME Threads = {Main}, GInv, ResetInv, [Next]_vars PROVE ResetInv'
<1>1. pc \in [Threads -> {"run", "wait", "mark", "lag", "heap", "dtor"}] /\ Main \in Threads
  BY ThreadAssumption DEF GInv, TypeOK
<1>2. CASE Mutator(Main)
  <2>1. pc'[Main] # "heap"
    BY <1>1, <1>2 DEF Mutator, Running, New, NewReference, Literal, PushTmp, RemoveTmp, Assign, Link,
       Replace, Subscript, Pop, Call, Return, Throw, DeclareStatic, Statement
  <2> QED
    BY <2>1 DEF ResetInv
<1>3. CASE Collector(Main)
  <2>1. ASSUME Acquire(Main) \/ MarkFrame(Main) \/ HeapDone(Main) \/ (\E o \in Obj : SweepDestructor(Main, o))
        PROVE  ResetInv'
    BY <1>1, <2>1 DEF Acquire, MarkFrame, HeapDone, SweepDestructor, ResetInv
  <2>2. CASE EndMark(Main) \/ LagDone(Main)
    BY <1>1, <2>2 DEF EndMark, LagDone, ResetInv, pool
  <2>3. ASSUME NEW o \in Obj, SweepConstant(Main, o) PROVE ResetInv'
    BY <2>3 DEF SweepConstant, ResetInv, marks
  <2>4. ASSUME NEW o \in Obj, SweepAlive(Main, o) PROVE ResetInv'
    <3>1. heap' \subseteq heap
      BY <2>4 DEF SweepAlive
    <3> QED
      BY <2>4, <3>1 DEF SweepAlive, ResetInv
  <2>5. ASSUME NEW o \in Obj, SweepDead(Main, o) PROVE ResetInv'
    BY <2>5 DEF SweepDead, ResetInv, marks
  <2> QED
    BY <1>3, <2>1, <2>2, <2>3, <2>4, <2>5 DEF Collector
<1>4. CASE Release(Main)
  BY <1>4 DEF Release, ResetInv
<1>5. CASE Terminated \/ UNCHANGED vars
  BY <1>5 DEF Terminated, vars, pool, marks, cycle, ResetInv
<1> QED
  BY <1>2, <1>3, <1>4, <1>5 DEF Next

\* In a program of one thread no mark outlives the sweep of the heap, which
\* would make gc_collect spare an object that is garbage by then.
THEOREM OneThreadMarksReset ==
  ASSUME Threads = {Main} PROVE Spec => []MarksReset
<1>1. Init => ResetInv
  BY ThreadAssumption DEF Init, ResetInv
<1>2. GInv /\ ResetInv /\ [Next]_vars => ResetInv'
  BY ResetStep
<1>3. ResetInv => MarksReset
  BY DEF ResetInv, MarksReset
<1> QED
  BY <1>1, <1>2, <1>3, GInvariant, PTL DEF Spec

\* Deleting an object that is not rooted leaves what is rooted as it was.
LEMMA RootedKept ==
  ASSUME NEW R \in SUBSET Obj, NEW E \in [Obj -> SUBSET Obj], NEW o \in Obj, o \notin Reach(R, E)
  PROVE  Reach(R, [E EXCEPT ![o] = {}]) = Reach(R, E)
<1> DEFINE G == [E EXCEPT ![o] = {}]
<1>1. G \in [Obj -> SUBSET Obj] /\ \A x \in Obj : G[x] = IF x = o THEN {} ELSE E[x]
  OBVIOUS
<1> HIDE DEF G
<1>2. R \subseteq Reach(R, E) /\ Reach(R, E) \in SUBSET Obj /\ Closed(Reach(R, E), E)
  BY ReachRoots, ReachClosed
<1>3. Closed(Reach(R, E), G)
  BY <1>1, <1>2 DEF Closed
<1>4. Reach(R, G) \subseteq Reach(R, E)
  BY <1>2, <1>3, ReachLeast
<1>5. R \subseteq Reach(R, G) /\ Reach(R, G) \in SUBSET Obj /\ Closed(Reach(R, G), G)
  BY <1>1, ReachRoots, ReachClosed
<1>6. Closed(Reach(R, G), E)
  BY <1>1, <1>4, <1>5 DEF Closed
<1>7. Reach(R, E) \subseteq Reach(R, G)
  BY <1>5, <1>6, ReachLeast
<1> QED
  BY <1>4, <1>7 DEF G

\* What of the heap is marked, or was left in it by the sweep, is reachable
\* from the frames or was marked before.
Earned == Reach(Roots(frames), kids) \cup spared

ExactInv ==
  /\ pc[Main] \in {"mark", "lag", "heap"} => mark \cap heap \subseteq Earned
  /\ pc[Main] = "heap" => heap \ todo \subseteq Earned

LEMMA ExactStep ==
  ASSUME Sequential, GInv, SInv, ExactInv, [Next]_vars PROVE ExactInv'
<1>1. /\ pc \in [Threads -> {"run", "wait", "mark", "lag", "heap", "dtor"}] /\ Main \in Threads
      /\ kids \in [Obj -> SUBSET Obj] /\ frames[Main] \in Seq(SUBSET Obj) /\ TypeOK /\ Refs = {}
      /\ next \in Nat \ {0}
  BY ThreadAssumption DEF GInv, TypeOK, Sequential
<1>2. Roots(frames) \in SUBSET Obj
  BY <1>1 DEF Roots
<1>3. ASSUME UNCHANGED <<frames, kids, spared>> PROVE Earned' = Earned
  BY <1>3 DEF Earned, Roots
<1>4. CASE Mutator(Main)
  <2>1. pc'[Main] \notin {"mark", "lag", "heap"}
    BY <1>1, <1>4, ZenonT(40) DEF Mutator, Running, New, NewReference, Literal, PushTmp, RemoveTmp, Assign, Link,
       Replace, Subscript, Pop, Call, Return, Throw, DeclareStatic, Statement
  <2> QED
    BY <2>1 DEF ExactInv
<1>5. CASE Collector(Main)
  <2>1. CASE Acquire(Main)
    <3>1. mark' \cap heap' = spared' /\ pc'[Main] = "mark"
      BY <1>1, <2>1 DEF Acquire, pool
    <3> QED
      BY <3>1 DEF ExactInv, Earned
  <2>2. CASE MarkFrame(Main)
    <3>1. /\ pc' = pc /\ pc[Main] = "mark" /\ heap' = heap /\ UNCHANGED <<frames, kids, spared>>
          /\ next \in 1..Depth(Main) /\ mark' = mark \cup Reach(frames[Main][next], kids)
      BY <1>1, <2>2, MarkIsReach DEF MarkFrame, pool, graph, stack
    <3>2. Reach(frames[Main][next], kids) \subseteq Reach(Roots(frames), kids)
      <4>1. frames[Main][next] \in SUBSET Obj /\ frames[Main][next] \subseteq Roots(frames)
        BY <1>1, <3>1 DEF Roots
      <4> QED
        BY <1>1, <1>2, <4>1, ReachMono
    <3>3. Earned' = Earned
      BY <1>3, <3>1
    <3> QED
      BY <3>1, <3>2, <3>3 DEF ExactInv, Earned
  <2>3. CASE EndMark(Main)
    <3>1. /\ UNCHANGED <<heap, mark, frames, kids, spared>> /\ pc[Main] = "mark"
          /\ pc'[Main] = "heap" => todo' = heap
      BY <1>1, <2>3 DEF EndMark, pool, marks, graph, stack
    <3> QED
      BY <1>3, <3>1 DEF ExactInv
  <2>4. CASE LagDone(Main)
    <3>1. UNCHANGED <<heap, mark, frames, kids, spared>> /\ pc[Main] = "lag" /\ todo' = heap
      BY <2>4 DEF LagDone, pool, marks, graph, stack
    <3> QED
      BY <1>3, <3>1 DEF ExactInv
  <2>5. CASE HeapDone(Main) \/ (\E o \in Obj : SweepDestructor(Main, o))
    BY <1>1, <2>5 DEF HeapDone, SweepDestructor, ExactInv
  <2>6. ASSUME NEW o \in Obj, SweepConstant(Main, o) PROVE ExactInv'
    <3>1. /\ UNCHANGED <<mark, frames, kids, spared, pc>>
          /\ heap' = heap \ {o} /\ todo' = todo \ {o}
      BY <2>6 DEF SweepConstant, marks, graph, stack
    <3> QED
      BY <1>3, <3>1 DEF ExactInv
  <2>7. ASSUME NEW o \in Obj, SweepAlive(Main, o) PROVE ExactInv'
    <3>1. /\ UNCHANGED <<frames, kids, spared, pc>> /\ pc[Main] \in {"lag", "heap"}
          /\ o \in mark /\ mark' = mark \ {o} /\ todo' = todo \ {o} /\ heap' \subseteq heap
      BY <2>7 DEF SweepAlive, graph, stack
    <3> QED
      BY <1>3, <3>1 DEF ExactInv
  <2>8. ASSUME NEW o \in Obj, SweepDead(Main, o) PROVE ExactInv'
    <3>1. /\ UNCHANGED <<mark, frames, spared, pc>> /\ pc[Main] \in {"lag", "heap"}
          /\ heap' = heap \ {o} /\ todo' = todo \ {o} /\ kids' = [kids EXCEPT ![o] = {}]
          /\ o \in todo \ (Const \cup mark)
      BY <2>8 DEF SweepDead, marks, stack
    <3>2. todo \subseteq heap \cup lag /\ (pc[Main] = "lag" => todo \subseteq lag) /\ (pc[Main] = "heap" => todo \subseteq heap)
      BY <1>1, <3>1 DEF GInv, PoolInv, TodoInv
    <3>3. o \notin Live
      BY <3>1, <3>2 DEF SInv, MarkInv
    <3>4. Reach(Roots(frames), kids) \subseteq Live
      BY <1>1, <1>2, LiveFacts, ReachLeast
    <3>5. Reach(Roots(frames), kids') = Reach(Roots(frames), kids)
      BY <1>1, <1>2, <3>1, <3>3, <3>4, RootedKept
    <3>6. Earned' = Earned
      BY <3>1, <3>5 DEF Earned, Roots
    <3> QED
      BY <3>1, <3>6 DEF ExactInv
  <2> QED
    BY <1>5, <2>1, <2>2, <2>3, <2>4, <2>5, <2>6, <2>7, <2>8 DEF Collector
<1>6. CASE Release(Main)
  BY <1>6 DEF Release, ExactInv
<1>7. CASE Terminated \/ UNCHANGED vars
  <2>1. UNCHANGED <<frames, kids, spared, pc, mark, heap, todo>>
    BY <1>7 DEF Terminated, vars, pool, marks, graph, stack, cycle
  <2> QED
    BY <1>3, <2>1 DEF ExactInv
<1> QED
  BY <1>4, <1>5, <1>6, <1>7 DEF Next, Sequential

\* In a sequential program a sweep of the heap leaves only what the frames
\* reach, or what was marked before the collection began: no garbage survives.
THEOREM SequentialExact ==
  ASSUME Sequential PROVE Spec => []HeapExact
<1>1. Init => ExactInv
  BY ThreadAssumption DEF Init, ExactInv
<1>2. GInv /\ SInv /\ ExactInv /\ [Next]_vars => ExactInv'
  BY ExactStep
<1>3. ExactInv => HeapExact
  <2> SUFFICES ASSUME ExactInv, NEW t \in Threads, pc[t] = "heap", todo = {}
               PROVE  heap \subseteq Reach(ScopeOf(t), kids) \cup spared
    BY DEF HeapExact
  <2>1. t = Main /\ ScopeOf(t) = Roots(frames)
    BY DEF Sequential, ScopeOf, Roots
  <2> QED
    BY <2>1 DEF ExactInv, Earned
<1> QED
  BY <1>1, <1>2, <1>3, SInvariant, PTL DEF Spec

-----------------------------------------------------------------------------
(* The collector of a sequential program implements ObjectPool.            *)

RootedInv ==
  /\ Rooted = Reach(Roots(frames), kids) /\ Roots(frames) \in SUBSET Obj
  /\ Rooted \subseteq Live /\ Rooted \subseteq Tracked

\* What a program state roots is live.
LEMMA RootedFacts ==
  ASSUME Sequential PROVE GInv /\ SInv => RootedInv
<1> SUFFICES ASSUME GInv, SInv PROVE RootedInv
  OBVIOUS
<1>1. UNION {ScopeOf(t) : t \in Threads} = Roots(frames)
  BY DEF Sequential, ScopeOf, Roots
<1>2. Roots(frames) \cup Roots(temps) \subseteq Live /\ Live \in SUBSET Obj /\ Closed(Live, kids)
  BY LiveFacts DEF GInv
<1>3. Rooted \subseteq Live
  BY <1>1, <1>2, ReachLeast DEF Rooted
<1> QED
  BY <1>1, <1>2, <1>3 DEF Rooted, SInv, LiveInv, RootedInv

\* In a sequential program no object that a frame reaches is ever deleted.
THEOREM SequentialSafe ==
  ASSUME Sequential PROVE Spec => []NoDangling
<1>1. GInv /\ SInv => NoDangling
  BY RootedFacts DEF RootedInv, NoDangling
<1> QED
  BY <1>1, SInvariant, PTL

\* A step of the collector is a step of ObjectPool or keeps what it reads.
LEMMA PromiseStep ==
  ASSUME Sequential, GInv, SInv, RootedInv, RootedInv', [Next]_vars
  PROVE  [Promise!Next]_(Promise!vars)
<1> DEFINE A == [Promise!Next]_(Promise!vars)
<1>r. /\ Rooted \subseteq Tracked /\ (Rooted \subseteq Tracked)'
      /\ Rooted = Reach(Roots(frames), kids) /\ (Rooted = Reach(Roots(frames), kids))'
      /\ kids \in [Obj -> SUBSET Obj] /\ Roots(frames) \in SUBSET Obj
  BY DEF RootedInv, GInv, TypeOK
<1>1. ASSUME UNCHANGED <<exited, Tracked, Rooted>> PROVE A
  BY <1>1 DEF Promise!vars
<1>2. ASSUME ~exited, ~exited', Tracked' = Tracked PROVE A
  <2>1. Rooted' \in SUBSET Tracked
    BY <1>r, <1>2
  <2> QED
    BY <1>2, <2>1 DEF Promise!Next, Promise!Mutate
<1>3. ASSUME UNCHANGED <<frames, kids>> PROVE Rooted' = Rooted
  BY <1>3, <1>r DEF Roots
<1>4. CASE Mutator(Main)
  <2>1. ASSUME NEW o \in Fresh, New(Main, o) PROVE A
    <3>1. /\ ~exited /\ exited' = exited /\ Tracked' = Tracked \cup {o} /\ o \in Obj \ Tracked
          /\ UNCHANGED <<frames, kids>>
      BY <2>1 DEF New, Running, GcTrack, graph
    <3>2. Rooted' = Rooted
      BY <1>3, <3>1
    <3> HIDE DEF Tracked
    <3> QED
      BY <3>1, <3>2 DEF Promise!Next, Promise!Allocate
  <2>2. ASSUME NEW o, NEW v, NewReference(Main, o, v) PROVE FALSE
    BY <2>2 DEF NewReference, Sequential
  <2>3. ASSUME ~exited, UNCHANGED <<pool, exited>> PROVE A
    BY <1>2, <2>3 DEF pool
  <2>4. \/ ~exited /\ UNCHANGED <<pool, exited>>
        \/ \E o \in Fresh : New(Main, o) \/ \E v \in Visible(Main) : NewReference(Main, o, v)
    BY <1>4, ZenonT(40) DEF Mutator, Literal, PushTmp, RemoveTmp, Assign, Link, Replace, Subscript, Pop, Call, Return, Throw,
       DeclareStatic, Statement, Running
  <2> QED
    BY <2>1, <2>2, <2>3, <2>4
<1>5. CASE Collector(Main)
  <2>d. /\ pc[Main] = "lag" => todo \subseteq lag
        /\ pc[Main] = "heap" => todo \subseteq heap
        /\ heap \cap lag = {} /\ heap \cap constants = {} /\ lag \cap constants = {}
    BY ThreadAssumption DEF GInv, PoolInv, TodoInv, ListsInv
  <2>1. ASSUME NEW o \in Obj, SweepDead(Main, o) PROVE A
    <3>1. /\ UNCHANGED <<exited, frames>> /\ pc[Main] \in {"lag", "heap"}
          /\ o \in todo /\ o \notin Const \cup mark
          /\ Tracked' = Tracked \ {o} /\ kids' = [kids EXCEPT ![o] = {}]
      BY <2>1, <2>d DEF SweepDead, stack
    <3>2. o \notin Live /\ o \in Tracked /\ ~exited
      <4>1. pc[Main] # "run" => ~exited
        BY DEF SInv, ExitInv
      <4> QED
        BY <2>d, <3>1, <4>1 DEF SInv, MarkInv
    <3>3. o \notin Rooted
      BY <3>2 DEF RootedInv
    <3>4. Rooted' = Rooted
      <4>1. Roots(frames)' = Roots(frames)
        BY <3>1 DEF Roots
      <4> QED
        BY <1>r, <3>1, <3>3, <4>1, RootedKept
    <3> HIDE DEF Tracked
    <3> QED
      BY <3>1, <3>2, <3>3, <3>4 DEF Promise!Next, Promise!Reclaim
  <2>2. ASSUME NEW o \in Obj, SweepConstant(Main, o) \/ SweepAlive(Main, o) \/ SweepDestructor(Main, o) PROVE A
    <3>1. UNCHANGED <<exited, frames, kids>>
      BY <2>2 DEF SweepConstant, SweepAlive, SweepDestructor, graph, stack
    <3>2. Tracked' = Tracked
      BY <2>2, <2>d DEF SweepConstant, SweepAlive, SweepDestructor
    <3> QED
      BY <1>1, <1>3, <3>1, <3>2
  <2>3. ASSUME Acquire(Main) \/ MarkFrame(Main) \/ EndMark(Main) \/ LagDone(Main) \/ HeapDone(Main) PROVE A
    <3>1. UNCHANGED <<exited, frames, kids, pool>>
      BY <2>3 DEF Acquire, MarkFrame, EndMark, LagDone, HeapDone, graph, stack
    <3> QED
      BY <1>1, <1>3, <3>1 DEF pool
  <2> QED
    BY <1>5, <2>1, <2>2, <2>3 DEF Collector
<1>6. CASE Release(Main)
  <2>1. ~exited /\ exited' = TRUE /\ Tracked' = {}
    BY <1>6 DEF Release
  <2>2. Rooted' = {}
    BY <1>r, <2>1
  <2> QED
    BY <2>1, <2>2 DEF Promise!Next, Promise!Release
<1>7. CASE UNCHANGED vars
  <2>1. UNCHANGED <<exited, frames, kids, pool>>
    BY <1>7 DEF vars, graph, stack
  <2> QED
    BY <1>1, <1>3, <2>1 DEF pool
<1>8. CASE Terminated
  BY <1>7, <1>8 DEF Terminated
<1> QED
  BY <1>4, <1>5, <1>6, <1>7, <1>8 DEF Next, Sequential

\* The three lists, the marks and the sweeps implement the abstract pool: it
\* shrinks only by an object that is neither rooted nor a literal, until it is
\* released, and the program only ever reaches objects of the pool.
THEOREM SequentialImplements ==
  ASSUME Sequential PROVE Spec => KeepsPromise
<1>1. Init => Promise!Init
  <2> SUFFICES ASSUME Init PROVE Promise!Init
    OBVIOUS
  <2>1. UNION {ScopeOf(t) : t \in Threads} = {}
    BY DEF Init, ScopeOf
  <2>2. Rooted = {}
    BY <2>1, ReachNone DEF Rooted
  <2> QED
    BY <2>2 DEF Init, Promise!Init
<1>2. GInv /\ SInv => RootedInv
  BY RootedFacts
<1>3. GInv /\ SInv /\ RootedInv /\ RootedInv' /\ [Next]_vars => [Promise!Next]_(Promise!vars)
  BY PromiseStep
<1> QED
  BY <1>1, <1>2, <1>3, SInvariant, PTL DEF Spec, KeepsPromise, Promise!Spec

=============================================================================
