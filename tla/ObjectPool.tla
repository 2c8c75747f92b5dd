----------------------------- MODULE ObjectPool -----------------------------
(***************************************************************************)
(* What a garbage collected pool promises the program: a value it can      *)
(* still reach through its memory frames, and a literal of its text, stay  *)
(* in the pool until the pool itself is released at the end.  How garbage  *)
(* is found, and when, is left open.                                       *)
(***************************************************************************)
EXTENDS FiniteSets

CONSTANTS Obj, Const

VARIABLES
  pool,   \* objects allocated and not deleted
  rooted, \* objects the program can reach through its frames
  open    \* FALSE once the pool is released

vars == <<pool, rooted, open>>

Init == pool = Const /\ rooted = {} /\ open = TRUE

Allocate(o) ==
  /\ open /\ o \in Obj \ pool
  /\ pool' = pool \cup {o} /\ UNCHANGED <<rooted, open>>

\* The program runs: it reaches other objects, of the pool only.
Mutate ==
  /\ open /\ rooted' \in SUBSET pool
  /\ UNCHANGED <<pool, open>>

Reclaim(o) ==
  /\ open /\ o \in pool \ (rooted \cup Const)
  /\ pool' = pool \ {o} /\ UNCHANGED <<rooted, open>>

Release ==
  /\ open /\ open' = FALSE /\ pool' = {} /\ rooted' = {}

Next ==
  \/ \E o \in Obj : Allocate(o) \/ Reclaim(o)
  \/ Mutate \/ Release

Spec == Init /\ [][Next]_vars

=============================================================================
