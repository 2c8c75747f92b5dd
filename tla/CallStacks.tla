----------------------------- MODULE CallStacks -----------------------------
(***************************************************************************)
(* What the virtual machine promises the threads of a script: a thread     *)
(* starts with the frame of its arguments, owns a stack of calls no other  *)
(* thread touches, and loses it when it ends or when the machine closes.   *)
(***************************************************************************)
EXTENDS Naturals, Sequences

CONSTANTS Threads, Main, MaxFrames

VARIABLES
  running, \* threads that may use their stack
  stack,   \* frames of each running thread, oldest first
  open     \* FALSE once the machine is released

vars == <<running, stack, open>>

Init ==
  /\ running = {Main} /\ open = TRUE
  /\ stack = [t \in Threads |-> IF t = Main THEN <<"main">> ELSE <<>>]

Start(t) ==
  /\ open /\ t \notin running
  /\ running' = running \cup {t}
  /\ stack' = [stack EXCEPT ![t] = <<"args">>]
  /\ UNCHANGED open

Call(t) ==
  /\ open /\ t \in running /\ Len(stack[t]) < MaxFrames
  /\ stack' = [stack EXCEPT ![t] = Append(stack[t], "call")]
  /\ UNCHANGED <<running, open>>

Return(t) ==
  /\ open /\ t \in running /\ Len(stack[t]) > 1
  /\ stack' = [stack EXCEPT ![t] = SubSeq(stack[t], 1, Len(stack[t]) - 1)]
  /\ UNCHANGED <<running, open>>

End(t) ==
  /\ open /\ t \in running \ {Main}
  /\ running' = running \ {t}
  /\ stack' = [stack EXCEPT ![t] = <<>>]
  /\ UNCHANGED open

Close ==
  /\ open /\ open' = FALSE
  /\ running' = {} /\ stack' = [t \in Threads |-> <<>>]

Next == Close \/ \E t \in Threads : Start(t) \/ Call(t) \/ Return(t) \/ End(t)

Spec == Init /\ [][Next]_vars

=============================================================================
