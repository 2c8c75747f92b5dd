-------------------------- MODULE StructuredControl --------------------------
(***************************************************************************)
(* What a script may rely on when it leaves a construct early: a statement *)
(* starts only when the one before it completed normally, and a construct  *)
(* absorbs the completions that are its own (a loop break and next, a try  *)
(* block an exception, a call a return) and hands on all others.           *)
(***************************************************************************)
EXTENDS Sequences, Naturals

CONSTANT MaxNest \* bound: constructs that are open at a time

VARIABLES
  nest, \* the constructs that are open, outermost first
  comp  \* how the last step of the innermost one completed

vars == <<nest, comp>>

Loops  == {"while", "each"}
Calls  == {"call", "overload", "builtin", "native"}
Bodies == {"main", "block", "while", "each", "try", "catch", "finally", "call", "overload"}
Opens  == {"block", "throw", "return", "whiletest", "eachtest", "try", "args", "overload"}

\* The innermost construct, and how it ends: its completion is handed on, or
\* another construct takes its place.
Innermost  == nest[Len(nest)]
HandOn(c)  == nest' = SubSeq(nest, 1, Len(nest) - 1) /\ comp' = c
Follow(k)  == nest' = [nest EXCEPT ![Len(nest)] = k] /\ comp' = "normal"

Init == nest = <<"main">> /\ comp = "normal"

Open(k) ==
  /\ nest # <<>> /\ comp = "normal" /\ Len(nest) < MaxNest
  /\ nest' = Append(nest, k) /\ UNCHANGED comp

\* An operation of the machine fails.
Fail ==
  /\ nest # <<>> /\ comp = "normal"
  /\ comp' = "exception" /\ UNCHANGED nest

\* break and next, inside a loop of the same call.
Jump(c) ==
  /\ comp = "normal"
  /\ \E i \in DOMAIN nest :
       /\ nest[i] \in Loops
       /\ \A j \in i..Len(nest) : nest[j] \in Bodies \ Calls
  /\ comp' = c /\ UNCHANGED nest

Plain == {"block", "finally", "catch", "whiletest", "eachtest"}

EndPlain ==
  \/ Innermost \in Plain /\ HandOn(comp)
  \/ Innermost = "main" /\ HandOn("normal")
  \/ Innermost = "throw" /\ HandOn("exception")
  \/ Innermost = "return" /\ HandOn(IF comp = "exception" THEN comp ELSE "return")

EndLoop ==
  \/ Innermost = "whiletest" /\ comp = "normal" /\ Follow("while")
  \/ Innermost = "eachtest" /\ comp = "normal" /\ Follow("each")
  \/ Innermost = "while" /\ comp \in {"normal", "next"} /\ Follow("whiletest")
  \/ Innermost = "each" /\ comp \in {"normal", "next"} /\ (Follow("each") \/ HandOn("normal"))
  \/ Innermost \in Loops /\ comp = "break" /\ HandOn("normal")
  \/ Innermost \in Loops /\ comp \in {"return", "exception"} /\ HandOn(comp)

EndTry ==
  \/ Innermost = "try" /\ comp = "exception" /\ Follow("catch")
  \/ Innermost = "try" /\ comp # "exception" /\ HandOn(comp)
  \/ Innermost \in {"try", "catch"} /\ comp = "normal" /\ Follow("finally")

EndCall ==
  \/ Innermost = "args" /\ comp # "normal" /\ HandOn(comp)
  \/ Innermost = "args" /\ comp = "normal" /\ \E k \in {"call", "builtin", "native"} : Follow(k)
  \/ Innermost \in Calls /\ HandOn(IF comp = "exception" THEN comp ELSE "normal")

Close == nest # <<>> /\ (EndPlain \/ EndLoop \/ EndTry \/ EndCall)

Next == (\E k \in Opens : Open(k)) \/ Fail \/ (\E c \in {"break", "next"} : Jump(c)) \/ Close

Spec == Init /\ [][Next]_vars

=============================================================================
