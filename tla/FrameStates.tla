----------------------------- MODULE FrameStates -----------------------------
(***************************************************************************)
(* How the interpreter leaves constructs early.  Each memory frame has a   *)
(* mask of four flags; vm_exec looks at three of them before it executes a *)
(* node, and the handlers of loops, try blocks and calls set, copy and     *)
(* clear them.  Two notions of "the frame" meet: the one vm_exec is given, *)
(* and the newest one in the scope of the thread, where the machine sets   *)
(* the exceptions it raises itself.                                        *)
(*                                                                         *)
(* The program is any program: at each point the script chooses what comes *)
(* next.  The recursion of vm_exec is the sequence ctl.                    *)
(***************************************************************************)
EXTENDS Naturals, Sequences

CONSTANTS
  MaxNest,   \* bound: constructs that are open at a time
  MaxFrames, \* bound: frames in the scope
  Habits     \* irregular things the script does, of AllHabits

AllHabits ==
  {"jumpOutside", \* break or next where there is no loop
   "afterBreak",  \* a statement after a break, on the same path
   "returnCalls", \* inside a try block, a return whose expression may fail
   "failsInArgs", \* an operator that fails while arguments are evaluated
   "nativeFails"} \* a failing method of a builtin type

ASSUME BoundAssumption == MaxNest \in Nat \ {0} /\ MaxFrames \in Nat \ {0}
ASSUME HabitAssumption == Habits \subseteq AllHabits

VARIABLES
  scope,   \* flags of each frame in the scope, oldest first
  ctl,     \* the handlers that are running: their kind, and the frame given to them
  uncaught \* history: an exception was thrown, and neither caught nor reported

vars == <<scope, ctl, uncaught>>

Flags == {"Break", "Next", "Return", "Exception"}

Loops  == {"while", "each"}
Calls  == {"call", "overload", "builtin", "native"}
\* Handlers that execute a list of statements, and those that evaluate an expression.
Bodies == {"main", "block", "while", "each", "try", "catch", "finally", "call", "overload"}
Exprs  == {"throw", "return", "whiletest", "eachtest", "args"}
Kinds  == Bodies \cup Exprs \cup Calls

-----------------------------------------------------------------------------
Init ==
  /\ scope = <<{}>>
  /\ ctl = <<[kind |-> "main", frame |-> 1]>>
  /\ uncaught = FALSE

Running == ctl # <<>>
Kind    == ctl[Len(ctl)].kind
Frame   == IF Running THEN ctl[Len(ctl)].frame ELSE 1
State   == scope[Frame]
Newest  == Len(scope)

\* vm_exec executes the node it is given.
Executes == State \cap {"Exception", "Return", "Next"} = {}

\* The same, for a script that has nothing after a break.
Goes == Running /\ Executes /\ ("Break" \in State => "afterBreak" \in Habits)

Inside(kinds) == \E i \in DOMAIN ctl : ctl[i].kind \in kinds /\ ctl[i].frame = Frame

Open(k) ==
  /\ Len(ctl) < MaxNest
  /\ ctl' = Append(ctl, [kind |-> k, frame |-> Frame])
Become(k) == ctl' = [ctl EXCEPT ![Len(ctl)].kind = k]
Closed    == SubSeq(ctl, 1, Len(ctl) - 1)
Caller    == ctl[Len(ctl) - 1].frame
SetState(S) == scope' = [scope EXCEPT ![Frame] = S]

\* An expression that may call and fail is evaluated here.
Evaluates ==
  /\ Goes /\ Kind \in Bodies \cup Exprs
  /\ Kind = "return" /\ Inside({"try"}) => "returnCalls" \in Habits

-----------------------------------------------------------------------------
(* Statements.                                                             *)

\* if, unless, switch and nested lists: their flags are those of their parts.
Block ==
  /\ Goes /\ Kind \in Bodies
  /\ Open("block")
  /\ UNCHANGED <<scope, uncaught>>

BlockEnds ==
  /\ Running /\ Kind = "block"
  /\ ctl' = Closed
  /\ UNCHANGED <<scope, uncaught>>

Jump(flag) ==
  /\ Goes /\ Kind \in Bodies
  /\ Inside(Loops) \/ "jumpOutside" \in Habits
  /\ SetState(State \cup {flag})
  /\ UNCHANGED <<ctl, uncaught>>

Throw ==
  /\ Goes /\ Kind \in Bodies
  /\ Open("throw")
  /\ UNCHANGED <<scope, uncaught>>

\* vm_exec_throw, once the value of its expression is known.
Thrown ==
  /\ Running /\ Kind = "throw"
  /\ SetState(State \cup {"Exception"})
  /\ ctl' = Closed /\ uncaught' = TRUE

Return ==
  /\ Goes /\ Kind \in Bodies
  /\ Open("return")
  /\ UNCHANGED <<scope, uncaught>>

\* Mutant of Returned: the handler forgets the loops and conditions around it.
ReturnedBreakOnly ==
  /\ Running /\ Kind = "return"
  /\ SetState(State \cup {"Break"})
  /\ ctl' = Closed /\ UNCHANGED uncaught

Returned ==
  /\ Running /\ Kind = "return"
  /\ SetState(State \cup {"Break", "Return"})
  /\ ctl' = Closed /\ UNCHANGED uncaught

-----------------------------------------------------------------------------
(* Loops.  while, do and for evaluate their test around each turn, foreach *)
(* its collection once; the first turn of do is one whose test holds.      *)

Loop(k) ==
  /\ Goes /\ Kind \in Bodies
  /\ Open(IF k = "while" THEN "whiletest" ELSE "eachtest")
  /\ UNCHANGED <<scope, uncaught>>

\* With an exception pending the body is skipped and the loop left: Over.
Iterate ==
  /\ Goes /\ Kind \in {"whiletest", "eachtest"}
  /\ Become(IF Kind = "whiletest" THEN "while" ELSE "each")
  /\ UNCHANGED <<scope, uncaught>>

Over ==
  /\ Running /\ Kind \in {"whiletest", "eachtest"}
  /\ ctl' = Closed
  /\ UNCHANGED <<scope, uncaught>>

\* Mutant of WhileBodyEnds: the flag of a next statement stays.
WhileBodyKeepsNext ==
  /\ Running /\ Kind = "while"
  /\ IF State \cap {"Exception", "Return"} # {}
     THEN ctl' = Closed /\ UNCHANGED scope
     ELSE /\ SetState(State \ {"Break"})
          /\ IF "Break" \in State THEN ctl' = Closed ELSE Become("whiletest")
  /\ UNCHANGED uncaught

WhileBodyEnds ==
  /\ Running /\ Kind = "while"
  /\ IF State \cap {"Exception", "Return"} # {}
     THEN ctl' = Closed /\ UNCHANGED scope
     ELSE /\ SetState(State \ {"Next", "Break"})
          /\ IF "Break" \in State THEN ctl' = Closed ELSE Become("whiletest")
  /\ UNCHANGED uncaught

\* Mutant of EachBodyEnds: a break leaves the loop with its flag set.
EachBodyKeepsBreak ==
  /\ Running /\ Kind = "each"
  /\ IF State \cap {"Exception", "Return", "Break"} # {}
     THEN ctl' = Closed /\ UNCHANGED scope
     ELSE SetState(State \ {"Next"}) /\ ctl' \in {ctl, Closed}
  /\ UNCHANGED uncaught

\* The next element, or the end.  A break leaves foreach before the flag of next is cleared.
EachBodyEnds ==
  /\ Running /\ Kind = "each"
  /\ IF State \cap {"Exception", "Return"} # {} THEN ctl' = Closed /\ UNCHANGED scope
     ELSE IF "Break" \in State THEN ctl' = Closed /\ SetState(State \ {"Break"})
     ELSE SetState(State \ {"Next"}) /\ ctl' \in {ctl, Closed}
  /\ UNCHANGED uncaught

-----------------------------------------------------------------------------
(* try, catch and finally, all in the frame of the statement.              *)

Try ==
  /\ Goes /\ Kind \in Bodies
  /\ Open("try")
  /\ UNCHANGED <<scope, uncaught>>

Catch ==
  /\ Running /\ Kind = "try" /\ "Exception" \in State
  /\ SetState(State \ {"Exception"}) /\ uncaught' = FALSE
  /\ Become("catch")

\* vm_exec runs the finally block only if no flag is left.
Finally ==
  /\ Goes /\ (Kind = "catch" \/ (Kind = "try" /\ "Exception" \notin State))
  /\ Become("finally")
  /\ UNCHANGED <<scope, uncaught>>

TryEnds ==
  /\ Running /\ (Kind \in {"catch", "finally"} \/ (Kind = "try" /\ "Exception" \notin State))
  /\ ctl' = Closed
  /\ UNCHANGED <<scope, uncaught>>

-----------------------------------------------------------------------------
(* Calls.                                                                  *)

\* vm_prepare_stack: the frame of the callee is in the scope before the
\* arguments are evaluated, in the frame of the caller.
Call ==
  /\ Evaluates /\ Newest < MaxFrames
  /\ Open("args")
  /\ scope' = Append(scope, {})
  /\ UNCHANGED uncaught

\* Arguments are evaluated: a failure in one of them dismisses the frame.
ArgsFail ==
  /\ Running /\ Kind = "args" /\ "Exception" \in State
  /\ ctl' = Closed /\ scope' = SubSeq(scope, 1, Newest - 1)
  /\ UNCHANGED uncaught

\* A function or method of the script, a function or a method of the machine.
Invoke(k) ==
  /\ Running /\ Kind = "args" /\ "Exception" \notin State
  /\ ctl' = [ctl EXCEPT ![Len(ctl)] = [kind |-> k, frame |-> Newest]]
  /\ UNCHANGED <<scope, uncaught>>

\* An overloaded operator, whose operands are known.
Overload ==
  /\ Evaluates /\ Newest < MaxFrames
  /\ Kind = "args" => "failsInArgs" \in Habits
  /\ Len(ctl) < MaxNest
  /\ scope' = Append(scope, {})
  /\ ctl' = Append(ctl, [kind |-> "overload", frame |-> Newest + 1])
  /\ UNCHANGED uncaught

\* Mutant of CallEnds: the exception of the callee is not handed to the caller.
CallEndsSilent ==
  /\ Running /\ Kind \in {"call", "builtin"}
  /\ scope' = SubSeq(scope, 1, Newest - 1)
  /\ ctl' = Closed /\ UNCHANGED uncaught

\* Mutant of CallEnds: the newest frame takes the exception, as for an operator.
CallEndsNewest ==
  /\ Running /\ Kind \in {"call", "builtin"}
  /\ LET rest == SubSeq(scope, 1, Newest - 1) IN
     scope' = IF "Exception" \in State
              THEN [rest EXCEPT ![Newest - 1] = @ \cup {"Exception"}] ELSE rest
  /\ ctl' = Closed /\ UNCHANGED uncaught

\* The callee's frame goes, its exception is set on the frame of the caller.
CallEnds ==
  /\ Running /\ Kind \in {"call", "builtin"}
  /\ LET rest == SubSeq(scope, 1, Newest - 1) IN
     scope' = IF "Exception" \in State
              THEN [rest EXCEPT ![Caller] = @ \cup {"Exception"}] ELSE rest
  /\ ctl' = Closed /\ UNCHANGED uncaught

\* An operator hands it to the newest frame instead.
OverloadEnds ==
  /\ Running /\ Kind = "overload"
  /\ LET rest == SubSeq(scope, 1, Newest - 1) IN
     scope' = IF "Exception" \in State
              THEN [rest EXCEPT ![Newest - 1] = @ \cup {"Exception"}] ELSE rest
  /\ ctl' = Closed /\ UNCHANGED uncaught

\* A method of a builtin type, and a function of a shared library: the state
\* of the frame is not looked at.
NativeEnds ==
  /\ Running /\ Kind = "native"
  /\ scope' = SubSeq(scope, 1, Newest - 1)
  /\ ctl' = Closed /\ UNCHANGED uncaught

\* vm_raise_exception, called by an operator or by a function of the machine:
\* the newest frame takes the exception.
Raise ==
  /\ Evaluates \/ (Goes /\ Kind \in {"builtin", "native"})
  /\ Kind = "args" => "failsInArgs" \in Habits
  /\ Kind = "native" => "nativeFails" \in Habits
  /\ scope' = [scope EXCEPT ![Newest] = @ \cup {"Exception"}]
  /\ uncaught' = TRUE /\ UNCHANGED ctl

\* The end of the program: vm_release reports the exception of the main frame.
Finish ==
  /\ Running /\ Kind = "main"
  /\ ctl' = <<>>
  /\ SetState(State \ {"Exception"})
  /\ uncaught' = (uncaught /\ "Exception" \notin State)

Terminated == ~Running /\ UNCHANGED vars

-----------------------------------------------------------------------------
Statement ==
  \/ Block \/ Throw \/ Return \/ Try
  \/ \E flag \in {"Break", "Next"} : Jump(flag)
  \/ \E k \in Loops : Loop(k)

Handler ==
  \/ BlockEnds \/ Thrown \/ Returned
  \/ Iterate \/ Over \/ WhileBodyEnds \/ EachBodyEnds
  \/ Catch \/ Finally \/ TryEnds

Function ==
  \/ Call \/ ArgsFail \/ Overload \/ Raise
  \/ CallEnds \/ OverloadEnds \/ NativeEnds
  \/ \E k \in {"call", "builtin", "native"} : Invoke(k)

Next == Statement \/ Handler \/ Function \/ Finish \/ Terminated

Spec == Init /\ [][Next]_vars

-----------------------------------------------------------------------------
(* Properties.                                                             *)

\* "Only the exception state is cloned up to higher frame until someone catches
\* it or the program ends": an exception that was thrown and not caught is on
\* a frame of the scope.
ExceptionHeld == uncaught => \E i \in DOMAIN scope : "Exception" \in scope[i]

\* Every handler that runs has its frame in the scope, and a frame whose
\* function waits for a call has no flag set, so that what the call brings back
\* is all there is.
SuspendedClean ==
  /\ \A i \in DOMAIN ctl : ctl[i].frame <= Len(scope)
  /\ \A i \in 1..Frame - 1 : scope[i] = {}

\* A flag of break or next is left on no frame outside of a loop: the handler of
\* the loop has reset it.  (return sets Break as well, on a frame that ends.)
LoopFlags ==
  Running /\ ~Inside(Loops) =>
    "Next" \notin State /\ ("Break" \in State => "Return" \in State)

Completion(S) ==
  IF "Exception" \in S THEN "exception"
  ELSE IF "Return" \in S THEN "return"
  ELSE IF "Next" \in S THEN "next"
  ELSE IF "Break" \in S THEN "break" ELSE "normal"

\* The masks of the frames, read in order of precedence, are the completions
\* of StructuredControl.
Control == INSTANCE StructuredControl WITH
  nest <- [i \in DOMAIN ctl |-> ctl[i].kind],
  comp <- IF Running THEN Completion(State) ELSE "normal"

ImplementsControl == Control!Spec

=============================================================================
