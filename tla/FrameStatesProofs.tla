-------------------------- MODULE FrameStatesProofs --------------------------
(***************************************************************************)
(* Proofs about FrameStates, for any nesting and any number of frames, for *)
(* scripts with none of the irregular habits.                              *)
(*                                                                         *)
(* The invariant has two parts.  Fits says what the sequence of handlers   *)
(* can look like and how many frames the scope has for it; FlagsFit says   *)
(* that only the frame of the innermost handler has flags, and which.      *)
(* Both are operators of the state, so that the lemmas are about sequences *)
(* and no lemma but the last has a primed variable.                        *)
(***************************************************************************)
EXTENDS FrameStates, SequenceTheorems, TLAPS

Entry == [kind : Kinds, frame : Nat]
Plain == {"block", "while", "each", "try", "catch", "finally",
          "throw", "return", "whiletest", "eachtest"}
\* The handlers that come with a frame of their own.
Pushing == Calls \cup {"args"}

LastOf(c) == c[Len(c)]
Top(c)    == IF c # <<>> THEN LastOf(c).frame ELSE 1
Within(c, kinds) == \E i \in 1..Len(c) : c[i].kind \in kinds /\ c[i].frame = Top(c)

-----------------------------------------------------------------------------
(* The shape of the sequence of handlers.                                  *)

\* d[i] is the length of the scope while handler i is the innermost one.  A
\* handler runs in the newest frame, unless it evaluates arguments.
DepthsFit(c, n, d) ==
  /\ d \in [1..Len(c) -> Nat]
  /\ \A i \in 1..Len(c) :
       /\ 1 <= c[i].frame /\ c[i].frame <= d[i]
       /\ c[i].kind # "args" => c[i].frame = d[i]
  /\ \A i, j \in 1..Len(c) : i <= j => d[i] <= d[j]
  /\ \A i \in 2..Len(c) : d[i] = IF c[i].kind \in Pushing THEN d[i - 1] + 1 ELSE d[i - 1]
  /\ d[1] = 1 /\ d[Len(c)] = n

\* What may follow what.
LinksFit(c) ==
  \A i \in 2..Len(c) :
    /\ c[i - 1].kind \notin {"builtin", "native"}
    /\ c[i - 1].kind \in Exprs => c[i].kind \in Pushing
    /\ c[i].kind = "overload" => c[i - 1].kind # "args"
    /\ c[i].kind \notin Calls => c[i].frame = c[i - 1].frame

\* What may be inside of what.
NestFits(c) ==
  /\ \A i \in 1..Len(c) : c[i].kind = "main" <=> i = 1
  /\ \A i, j \in 1..Len(c) : i < j =>
       /\ c[i].frame <= c[j].frame
       /\ c[j].kind \in Calls => c[i].frame < c[j].frame
       /\ c[i].kind \in Exprs /\ c[i].frame = c[j].frame => c[j].kind = "args"
       /\ c[i].kind = "try" /\ c[j].kind = "return" /\ c[i].frame = c[j].frame => j = Len(c)

Fits(c, n) ==
  /\ c \in Seq(Entry) /\ n \in Nat \ {0}
  /\ c = <<>> => n = 1
  /\ c # <<>> => LinksFit(c) /\ NestFits(c) /\ \E d : DepthsFit(c, n, d)

\* Sequence e is c with a handler opened: one that stays in the frame, one that
\* evaluates arguments, or an overloaded operator.
Pushes(c, n, e) ==
  /\ e \in Seq(Entry) /\ Len(e) = Len(c) + 1
  /\ \A i \in 1..Len(c) : e[i] = c[i]
  /\ LastOf(c).kind \in Bodies \cup Exprs
  /\ LastOf(c).kind = "return" => ~Within(c, {"try"})
  /\ \/ /\ LastOf(e).kind \in Plain /\ LastOf(e).frame = Top(c)
        /\ LastOf(c).kind \in Bodies
     \/ LastOf(e).kind = "args" /\ LastOf(e).frame = Top(c)
     \/ /\ LastOf(e).kind = "overload" /\ LastOf(e).frame = n + 1
        /\ LastOf(c).kind # "args"

\* It is c with the kind of the last handler changed, or with a function in the
\* place of the handler that has evaluated its arguments.
Replaces(c, n, e) ==
  /\ e \in Seq(Entry) /\ Len(e) = Len(c)
  /\ \A i \in 1..Len(c) - 1 : e[i] = c[i]
  /\ \/ /\ LastOf(c).kind = "args" /\ LastOf(e).kind \in {"call", "builtin", "native"}
        /\ LastOf(e).frame = n
     \/ /\ LastOf(c).kind \in Plain /\ LastOf(e).kind \in Plain \ {"return"}
        /\ LastOf(e).frame = Top(c)

\* It is c without the last handler.
Pops(c, e) ==
  /\ e \in Seq(Entry) /\ Len(e) = Len(c) - 1
  /\ \A i \in 1..Len(c) - 1 : e[i] = c[i]

\* The handler in which the next one would be opened.
LEMMA TopFits ==
  ASSUME NEW n, NEW c, Fits(c, n), c # <<>>
  PROVE  /\ Len(c) \in Nat \ {0} /\ Len(c) \in 1..Len(c) /\ n \in Nat \ {0}
         /\ c \in Seq(Entry) /\ LinksFit(c) /\ NestFits(c)
         /\ LastOf(c) = c[Len(c)] /\ LastOf(c) \in Entry /\ LastOf(c).kind \in Kinds
         /\ Top(c) = LastOf(c).frame
         /\ Top(c) \in 1..n
         /\ LastOf(c).kind # "args" => Top(c) = n
         /\ \A i \in 1..Len(c) : c[i].frame \in 1..n /\ c[i].kind \in Kinds
<1>1. c \in Seq(Entry) /\ n \in Nat \ {0} /\ Len(c) \in Nat \ {0}
  BY EmptySeq DEF Fits
<1>2. \A i \in 1..Len(c) : c[i] \in Entry
  BY <1>1, ElementOfSeq
<1>3. \A i \in 1..Len(c) : c[i].frame \in Nat /\ c[i].kind \in Kinds
  BY <1>2 DEF Entry
<1>4. PICK d : DepthsFit(c, n, d)
  BY DEF Fits
<1>5. Len(c) \in 1..Len(c)
  BY <1>1
<1>6. \A i \in 1..Len(c) : c[i].frame \in 1..n
  BY <1>1, <1>3, <1>4, <1>5 DEF DepthsFit
<1>7. LastOf(c).kind # "args" => Top(c) = n
  BY <1>4, <1>5 DEF DepthsFit, LastOf, Top
<1>8. LinksFit(c) /\ NestFits(c)
  BY DEF Fits
<1>9. LastOf(c) = c[Len(c)] /\ Top(c) = LastOf(c).frame
  BY DEF LastOf, Top
<1> QED
  BY <1>1, <1>2, <1>3, <1>5, <1>6, <1>7, <1>8, <1>9

LEMMA PushFits ==
  ASSUME NEW n, NEW c, Fits(c, n), c # <<>>, NEW e, Pushes(c, n, e)
  PROVE  Fits(e, IF LastOf(e).kind \in Pushing THEN n + 1 ELSE n) /\ e # <<>>
<1> DEFINE k == LastOf(e).kind
           f == LastOf(e).frame
           m == IF k \in Pushing THEN n + 1 ELSE n
<1>0. /\ e \in Seq(Entry) /\ Len(e) = Len(c) + 1
      /\ \A i \in 1..Len(c) : e[i] = c[i]
      /\ LastOf(c).kind \in Bodies \cup Exprs
      /\ LastOf(c).kind = "return" => ~Within(c, {"try"})
      /\ LastOf(e) = e[Len(c) + 1]
      /\ \/ k \in Plain /\ f = Top(c) /\ m = n /\ LastOf(c).kind \in Bodies
         \/ k = "args" /\ f = Top(c) /\ m = n + 1
         \/ k = "overload" /\ f = n + 1 /\ m = n + 1 /\ LastOf(c).kind # "args"
  BY DEF Pushes, LastOf, Pushing, Plain, Calls
<1> DEFINE l == Len(c)
<1> USE <1>0
<1> HIDE DEF k, f, m
<1>1. /\ c \in Seq(Entry) /\ l \in Nat \ {0} /\ n \in Nat \ {0}
      /\ Top(c) \in 1..n /\ Top(c) = c[l].frame
      /\ LinksFit(c) /\ NestFits(c)
      /\ \A i \in 1..l : c[i].frame \in 1..n
      /\ LastOf(c) = c[l]
  BY TopFits DEF Fits, LastOf
<1>2. k \in Kinds /\ k # "main" /\ f \in Nat /\ m \in Nat \ {0}
  BY <1>1 DEF Plain, Kinds, Bodies, Exprs, Calls
<1>3. /\ e \in Seq(Entry) /\ e # <<>>
      /\ Len(e) = l + 1
      /\ \A i \in 1..l : e[i] = c[i]
  BY <1>1, EmptySeq
<1>4. e[l + 1].kind = k /\ e[l + 1].frame = f
  BY DEF k, f
<1>5. LinksFit(e)
  <2>1. ASSUME NEW i \in 2..l + 1
        PROVE  /\ e[i - 1].kind \notin {"builtin", "native"}
               /\ e[i - 1].kind \in Exprs => e[i].kind \in Pushing
               /\ e[i].kind = "overload" => e[i - 1].kind # "args"
               /\ e[i].kind \notin Calls => e[i].frame = e[i - 1].frame
    <3>1. CASE i \in 2..l
      <4>1. e[i] = c[i] /\ e[i - 1] = c[i - 1]
        BY <1>1, <1>3, <3>1
      <4> QED
        BY <1>1, <3>1, <4>1 DEF LinksFit
    <3>2. CASE i = l + 1
      <4>1. e[i - 1] = c[l] /\ e[i].kind = k /\ e[i].frame = f
        BY <1>1, <1>3, <1>4, <3>2
      <4>2. c[l].kind \in Bodies \cup Exprs
        BY <1>1
      <4> QED
        BY <1>1, <4>1, <4>2 DEF Plain, Bodies, Exprs, Calls, Pushing
    <3> QED
      BY <1>1, <3>1, <3>2
  <2> QED
    BY <1>3, <2>1 DEF LinksFit
<1>6. NestFits(e)
  <2>1. \A i \in 1..l + 1 : e[i].kind = "main" <=> i = 1
    BY <1>1, <1>2, <1>3, <1>4 DEF NestFits
  <2>2. ASSUME NEW i \in 1..l + 1, NEW j \in 1..l + 1, i < j
        PROVE  /\ e[i].frame <= e[j].frame
               /\ e[j].kind \in Calls => e[i].frame < e[j].frame
               /\ e[i].kind \in Exprs /\ e[i].frame = e[j].frame => e[j].kind = "args"
               /\ e[i].kind = "try" /\ e[j].kind = "return" /\ e[i].frame = e[j].frame => j = l + 1
    <3>1. i \in 1..l /\ e[i] = c[i]
      BY <1>1, <1>3, <2>2
    <3>2. CASE j \in 1..l
      <4>1. e[j] = c[j]
        BY <1>3, <3>2
      <4>2. c[i].kind = "try" /\ c[j].kind = "return" /\ c[i].frame = c[j].frame => FALSE
        <5>1. SUFFICES ASSUME c[i].kind = "try", c[j].kind = "return", c[i].frame = c[j].frame
                       PROVE  FALSE
          OBVIOUS
        <5>2. j = l
          BY <1>1, <2>2, <3>1, <3>2, <5>1 DEF NestFits
        <5> QED
          BY <1>1, <3>1, <5>1, <5>2 DEF Within
      <4>3. /\ c[i].frame <= c[j].frame
            /\ c[j].kind \in Calls => c[i].frame < c[j].frame
            /\ c[i].kind \in Exprs /\ c[i].frame = c[j].frame => c[j].kind = "args"
        BY <1>1, <2>2, <3>1, <3>2 DEF NestFits
      <4> QED
        BY <3>1, <4>1, <4>2, <4>3
    <3>3. CASE j = l + 1
      <4>1. e[j].kind = k /\ e[j].frame = f
        BY <1>4, <3>3
      <4>2. c[i].frame \in 1..n /\ c[i].frame <= c[l].frame
        <5>1. CASE i = l
          BY <1>1, <3>1, <5>1
        <5>2. CASE i < l
          BY <1>1, <3>1, <5>2 DEF NestFits
        <5> QED
          BY <1>1, <3>1, <5>1, <5>2
      <4>3. k \in Plain /\ c[i].kind \in Exprs => c[i].frame # c[l].frame
        <5>1. SUFFICES ASSUME k \in Plain, c[i].kind \in Exprs, c[i].frame = c[l].frame
                       PROVE  FALSE
          OBVIOUS
        <5>2. c[l].kind \in Bodies /\ "args" \notin Bodies /\ Bodies \cap Exprs = {}
          BY <1>1, <5>1 DEF Plain, Bodies, Exprs
        <5>3. i # l
          BY <5>1, <5>2
        <5> QED
          BY <1>1, <3>1, <5>1, <5>2, <5>3 DEF NestFits
      <4>4. k \in Plain => k \notin Calls
        BY DEF Plain, Calls
      <4> QED
        BY <1>1, <3>1, <3>3, <4>1, <4>2, <4>3, <4>4 DEF Calls
    <3> QED
      BY <1>1, <3>2, <3>3
  <2> QED
    BY <1>3, <2>1, <2>2 DEF NestFits
<1>7. \E d : DepthsFit(e, m, d)
  <2>1. PICK d : DepthsFit(c, n, d)
    BY DEF Fits
  <2> DEFINE x == [i \in 1..l + 1 |-> IF i = l + 1 THEN m ELSE d[i]]
  <2>2. m = IF k \in Pushing THEN n + 1 ELSE n
    BY DEF Plain, Calls, Pushing
  <2>3. d \in [1..l -> Nat] /\ d[1] = 1 /\ d[l] = n
    BY <2>1 DEF DepthsFit
  <2>4. x \in [1..l + 1 -> Nat] /\ x[1] = 1 /\ x[l + 1] = m /\ \A i \in 1..l : x[i] = d[i]
    BY <1>1, <1>2, <2>3
  <2> HIDE DEF x
  <2>5. ASSUME NEW i \in 1..l + 1
        PROVE  /\ 1 <= e[i].frame /\ e[i].frame <= x[i]
               /\ e[i].kind # "args" => e[i].frame = x[i]
    <3>1. CASE i \in 1..l
      BY <1>3, <2>1, <2>4, <3>1 DEF DepthsFit
    <3>2. CASE i = l + 1
      <4>1. k # "args" => f = m
        BY <1>1, TopFits DEF Bodies
      <4>2. 1 <= f /\ f <= m
        BY <1>1, <2>2
      <4> QED
        BY <1>4, <2>4, <3>2, <4>1, <4>2
    <3> QED
      BY <1>1, <3>1, <3>2
  <2>6. ASSUME NEW i \in 1..l + 1, NEW j \in 1..l + 1, i <= j
        PROVE  x[i] <= x[j]
    <3>1. CASE j \in 1..l
      <4>1. i \in 1..l
        BY <1>1, <2>6, <3>1
      <4> QED
        BY <2>1, <2>4, <2>6, <3>1, <4>1 DEF DepthsFit
    <3>2. CASE j = l + 1 /\ i \in 1..l
      <4>1. x[i] <= n /\ x[i] \in Nat
        <5>1. l \in 1..l /\ i <= l /\ i \in 1..l
          BY <1>1, <3>2
        <5>2. d[i] <= d[l]
          BY <2>1, <5>1 DEF DepthsFit
        <5> QED
          BY <2>3, <2>4, <5>1, <5>2
      <4> QED
        BY <1>1, <2>2, <2>4, <3>2, <4>1
    <3>3. CASE j = l + 1 /\ i = l + 1
      BY <1>2, <2>4, <3>3
    <3> QED
      BY <1>1, <3>1, <3>2, <3>3
  <2>7. ASSUME NEW i \in 2..l + 1
        PROVE  x[i] = IF e[i].kind \in Pushing THEN x[i - 1] + 1 ELSE x[i - 1]
    <3>1. CASE i \in 2..l
      <4>1. i - 1 \in 1..l /\ i \in 1..l
        BY <1>1, <3>1
      <4> QED
        BY <1>3, <2>1, <2>4, <3>1, <4>1 DEF DepthsFit
    <3>2. CASE i = l + 1
      <4>1. i - 1 = l /\ l \in 1..l
        BY <1>1, <3>2
      <4> QED
        BY <1>4, <2>2, <2>3, <2>4, <3>2, <4>1
    <3> QED
      BY <1>1, <3>1, <3>2
  <2>8. DepthsFit(e, m, x)
    BY <1>3, <2>4, <2>5, <2>6, <2>7 DEF DepthsFit
  <2> QED
    BY <2>8
<1> QED
  BY <1>2, <1>3, <1>5, <1>6, <1>7 DEF Fits, m, k

LEMMA ReplaceFits ==
  ASSUME NEW n, NEW c, Fits(c, n), c # <<>>, NEW e, Replaces(c, n, e)
  PROVE  Fits(e, n) /\ e # <<>>
<1> DEFINE k == LastOf(e).kind
           f == LastOf(e).frame
           l == Len(c)
<1>a. /\ e \in Seq(Entry) /\ Len(e) = l
      /\ \A i \in 1..l - 1 : e[i] = c[i]
      /\ LastOf(e) = e[l]
      /\ \/ LastOf(c).kind = "args" /\ k \in {"call", "builtin", "native"} /\ f = n
         \/ LastOf(c).kind \in Plain /\ k \in Plain \ {"return"} /\ f = Top(c)
  BY DEF Replaces, LastOf
<1> USE <1>a
<1> HIDE DEF k, f
<1>1. /\ c \in Seq(Entry) /\ l \in Nat \ {0} /\ n \in Nat \ {0} /\ l \in 1..l
      /\ Top(c) \in 1..n /\ Top(c) = c[l].frame
      /\ LinksFit(c) /\ NestFits(c)
      /\ \A i \in 1..l : c[i].frame \in 1..n
      /\ LastOf(c) = c[l]
      /\ c[l].kind # "args" => Top(c) = n
  BY TopFits
<1>0. l \in Nat \ {0} /\ l \in 1..l
  BY <1>1
<1>2. k \in Kinds /\ k # "main" /\ k # "args" /\ k # "overload" /\ f \in Nat /\ c[l].kind # "main"
  BY <1>1 DEF Plain, Kinds, Bodies, Exprs, Calls
<1>3. /\ e \in Seq(Entry)
      /\ Len(e) = l
      /\ \A i \in 1..l - 1 : e[i] = c[i]
  OBVIOUS
<1>4. e[l].kind = k /\ e[l].frame = f /\ e # <<>>
  <2>1. e[l].kind = k /\ e[l].frame = f
    BY DEF k, f
  <2> HIDE DEF l
  <2>2. e # <<>>
    BY <1>0, <1>3, EmptySeq
  <2> QED
    BY <2>1, <2>2
<1>5. l > 1
  BY <1>1, <1>2 DEF NestFits
<1>6. PICK d : DepthsFit(c, n, d)
  BY <1>1 DEF Fits
<1>7. /\ d \in [1..l -> Nat] /\ d[l] = n
      /\ c[l].kind = "args" => d[l - 1] = n - 1
  <2>1. d \in [1..l -> Nat] /\ d[l] = n /\ l \in 2..l
    BY <1>1, <1>5, <1>6 DEF DepthsFit
  <2>2. c[l].kind = "args" => d[l] = d[l - 1] + 1
    BY <1>6, <2>1 DEF DepthsFit, Pushing
  <2>3. l - 1 \in 1..l
    BY <1>1, <1>5
  <2>4. d[l - 1] \in Nat
    BY <2>1, <2>3
  <2> QED
    BY <2>1, <2>2, <2>4
<1>8. LinksFit(e)
  <2>1. ASSUME NEW i \in 2..l
        PROVE  /\ e[i - 1].kind \notin {"builtin", "native"}
               /\ e[i - 1].kind \in Exprs => e[i].kind \in Pushing
               /\ e[i].kind = "overload" => e[i - 1].kind # "args"
               /\ e[i].kind \notin Calls => e[i].frame = e[i - 1].frame
    <3>1. e[i - 1] = c[i - 1] /\ (i # l => e[i] = c[i])
      <4>1. i - 1 \in 1..l - 1 /\ (i # l => i \in 1..l - 1)
        BY <1>0
      <4> QED
        BY <1>3, <4>1
    <3>2. /\ c[i - 1].kind \notin {"builtin", "native"}
          /\ c[i - 1].kind \in Exprs => c[i].kind \in Pushing
          /\ c[i].kind = "overload" => c[i - 1].kind # "args"
          /\ c[i].kind \notin Calls => c[i].frame = c[i - 1].frame
      BY <1>1 DEF LinksFit
    <3>3. CASE i = l
      BY <1>1, <1>2, <1>4, <3>1, <3>2, <3>3 DEF Plain, Calls, Pushing
    <3> QED
      BY <3>1, <3>2, <3>3
  <2> QED
    BY <1>3, <2>1 DEF LinksFit
<1>9. NestFits(e)
  <2>1. \A i \in 1..l : e[i].kind = "main" <=> i = 1
    <3>1. \A i \in 1..l : i # l => e[i] = c[i]
      <4>1. \A i \in 1..l : i # l => i \in 1..l - 1
        BY <1>0
      <4> QED
        BY <1>3, <4>1
    <3>2. \A i \in 1..l : c[i].kind = "main" <=> i = 1
      BY <1>1 DEF NestFits
    <3> QED
      BY <1>2, <1>4, <1>5, <3>1, <3>2
  <2>2. ASSUME NEW i \in 1..l, NEW j \in 1..l, i < j
        PROVE  /\ e[i].frame <= e[j].frame
               /\ e[j].kind \in Calls => e[i].frame < e[j].frame
               /\ e[i].kind \in Exprs /\ e[i].frame = e[j].frame => e[j].kind = "args"
               /\ e[i].kind = "try" /\ e[j].kind = "return" /\ e[i].frame = e[j].frame => j = l
    <3>1. e[i] = c[i] /\ (j # l => e[j] = c[j])
      <4>1. i \in 1..l - 1 /\ (j # l => j \in 1..l - 1)
        BY <1>0, <2>2
      <4> QED
        BY <1>3, <4>1
    <3>2. /\ c[i].frame <= c[j].frame
          /\ c[j].kind \in Calls => c[i].frame < c[j].frame
          /\ c[i].kind \in Exprs /\ c[i].frame = c[j].frame => c[j].kind = "args"
          /\ c[i].kind = "try" /\ c[j].kind = "return" /\ c[i].frame = c[j].frame => j = l
      BY <1>1, <2>2 DEF NestFits
    <3>3. CASE j = l /\ c[l].kind = "args"
      <4>1. d[i] <= d[l - 1] /\ c[i].frame <= d[i] /\ d[i] \in Nat /\ c[i].frame \in Nat
        <5>1. i \in 1..l /\ l - 1 \in 1..l /\ i <= l - 1
          BY <1>1, <1>5, <2>2, <3>3
        <5>2. d[i] <= d[l - 1] /\ c[i].frame <= d[i]
          BY <1>6, <5>1 DEF DepthsFit
        <5>3. d[i] \in Nat /\ c[i].frame \in Nat
          BY <1>1, <1>7, <5>1
        <5> QED
          BY <5>2, <5>3
      <4>2. c[i].frame < n
        BY <1>1, <1>7, <3>3, <4>1
      <4>3. f = n /\ k # "return"
        BY <1>1, <3>3 DEF Plain
      <4> QED
        BY <1>1, <1>4, <3>1, <3>3, <4>1, <4>2, <4>3
    <3>4. CASE j = l /\ c[l].kind # "args"
      <4>1. f = c[l].frame /\ k \notin Calls /\ k # "return"
        BY <1>1, <3>4 DEF Plain, Calls
      <4> QED
        BY <1>4, <3>1, <3>2, <3>4, <4>1
    <3> QED
      BY <3>1, <3>2, <3>3, <3>4
  <2>3. Len(e) = l
    BY <1>3
  <2> HIDE DEF l
  <2> QED
    BY <2>1, <2>2, <2>3 DEF NestFits
<1>10. DepthsFit(e, n, d)
  <2>1. ASSUME NEW i \in 1..l
        PROVE  /\ 1 <= e[i].frame /\ e[i].frame <= d[i]
               /\ e[i].kind # "args" => e[i].frame = d[i]
    <3>1. CASE i = l
      <4>1. f = n
        BY <1>1 DEF Plain
      <4> QED
        BY <1>1, <1>4, <1>7, <3>1, <4>1
    <3>2. CASE i # l
      <4>1. e[i] = c[i]
        <5>1. i \in 1..l - 1
          BY <1>0, <3>2
        <5> QED
          BY <1>3, <5>1
      <4> QED
        BY <1>6, <4>1 DEF DepthsFit
    <3> QED
      BY <3>1, <3>2
  <2>2. ASSUME NEW i \in 2..l
        PROVE  d[i] = IF e[i].kind \in Pushing THEN d[i - 1] + 1 ELSE d[i - 1]
    <3>1. d[i] = IF c[i].kind \in Pushing THEN d[i - 1] + 1 ELSE d[i - 1]
      BY <1>6 DEF DepthsFit
    <3>2. CASE i = l
      BY <1>1, <1>4, <3>1, <3>2 DEF Plain, Pushing, Calls
    <3>3. CASE i # l
      <4>1. e[i] = c[i]
        <5>1. i \in 1..l - 1
          BY <1>0, <3>3
        <5> QED
          BY <1>3, <5>1
      <4> QED
        BY <3>1, <4>1
    <3> QED
      BY <3>2, <3>3
  <2> QED
    BY <1>3, <1>6, <2>1, <2>2 DEF DepthsFit
<1> QED
  BY <1>1, <1>3, <1>4, <1>8, <1>9, <1>10 DEF Fits

\* What is left of the sequence when a handler ends.
LEMMA ClosedElements ==
  ASSUME NEW c \in Seq(Entry), c # <<>>
  PROVE  Pops(c, SubSeq(c, 1, Len(c) - 1))
<1>1. Len(c) \in Nat \ {0} /\ \A i \in 1..Len(c) - 1 : c[i] \in Entry
  BY EmptySeq, ElementOfSeq
<1>2. /\ SubSeq(c, 1, Len(c) - 1) \in Seq(Entry)
      /\ Len(SubSeq(c, 1, Len(c) - 1)) = IF 1 <= Len(c) - 1 THEN Len(c) - 1 - 1 + 1 ELSE 0
      /\ \A i \in 1..Len(c) - 1 - 1 + 1 : SubSeq(c, 1, Len(c) - 1)[i] = c[1 + i - 1]
  BY <1>1, SubSeqProperties
<1> DEFINE l == Len(c)
           e == SubSeq(c, 1, Len(c) - 1)
<1>3. /\ l \in Nat \ {0}
      /\ e \in Seq(Entry)
      /\ Len(e) = IF 1 <= l - 1 THEN l - 1 - 1 + 1 ELSE 0
      /\ \A i \in 1..l - 1 - 1 + 1 : e[i] = c[1 + i - 1]
  BY <1>1, <1>2
<1>4. e \in Seq(Entry) /\ Len(e) = l - 1 /\ \A i \in 1..l - 1 : e[i] = c[i]
  <2> HIDE DEF l, e
  <2> QED
    BY <1>3
<1> QED
  BY <1>4 DEF Pops

\* A handler ends, and the one below it goes on.
LEMMA PopFits ==
  ASSUME NEW n, NEW c, Fits(c, n), c # <<>>, LastOf(c).kind # "main", NEW e, Pops(c, e)
  PROVE  /\ Fits(e, IF LastOf(c).kind \in Pushing THEN n - 1 ELSE n) /\ e # <<>>
         /\ LastOf(e) = c[Len(c) - 1]
         /\ LastOf(e).kind \notin {"builtin", "native"}
         /\ LastOf(e).kind \in Exprs => LastOf(c).kind \in Pushing
         /\ LastOf(c).kind = "overload" => LastOf(e).kind # "args"
         /\ IF LastOf(c).kind \in Calls THEN Top(e) < Top(c) ELSE Top(e) = Top(c)
<1> DEFINE l == Len(c)
           m == IF LastOf(c).kind \in Pushing THEN n - 1 ELSE n
<1>1. /\ c \in Seq(Entry) /\ l \in Nat \ {0} /\ n \in Nat \ {0} /\ l \in 1..l
      /\ Top(c) \in 1..n /\ Top(c) = c[l].frame
      /\ LinksFit(c) /\ NestFits(c)
      /\ LastOf(c) = c[l]
  BY TopFits
<1>0. l \in Nat \ {0} /\ l \in 1..l
  BY <1>1
<1>2. l > 1
  BY <1>1 DEF NestFits
<1>3. /\ e \in Seq(Entry) /\ Len(e) = l - 1
      /\ \A i \in 1..l - 1 : e[i] = c[i]
  BY DEF Pops
<1>4. e # <<>> /\ LastOf(e) = c[l - 1] /\ Top(e) = c[l - 1].frame
  <2>0. Len(e) = l - 1
    BY <1>3
  <2>1. Len(e) # 0 /\ l - 1 \in 1..l - 1 /\ Len(e) = l - 1
    BY <1>0, <1>2, <2>0
  <2>2. e # <<>>
    BY <2>1, EmptySeq
  <2> HIDE DEF l
  <2>3. e[l - 1] = c[l - 1]
    BY <1>3, <2>1
  <2> QED
    BY <2>1, <2>2, <2>3 DEF LastOf, Top
<1>5. LinksFit(e)
  BY <1>1, <1>3 DEF LinksFit
<1>6. NestFits(e)
  <2>1. \A i \in 1..l - 1 : e[i].kind = "main" <=> i = 1
    <3>1. \A i \in 1..l - 1 : i \in 1..l
      BY <1>0
    <3>2. \A i \in 1..l : c[i].kind = "main" <=> i = 1
      BY <1>1 DEF NestFits
    <3> QED
      BY <1>3, <3>1, <3>2
  <2>2. ASSUME NEW i \in 1..l - 1, NEW j \in 1..l - 1, i < j
        PROVE  /\ e[i].frame <= e[j].frame
               /\ e[j].kind \in Calls => e[i].frame < e[j].frame
               /\ e[i].kind \in Exprs /\ e[i].frame = e[j].frame => e[j].kind = "args"
               /\ e[i].kind = "try" /\ e[j].kind = "return" /\ e[i].frame = e[j].frame => j = l - 1
    <3>1. e[i] = c[i] /\ e[j] = c[j] /\ i \in 1..l /\ j \in 1..l /\ j # l
      BY <1>1, <1>3
    <3> QED
      BY <1>1, <2>2, <3>1 DEF NestFits
  <2>3. Len(e) = l - 1
    BY <1>3
  <2> HIDE DEF l
  <2> QED
    BY <2>1, <2>2, <2>3 DEF NestFits
<1>7. PICK d : DepthsFit(c, n, d)
  BY <1>1 DEF Fits
<1>8. d \in [1..l -> Nat] /\ d[1] = 1 /\ d[l] = n /\ d[l - 1] = m /\ m \in Nat \ {0}
  <2>1. d \in [1..l -> Nat] /\ d[1] = 1 /\ d[l] = n /\ l \in 2..l /\ l - 1 \in 1..l /\ 1 \in 1..l
    BY <1>1, <1>2, <1>7 DEF DepthsFit
  <2>2. d[l] = IF c[l].kind \in Pushing THEN d[l - 1] + 1 ELSE d[l - 1]
    BY <1>7, <2>1 DEF DepthsFit
  <2>3. d[l - 1] \in Nat
    BY <2>1
  <2>4. 1 <= l - 1
    BY <1>1, <1>2
  <2>5. d[1] <= d[l - 1]
    BY <1>7, <2>1, <2>4 DEF DepthsFit
  <2>6. d[l - 1] = m
    BY <1>1, <2>1, <2>2, <2>3
  <2> QED
    BY <2>1, <2>3, <2>5, <2>6
<1>9. \E x : DepthsFit(e, m, x)
  <2> DEFINE x == [i \in 1..l - 1 |-> d[i]]
  <2>1. /\ \A i \in 1..l - 1 : i \in 1..l
        /\ 1 \in 1..l - 1 /\ l - 1 \in 1..l - 1
        /\ \A i \in 2..l - 1 : i - 1 \in 1..l - 1 /\ i \in 1..l - 1 /\ i \in 2..l
    BY <1>1, <1>2
  <2>2. x \in [1..l - 1 -> Nat] /\ \A i \in 1..l - 1 : x[i] = d[i]
    BY <1>8, <2>1
  <2> HIDE DEF x, m
  <2>3. \A i \in 1..l - 1 : /\ 1 <= e[i].frame /\ e[i].frame <= x[i]
                            /\ e[i].kind # "args" => e[i].frame = x[i]
    BY <1>3, <1>7, <2>1, <2>2 DEF DepthsFit
  <2>4. \A i, j \in 1..l - 1 : i <= j => x[i] <= x[j]
    BY <1>7, <2>1, <2>2 DEF DepthsFit
  <2>5. \A i \in 2..l - 1 : x[i] = IF e[i].kind \in Pushing THEN x[i - 1] + 1 ELSE x[i - 1]
    BY <1>3, <1>7, <2>1, <2>2 DEF DepthsFit
  <2>6. x[1] = 1 /\ x[l - 1] = m
    BY <1>8, <2>1, <2>2
  <2>7. DepthsFit(e, m, x)
    BY <1>3, <2>2, <2>3, <2>4, <2>5, <2>6 DEF DepthsFit
  <2> QED
    BY <2>7
<1>10. Fits(e, m)
  BY <1>3, <1>4, <1>5, <1>6, <1>8, <1>9 DEF Fits
<1>11. /\ c[l - 1].kind \notin {"builtin", "native"}
       /\ c[l - 1].kind \in Exprs => c[l].kind \in Pushing
       /\ c[l].kind = "overload" => c[l - 1].kind # "args"
       /\ c[l].kind \notin Calls => c[l].frame = c[l - 1].frame
       /\ c[l].kind \in Calls => c[l - 1].frame < c[l].frame
  <2>1. l \in 2..l /\ l - 1 \in 1..l /\ l - 1 < l
    BY <1>1, <1>2
  <2> QED
    BY <1>1, <2>1 DEF LinksFit, NestFits
<1> QED
  BY <1>1, <1>3, <1>4, <1>10, <1>11

\* Only the handler of the program is left: it has the only frame.
LEMMA MainFits ==
  ASSUME NEW n, NEW c, Fits(c, n), c # <<>>, LastOf(c).kind = "main"
  PROVE  Len(c) = 1 /\ n = 1 /\ Top(c) = 1 /\ SubSeq(c, 1, Len(c) - 1) = <<>> /\ Fits(<<>>, 1)
<1>1. Len(c) = 1
  BY TopFits, ZenonT(40) DEF NestFits
<1>2. n = 1
  BY <1>1 DEF Fits, DepthsFit
<1>3. Top(c) = 1
  BY <1>2, TopFits
<1>4. Fits(<<>>, 1)
  BY EmptySeq DEF Fits
<1> QED
  BY <1>1, <1>2, <1>3, <1>4, SubSeqEmpty

-----------------------------------------------------------------------------
(* The flags of the frames.                                                *)

\* The flags of the frame that runs: which go together, what u (an exception
\* is not caught yet) means, and what the handlers around allow.
Current(c, S, u) ==
  /\ S \in SUBSET Flags /\ u \in BOOLEAN
  /\ "Next" \in S => S = {"Next"}
  /\ "Return" \in S => "Break" \in S
  /\ "Break" \in S /\ "Exception" \in S => "Return" \in S
  /\ u => "Exception" \in S
  /\ c # <<>> =>
       /\ LastOf(c).kind \in Exprs => S \subseteq {"Exception"}
       /\ LastOf(c).kind = "native" => S = {}
       /\ ~Within(c, Loops) => "Next" \notin S /\ ("Break" \in S => "Return" \in S)
       /\ "Return" \in S /\ "Exception" \in S => ~Within(c, {"try"})
       /\ LastOf(c).kind = "return" /\ Within(c, {"try"}) => S = {}

FlagsFit(c, s, u) ==
  /\ s \in Seq(SUBSET Flags)
  /\ \A i \in 1..Len(s) : i # Top(c) => s[i] = {}
  /\ Current(c, s[Top(c)], u)

Inv == Fits(ctl, Len(scope)) /\ FlagsFit(ctl, scope, uncaught)

LEMMA PushWithin ==
  ASSUME NEW n, NEW c, Fits(c, n), c # <<>>,
         NEW e, Pushes(c, n, e), e # <<>>, LastOf(e).frame = Top(c), NEW kinds
  PROVE  Within(e, kinds) <=> Within(c, kinds) \/ LastOf(e).kind \in kinds
<1>0. Len(e) = Len(c) + 1 /\ \A i \in 1..Len(c) : e[i] = c[i]
  BY DEF Pushes
<1>1. Len(c) \in Nat \ {0} /\ Top(e) = Top(c) /\ LastOf(e) = e[Len(c) + 1]
  BY <1>0, TopFits DEF Top, LastOf
<1>2. \A i \in 1..Len(e) : i \in 1..Len(c) \/ i = Len(c) + 1
  BY <1>0, <1>1
<1>3. Len(c) + 1 \in 1..Len(e) /\ \A i \in 1..Len(c) : i \in 1..Len(e)
  BY <1>0, <1>1
<1> QED
  BY <1>0, <1>1, <1>2, <1>3 DEF Within

LEMMA ReplaceWithin ==
  ASSUME NEW n, NEW c, Fits(c, n), c # <<>>,
         NEW e, Replaces(c, n, e), e # <<>>, LastOf(e).frame = Top(c), NEW kinds
  PROVE  /\ Within(e, kinds) => Within(c, kinds) \/ LastOf(e).kind \in kinds
         /\ Within(c, kinds) => Within(e, kinds) \/ LastOf(c).kind \in kinds
<1>0. Len(e) = Len(c) /\ \A i \in 1..Len(c) - 1 : e[i] = c[i]
  BY DEF Replaces
<1>1. /\ Len(c) \in Nat \ {0} /\ Top(e) = Top(c)
      /\ LastOf(e) = e[Len(c)] /\ LastOf(c) = c[Len(c)]
  BY <1>0, TopFits DEF Top, LastOf
<1>2. \A i \in 1..Len(c) : i # Len(c) => e[i] = c[i]
  BY <1>0, <1>1
<1> QED
  BY <1>0, <1>1, <1>2 DEF Within

LEMMA PopWithin ==
  ASSUME NEW n, NEW c, Fits(c, n), c # <<>>,
         NEW e, Pops(c, e), e # <<>>, NEW kinds
  PROVE  /\ Top(e) = Top(c) =>
              (Within(c, kinds) <=> Within(e, kinds) \/ LastOf(c).kind \in kinds)
         /\ LastOf(e).kind = "return" => ~Within(e, {"try"})
<1>1. /\ Len(c) \in Nat \ {0} /\ Len(c) \in 1..Len(c)
      /\ LastOf(c) = c[Len(c)] /\ Top(c) = c[Len(c)].frame
      /\ NestFits(c)
  BY TopFits DEF Top
<1>0. Len(e) = Len(c) - 1 /\ \A i \in 1..Len(c) - 1 : e[i] = c[i]
  BY DEF Pops
<1>2. \A i \in 1..Len(c) : i # Len(c) => i \in 1..Len(e) /\ e[i] = c[i]
  BY <1>0, <1>1
<1>3. \A i \in 1..Len(e) : i \in 1..Len(c) /\ i # Len(c) /\ e[i] = c[i]
  BY <1>0, <1>1
<1>4. Top(e) = Top(c) => (Within(c, kinds) <=> Within(e, kinds) \/ LastOf(c).kind \in kinds)
  BY <1>1, <1>2, <1>3 DEF Within
<1>5. ASSUME LastOf(e).kind = "return", Within(e, {"try"})
      PROVE  FALSE
  <2>1. PICK i \in 1..Len(e) : e[i].kind = "try" /\ e[i].frame = Top(e)
    BY <1>5 DEF Within
  <2>2. Top(e) = e[Len(e)].frame /\ e[Len(e)].kind = "return"
    BY <1>5 DEF Top, LastOf
  <2>3. i # Len(e)
    BY <2>1, <2>2
  <2>4. Len(e) \in 1..Len(e) /\ i < Len(e)
    BY <1>0, <1>1, <2>1, <2>3
  <2>5. i \in 1..Len(c) /\ Len(e) \in 1..Len(c) /\ Len(e) # Len(c)
        /\ e[i] = c[i] /\ e[Len(e)] = c[Len(e)]
    BY <1>3, <2>1, <2>4
  <2> QED
    BY <1>1, <2>1, <2>2, <2>4, <2>5 DEF NestFits
<1> QED
  BY <1>4, <1>5

\* Only the flags of the frame that runs change.
LEMMA SetFits ==
  ASSUME NEW c, NEW s, NEW u, FlagsFit(c, s, u), Top(c) \in 1..Len(s),
         NEW e, NEW S, NEW w, Top(e) = Top(c), Current(e, S, w),
         NEW t, t = [s EXCEPT ![Top(c)] = S]
  PROVE  /\ FlagsFit(e, t, w) /\ Len(t) = Len(s)
<1>1. s \in Seq(SUBSET Flags) /\ S \in SUBSET Flags
  BY DEF FlagsFit, Current
<1>2. /\ t \in Seq(SUBSET Flags) /\ Len(t) = Len(s)
      /\ \A j \in 1..Len(s) : t[j] = IF j = Top(c) THEN S ELSE s[j]
  BY <1>1, ExceptSeq
<1> QED
  BY <1>2 DEF FlagsFit

\* What the definitions of FrameStates mean in these terms.
LEMMA Here ==
  ASSUME Inv, Running, Habits = {}
  PROVE  /\ ctl # <<>> /\ Kind = LastOf(ctl).kind /\ Kind \in Kinds
         /\ Frame = Top(ctl) /\ Frame \in 1..Len(scope)
         /\ Len(scope) \in Nat \ {0}
         /\ Kind # "args" => Frame = Newest
         /\ Current(ctl, State, uncaught)
         /\ \A i \in 1..Len(scope) : i # Frame => scope[i] = {}
         /\ Goes => State = {}
         /\ \A kinds : Inside(kinds) <=> Within(ctl, kinds)
<1>1. ctl # <<>> /\ Fits(ctl, Len(scope)) /\ FlagsFit(ctl, scope, uncaught)
  BY DEF Running, Inv
<1>2. Kind = LastOf(ctl).kind /\ Frame = Top(ctl)
  BY <1>1 DEF Kind, Frame, Running, LastOf, Top
<1>3. Kind \in Kinds /\ Top(ctl) \in 1..Len(scope) /\ Len(scope) \in Nat \ {0}
      /\ (Kind # "args" => Frame = Newest)
  BY <1>1, <1>2, TopFits DEF Newest
<1>4. Current(ctl, State, uncaught)
  BY <1>1, <1>2 DEF FlagsFit, State
<1>5. Goes => State = {}
  <2>1. State \in SUBSET Flags
    BY <1>4 DEF Current
  <2>2. Goes => "Break" \notin State /\ "Exception" \notin State
                /\ "Return" \notin State /\ "Next" \notin State
    BY DEF Goes, Executes
  <2> QED
    BY <2>1, <2>2 DEF Flags
<1>6. \A kinds : Inside(kinds) <=> Within(ctl, kinds)
  <2>1. DOMAIN ctl = 1..Len(ctl)
    BY <1>1, LenProperties DEF Fits
  <2> QED
    BY <1>2, <2>1 DEF Inside, Within
<1> QED
  BY <1>1, <1>2, <1>3, <1>4, <1>5, <1>6 DEF FlagsFit

-----------------------------------------------------------------------------
(* The invariant holds, one lemma for each kind of step.                   *)

LEMMA Initially == Init => Inv
<1> SUFFICES ASSUME Init PROVE Inv
  OBVIOUS
<1> DEFINE m == [kind |-> "main", frame |-> 1]
<1>1. ctl = <<m>> /\ scope = <<{}>> /\ uncaught = FALSE
  BY DEF Init
<1>2. ctl \in Seq(Entry) /\ Len(ctl) = 1 /\ ctl[1] = m /\ ctl # <<>>
  BY <1>1 DEF Entry, Kinds, Bodies
<1>3. scope \in Seq(SUBSET Flags) /\ Len(scope) = 1 /\ scope[1] = {}
  BY <1>1
<1>4. LinksFit(ctl)
  BY <1>2 DEF LinksFit
<1>5. NestFits(ctl)
  BY <1>2 DEF NestFits
<1>6. DepthsFit(ctl, 1, [i \in 1..1 |-> 1])
  BY <1>2 DEF DepthsFit
<1>7. Fits(ctl, Len(scope))
  BY <1>2, <1>3, <1>4, <1>5, <1>6 DEF Fits
<1>8. Top(ctl) = 1
  BY <1>2 DEF Top, LastOf
<1>9. Current(ctl, {}, FALSE)
  BY <1>2 DEF Current, LastOf, Exprs
<1> QED
  <2>1. \A i \in 1..Len(scope) : i = 1
    BY <1>3
  <2>2. FlagsFit(ctl, scope, uncaught)
    BY <1>1, <1>3, <1>8, <1>9, <2>1 DEF FlagsFit
  <2> QED
    BY <1>7, <2>2 DEF Inv

\* A frame without flags suits any sequence of handlers.
LEMMA CleanFits ==
  ASSUME NEW c, NEW u, Current(c, {}, u), NEW e
  PROVE  u = FALSE /\ Current(e, {}, u)
BY DEF Current

\* A handler is opened in the frame that runs.
LEMMA OpenInv ==
  ASSUME Inv, Habits = {}, Goes, Kind \in Bodies,
         NEW k \in Plain, Open(k), UNCHANGED <<scope, uncaught>>
  PROVE  Inv'
<1>1. Running
  BY DEF Goes
<1>2. /\ ctl # <<>> /\ Fits(ctl, Newest) /\ FlagsFit(ctl, scope, uncaught)
      /\ Kind = LastOf(ctl).kind /\ Frame = Top(ctl) /\ State = {}
      /\ Current(ctl, State, uncaught)
  BY <1>1, Here DEF Inv, Newest
<1>3. ctl' = Append(ctl, [kind |-> k, frame |-> Top(ctl)])
  BY <1>2 DEF Open
<1>4. Pushes(ctl, Newest, ctl') /\ LastOf(ctl').kind = k /\ LastOf(ctl').frame = Top(ctl)
  <2> DEFINE x == [kind |-> k, frame |-> Top(ctl)]
  <2>1. x \in Entry /\ x.kind = k /\ x.frame = Top(ctl)
    BY <1>2, TopFits DEF Entry, Plain, Kinds, Bodies, Exprs
  <2>2. ctl \in Seq(Entry) /\ ctl' = Append(ctl, x)
    BY <1>2, <1>3 DEF Fits
  <2> HIDE DEF x
  <2>3. /\ ctl' \in Seq(Entry) /\ Len(ctl') = Len(ctl) + 1
        /\ \A i \in 1..Len(ctl) : ctl'[i] = ctl[i]
        /\ LastOf(ctl') = x
    BY <2>1, <2>2, AppendProperties DEF LastOf
  <2>4. LastOf(ctl).kind \in Bodies /\ LastOf(ctl).kind # "return"
    BY <1>2 DEF Bodies
  <2> QED
    BY <2>1, <2>3, <2>4 DEF Pushes
<1>5. Fits(ctl', Newest) /\ ctl' # <<>>
  <2>1. LastOf(ctl').kind \notin Pushing
    BY <1>4 DEF Plain, Pushing, Calls
  <2> QED
    BY <1>2, <1>4, <2>1, PushFits
<1>6. Top(ctl') = Top(ctl)
  BY <1>4, <1>5 DEF Top
<1>7. scope[Top(ctl)] = {}
  BY <1>2 DEF State
<1>8. Current(ctl', {}, uncaught)
  BY <1>2, CleanFits
<1>9. FlagsFit(ctl', scope, uncaught)
  BY <1>2, <1>6, <1>7, <1>8 DEF FlagsFit
<1> QED
  BY <1>5, <1>9 DEF Inv, Newest

\* A handler that has no frame of its own ends.
LEMMA ClosedFacts ==
  ASSUME Inv, Habits = {}, Running, Kind \in Plain
  PROVE  /\ Closed # <<>> /\ Fits(Closed, Newest) /\ Top(Closed) = Frame
         /\ LastOf(Closed).kind \notin Exprs \cup {"native"}
         /\ \A kinds : Inside(kinds) <=> Within(Closed, kinds) \/ Kind \in kinds
<1>1. /\ ctl # <<>> /\ Fits(ctl, Newest) /\ ctl \in Seq(Entry)
      /\ Kind = LastOf(ctl).kind /\ Frame = Top(ctl)
      /\ \A kinds : Inside(kinds) <=> Within(ctl, kinds)
  BY Here DEF Inv, Newest, Fits
<1>2. LastOf(ctl).kind \notin Pushing \cup Calls \cup {"main"}
  BY <1>1 DEF Plain, Pushing, Calls
<1>3. Pops(ctl, Closed)
  BY <1>1, ClosedElements DEF Closed
<1>4. /\ Fits(Closed, Newest) /\ Closed # <<>> /\ Top(Closed) = Top(ctl)
      /\ LastOf(Closed).kind \notin Exprs \cup {"native"}
  BY <1>1, <1>2, <1>3, PopFits
<1>5. \A kinds : Within(ctl, kinds) <=> Within(Closed, kinds) \/ LastOf(ctl).kind \in kinds
  BY <1>1, <1>3, <1>4, PopWithin
<1> QED
  BY <1>1, <1>4, <1>5

\* It ends, or goes on, or becomes another, having set the flags of its frame.
LEMMA StaysInv ==
  ASSUME Inv, Habits = {}, Running,
         Fits(ctl', Newest), Top(ctl') = Frame,
         NEW S, Current(ctl', S, uncaught'),
         SetState(S) \/ (scope' = scope /\ S = State)
  PROVE  Inv'
<1>1. /\ FlagsFit(ctl, scope, uncaught)
      /\ Frame = Top(ctl) /\ Frame \in 1..Len(scope) /\ State = scope[Top(ctl)]
  BY Here DEF Inv, State
<1>2. CASE SetState(S)
  <2>1. scope' = [scope EXCEPT ![Top(ctl)] = S]
    BY <1>1, <1>2 DEF SetState
  <2>2. FlagsFit(ctl', scope', uncaught') /\ Len(scope') = Len(scope)
    <3>1. Top(ctl) \in 1..Len(scope) /\ Top(ctl') = Top(ctl)
      BY <1>1
    <3>2. FlagsFit(ctl', scope', uncaught')
      BY <1>1, <2>1, <3>1, SetFits
    <3>3. Len(scope') = Len(scope)
      BY <1>1, <2>1, <3>1, SetFits
    <3> QED
      BY <3>2, <3>3
  <2> QED
    BY <2>2 DEF Inv, Newest
<1>3. CASE scope' = scope /\ S = State
  BY <1>1, <1>3 DEF Inv, Newest, FlagsFit
<1> QED
  BY <1>2, <1>3

\* A handler changes its kind.
LEMMA BecomeFacts ==
  ASSUME Inv, Habits = {}, Running, Kind \in Plain, NEW k \in Plain \ {"return"}, Become(k)
  PROVE  /\ ctl' # <<>> /\ Fits(ctl', Newest) /\ Top(ctl') = Frame
         /\ LastOf(ctl').kind = k
         /\ \A kinds : Within(ctl', kinds) => Inside(kinds) \/ k \in kinds
         /\ \A kinds : Inside(kinds) => Within(ctl', kinds) \/ Kind \in kinds
<1>1. /\ ctl # <<>> /\ Fits(ctl, Newest)
      /\ Kind = LastOf(ctl).kind /\ Frame = Top(ctl)
      /\ \A kinds : Inside(kinds) <=> Within(ctl, kinds)
  BY Here DEF Inv, Newest
<1>2. ctl' = [ctl EXCEPT ![Len(ctl)] = [kind |-> k, frame |-> Top(ctl)]]
  <2>1. ctl[Len(ctl)] \in Entry /\ ctl[Len(ctl)].frame = Top(ctl)
    BY <1>1, TopFits
  <2>2. [ctl[Len(ctl)] EXCEPT !.kind = k] = [kind |-> k, frame |-> Top(ctl)]
    BY <2>1 DEF Entry
  <2> QED
    BY <2>2 DEF Become
<1>3. Replaces(ctl, Newest, ctl') /\ LastOf(ctl').kind = k /\ LastOf(ctl').frame = Top(ctl)
  <2> DEFINE x == [kind |-> k, frame |-> Top(ctl)]
  <2>1. x \in Entry /\ x.kind = k /\ x.frame = Top(ctl)
    BY <1>1, TopFits DEF Entry, Plain, Kinds, Bodies, Exprs
  <2>2. ctl \in Seq(Entry) /\ Len(ctl) \in 1..Len(ctl) /\ ctl' = [ctl EXCEPT ![Len(ctl)] = x]
    BY <1>1, <1>2, TopFits
  <2> HIDE DEF x
  <2>3. /\ ctl' \in Seq(Entry) /\ Len(ctl') = Len(ctl)
        /\ \A i \in 1..Len(ctl) : ctl'[i] = IF i = Len(ctl) THEN x ELSE ctl[i]
    BY <2>1, <2>2, ExceptSeq
  <2>4. LastOf(ctl') = x
    BY <2>2, <2>3 DEF LastOf
  <2>5. \A i \in 1..Len(ctl) - 1 : ctl'[i] = ctl[i]
    <3>1. \A i \in 1..Len(ctl) - 1 : i \in 1..Len(ctl) /\ i # Len(ctl)
      BY <1>1, TopFits
    <3> QED
      BY <2>3, <3>1
  <2> QED
    BY <1>1, <2>1, <2>3, <2>4, <2>5 DEF Replaces
<1>4. Fits(ctl', Newest) /\ ctl' # <<>>
  BY <1>1, <1>3, ReplaceFits
<1>5. \A kinds : /\ Within(ctl', kinds) => Within(ctl, kinds) \/ k \in kinds
                 /\ Within(ctl, kinds) => Within(ctl', kinds) \/ Kind \in kinds
  BY <1>1, <1>3, <1>4, ReplaceWithin
<1> QED
  BY <1>1, <1>3, <1>4, <1>5 DEF Top

\* A handler is opened with a frame of its own.
LEMMA CallInv ==
  ASSUME Inv, Habits = {}, Evaluates, UNCHANGED uncaught, scope' = Append(scope, {}),
         Open("args") \/ ctl' = Append(ctl, [kind |-> "overload", frame |-> Newest + 1]),
         ~Open("args") => Kind # "args"
  PROVE  Inv'
<1>1. /\ ctl # <<>> /\ Fits(ctl, Newest) /\ ctl \in Seq(Entry) /\ FlagsFit(ctl, scope, uncaught)
      /\ Kind = LastOf(ctl).kind /\ Frame = Top(ctl) /\ State = {}
      /\ Frame \in 1..Newest /\ Newest \in Nat \ {0}
      /\ Current(ctl, State, uncaught)
      /\ \A j \in 1..Newest : j # Frame => scope[j] = {}
      /\ Kind \in Bodies \cup Exprs
      /\ Kind = "return" => ~Within(ctl, {"try"})
  BY Here DEF Inv, Fits, Newest, Evaluates, Goes
<1>2. PICK k, f : /\ ctl' = Append(ctl, [kind |-> k, frame |-> f])
                  /\ \/ k = "args" /\ f = Top(ctl)
                     \/ k = "overload" /\ f = Newest + 1 /\ Kind # "args"
  BY <1>1 DEF Open
<1>3. Pushes(ctl, Newest, ctl') /\ LastOf(ctl').kind = k /\ LastOf(ctl').frame = f
  <2> DEFINE x == [kind |-> k, frame |-> f]
  <2>1. x \in Entry /\ x.kind = k /\ x.frame = f
    BY <1>1, <1>2 DEF Entry, Kinds, Exprs, Calls
  <2>2. ctl' = Append(ctl, x)
    BY <1>2
  <2> HIDE DEF x
  <2>3. /\ ctl' \in Seq(Entry) /\ Len(ctl') = Len(ctl) + 1
        /\ \A j \in 1..Len(ctl) : ctl'[j] = ctl[j]
        /\ LastOf(ctl') = x
    BY <1>1, <2>1, <2>2, AppendProperties DEF LastOf
  <2> QED
    BY <1>1, <1>2, <2>1, <2>3 DEF Pushes
<1>4. Fits(ctl', Newest + 1) /\ ctl' # <<>>
  <2>1. LastOf(ctl').kind \in Pushing
    BY <1>2, <1>3 DEF Pushing, Calls
  <2> QED
    BY <1>1, <1>3, <2>1, PushFits
<1>5. scope \in Seq(SUBSET Flags) /\ \A j \in 1..Newest : scope[j] = {}
  BY <1>1 DEF FlagsFit, State
<1>6. /\ scope' \in Seq(SUBSET Flags) /\ Len(scope') = Newest + 1
      /\ \A j \in 1..Newest + 1 : scope'[j] = {}
  <2>1. /\ scope' \in Seq(SUBSET Flags) /\ Len(scope') = Newest + 1
        /\ \A j \in 1..Newest : scope'[j] = scope[j]
        /\ scope'[Newest + 1] = {}
    BY <1>5, AppendProperties DEF Newest
  <2> QED
    BY <1>1, <1>5, <2>1
<1>7. Top(ctl') \in 1..Newest + 1
  BY <1>1, <1>2, <1>3, <1>4 DEF Top
<1>8. Current(ctl', {}, uncaught)
  BY <1>1, CleanFits
<1>9. FlagsFit(ctl', scope', uncaught')
  BY <1>6, <1>7, <1>8 DEF FlagsFit
<1> QED
  BY <1>4, <1>6, <1>9 DEF Inv

\* The arguments are evaluated, and the function starts.
LEMMA InvokeInv ==
  ASSUME Inv, Habits = {}, NEW k \in {"call", "builtin", "native"}, Invoke(k)
  PROVE  Inv' /\ State = {} /\ State' = {}
<1>1. /\ ctl # <<>> /\ Fits(ctl, Newest) /\ ctl \in Seq(Entry) /\ FlagsFit(ctl, scope, uncaught)
      /\ Kind = LastOf(ctl).kind /\ Frame = Top(ctl)
      /\ Frame \in 1..Newest /\ Newest \in Nat \ {0}
      /\ Current(ctl, State, uncaught)
      /\ \A j \in 1..Newest : j # Frame => scope[j] = {}
      /\ Kind = "args" /\ "Exception" \notin State
      /\ ctl' = [ctl EXCEPT ![Len(ctl)] = [kind |-> k, frame |-> Newest]]
      /\ UNCHANGED <<scope, uncaught>>
  BY Here DEF Inv, Fits, Newest, Invoke
<1>2. State = {}
  BY <1>1 DEF Current, Exprs
<1>3. Replaces(ctl, Newest, ctl') /\ LastOf(ctl').kind = k /\ LastOf(ctl').frame = Newest
  <2> DEFINE x == [kind |-> k, frame |-> Newest]
  <2>1. x \in Entry /\ x.kind = k /\ x.frame = Newest
    BY <1>1 DEF Entry, Kinds, Calls
  <2>2. Len(ctl) \in 1..Len(ctl) /\ Len(ctl) \in Nat \ {0} /\ ctl' = [ctl EXCEPT ![Len(ctl)] = x]
    BY <1>1, TopFits
  <2> HIDE DEF x
  <2>3. /\ ctl' \in Seq(Entry) /\ Len(ctl') = Len(ctl)
        /\ \A j \in 1..Len(ctl) : ctl'[j] = IF j = Len(ctl) THEN x ELSE ctl[j]
    BY <1>1, <2>1, <2>2, ExceptSeq
  <2>4. LastOf(ctl') = x
    BY <2>2, <2>3 DEF LastOf
  <2>5. \A j \in 1..Len(ctl) - 1 : ctl'[j] = ctl[j]
    <3>1. \A j \in 1..Len(ctl) - 1 : j \in 1..Len(ctl) /\ j # Len(ctl)
      BY <2>2
    <3> QED
      BY <2>3, <3>1
  <2> QED
    BY <1>1, <2>1, <2>3, <2>4, <2>5 DEF Replaces
<1>4. Fits(ctl', Newest) /\ ctl' # <<>>
  BY <1>1, <1>3, ReplaceFits
<1>5. Top(ctl') = Newest
  BY <1>3, <1>4 DEF Top
<1>6. \A j \in 1..Newest : scope[j] = {}
  BY <1>1, <1>2 DEF State
<1>7. Current(ctl', {}, uncaught)
  BY <1>1, <1>2, CleanFits
<1>8. FlagsFit(ctl', scope, uncaught)
  <2>1. scope \in Seq(SUBSET Flags) /\ Len(scope) = Newest
    BY <1>1 DEF FlagsFit, Newest
  <2>2. scope[Top(ctl')] = {}
    BY <1>1, <1>5, <1>6
  <2> QED
    BY <1>6, <1>7, <2>1, <2>2 DEF FlagsFit
<1>9. State' = {}
  <2>1. State' = scope'[Top(ctl')]
    BY <1>4 DEF State, Frame, Running, Top, LastOf
  <2> QED
    BY <1>1, <1>5, <1>6, <2>1
<1> QED
  BY <1>1, <1>2, <1>4, <1>8, <1>9 DEF Inv, Newest

\* A handler with a frame of its own ends.
LEMMA EndFacts ==
  ASSUME Inv, Habits = {}, Running, Kind \in Pushing
  PROVE  /\ Closed # <<>> /\ Fits(Closed, Newest - 1)
         /\ Top(Closed) \in 1..Newest - 1 /\ Caller = Top(Closed)
         /\ LastOf(Closed).kind \notin {"builtin", "native"}
         /\ LastOf(Closed).kind = "return" => ~Within(Closed, {"try"})
         /\ Kind = "args" => Top(Closed) = Frame
         /\ Kind \in Calls => Frame = Newest
         /\ Kind = "overload" => Top(Closed) = Newest - 1
<1>1. /\ ctl # <<>> /\ Fits(ctl, Newest) /\ ctl \in Seq(Entry)
      /\ Kind = LastOf(ctl).kind /\ Frame = Top(ctl) /\ Newest \in Nat \ {0}
      /\ Kind # "args" => Frame = Newest
  BY Here DEF Inv, Newest, Fits
<1>2. LastOf(ctl).kind \in Pushing /\ LastOf(ctl).kind # "main"
  BY <1>1 DEF Pushing, Calls
<1>3. Pops(ctl, Closed)
  BY <1>1, ClosedElements DEF Closed
<1>4. /\ Fits(Closed, Newest - 1) /\ Closed # <<>>
      /\ LastOf(Closed).kind \notin {"builtin", "native"}
      /\ LastOf(ctl).kind = "overload" => LastOf(Closed).kind # "args"
      /\ LastOf(Closed) = ctl[Len(ctl) - 1]
  BY <1>1, <1>2, <1>3, PopFits
<1>5. LastOf(ctl).kind \notin Calls => Top(Closed) = Top(ctl)
  BY <1>1, <1>2, <1>3, PopFits
<1>6. Top(Closed) \in 1..Newest - 1 /\ (LastOf(Closed).kind # "args" => Top(Closed) = Newest - 1)
  BY <1>4, TopFits
<1>7. Caller = Top(Closed)
  BY <1>4 DEF Caller, Top
<1>8. LastOf(Closed).kind = "return" => ~Within(Closed, {"try"})
  BY <1>1, <1>3, <1>4, PopWithin
<1>9. "args" \notin Calls
  BY DEF Calls
<1> QED
  BY <1>1, <1>4, <1>5, <1>6, <1>7, <1>8, <1>9

\* The frames that are left when the newest one goes.
LEMMA RestFits ==
  ASSUME Inv
  PROVE  /\ SubSeq(scope, 1, Newest - 1) \in Seq(SUBSET Flags)
         /\ Len(SubSeq(scope, 1, Newest - 1)) = Newest - 1
         /\ \A j \in 1..Newest - 1 : SubSeq(scope, 1, Newest - 1)[j] = scope[j]
<1> DEFINE n == Newest
           r == SubSeq(scope, 1, n - 1)
<1>1. scope \in Seq(SUBSET Flags) /\ n = Len(scope) /\ n \in Nat \ {0}
  BY DEF Inv, Fits, FlagsFit, Newest
<1> HIDE DEF n
<1>2. \A j \in 1..n - 1 : scope[j] \in SUBSET Flags
  <2>1. \A j \in 1..n - 1 : j \in 1..n
    BY <1>1
  <2> QED
    BY <1>1, <2>1, ElementOfSeq
<1>3. /\ r \in Seq(SUBSET Flags)
      /\ Len(r) = IF 1 <= n - 1 THEN n - 1 - 1 + 1 ELSE 0
      /\ \A j \in 1..n - 1 - 1 + 1 : r[j] = scope[1 + j - 1]
  BY <1>1, <1>2, SubSeqProperties
<1>4. r \in Seq(SUBSET Flags) /\ Len(r) = n - 1 /\ \A j \in 1..n - 1 : r[j] = scope[j]
  <2> HIDE DEF r
  <2> QED
    BY <1>1, <1>3
<1> QED
  BY <1>4 DEF n

\* Nothing but an exception comes back.
LEMMA EndInv ==
  ASSUME Inv, Habits = {}, Running, Kind \in Pushing, ctl' = Closed,
         scope' \in Seq(SUBSET Flags), Len(scope') = Newest - 1,
         \A j \in 1..Newest - 1 : j # Top(Closed) => scope'[j] = {},
         scope'[Top(Closed)] \in {{}, {"Exception"}},
         uncaught' \in BOOLEAN, uncaught' => "Exception" \in scope'[Top(Closed)]
  PROVE  Inv'
<1> DEFINE S == scope'[Top(Closed)]
<1>1. /\ Closed # <<>> /\ Fits(Closed, Newest - 1)
      /\ LastOf(Closed).kind # "native"
      /\ LastOf(Closed).kind = "return" => ~Within(Closed, {"try"})
  BY EndFacts
<1>2. Current(Closed, S, uncaught')
  <2>1. S \in {{}, {"Exception"}} /\ uncaught' \in BOOLEAN /\ (uncaught' => "Exception" \in S)
    OBVIOUS
  <2> HIDE DEF S
  <2> QED
    BY <1>1, <2>1 DEF Current, Flags
<1>3. FlagsFit(Closed, scope', uncaught')
  BY <1>2 DEF FlagsFit
<1> QED
  BY <1>1, <1>3 DEF Inv

-----------------------------------------------------------------------------
(* The steps, grouped as in the specification.                             *)

LEMMA JumpInv ==
  ASSUME Inv, Habits = {}, NEW flag \in {"Break", "Next"}, Jump(flag)
  PROVE  Inv'
<1>1. /\ Running /\ Goes /\ Kind \in Bodies /\ Inside(Loops)
      /\ SetState(State \cup {flag}) /\ UNCHANGED <<ctl, uncaught>>
  BY DEF Jump, Goes
<1>2. /\ Fits(ctl', Newest) /\ Top(ctl') = Frame
      /\ State = {} /\ Current(ctl, {}, uncaught) /\ Within(ctl, Loops)
      /\ LastOf(ctl).kind \in Bodies
  BY <1>1, Here DEF Inv, Newest
<1>3. Current(ctl, {flag}, uncaught)
  BY <1>2 DEF Current, Flags, Bodies, Exprs
<1>4. Current(ctl', {flag}, uncaught') /\ SetState({flag})
  BY <1>1, <1>2, <1>3
<1> QED
  BY <1>1, <1>2, <1>4, StaysInv

LEMMA StatementInv ==
  ASSUME Inv, Habits = {}, Statement
  PROVE  Inv'
<1>1. CASE Block \/ Throw \/ Return \/ Try
  BY <1>1, OpenInv DEF Block, Throw, Return, Try, Plain
<1>2. ASSUME NEW k \in Loops, Loop(k) PROVE Inv'
  <2>1. (IF k = "while" THEN "whiletest" ELSE "eachtest") \in Plain
    BY DEF Plain
  <2> QED
    BY <1>2, <2>1, OpenInv DEF Loop
<1>3. ASSUME NEW flag \in {"Break", "Next"}, Jump(flag) PROVE Inv'
  BY <1>3, JumpInv
<1> QED
  BY <1>1, <1>2, <1>3 DEF Statement

LEMMA HandlerInv ==
  ASSUME Inv, Habits = {}, Handler
  PROVE  Inv'
<1>1. Running /\ Kind \in Plain
  BY DEF Handler, BlockEnds, Thrown, Returned, Iterate, Over, WhileBodyEnds, EachBodyEnds,
         Catch, Finally, TryEnds, Goes, Plain
<1>2. /\ Current(ctl, State, uncaught) /\ ctl # <<>> /\ Kind = LastOf(ctl).kind
      /\ \A kinds : Inside(kinds) <=> Within(ctl, kinds)
  BY <1>1, Here
<1>3. /\ State \in SUBSET Flags /\ uncaught \in BOOLEAN
      /\ "Next" \in State => State = {"Next"}
      /\ "Return" \in State => "Break" \in State
      /\ "Break" \in State /\ "Exception" \in State => "Return" \in State
      /\ uncaught => "Exception" \in State
      /\ Kind \in Exprs => State \subseteq {"Exception"}
      /\ ~Inside(Loops) => "Next" \notin State /\ ("Break" \in State => "Return" \in State)
      /\ "Return" \in State /\ "Exception" \in State => ~Inside({"try"})
      /\ Kind = "return" /\ Inside({"try"}) => State = {}
  BY <1>2 DEF Current
<1>4. /\ Closed # <<>> /\ Fits(Closed, Newest) /\ Top(Closed) = Frame
      /\ LastOf(Closed).kind \notin Exprs \cup {"native"}
      /\ \A kinds : Inside(kinds) <=> Within(Closed, kinds) \/ Kind \in kinds
  BY <1>1, ClosedFacts
\* The handler ends, with flags S on its frame.
<1>5. ASSUME NEW S \in SUBSET Flags, ctl' = Closed, SetState(S) \/ (scope' = scope /\ S = State),
             uncaught' \in BOOLEAN, uncaught' => "Exception" \in S,
             "Next" \in S => S = {"Next"},
             "Return" \in S => "Break" \in S,
             "Break" \in S /\ "Exception" \in S => "Return" \in S,
             ~Inside(Loops) \/ Kind \in Loops =>
               "Next" \notin S /\ ("Break" \in S => "Return" \in S),
             "Return" \in S /\ "Exception" \in S => ~Inside({"try"})
      PROVE  Inv'
  <2>1. /\ Within(Closed, {"try"}) => Inside({"try"})
        /\ ~Within(Closed, Loops) => ~Inside(Loops) \/ Kind \in Loops
    BY <1>4
  <2>2. LastOf(Closed).kind # "return" /\ LastOf(Closed).kind # "native"
    BY <1>4 DEF Exprs
  <2>3. Current(Closed, S, uncaught')
    BY <1>4, <1>5, <2>1, <2>2 DEF Current
  <2>4. Current(ctl', S, uncaught') /\ Fits(ctl', Newest) /\ Top(ctl') = Frame
    BY <1>4, <1>5, <2>3
  <2> QED
    BY <1>1, <1>5, <2>4, StaysInv
\* It becomes another one, without flags on its frame.
<1>6. ASSUME NEW k \in Plain \ {"return"}, Become(k), SetState({}) \/ (scope' = scope /\ {} = State),
             uncaught' = FALSE
      PROVE  Inv'
  <2>1. Fits(ctl', Newest) /\ Top(ctl') = Frame
    BY <1>1, <1>6, BecomeFacts
  <2>2. Current(ctl', {}, uncaught')
    BY <1>6 DEF Current
  <2> QED
    BY <1>1, <1>6, <2>1, <2>2, StaysInv
\* A loop ends, without flags on its frame.
<1>0. ASSUME ctl' = Closed, SetState({}), uncaught' = FALSE
      PROVE  Inv'
  <2>1. Fits(ctl', Newest) /\ Top(ctl') = Frame
    BY <1>0, <1>4
  <2>2. Current(ctl', {}, uncaught')
    BY <1>0 DEF Current
  <2> QED
    BY <1>0, <1>1, <2>1, <2>2, StaysInv
<1>7. CASE BlockEnds \/ Over \/ TryEnds
  <2>1. /\ ctl' = Closed /\ scope' = scope /\ uncaught' = uncaught
        /\ Kind \notin Loops
    BY <1>7 DEF BlockEnds, Over, TryEnds, Loops
  <2> QED
    BY <1>3, <1>5, <2>1
<1>8. CASE Thrown
  <2>1. Kind = "throw" /\ ctl' = Closed /\ uncaught' = TRUE /\ SetState(State \cup {"Exception"})
    BY <1>8 DEF Thrown
  <2>2. State \cup {"Exception"} = {"Exception"}
    BY <1>3, <2>1 DEF Exprs
  <2> QED
    BY <1>5, <2>1, <2>2 DEF Flags, Loops
<1>9. CASE Returned
  <2>1. Kind = "return" /\ ctl' = Closed /\ uncaught' = uncaught
        /\ SetState(State \cup {"Break", "Return"})
    BY <1>9 DEF Returned
  <2> DEFINE S == State \cup {"Break", "Return"}
  <2>2. State \subseteq {"Exception"}
    BY <1>3, <2>1 DEF Exprs
  <2>3. /\ S \in SUBSET Flags /\ "Break" \in S /\ "Return" \in S /\ "Next" \notin S
        /\ "Exception" \in S <=> "Exception" \in State
    BY <2>2 DEF Flags
  <2>4. "Exception" \in S => ~Inside({"try"})
    BY <1>3, <2>1, <2>3
  <2>5. Kind \notin Loops
    BY <2>1 DEF Loops
  <2> HIDE DEF S
  <2>6. SetState(S)
    BY <2>1 DEF S
  <2> QED
    BY <1>3, <1>5, <2>1, <2>3, <2>4, <2>5, <2>6
<1>10. CASE Iterate
  <2>1. State = {} /\ UNCHANGED <<scope, uncaught>>
    BY <1>1, <1>10, Here DEF Iterate
  <2>2. \E k \in {"while", "each"} : Become(k)
    BY <1>10 DEF Iterate
  <2> QED
    BY <1>3, <1>6, <2>1, <2>2 DEF Plain
<1>11. CASE Finally
  <2>1. State = {} /\ UNCHANGED <<scope, uncaught>> /\ Become("finally")
    BY <1>1, <1>11, Here DEF Finally
  <2> QED
    BY <1>3, <1>6, <2>1 DEF Plain
<1>12. CASE Catch
  <2>1. /\ Kind = "try" /\ "Exception" \in State
        /\ SetState(State \ {"Exception"}) /\ uncaught' = FALSE /\ Become("catch")
    BY <1>12 DEF Catch
  <2>2. Inside({"try"})
    BY <1>4, <2>1
  <2>3. State \ {"Exception"} = {}
    BY <1>3, <2>1, <2>2 DEF Flags
  <2> QED
    BY <1>6, <2>1, <2>3 DEF Plain
<1>13. CASE WhileBodyEnds
  <2>1. Kind = "while" /\ Kind \in Loops /\ uncaught' = uncaught
    BY <1>13 DEF WhileBodyEnds, Loops
  <2>2. CASE State \cap {"Exception", "Return"} # {}
    <3>1. ctl' = Closed /\ scope' = scope
      BY <1>13, <2>2 DEF WhileBodyEnds
    <3>2. "Next" \notin State /\ ("Break" \in State => "Return" \in State)
      BY <1>3, <2>2
    <3> QED
      BY <1>3, <1>5, <2>1, <3>1, <3>2
  <2>3. CASE State \cap {"Exception", "Return"} = {}
    <3>1. SetState({}) /\ uncaught' = FALSE
      <4>1. State \ {"Next", "Break"} = {}
        BY <1>3, <2>3 DEF Flags
      <4>2. SetState(State \ {"Next", "Break"})
        BY <1>13, <2>3 DEF WhileBodyEnds
      <4> QED
        BY <1>3, <2>1, <2>3, <4>1, <4>2
    <3>2. ctl' = Closed \/ Become("whiletest")
      BY <1>13, <2>3 DEF WhileBodyEnds
    <3>3. CASE ctl' = Closed
      BY <1>0, <3>1, <3>3
    <3>4. CASE Become("whiletest")
      BY <1>6, <3>1, <3>4 DEF Plain
    <3> QED
      BY <3>2, <3>3, <3>4
  <2> QED
    BY <2>2, <2>3
<1>14. CASE EachBodyEnds
  <2>1. Kind = "each" /\ Kind \in Loops /\ uncaught' = uncaught
    BY <1>14 DEF EachBodyEnds, Loops
  <2>2. CASE State \cap {"Exception", "Return"} # {}
    <3>1. ctl' = Closed /\ scope' = scope
      BY <1>14, <2>2 DEF EachBodyEnds
    <3>2. "Next" \notin State /\ ("Break" \in State => "Return" \in State)
      BY <1>3, <2>2
    <3> QED
      BY <1>3, <1>5, <2>1, <3>1, <3>2
  <2>3. CASE State \cap {"Exception", "Return"} = {}
    <3>1. SetState({}) /\ uncaught' = FALSE /\ ctl' \in {ctl, Closed}
      <4>1. State \ {"Break"} = {} \/ State \ {"Next"} = {}
        BY <1>3, <2>3 DEF Flags
      <4>2. "Break" \in State => State \ {"Break"} = {}
        BY <1>3, <2>3 DEF Flags
      <4>3. "Break" \notin State => State \ {"Next"} = {}
        BY <1>3, <2>3 DEF Flags
      <4>4. IF "Break" \in State THEN ctl' = Closed /\ SetState(State \ {"Break"})
            ELSE SetState(State \ {"Next"}) /\ ctl' \in {ctl, Closed}
        BY <1>14, <2>3 DEF EachBodyEnds
      <4> QED
        BY <1>3, <2>1, <2>3, <4>2, <4>3, <4>4
    <3>2. CASE ctl' = Closed
      BY <1>0, <3>1, <3>2
    <3>3. CASE ctl' = ctl
      <4>1. Fits(ctl', Newest) /\ Top(ctl') = Frame
        BY <1>1, <3>3, Here DEF Inv, Newest
      <4>2. Current(ctl', {}, uncaught')
        BY <3>1 DEF Current
      <4> QED
        BY <1>1, <3>1, <4>1, <4>2, StaysInv
    <3> QED
      BY <3>1, <3>2, <3>3
  <2> QED
    BY <2>2, <2>3
<1> QED
  BY <1>7, <1>8, <1>9, <1>10, <1>11, <1>12, <1>13, <1>14 DEF Handler

LEMMA RaiseInv ==
  ASSUME Inv, Habits = {}, Raise
  PROVE  Inv'
<1>1. /\ Running /\ Goes /\ Kind # "native" /\ Kind # "args"
      /\ Kind = "return" => ~Inside({"try"})
      /\ scope' = [scope EXCEPT ![Newest] = @ \cup {"Exception"}]
      /\ uncaught' = TRUE /\ ctl' = ctl
  BY DEF Raise, Evaluates, Goes
<1>2. /\ Fits(ctl', Newest) /\ Top(ctl') = Frame /\ Frame = Newest /\ State = {}
      /\ Kind = LastOf(ctl).kind /\ (Inside({"try"}) <=> Within(ctl, {"try"}))
  BY <1>1, Here DEF Inv, Newest
<1>3. Current(ctl, {"Exception"}, TRUE)
  BY <1>1, <1>2 DEF Current, Flags
<1>4. SetState({"Exception"})
  <2>1. scope[Newest] \cup {"Exception"} = {"Exception"}
    BY <1>2 DEF State
  <2> QED
    BY <1>1, <1>2, <2>1 DEF SetState
<1>5. Current(ctl', {"Exception"}, uncaught')
  BY <1>1, <1>3
<1> QED
  BY <1>1, <1>2, <1>4, <1>5, StaysInv

\* How the steps that end a call leave the scope.
LEMMA EndScope ==
  ASSUME Inv, Habits = {}, ArgsFail \/ CallEnds \/ OverloadEnds \/ NativeEnds
  PROVE  /\ Running /\ Kind \in Pushing /\ ctl' = Closed /\ uncaught' = uncaught
         /\ Top(Closed) \in 1..Newest - 1
         /\ scope' \in Seq(SUBSET Flags) /\ Len(scope') = Newest - 1
         /\ \A j \in 1..Newest - 1 : j # Top(Closed) => scope'[j] = {}
         /\ scope'[Top(Closed)] = IF "Exception" \in State THEN {"Exception"} ELSE {}
<1> DEFINE rest == SubSeq(scope, 1, Newest - 1)
           S    == IF "Exception" \in State THEN {"Exception"} ELSE {}
<1>1. Running /\ Kind \in Pushing /\ ctl' = Closed /\ uncaught' = uncaught
  BY DEF ArgsFail, CallEnds, OverloadEnds, NativeEnds, Pushing, Calls
<1>2. /\ Current(ctl, State, uncaught) /\ Kind = LastOf(ctl).kind /\ ctl # <<>>
      /\ \A j \in 1..Newest : j # Frame => scope[j] = {}
      /\ Newest \in Nat \ {0}
  BY <1>1, Here DEF Newest
<1>3. /\ Top(Closed) \in 1..Newest - 1 /\ Caller = Top(Closed)
      /\ Kind = "args" => Top(Closed) = Frame
      /\ Kind \in Calls => Frame = Newest
      /\ Kind = "overload" => Top(Closed) = Newest - 1
  BY <1>1, EndFacts
<1>4. /\ rest \in Seq(SUBSET Flags) /\ Len(rest) = Newest - 1
      /\ \A j \in 1..Newest - 1 : rest[j] = scope[j]
  BY RestFits
<1> HIDE DEF rest
<1>5. CASE ArgsFail
  <2>1. Kind = "args" /\ "Exception" \in State /\ scope' = rest
    BY <1>5 DEF ArgsFail, rest
  <2>2. State = {"Exception"}
    BY <1>2, <2>1 DEF Current, Exprs
  <2>3. rest[Top(Closed)] = State
    BY <1>3, <1>4, <2>1 DEF State
  <2>4. \A j \in 1..Newest - 1 : j \in 1..Newest
    BY <1>2
  <2>5. \A j \in 1..Newest - 1 : j # Top(Closed) => rest[j] = {}
    BY <1>2, <1>3, <1>4, <2>1, <2>4
  <2> QED
    BY <1>1, <1>3, <1>4, <2>1, <2>2, <2>3, <2>5
<1>6. CASE CallEnds \/ OverloadEnds \/ NativeEnds
  <2>1. Kind \in Calls /\ (Kind = "native" => State = {})
    BY <1>2, <1>6 DEF CallEnds, OverloadEnds, NativeEnds, Calls, Current
  <2>2. \A j \in 1..Newest - 1 : rest[j] = {}
    <3>1. \A j \in 1..Newest - 1 : j \in 1..Newest /\ j # Frame
      BY <1>2, <1>3, <2>1
    <3> QED
      BY <1>2, <1>4, <3>1
  <2>3. \/ scope' = rest /\ "Exception" \notin State
        \/ scope' = [rest EXCEPT ![Top(Closed)] = {"Exception"}] /\ "Exception" \in State
    <3>1. rest[Top(Closed)] \cup {"Exception"} = {"Exception"}
      BY <1>3, <2>2
    <3>2. CASE CallEnds
      BY <1>3, <3>1, <3>2 DEF CallEnds, rest
    <3>3. CASE OverloadEnds
      BY <1>3, <3>1, <3>3 DEF OverloadEnds, rest
    <3>4. CASE NativeEnds
      BY <2>1, <3>4 DEF NativeEnds, rest
    <3> QED
      BY <1>6, <3>2, <3>3, <3>4
  <2>4. CASE scope' = rest /\ "Exception" \notin State
    BY <1>1, <1>3, <1>4, <2>2, <2>4
  <2>5. CASE scope' = [rest EXCEPT ![Top(Closed)] = {"Exception"}] /\ "Exception" \in State
    <3>1. Top(Closed) \in 1..Len(rest) /\ {"Exception"} \in SUBSET Flags
      BY <1>3, <1>4 DEF Flags
    <3>2. /\ scope' \in Seq(SUBSET Flags) /\ Len(scope') = Len(rest)
          /\ \A j \in 1..Len(rest) : scope'[j] = IF j = Top(Closed) THEN {"Exception"} ELSE rest[j]
      BY <1>4, <2>5, <3>1, ExceptSeq
    <3> QED
      BY <1>1, <1>3, <1>4, <2>2, <2>5, <3>2
  <2> QED
    BY <2>3, <2>4, <2>5
<1> QED
  BY <1>5, <1>6

LEMMA FunctionInv ==
  ASSUME Inv, Habits = {}, Function
  PROVE  Inv'
<1>1. CASE Call
  BY <1>1, CallInv DEF Call
<1>2. CASE Overload
  BY <1>2, CallInv DEF Overload
<1>3. CASE ArgsFail \/ CallEnds \/ OverloadEnds \/ NativeEnds
  <2>1. Current(ctl, State, uncaught)
    BY <1>3, EndScope, Here
  <2>2. uncaught \in BOOLEAN /\ (uncaught => "Exception" \in State)
    BY <2>1 DEF Current
  <2> DEFINE S == IF "Exception" \in State THEN {"Exception"} ELSE {}
  <2>3. S \in {{}, {"Exception"}} /\ (uncaught => "Exception" \in S)
    BY <2>2
  <2>4. /\ Running /\ Kind \in Pushing /\ ctl' = Closed /\ uncaught' = uncaught
        /\ scope' \in Seq(SUBSET Flags) /\ Len(scope') = Newest - 1
        /\ \A j \in 1..Newest - 1 : j # Top(Closed) => scope'[j] = {}
        /\ scope'[Top(Closed)] = S
    BY <1>3, EndScope
  <2> HIDE DEF S
  <2> QED
    BY <2>2, <2>3, <2>4, EndInv
<1>4. CASE Raise
  BY <1>4, RaiseInv
<1>5. ASSUME NEW k \in {"call", "builtin", "native"}, Invoke(k) PROVE Inv'
  BY <1>5, InvokeInv
<1> QED
  BY <1>1, <1>2, <1>3, <1>4, <1>5 DEF Function

LEMMA FinishInv ==
  ASSUME Inv, Habits = {}, Finish
  PROVE  Inv' /\ ~Running'
<1>1. /\ Running /\ Kind = "main" /\ ctl' = <<>>
      /\ SetState(State \ {"Exception"}) /\ uncaught' = (uncaught /\ "Exception" \notin State)
  BY DEF Finish
<1>2. /\ ctl # <<>> /\ Fits(ctl, Newest) /\ LastOf(ctl).kind = "main" /\ Frame = Top(ctl)
      /\ Current(ctl, State, uncaught)
  BY <1>1, Here DEF Inv, Newest
<1>3. Newest = 1 /\ Frame = 1 /\ Fits(<<>>, 1)
  BY <1>2, MainFits
<1>4. Top(<<>>) = 1
  BY DEF Top
<1>5. uncaught' = FALSE
  BY <1>1, <1>2 DEF Current
<1>6. Current(<<>>, State \ {"Exception"}, FALSE)
  BY <1>2 DEF Current
<1>7. Fits(ctl', Newest) /\ Top(ctl') = Frame /\ Current(ctl', State \ {"Exception"}, uncaught')
  BY <1>1, <1>3, <1>4, <1>5, <1>6
<1>8. Inv'
  BY <1>1, <1>7, StaysInv
<1> QED
  BY <1>1, <1>8 DEF Running

LEMMA Inductive ==
  ASSUME Inv, Habits = {}, [Next]_vars
  PROVE  Inv'
<1>1. CASE Terminated \/ UNCHANGED vars
  BY <1>1 DEF Terminated, vars, Inv
<1> QED
  BY <1>1, StatementInv, HandlerInv, FunctionInv, FinishInv DEF Next

LEMMA Invariant ==
  ASSUME Habits = {}
  PROVE  Spec => []Inv
<1>1. Inv /\ [Next]_vars => Inv'
  BY Inductive
<1> QED
  BY Initially, <1>1, PTL DEF Spec

-----------------------------------------------------------------------------
(* What the invariant says.                                                *)

LEMMA InvHolds ==
  ASSUME Inv, Habits = {}
  PROVE  ExceptionHeld /\ SuspendedClean /\ LoopFlags
<1>1. Fits(ctl, Len(scope)) /\ FlagsFit(ctl, scope, uncaught)
  BY DEF Inv
<1>2. DOMAIN scope = 1..Len(scope) /\ DOMAIN ctl = 1..Len(ctl) /\ Len(scope) \in Nat \ {0}
  BY <1>1, LenProperties DEF Fits, FlagsFit
<1>3. Top(ctl) \in 1..Len(scope) /\ Frame = Top(ctl)
  <2>1. CASE ctl # <<>>
    BY <1>1, <2>1, TopFits DEF Frame, Running, Top, LastOf
  <2>2. CASE ctl = <<>>
    BY <1>2, <2>2 DEF Frame, Running, Top
  <2> QED
    BY <2>1, <2>2
<1>4. ExceptionHeld
  BY <1>1, <1>2, <1>3 DEF ExceptionHeld, FlagsFit, Current
<1>5. SuspendedClean
  <2>1. \A i \in DOMAIN ctl : ctl[i].frame <= Len(scope)
    <3>1. SUFFICES ASSUME NEW i \in 1..Len(ctl) PROVE ctl[i].frame <= Len(scope)
      BY <1>2
    <3>2. ctl # <<>>
      BY EmptySeq
    <3>3. ctl[i].frame \in 1..Len(scope)
      BY <1>1, <3>2, TopFits
    <3> QED
      BY <1>2, <3>3
  <2>2. \A i \in 1..Frame - 1 : i \in 1..Len(scope) /\ i # Top(ctl)
    BY <1>2, <1>3
  <2>3. \A i \in 1..Frame - 1 : scope[i] = {}
    BY <1>1, <2>2 DEF FlagsFit
  <2> QED
    BY <2>1, <2>3 DEF SuspendedClean
<1>6. LoopFlags
  <2>1. SUFFICES ASSUME Running PROVE LoopFlags
    BY DEF LoopFlags
  <2>2. Current(ctl, State, uncaught) /\ ctl # <<>> /\ (Inside(Loops) <=> Within(ctl, Loops))
    BY <2>1, Here
  <2> QED
    BY <2>2 DEF LoopFlags, Current
<1> QED
  BY <1>4, <1>5, <1>6

(* An exception that is thrown and neither caught nor reported is on a     *)
(* frame of the scope, however deep the calls and the tries (vm_exec_throw,*)
(* vm_raise_exception, vm_dismiss_stack).                                  *)
THEOREM ExceptionIsHeld ==
  ASSUME Habits = {}
  PROVE  Spec => []ExceptionHeld
<1>1. Inv => ExceptionHeld
  BY InvHolds
<1> QED
  BY Invariant, <1>1, PTL

(* Every handler has its frame in the scope, and a frame whose function    *)
(* waits for a call has no flag set (vm_exec, which tests them all).       *)
THEOREM SuspendedIsClean ==
  ASSUME Habits = {}
  PROVE  Spec => []SuspendedClean
<1>1. Inv => SuspendedClean
  BY InvHolds
<1> QED
  BY Invariant, <1>1, PTL

(* The flags of break and next never outlive the loop they are for         *)
(* (vm_exec_while, vm_exec_do, vm_exec_for, vm_exec_foreach).              *)
THEOREM LoopsResetFlags ==
  ASSUME Habits = {}
  PROVE  Spec => []LoopFlags
<1>1. Inv => LoopFlags
  BY InvHolds
<1> QED
  BY Invariant, <1>1, PTL

-----------------------------------------------------------------------------
(* FrameStates implements StructuredControl: the masks of flags on the      *)
(* frames amount to structured completions.  The invariant says which flags *)
(* a handler can find, and so which of the ways a construct can end its     *)
(* step is.                                                                *)

NestOf(c) == [i \in DOMAIN c |-> c[i].kind]
Comp      == IF Running THEN Completion(State) ELSE "normal"

-----------------------------------------------------------------------------
(* The sequence of handlers and the nest of constructs.                    *)

LEMMA NestLength ==
  ASSUME NEW c \in Seq(Entry)
  PROVE  /\ NestOf(c) \in Seq(Kinds) /\ Len(NestOf(c)) = Len(c) /\ Len(c) \in Nat
         /\ DOMAIN NestOf(c) = 1..Len(c)
         /\ \A i \in 1..Len(c) : NestOf(c)[i] = c[i].kind
         /\ NestOf(c) = <<>> <=> c = <<>>
<1>1. Len(c) \in Nat /\ DOMAIN c = 1..Len(c) /\ \A i \in 1..Len(c) : c[i] \in Entry
  BY LenProperties, ElementOfSeq
<1>2. NestOf(c) = [i \in 1..Len(c) |-> c[i].kind]
  BY <1>1 DEF NestOf
<1>3. NestOf(c) \in [1..Len(c) -> Kinds]
  BY <1>1, <1>2 DEF Entry
<1>4. NestOf(c) \in Seq(Kinds)
  BY <1>1, <1>3
<1>5. Len(NestOf(c)) = Len(c)
  BY <1>1, <1>3, <1>4, LenProperties
<1>6. NestOf(c) = <<>> <=> c = <<>>
  <2>1. NestOf(c) = <<>> <=> Len(NestOf(c)) = 0
    BY <1>4, EmptySeq
  <2>2. c = <<>> <=> Len(c) = 0
    BY EmptySeq
  <2> QED
    BY <1>5, <2>1, <2>2
<1> QED
  BY <1>1, <1>2, <1>4, <1>5, <1>6

LEMMA NestPush ==
  ASSUME NEW c \in Seq(Entry), NEW x \in Entry
  PROVE  NestOf(Append(c, x)) = Append(NestOf(c), x.kind)
<1> DEFINE e == Append(c, x)
           g == Append(NestOf(c), x.kind)
<1>1. /\ e \in Seq(Entry) /\ Len(e) = Len(c) + 1 /\ e[Len(c) + 1] = x
      /\ \A i \in 1..Len(c) : e[i] = c[i]
      /\ Len(c) \in Nat
  BY AppendProperties, LenProperties
<1>2. x.kind \in Kinds
  BY DEF Entry
<1>3. /\ g \in Seq(Kinds) /\ Len(g) = Len(c) + 1 /\ g[Len(c) + 1] = x.kind
      /\ \A i \in 1..Len(c) : g[i] = c[i].kind
  BY <1>2, NestLength, AppendProperties
<1>4. /\ NestOf(e) \in Seq(Kinds) /\ Len(NestOf(e)) = Len(e)
      /\ \A i \in 1..Len(e) : NestOf(e)[i] = e[i].kind
  BY <1>1, NestLength
<1> HIDE DEF e, g
<1>5. \A i \in 1..Len(c) + 1 : NestOf(e)[i] = g[i]
  BY <1>1, <1>3, <1>4, SMTT(30)
<1>6. NestOf(e) = g
  BY <1>1, <1>3, <1>4, <1>5, SeqEqual
<1> QED
  BY <1>6 DEF e, g

LEMMA NestPop ==
  ASSUME NEW c \in Seq(Entry), c # <<>>
  PROVE  NestOf(SubSeq(c, 1, Len(c) - 1)) = SubSeq(NestOf(c), 1, Len(NestOf(c)) - 1)
<1> DEFINE e == SubSeq(c, 1, Len(c) - 1)
           g == SubSeq(NestOf(c), 1, Len(c) - 1)
           l == Len(c)
<1>1. /\ e \in Seq(Entry) /\ Len(e) = l - 1
      /\ \A i \in 1..l - 1 : e[i] = c[i]
  BY ClosedElements DEF Pops
<1>2. /\ NestOf(c) \in Seq(Kinds) /\ Len(NestOf(c)) = l
      /\ \A i \in 1..l : NestOf(c)[i] = c[i].kind
      /\ l \in Nat \ {0}
  BY NestLength, EmptySeq
<1>3. \A i \in 1..l - 1 : NestOf(c)[i] \in Kinds
  BY <1>2, NestLength, ElementOfSeq
<1>4. /\ g \in Seq(Kinds)
      /\ Len(g) = IF 1 <= l - 1 THEN l - 1 - 1 + 1 ELSE 0
      /\ \A i \in 1..l - 1 - 1 + 1 : g[i] = NestOf(c)[1 + i - 1]
  BY <1>2, <1>3, SubSeqProperties
<1>5. /\ NestOf(e) \in Seq(Kinds) /\ Len(NestOf(e)) = Len(e)
      /\ \A i \in 1..Len(e) : NestOf(e)[i] = e[i].kind
  BY <1>1, NestLength
<1> HIDE DEF e, g, l
<1>6. Len(g) = l - 1 /\ \A i \in 1..l - 1 : g[i] = NestOf(c)[i]
  BY <1>2, <1>4
<1>7. \A i \in 1..l - 1 : i \in 1..l
  BY <1>2
<1>8. \A i \in 1..l - 1 : NestOf(e)[i] = g[i]
  BY <1>1, <1>2, <1>5, <1>6, <1>7, SMTT(30)
<1>9. NestOf(e) = g
  BY <1>1, <1>4, <1>5, <1>6, <1>8, SeqEqual
<1> QED
  BY <1>2, <1>9 DEF e, g, l

LEMMA NestReplace ==
  ASSUME NEW c \in Seq(Entry), c # <<>>, NEW k, NEW e,
         \/ e = [c EXCEPT ![Len(c)].kind = k]
         \/ \E f : e = [c EXCEPT ![Len(c)] = [kind |-> k, frame |-> f]]
  PROVE  NestOf(e) = [NestOf(c) EXCEPT ![Len(NestOf(c))] = k]
<1>1. Len(c) \in Nat \ {0} /\ DOMAIN c = 1..Len(c) /\ \A i \in 1..Len(c) : c[i] \in Entry
  BY EmptySeq, LenProperties, ElementOfSeq
<1>2. DOMAIN e = 1..Len(c) /\ \A i \in 1..Len(c) : i # Len(c) => e[i] = c[i]
  BY <1>1
<1>3. e[Len(c)].kind = k
  <2>1. CASE e = [c EXCEPT ![Len(c)].kind = k]
    <3>1. e[Len(c)] = [c[Len(c)] EXCEPT !.kind = k] /\ c[Len(c)] \in Entry
      BY <1>1, <2>1
    <3> QED
      BY <3>1 DEF Entry
  <2>2. CASE \E f : e = [c EXCEPT ![Len(c)] = [kind |-> k, frame |-> f]]
    BY <1>1, <2>2
  <2> QED
    BY <2>1, <2>2
<1>4. /\ Len(NestOf(c)) = Len(c) /\ DOMAIN NestOf(c) = 1..Len(c)
      /\ \A i \in 1..Len(c) : NestOf(c)[i] = c[i].kind
  BY NestLength
<1>5. NestOf(e) = [i \in 1..Len(c) |-> e[i].kind]
  BY <1>2 DEF NestOf
<1>6. \A i \in 1..Len(c) : NestOf(e)[i] = IF i = Len(c) THEN k ELSE NestOf(c)[i]
  BY <1>1, <1>2, <1>3, <1>4, <1>5
<1>7. NestOf(c) = [i \in 1..Len(c) |-> c[i].kind]
  BY <1>1 DEF NestOf
<1> QED
  BY <1>4, <1>5, <1>6, <1>7

-----------------------------------------------------------------------------
(* The steps of StructuredControl, in terms of FrameStates.                *)

LEMMA Completions ==
  /\ Completion({}) = "normal" /\ Completion({"Exception"}) = "exception"
  /\ Completion({"Next"}) = "next" /\ Completion({"Break"}) = "break"
  /\ \A S : "Exception" \in S => Completion(S) = "exception"
  /\ \A S : "Exception" \notin S /\ "Return" \in S => Completion(S) = "return"
BY DEF Completion

\* The flags of the frame that runs after the step.
LEMMA Read ==
  ASSUME ctl' # <<>>, NEW S, scope'[Top(ctl')] = S
  PROVE  State' = S /\ Comp' = Completion(S)
BY DEF Comp, State, Frame, Running, Top, LastOf

LEMMA Written ==
  ASSUME Inv, Habits = {}, Running, NEW S, SetState(S) \/ (scope' = scope /\ S = State)
  PROVE  scope'[Frame] = S
<1>1. Frame \in 1..Len(scope) /\ scope \in Seq(SUBSET Flags)
  BY Here DEF Inv, FlagsFit
<1>2. DOMAIN scope = 1..Len(scope)
  BY <1>1, LenProperties
<1> QED
  BY <1>1, <1>2 DEF SetState, State

\* Where a step of StructuredControl starts.
LEMMA Constructs ==
  ASSUME Inv, Habits = {}, Running
  PROVE  /\ ctl \in Seq(Entry) /\ ctl # <<>> /\ NestOf(ctl) # <<>>
         /\ Control!Innermost = Kind
         /\ Comp = Completion(State)
         /\ State \in SUBSET Flags
<1>1. ctl # <<>> /\ ctl \in Seq(Entry) /\ Kind = LastOf(ctl).kind
  BY Here DEF Inv, Fits
<1>2. Len(ctl) \in 1..Len(ctl)
  BY <1>1, EmptySeq, LenProperties
<1>3. NestOf(ctl)[Len(NestOf(ctl))] = Kind /\ NestOf(ctl) # <<>>
  BY <1>1, <1>2, NestLength DEF LastOf
<1>4. Control!Innermost = Kind
  BY <1>3 DEF Control!Innermost, NestOf
<1>5. State \in SUBSET Flags
  BY Here DEF Current
<1> QED
  BY <1>1, <1>3, <1>4, <1>5 DEF Comp

LEMMA Follows ==
  ASSUME Inv, Habits = {}, Running, NEW k, Comp' = "normal",
         \/ Become(k)
         \/ \E f : ctl' = [ctl EXCEPT ![Len(ctl)] = [kind |-> k, frame |-> f]]
  PROVE  Control!Follow(k)
<1>1. NestOf(ctl') = [NestOf(ctl) EXCEPT ![Len(NestOf(ctl))] = k]
  BY Constructs, NestReplace DEF Become
<1> QED
  BY <1>1 DEF Control!Follow, NestOf, Comp

LEMMA Opens ==
  ASSUME Inv, Habits = {}, Running, State = {}, Comp' = "normal", Len(ctl) < MaxNest,
         NEW x \in Entry, x.kind \in Control!Opens, ctl' = Append(ctl, x)
  PROVE  Control!Next
<1>1. NestOf(ctl') = Append(NestOf(ctl), x.kind) /\ Len(NestOf(ctl)) < MaxNest
  BY Constructs, NestPush, NestLength
<1>2. Comp = "normal" /\ NestOf(ctl) # <<>>
  BY Constructs, Completions
<1>3. Control!Open(x.kind)
  BY <1>1, <1>2 DEF Control!Open, NestOf, Comp
<1> QED
  BY <1>3 DEF Control!Next

LEMMA Closes ==
  ASSUME Inv, Habits = {}, Running,
         Control!EndPlain \/ Control!EndLoop \/ Control!EndTry \/ Control!EndCall
  PROVE  Control!Next
<1>1. NestOf(ctl) # <<>>
  BY Constructs
<1>2. Control!Close
  BY <1>1 DEF Control!Close, NestOf
<1> QED
  BY <1>2 DEF Control!Next

\* The innermost construct ends, and its completion is handed on: the ways the
\* steps of FrameStates do it.
LEMMA Ends ==
  ASSUME Inv, Habits = {}, Running, ctl' = Closed,
         \/ Kind \in Control!Plain /\ Comp' = Comp
         \/ Kind = "main" /\ Comp' = "normal"
         \/ Kind = "throw" /\ Comp' = "exception"
         \/ Kind = "return" /\ Comp' = IF Comp = "exception" THEN Comp ELSE "return"
         \/ Kind = "each" /\ Comp \in {"normal", "next"} /\ Comp' = "normal"
         \/ Kind \in Loops /\ Comp = "break" /\ Comp' = "normal"
         \/ Kind \in Loops /\ Comp \in {"return", "exception"} /\ Comp' = Comp
         \/ Kind = "try" /\ Comp # "exception" /\ Comp' = Comp
         \/ Kind = "args" /\ Comp # "normal" /\ Comp' = Comp
         \/ Kind \in Calls /\ Comp' = IF Comp = "exception" THEN Comp ELSE "normal"
  PROVE  Control!Next
<1>1. NestOf(ctl') = SubSeq(NestOf(ctl), 1, Len(NestOf(ctl)) - 1)
  BY Constructs, NestPop DEF Closed
<1>2. Control!Innermost = Kind
  BY Constructs
<1>3. CASE \/ Kind \in Control!Plain /\ Comp' = Comp
           \/ Kind = "main" /\ Comp' = "normal"
           \/ Kind = "throw" /\ Comp' = "exception"
           \/ Kind = "return" /\ Comp' = IF Comp = "exception" THEN Comp ELSE "return"
  <2>1. Control!EndPlain
    BY <1>1, <1>2, <1>3 DEF Control!EndPlain, Control!HandOn, NestOf, Comp
  <2> QED
    BY <2>1, Closes
<1>4. CASE \/ Kind = "each" /\ Comp \in {"normal", "next"} /\ Comp' = "normal"
           \/ Kind \in Loops /\ Comp = "break" /\ Comp' = "normal"
           \/ Kind \in Loops /\ Comp \in {"return", "exception"} /\ Comp' = Comp
  <2>1. Control!EndLoop
    BY <1>1, <1>2, <1>4 DEF Control!EndLoop, Control!HandOn, Control!Loops, Loops, NestOf, Comp
  <2> QED
    BY <2>1, Closes
<1>5. CASE Kind = "try" /\ Comp # "exception" /\ Comp' = Comp
  <2>1. Control!EndTry
    BY <1>1, <1>2, <1>5 DEF Control!EndTry, Control!HandOn, NestOf, Comp
  <2> QED
    BY <2>1, Closes
<1>6. CASE \/ Kind = "args" /\ Comp # "normal" /\ Comp' = Comp
           \/ Kind \in Calls /\ Comp' = IF Comp = "exception" THEN Comp ELSE "normal"
  <2>1. Control!EndCall
    BY <1>1, <1>2, <1>6 DEF Control!EndCall, Control!HandOn, Control!Calls, Calls, NestOf, Comp
  <2> QED
    BY <2>1, Closes
<1> QED
  BY <1>3, <1>4, <1>5, <1>6

-----------------------------------------------------------------------------
(* Every step of FrameStates is one of StructuredControl, or none.         *)

\* The handler of an expression, a list of statements, a loop or a try
\* statement ends, or another one takes its place, all in the same frame.
LEMMA StaysIn ==
  ASSUME Inv, Habits = {}, Running, Kind \in Plain,
         NEW S, SetState(S) \/ (scope' = scope /\ S = State)
  PROVE  /\ ctl' = Closed => Comp' = Completion(S)
         /\ \A k \in Plain \ {"return"} : Become(k) => Comp' = Completion(S)
<1>1. scope'[Frame] = S
  BY Written
<1>2. ASSUME ctl' = Closed PROVE Comp' = Completion(S)
  <2>1. ctl' # <<>> /\ Top(ctl') = Frame
    BY <1>2, ClosedFacts
  <2> QED
    BY <1>1, <2>1, Read
<1>3. ASSUME NEW k \in Plain \ {"return"}, Become(k) PROVE Comp' = Completion(S)
  <2>1. ctl' # <<>> /\ Top(ctl') = Frame
    BY <1>3, BecomeFacts
  <2> QED
    BY <1>1, <2>1, Read
<1> QED
  BY <1>2, <1>3

LEMMA StatementMaps ==
  ASSUME Inv, Habits = {}, Statement
  PROVE  Control!Next
<1>1. Goes /\ Running /\ Kind \in Bodies /\ uncaught' = uncaught
  BY DEF Statement, Block, Throw, Return, Try, Jump, Loop, Goes
<1>2. /\ State = {} /\ ctl # <<>> /\ Frame \in 1..Len(scope) /\ Frame = Top(ctl)
      /\ ctl \in Seq(Entry)
      /\ Kind = LastOf(ctl).kind /\ Fits(ctl, Newest)
  BY <1>1, Here DEF Inv, Fits, Newest
<1>3. ASSUME NEW k \in Plain \ {"while", "each", "catch", "finally"}, Open(k), scope' = scope
      PROVE  Control!Next
  <2> DEFINE x == [kind |-> k, frame |-> Frame]
  <2>1. x \in Entry /\ x.kind = k /\ k \in Control!Opens
    BY <1>2 DEF Entry, Plain, Kinds, Bodies, Exprs, Control!Opens
  <2>2. ctl' = Append(ctl, x) /\ Len(ctl) < MaxNest
    BY <1>3 DEF Open
  <2> HIDE DEF x
  <2>3. ctl' # <<>> /\ Top(ctl') = x.frame
    BY <1>2, <2>1, <2>2, AppendProperties, EmptySeq DEF Top, LastOf
  <2>4. x.frame = Frame
    BY DEF x
  <2>5. Comp' = Completion({})
    BY <1>1, <1>2, <1>3, <2>3, <2>4, Read DEF State
  <2> QED
    BY <1>1, <1>2, <2>1, <2>2, <2>5, Opens, Completions
<1>4. CASE Block \/ Throw \/ Return \/ Try
  <2>1. \E k \in {"block", "throw", "return", "try"} : Open(k)
    BY <1>4 DEF Block, Throw, Return, Try
  <2>2. scope' = scope
    BY <1>4 DEF Block, Throw, Return, Try
  <2> QED
    BY <1>3, <2>1, <2>2 DEF Plain
<1>5. ASSUME NEW k \in Loops, Loop(k) PROVE Control!Next
  <2>1. Open(IF k = "while" THEN "whiletest" ELSE "eachtest") /\ scope' = scope
    BY <1>5 DEF Loop
  <2>2. \E h \in {"whiletest", "eachtest"} : Open(h)
    BY <2>1
  <2> QED
    BY <1>3, <2>1, <2>2 DEF Plain
<1>6. ASSUME NEW flag \in {"Break", "Next"}, Jump(flag) PROVE Control!Next
  <2>1. ctl' = ctl /\ SetState({flag}) /\ Inside(Loops)
    BY <1>2, <1>6 DEF Jump
  <2>2. Comp' = Completion({flag})
    BY <1>1, <1>2, <2>1, Written, Read
  <2> DEFINE c == IF flag = "Break" THEN "break" ELSE "next"
  <2>3. Comp' = c /\ Comp = "normal" /\ c \in {"break", "next"}
    BY <1>1, <1>2, <2>2, Completions, Constructs
  <2> HIDE DEF c
  <2>4. PICK i \in 1..Len(ctl) : ctl[i].kind \in Loops /\ ctl[i].frame = Top(ctl)
    BY <1>1, <2>1, Here DEF Within
  <2>5. /\ NestFits(ctl) /\ Len(ctl) \in 1..Len(ctl)
        /\ LastOf(ctl) = ctl[Len(ctl)] /\ Top(ctl) = LastOf(ctl).frame
        /\ \A j \in 1..Len(ctl) : ctl[j].frame \in 1..Newest /\ ctl[j].kind \in Kinds
        /\ Len(ctl) \in Nat /\ Newest \in Nat
    BY <1>2, TopFits
  <2>6. ASSUME NEW j \in i..Len(ctl) PROVE ctl[j].kind \in Bodies \ Calls
    <3>1. j \in 1..Len(ctl) /\ i <= j /\ j <= Len(ctl)
      BY <2>4, <2>5
    <3>2. ctl[j].frame = Top(ctl)
      <4>1. ctl[i].frame <= ctl[j].frame
        BY <2>4, <2>5, <3>1 DEF NestFits
      <4>2. ctl[j].frame <= ctl[Len(ctl)].frame
        BY <2>5, <3>1 DEF NestFits
      <4> QED
        BY <2>4, <2>5, <3>1, <4>1, <4>2
    <3>3. ctl[j].kind \notin Calls
      <4>1. CASE j = i
        BY <2>4, <4>1 DEF Loops, Calls
      <4>2. CASE i < j
        BY <2>4, <2>5, <3>1, <3>2, <4>2 DEF NestFits
      <4> QED
        BY <3>1, <4>1, <4>2
    <3>4. ctl[j].kind \notin Exprs
      <4>1. LastOf(ctl).kind \in Bodies /\ "args" \notin Bodies /\ Bodies \cap Exprs = {}
        BY <1>1, <1>2 DEF Bodies, Exprs
      <4>2. CASE j = Len(ctl)
        BY <2>5, <4>1, <4>2
      <4>3. CASE j < Len(ctl)
        BY <2>5, <3>1, <3>2, <4>1, <4>3 DEF NestFits
      <4> QED
        BY <2>5, <3>1, <4>2, <4>3
    <3> QED
      BY <2>5, <3>1, <3>3, <3>4 DEF Kinds
  <2>7. /\ Len(NestOf(ctl)) = Len(ctl) /\ DOMAIN NestOf(ctl) = 1..Len(ctl)
        /\ \A j \in 1..Len(ctl) : NestOf(ctl)[j] = ctl[j].kind
    BY <1>2, NestLength
  <2>8. \A j \in i..Len(ctl) : j \in 1..Len(ctl)
    BY <2>4, <2>5
  <2>9. /\ i \in DOMAIN NestOf(ctl) /\ NestOf(ctl)[i] \in Loops
        /\ \A j \in i..Len(NestOf(ctl)) : NestOf(ctl)[j] \in Bodies \ Calls
    BY <2>4, <2>6, <2>7, <2>8
  <2>10. NestOf(ctl') = NestOf(ctl)
    BY <2>1
  <2>11. Control!Jump(c)
    BY <2>3, <2>9, <2>10 DEF Control!Jump, Control!Loops, Control!Bodies, Control!Calls,
                            Loops, Bodies, Calls, NestOf, Comp
  <2> QED
    BY <2>3, <2>11 DEF Control!Next
<1> QED
  BY <1>4, <1>5, <1>6 DEF Statement

LEMMA HandlerMaps ==
  ASSUME Inv, Habits = {}, Handler
  PROVE  Control!Next \/ UNCHANGED Control!vars
<1>1. Running /\ Kind \in Plain
  BY DEF Handler, BlockEnds, Thrown, Returned, Iterate, Over, WhileBodyEnds, EachBodyEnds,
         Catch, Finally, TryEnds, Goes, Plain
<1>2. /\ Current(ctl, State, uncaught) /\ ctl # <<>> /\ Kind = LastOf(ctl).kind
      /\ Frame = Top(ctl) /\ (Goes => State = {})
  BY <1>1, Here
<1>3. /\ State \in SUBSET Flags
      /\ "Next" \in State => State = {"Next"}
      /\ Kind \in Exprs => State \subseteq {"Exception"}
  BY <1>2 DEF Current
<1>4. Control!Innermost = Kind /\ Comp = Completion(State)
  BY <1>1, Constructs
\* How the handler goes on: it hands the completion of its flags on, or
\* is followed by another one.
<1>5. ASSUME NEW S, SetState(S) \/ (scope' = scope /\ S = State), ctl' = Closed
      PROVE  Comp' = Completion(S)
  BY <1>1, <1>5, StaysIn
<1>6. ASSUME NEW k \in Plain \ {"return"}, SetState({}) \/ (scope' = scope /\ {} = State), Become(k)
      PROVE  Control!Follow(k)
  BY <1>1, <1>6, StaysIn, Follows, Completions
<1>7. CASE BlockEnds \/ Over
  <2>1. Kind \in Control!Plain /\ ctl' = Closed /\ scope' = scope
    BY <1>7 DEF BlockEnds, Over, Control!Plain
  <2>2. Comp' = Comp
    BY <1>4, <1>5, <2>1
  <2> QED
    BY <1>1, <2>1, <2>2, Ends
<1>8. CASE Thrown
  <2>1. Kind = "throw" /\ ctl' = Closed /\ SetState(State \cup {"Exception"})
    BY <1>8 DEF Thrown
  <2>2. Comp' = "exception"
    BY <1>5, <2>1, Completions
  <2> QED
    BY <1>1, <2>1, <2>2, Ends
<1>9. CASE Returned
  <2>1. Kind = "return" /\ ctl' = Closed /\ SetState(State \cup {"Break", "Return"})
    BY <1>9 DEF Returned
  <2>2. Comp' = Completion(State \cup {"Break", "Return"})
    BY <1>5, <2>1
  <2>3. Completion(State \cup {"Break", "Return"}) = IF Comp = "exception" THEN Comp ELSE "return"
    BY <1>4 DEF Completion
  <2> QED
    BY <1>1, <2>1, <2>2, <2>3, Ends
<1>10. CASE Iterate
  <2>1. State = {} /\ scope' = scope /\ Comp = "normal"
    BY <1>2, <1>4, <1>10, Completions DEF Iterate
  <2>2. \/ Kind = "whiletest" /\ Become("while")
        \/ Kind = "eachtest" /\ Become("each")
    BY <1>10 DEF Iterate
  <2>3. \/ Kind = "whiletest" /\ Control!Follow("while")
        \/ Kind = "eachtest" /\ Control!Follow("each")
    BY <1>6, <2>1, <2>2 DEF Plain
  <2>4. Control!EndLoop
    BY <1>4, <2>1, <2>3 DEF Control!EndLoop, Comp
  <2> QED
    BY <1>1, <2>4, Closes
<1>12. CASE WhileBodyEnds
  <2>1. Kind = "while"
    BY <1>12 DEF WhileBodyEnds
  <2>2. CASE State \cap {"Exception", "Return"} # {}
    <3>1. ctl' = Closed /\ scope' = scope /\ Comp \in {"exception", "return"}
      BY <1>4, <1>12, <2>2, Completions DEF WhileBodyEnds
    <3>2. Comp' = Comp
      BY <1>4, <1>5, <3>1
    <3> QED
      BY <1>1, <2>1, <3>1, <3>2, Ends DEF Loops
  <2>3. CASE State \cap {"Exception", "Return"} = {}
    <3>1. SetState({}) /\ IF "Break" \in State THEN ctl' = Closed ELSE Become("whiletest")
      <4>1. State \ {"Next", "Break"} = {}
        BY <1>3, <2>3 DEF Flags
      <4> QED
        BY <1>12, <2>3, <4>1 DEF WhileBodyEnds
    <3>2. IF "Break" \in State THEN Comp = "break" ELSE Comp \in {"normal", "next"}
      BY <1>3, <1>4, <2>3 DEF Completion
    <3>3. CASE "Break" \in State
      <4>1. Comp' = "normal" /\ ctl' = Closed
        BY <1>5, <3>1, <3>3, Completions
      <4> QED
        BY <1>1, <2>1, <3>2, <3>3, <4>1, Ends DEF Loops
    <3>4. CASE "Break" \notin State
      <4>1. Control!Follow("whiletest")
        BY <1>6, <3>1, <3>4 DEF Plain
      <4>2. Control!EndLoop
        BY <1>4, <2>1, <3>2, <3>4, <4>1 DEF Control!EndLoop, Comp
      <4> QED
        BY <1>1, <4>2, Closes
    <3> QED
      BY <3>3, <3>4
  <2> QED
    BY <2>2, <2>3
<1>13. CASE EachBodyEnds
  <2>1. Kind = "each"
    BY <1>13 DEF EachBodyEnds
  <2>2. CASE State \cap {"Exception", "Return"} # {}
    <3>1. ctl' = Closed /\ scope' = scope /\ Comp \in {"exception", "return"}
      BY <1>4, <1>13, <2>2, Completions DEF EachBodyEnds
    <3>2. Comp' = Comp
      BY <1>4, <1>5, <3>1
    <3> QED
      BY <1>1, <2>1, <3>1, <3>2, Ends DEF Loops
  <2>3. CASE State \cap {"Exception", "Return"} = {}
    <3>1. /\ "Break" \in State => State \ {"Break"} = {}
          /\ "Break" \notin State => State \ {"Next"} = {}
      BY <1>3, <2>3 DEF Flags
    <3>2. SetState({}) /\ IF "Break" \in State THEN ctl' = Closed ELSE ctl' \in {ctl, Closed}
      BY <1>13, <2>3, <3>1 DEF EachBodyEnds
    <3>3. IF "Break" \in State THEN Comp = "break" ELSE Comp \in {"normal", "next"}
      BY <1>3, <1>4, <2>3 DEF Completion
    <3>4. CASE ctl' = Closed
      <4>1. Comp' = "normal"
        BY <1>5, <3>2, <3>4, Completions
      <4> QED
        BY <1>1, <2>1, <3>3, <3>4, <4>1, Ends DEF Loops
    <3>5. CASE ctl' = ctl /\ "Break" \notin State
      <4>1. Comp' = "normal"
        BY <1>1, <1>2, <3>2, <3>5, Written, Read, Completions
      <4>2. \E f : ctl' = [ctl EXCEPT ![Len(ctl)] = [kind |-> "each", frame |-> f]]
        <5>1. ctl[Len(ctl)] = [kind |-> "each", frame |-> Frame]
          <6>1. ctl[Len(ctl)] \in Entry
            BY <1>1, <1>2, TopFits, Here DEF Inv, LastOf
          <6> QED
            BY <1>2, <2>1, <6>1 DEF LastOf, Entry, Top
        <5>2. ctl = [ctl EXCEPT ![Len(ctl)] = ctl[Len(ctl)]]
          <6>1. DOMAIN ctl = 1..Len(ctl) /\ ctl \in [1..Len(ctl) -> Entry]
            BY <1>1, Constructs, LenProperties
          <6> QED
            BY <6>1
        <5> QED
          BY <3>5, <5>1, <5>2
      <4>3. Control!Follow("each")
        BY <1>1, <4>1, <4>2, Follows
      <4>4. Control!EndLoop
        BY <1>4, <2>1, <3>3, <3>5, <4>3 DEF Control!EndLoop, Comp
      <4> QED
        BY <1>1, <4>4, Closes
    <3> QED
      BY <3>2, <3>4, <3>5
  <2> QED
    BY <2>2, <2>3
<1>14. CASE Catch
  <2>1. /\ Kind = "try" /\ "Exception" \in State
        /\ SetState(State \ {"Exception"}) /\ Become("catch")
    BY <1>14 DEF Catch
  <2>2. State \ {"Exception"} = {}
    <3>1. Within(ctl, {"try"})
      <4>1. Len(ctl) \in 1..Len(ctl) /\ LastOf(ctl) = ctl[Len(ctl)] /\ Top(ctl) = LastOf(ctl).frame
        BY <1>1, <1>2, TopFits, Here DEF Inv
      <4> QED
        BY <1>2, <2>1, <4>1 DEF Within
    <3>2. "Return" \notin State /\ "Break" \notin State /\ "Next" \notin State
      BY <1>2, <2>1, <3>1 DEF Current
    <3> QED
      BY <1>3, <3>2 DEF Flags
  <2>3. Control!Follow("catch") /\ Comp = "exception"
    BY <1>4, <1>6, <2>1, <2>2, Completions DEF Plain
  <2>4. Control!EndTry
    BY <1>4, <2>1, <2>3 DEF Control!EndTry, Comp
  <2> QED
    BY <1>1, <2>4, Closes
<1>15. CASE Finally
  <2>1. State = {} /\ scope' = scope /\ Kind \in {"try", "catch"} /\ Become("finally")
    BY <1>2, <1>15 DEF Finally
  <2>2. Control!Follow("finally") /\ Comp = "normal"
    BY <1>4, <1>6, <2>1, Completions DEF Plain
  <2>3. Control!EndTry
    BY <1>4, <2>1, <2>2 DEF Control!EndTry, Comp
  <2> QED
    BY <1>1, <2>3, Closes
<1>16. CASE TryEnds
  <2>1. /\ Kind \in {"try", "catch", "finally"}
        /\ Kind = "try" => "Exception" \notin State
        /\ ctl' = Closed /\ scope' = scope
    BY <1>16 DEF TryEnds
  <2>2. Comp' = Comp /\ (Kind = "try" => Comp # "exception")
    <3>1. "Exception" \notin State => Completion(State) # "exception"
      BY DEF Completion
    <3> QED
      BY <1>4, <1>5, <2>1, <3>1
  <2> QED
    BY <1>1, <2>1, <2>2, Ends DEF Control!Plain
<1> QED
  BY <1>7, <1>8, <1>9, <1>10, <1>12, <1>13, <1>14, <1>15, <1>16 DEF Handler

LEMMA FunctionMaps ==
  ASSUME Inv, Habits = {}, Function
  PROVE  Control!Next
<1>1. Running
  BY DEF Function, Call, Overload, Raise, ArgsFail, Invoke, CallEnds, OverloadEnds, NativeEnds,
         Evaluates, Goes
<1>2. /\ Current(ctl, State, uncaught) /\ ctl # <<>> /\ Kind = LastOf(ctl).kind
      /\ Frame = Top(ctl) /\ Frame \in 1..Newest /\ Newest \in Nat \ {0}
      /\ Kind # "args" => Frame = Newest
      /\ Goes => State = {}
  BY <1>1, Here DEF Newest
<1>3. /\ Control!Innermost = Kind /\ Comp = Completion(State)
      /\ ctl \in Seq(Entry) /\ scope \in Seq(SUBSET Flags)
  BY <1>1, Constructs DEF Inv, FlagsFit
\* A handler is opened by a call, or by the method of an overloaded operator.
<1>4. CASE Call \/ Overload
  <2>1. Evaluates /\ State = {} /\ scope' = Append(scope, {}) /\ Len(ctl) < MaxNest
    BY <1>2, <1>4 DEF Call, Overload, Evaluates, Open
  <2>2. PICK x \in {[kind |-> "args", frame |-> Frame], [kind |-> "overload", frame |-> Newest + 1]} :
          ctl' = Append(ctl, x)
    BY <1>4 DEF Call, Overload, Open
  <2>3. x \in Entry /\ x.kind \in Control!Opens /\ x.frame \in {Frame, Newest + 1}
    BY <1>2 DEF Entry, Kinds, Exprs, Calls, Control!Opens
  <2>4. ctl' # <<>> /\ Top(ctl') = x.frame
    BY <1>3, <2>2, <2>3, AppendProperties, EmptySeq DEF Top, LastOf
  <2>5. scope'[Frame] = {} /\ scope'[Newest + 1] = {}
    <3>1. /\ \A i \in 1..Len(scope) : Append(scope, {})[i] = scope[i]
          /\ Append(scope, {})[Len(scope) + 1] = {}
      BY <1>3, AppendProperties
    <3> QED
      BY <1>2, <2>1, <3>1 DEF Newest, State
  <2>6. Comp' = Completion({})
    BY <2>3, <2>4, <2>5, Read
  <2> QED
    BY <1>1, <2>1, <2>2, <2>3, <2>6, Opens, Completions
\* Its arguments are known, and the function starts.
<1>5. ASSUME NEW k \in {"call", "builtin", "native"}, Invoke(k) PROVE Control!Next
  <2>1. State = {} /\ State' = {}
    BY <1>5, InvokeInv
  <2>2. Kind = "args" /\ ctl' = [ctl EXCEPT ![Len(ctl)] = [kind |-> k, frame |-> Newest]]
    BY <1>5 DEF Invoke
  <2>3. Comp = "normal" /\ Comp' = "normal"
    BY <1>3, <2>1, Completions DEF Comp
  <2>4. Control!Follow(k)
    BY <1>1, <2>2, <2>3, Follows
  <2>5. Control!EndCall
    BY <1>3, <2>2, <2>3, <2>4 DEF Control!EndCall, Comp
  <2> QED
    BY <1>1, <2>5, Closes
\* The call ends: an exception is all that is handed on.
<1>6. CASE ArgsFail \/ CallEnds \/ OverloadEnds \/ NativeEnds
  <2>1. /\ ctl' = Closed
        /\ scope'[Top(Closed)] = IF "Exception" \in State THEN {"Exception"} ELSE {}
    BY <1>6, EndScope
  <2>2. Closed # <<>>
    <3>1. Kind \in Pushing
      BY <1>6, EndScope
    <3> QED
      BY <1>1, <3>1, EndFacts
  <2>3. Comp' = IF "Exception" \in State THEN "exception" ELSE "normal"
    BY <2>1, <2>2, Read, Completions
  <2>4. Comp = "exception" <=> "Exception" \in State
    BY <1>3 DEF Completion
  <2>5. \/ Kind = "args" /\ Comp # "normal" /\ Comp' = Comp
        \/ Kind \in Calls /\ Comp' = IF Comp = "exception" THEN Comp ELSE "normal"
    <3>1. \/ Kind = "args" /\ "Exception" \in State
          \/ Kind \in Calls
      BY <1>6 DEF ArgsFail, CallEnds, OverloadEnds, NativeEnds, Calls
    <3> QED
      BY <2>3, <2>4, <3>1
  <2> QED
    BY <1>1, <2>1, <2>5, Ends
\* The machine fails.
<1>7. CASE Raise
  <2>1. /\ State = {} /\ Frame = Newest /\ ctl' = ctl
        /\ scope' = [scope EXCEPT ![Newest] = @ \cup {"Exception"}]
    BY <1>2, <1>7 DEF Raise, Evaluates, Goes
  <2>2. SetState({"Exception"})
    <3>1. scope[Newest] \cup {"Exception"} = {"Exception"}
      BY <2>1 DEF State
    <3> QED
      BY <2>1, <3>1 DEF SetState
  <2>3. Comp = "normal" /\ Comp' = "exception"
    BY <1>1, <1>2, <1>3, <2>1, <2>2, Written, Read, Completions
  <2>4. NestOf(ctl') = NestOf(ctl) /\ NestOf(ctl) # <<>>
    BY <1>1, <2>1, Constructs
  <2>5. Control!Fail
    BY <2>3, <2>4 DEF Control!Fail, NestOf, Comp
  <2> QED
    BY <2>5 DEF Control!Next
<1> QED
  BY <1>4, <1>5, <1>6, <1>7 DEF Function

LEMMA FinishMaps ==
  ASSUME Inv, Habits = {}, Finish
  PROVE  Control!Next
<1>1. Running /\ Kind = "main" /\ ctl' = <<>>
  BY DEF Finish
<1>2. ctl # <<>> /\ Fits(ctl, Newest) /\ LastOf(ctl).kind = "main"
  BY <1>1, Here DEF Inv, Newest
<1>3. Closed = <<>>
  BY <1>2, MainFits DEF Closed
<1>4. Comp' = "normal"
  BY <1>1 DEF Comp, Running
<1> QED
  BY <1>1, <1>3, <1>4, Ends

LEMMA StepMaps ==
  ASSUME Inv, Habits = {}, [Next]_vars
  PROVE  Control!Next \/ UNCHANGED Control!vars
<1>1. CASE Terminated \/ UNCHANGED vars
  <2>1. ctl' = ctl /\ scope' = scope
    BY <1>1 DEF Terminated, vars
  <2>2. NestOf(ctl') = NestOf(ctl)
    BY <2>1
  <2>3. Comp' = Comp
    BY <2>1 DEF Comp, State, Frame, Running
  <2> QED
    BY <2>2, <2>3 DEF Control!vars, NestOf, Comp
<1> QED
  BY <1>1, StatementMaps, HandlerMaps, FunctionMaps, FinishMaps DEF Next

LEMMA InitMaps == Init => Control!Init
<1> SUFFICES ASSUME Init PROVE Control!Init
  OBVIOUS
<1>1. ctl = <<[kind |-> "main", frame |-> 1]>> /\ scope = <<{}>>
  BY DEF Init
<1>2. Len(ctl) = 1 /\ DOMAIN ctl = {1} /\ ctl[1].kind = "main" /\ ctl[1].frame = 1 /\ ctl # <<>>
  BY <1>1
<1>3. [i \in DOMAIN ctl |-> ctl[i].kind] = <<"main">>
  BY <1>2
<1>4. Running /\ State = {}
  BY <1>1, <1>2 DEF Running, State, Frame
<1> QED
  BY <1>3, <1>4, Completions DEF Control!Init

(* The flags the handlers of vm_exec set, test, copy and clear amount to   *)
(* structured control: a statement starts only when the one before it      *)
(* completed normally, loops absorb break and next, try absorbs exceptions *)
(* and calls absorb returns, and nothing else is absorbed.                 *)
THEOREM FlagsAreCompletions ==
  ASSUME Habits = {}
  PROVE  Spec => ImplementsControl
<1>1. Inv /\ [Next]_vars => [Control!Next]_Control!vars
  BY StepMaps
<1>2. Init => Control!Init
  BY InitMaps
<1> QED
  BY Invariant, <1>1, <1>2, PTL DEF Spec, ImplementsControl, Control!Spec

=============================================================================
