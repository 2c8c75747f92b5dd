----------------------------- MODULE MCClasses -----------------------------
(* Three classes with overloaded methods, a counter, a destructor and      *)
(* descriptors; the second and the third may extend the ones before.       *)
EXTENDS Classes, TLC

CONSTANTS x, y

MCVariables == {x, y}
MCNames == <<"A", "B">>
MCHierarchy == <<"A", "B", "C">>

LOCAL Plain(name, access) == [name |-> name, access |-> access, static |-> FALSE, value |-> Void]
LOCAL Static(name, value) == [name |-> name, access |-> "public", static |-> TRUE, value |-> value]
LOCAL Method(name, argc, vargs, access) ==
  [name |-> name, argc |-> argc, vargs |-> vargs, access |-> access]

MCCounting ==
  [attributes |-> <<Static("count", Number(0))>>,
   methods    |-> <<Method("constructor", 1, FALSE, "public"), Method("__expire", 0, FALSE, "private"),
                    Method("m", 0, FALSE, "public"), Method("m", 1, FALSE, "public")>>]
MCTagged ==
  [attributes |-> <<Static("tag", Text), Plain("a", "private")>>,
   methods    |-> <<Method("m", 1, TRUE, "public"), Method("__expire", 0, FALSE, "public"),
                    Method("__method", 2, FALSE, "public"), Method("__attribute", 1, FALSE, "public"),
                    Method("__attribute", 2, FALSE, "public"), Method("+", 1, FALSE, "public")>>]
MCOverriding ==
  [attributes |-> <<>>, methods |-> <<Method("m", 0, FALSE, "private"), Method("m", 2, FALSE, "public")>>]

MCBodies == {MCCounting, MCTagged, MCOverriding}
MCNone == {}
Symmetry == Permutations(MCVariables)
=============================================================================
