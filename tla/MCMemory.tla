------------------------------ MODULE MCMemory ------------------------------
(* A script with two variables and a function of one parameter.            *)
EXTENDS Memory

CONSTANTS x, y, p

MCVariables == {x, y}
MCLiteral == {"literal"}
MCFixed == {"literal", "void"}
MCCalls == {"sum", "reference", "item", "array"}
MCLoops == {"null", "vargs", "array", "map", "new", "attribute", "construct"}
MCNone == {}
MCAll == AllHabits
Symmetry == Permutations(MCVariables)
=============================================================================
