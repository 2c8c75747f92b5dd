------------------------- MODULE MCGarbageCollector -------------------------
(* GarbageCollector with the symmetry of its plain objects for TLC. *)
EXTENDS GarbageCollector, TLC

Plain == Obj \ (Refs \cup Const \cup Statics \cup Dtors)
PlainSymmetry == Permutations(Plain)

=============================================================================
