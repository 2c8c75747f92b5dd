--------------------------- MODULE MCThreadScopes ---------------------------
(* ThreadScopes with interchangeable workers for TLC. *)
EXTENDS ThreadScopes, TLC

WorkerSymmetry == Permutations(Threads \ {Main})

=============================================================================
