------------------------------ MODULE MCMemory ------------------------------
(* Small instances of Memory for TLC. *)
EXTENDS Memory, TLC

Symmetry == Permutations(Records)
=============================================================================
