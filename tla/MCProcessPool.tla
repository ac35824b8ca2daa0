---------------------------- MODULE MCProcessPool ----------------------------
(* Small instances of ProcessPool for TLC. *)
EXTENDS ProcessPool, TLC

Symmetry == Permutations(Tasks)
=============================================================================
