-------------------------- MODULE MCPersistentCache --------------------------
(* Small instances of PersistentCache for TLC. *)
EXTENDS PersistentCache, TLC

AnyProcess == Permutations(Procs)
=============================================================================
