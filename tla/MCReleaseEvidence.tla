-------------------------- MODULE MCReleaseEvidence --------------------------
(* Small instances of ReleaseEvidence for TLC. *)
EXTENDS ReleaseEvidence, TLC

AnyProcess == Permutations(Procs)
=============================================================================
