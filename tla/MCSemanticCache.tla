--------------------------- MODULE MCSemanticCache ---------------------------
(* Small instances of SemanticCache for TLC. *)
EXTENDS SemanticCache, TLC

CONSTANTS k1, k2, k3, i1, i2

\* k1 is made of i1; k2 of k1; k3 of both inputs and of k2.
ChainInputs == k1 :> {i1} @@ k2 :> {} @@ k3 :> {i1, i2}
ChainQueries == k1 :> {} @@ k2 :> {k1} @@ k3 :> {k2}

AnyThread == Permutations(Threads)
=============================================================================
