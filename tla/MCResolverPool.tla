--------------------------- MODULE MCResolverPool ---------------------------
(* Small instances of ResolverPool for TLC. *)
EXTENDS ResolverPool
=============================================================================
