--------------------------- MODULE MCProcessEvents ---------------------------
(* Small instances of ProcessEvents for TLC. *)
EXTENDS ProcessEvents

\* Output on both streams, one of which ends within a scalar.
BothStreams == {[out |-> <<"l">>, err |-> <<"a">>]}

\* One byte of text, or a scalar that is cut.
ShortScripts == {[out |-> <<b>>, err |-> <<>>] : b \in {"a", "l"}}
=============================================================================
