------------------------------ MODULE MCTcpIo ------------------------------
(***************************************************************************)
(* Instances of the model of async TCP streams.                            *)
(***************************************************************************)
EXTENDS TcpIo
=============================================================================
