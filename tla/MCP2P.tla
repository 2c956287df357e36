------------------------------- MODULE MCP2P -------------------------------
(* Instances of P2P for TLC. *)
EXTENDS P2P, TLC

CONSTANTS f, s, a

\* Every peer has an address of its own.
OwnAddress == f :> 1 @@ s :> 2 @@ a :> 3
=============================================================================
