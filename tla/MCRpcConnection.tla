-------------------------- MODULE MCRpcConnection --------------------------
(* Instances of RpcConnection for TLC: three requests of different kinds.  *)
EXTENDS RpcConnection

CONSTANTS r1, r2, r3

=============================================================================
