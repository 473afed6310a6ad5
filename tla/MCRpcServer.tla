---------------------------- MODULE MCRpcServer ----------------------------
(* Instances of RpcServer for TLC: one or two acceptors on two io_contexts. *)
EXTENDS RpcServer, TLC

CONSTANTS k1, k2, t1, t2

\* The connections, and the threads that stop the server, are interchangeable.
ServerSymmetry == Permutations(Conn) \cup Permutations(Stopper)

=============================================================================
