---------------------------- MODULE MCRpcClient ----------------------------
(* Instances of RpcClient for TLC: two or three calls, one or two sockets. *)
EXTENDS RpcClient, TLC

CONSTANTS r1, r2, r3, w1    \* calls of send_request, a second connect()

\* The calls without a timeout and of normal size are interchangeable.
ReqSymmetry == Permutations(Req \ (Timed \cup Large))

=============================================================================
