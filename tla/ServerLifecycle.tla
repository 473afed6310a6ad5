-------------------------- MODULE ServerLifecycle --------------------------
(***************************************************************************)
(* What coro_rpc_server promises its user, whatever its threads do: it is  *)
(* started once, it serves a connection only while it runs, each at most   *)
(* once, and when stop() is through nobody is served any more.             *)
(***************************************************************************)
CONSTANT Conn

VARIABLES
    phase,      \* "init", "started" or "stop"
    live,       \* the connections being served
    served      \* those, and the ones served before

vars == <<phase, live, served>>

Init == phase = "init" /\ live = {} /\ served = {}

Start == phase = "init" /\ phase' = "started" /\ UNCHANGED <<live, served>>

\* stop() before start, or a listen that failed.
Abandon == phase = "init" /\ phase' = "stop" /\ UNCHANGED <<live, served>>

Serve(k) ==
    /\ phase = "started" /\ k \notin served
    /\ live' = live \cup {k} /\ served' = served \cup {k} /\ UNCHANGED phase

Leave(k) == k \in live /\ live' = live \ {k} /\ UNCHANGED <<phase, served>>

Stop ==
    /\ phase = "started" /\ live = {}
    /\ phase' = "stop" /\ UNCHANGED <<live, served>>

Next == Start \/ Abandon \/ Stop \/ \E k \in Conn : Serve(k) \/ Leave(k)

Spec == Init /\ [][Next]_vars

=============================================================================
