----------------------------- MODULE ClientPool -----------------------------
(***************************************************************************)
(* A pool of connected clients to one host                                 *)
(* (include/ylt/coro_io/client_pool.hpp).                                  *)
(*                                                                         *)
(* A call of send_request takes an idle client from the pool or connects a *)
(* new one, with retries; a client that survives the call goes back to the *)
(* pool.  A call that cannot connect leaves an alive_detect coroutine      *)
(* behind, which turns is_alive_ off and connects in the background until  *)
(* the host is back.  Load balancers skip a pool that is not alive: when   *)
(* no call gets through, only this coroutine turns is_alive_ on again.     *)
(*                                                                         *)
(* An element of Call is a call of send_request and then, once it has      *)
(* given up, the alive_detect coroutine it started.  Calls run on any      *)
(* thread: a step is one access to shared state.  The queues of free       *)
(* clients are sets here; their halves, their size counters and their      *)
(* collectors are in module ClientQueue.  The cache of resolved endpoints  *)
(* is left out: a connect succeeds or fails.                               *)
(***************************************************************************)
EXTENDS Naturals, FiniteSets

CONSTANTS
    Call,           \* the calls of send_request
    Client,         \* names for the clients
    MaxConnection,  \* max_connection
    Retry,          \* connect_retry_count
    IntSpace,       \* values of uint32_t, 2^32 in the code
    Detect,         \* TRUE: host_alive_detect_duration is not zero
    InitMayFail,    \* TRUE: init_config may fail for a new client
    MaxFlips        \* bound on how often the host goes down or comes up

ASSUME ConstantsAssumption ==
    /\ MaxConnection \in Nat /\ MaxFlips \in Nat
    /\ IntSpace \in Nat \ {0} /\ Retry \in 0..IntSpace - 1
    /\ Detect \in BOOLEAN /\ InitMayFail \in BOOLEAN

NoClient == "no client"
ASSUME NoClientAssumption == NoClient \notin Client

VARIABLES
    host,       \* "up" or "down"
    flips,      \* changes of host so far
    is_alive,   \* is_alive_
    free,       \* free_clients_
    short,      \* short_connect_clients_
    destroyed,  \* the pool is gone
    pc,         \* where the call, or its alive_detect, is
    cli,        \* the client it holds
    i,          \* the retry counter of reconnect()
    attempts,   \* connects it has made before giving up
    result      \* what send_request returned

vars == <<host, flips, is_alive, free, short, destroyed, pc, cli, i, attempts,
          result>>

\* The alive_detect coroutines between their exchange on is_alive_ and their
\* last look at it.
Detecting == {"recheck", "unmark", "init", "dconnect", "dcollect", "dput_free",
              "dput_short", "dmark", "dmark2", "test", "sleep"}
\* They hold a shared_ptr to the pool, like the calls themselves.
Finished == {"idle", "done", "given up", "sleep"}

Unused == Client \ (free \cup short \cup {cli[c] : c \in Call})

Init ==
    /\ host \in {"up", "down"} /\ flips = 0 /\ is_alive = TRUE
    /\ free = {} /\ short = {} /\ destroyed = FALSE
    /\ pc = [c \in Call |-> "idle"] /\ cli = [c \in Call |-> NoClient]
    /\ i = [c \in Call |-> IntSpace - 1] /\ attempts = [c \in Call |-> 0]
    /\ result = [c \in Call |-> "none"]

Goto(c, label) == pc' = [pc EXCEPT ![c] = label]
Hold(c, k) == cli' = [cli EXCEPT ![c] = k]

---------------------------------------------------------------------------
(* get_client() and reconnect().                                           *)

\* try_dequeue on free_clients_ ...
GetFree(c) ==
    /\ pc[c] = "idle" /\ ~destroyed
    /\ \/ \E k \in free : free' = free \ {k} /\ Hold(c, k) /\ Goto(c, "op")
       \/ free = {} /\ Goto(c, "short") /\ UNCHANGED <<free, cli>>
    /\ UNCHANGED <<host, flips, is_alive, short, destroyed, i, attempts,
                   result>>

\* ... then on short_connect_clients_, then a new client; without a client
\* the call is refused.
GetShort(c) ==
    /\ pc[c] = "short"
    /\ \/ \E k \in short :
            /\ short' = short \ {k} /\ Hold(c, k) /\ Goto(c, "op")
            /\ UNCHANGED result
       \/ /\ short = {}
          /\ \E k \in Unused : Hold(c, k) /\ Goto(c, "connect")
          /\ UNCHANGED <<short, result>>
       \/ /\ short = {} /\ InitMayFail /\ Goto(c, "done")
          /\ result' = [result EXCEPT ![c] = "not initialized"]
          /\ UNCHANGED <<short, cli>>
    /\ UNCHANGED <<host, flips, is_alive, free, destroyed, i, attempts>>

ConnectOk(c) ==
    /\ pc[c] = "connect" /\ host = "up" /\ Goto(c, "op")
    /\ UNCHANGED <<host, flips, is_alive, free, short, destroyed, cli, i,
                   attempts, result>>

\* Mutants: the counter starts at 0 instead of UINT32_MAX; it is wider.
CountFromZero(n) == (n + 2) % IntSpace
WideIncrement(n) == n + 1

\* ++i
Increment(n) == (n + 1) % IntSpace

\* connect() fails; after the wait the loop goes on, or it gives up: the
\* client is destroyed, the call refused and alive_detect started.
ConnectFail(c) ==
    /\ pc[c] = "connect"
    /\ i' = [i EXCEPT ![c] = Increment(@)]
    /\ attempts' = [attempts EXCEPT ![c] = @ + 1]
    /\ \/ i'[c] < Retry /\ UNCHANGED <<pc, cli, result>>
       \/ /\ i'[c] >= Retry
          /\ Goto(c, "check") /\ Hold(c, NoClient)
          /\ result' = [result EXCEPT ![c] = "connection refused"]
    /\ UNCHANGED <<host, flips, is_alive, free, short, destroyed>>

---------------------------------------------------------------------------
(* alive_detect().                                                         *)

\* Nothing to do when detection is off or clients are free.
Check(c) ==
    /\ pc[c] = "check"
    /\ Goto(c, IF Detect /\ free \cup short = {} THEN "exchange" ELSE "done")
    /\ UNCHANGED <<host, flips, is_alive, free, short, destroyed, cli, i,
                   attempts, result>>

\* compare_exchange_strong(is_alive_, true, false)
Exchange(c) ==
    /\ pc[c] = "exchange"
    /\ Goto(c, IF is_alive THEN "recheck" ELSE "done")
    /\ is_alive' = FALSE
    /\ UNCHANGED <<host, flips, free, short, destroyed, cli, i, attempts,
                   result>>

\* Mutant: no second look.
NoRecheck == "init"

\* A client may have come back since the first look.
AfterExchange == IF free \cup short # {} THEN "unmark" ELSE "init"

\* The recheck "for multi-thread".
Recheck(c) ==
    /\ pc[c] = "recheck" /\ Goto(c, AfterExchange)
    /\ UNCHANGED <<host, flips, is_alive, free, short, destroyed, cli, i,
                   attempts, result>>

\* Mutant: the flag stays off.
LeaveOff == UNCHANGED is_alive

\* is_alive_ = true before the early return.
Restore == is_alive' = TRUE

Unmark(c) ==
    /\ pc[c] = "unmark" /\ Goto(c, "done") /\ Restore
    /\ UNCHANGED <<host, flips, free, short, destroyed, cli, i, attempts,
                   result>>

\* A client of its own; when it cannot be set up the coroutine just returns,
\* and is_alive_ stays off.
DetectInit(c) ==
    /\ pc[c] = "init"
    /\ \/ \E k \in Unused : Hold(c, k) /\ Goto(c, "dconnect")
       \/ InitMayFail /\ Goto(c, "given up") /\ UNCHANGED cli
    /\ UNCHANGED <<host, flips, is_alive, free, short, destroyed, i, attempts,
                   result>>

DetectOk(c) ==
    /\ pc[c] = "dconnect" /\ host = "up" /\ Goto(c, "dcollect")
    /\ UNCHANGED <<host, flips, is_alive, free, short, destroyed, cli, i,
                   attempts, result>>

DetectFail(c) ==
    /\ pc[c] = "dconnect" /\ Goto(c, "test")
    /\ UNCHANGED <<host, flips, is_alive, free, short, destroyed, cli, i,
                   attempts, result>>

\* Mutant: the coroutine goes to sleep only once.
StopDetect(label) == "done"

\* Somebody else may have turned is_alive_ on: then there is nothing to do.
UnlessAlive(label) == IF is_alive THEN "done" ELSE label

Test(c) ==
    /\ pc[c] = "test" /\ Goto(c, UnlessAlive("sleep"))
    /\ Hold(c, IF pc'[c] = "done" THEN NoClient ELSE cli[c])
    /\ UNCHANGED <<host, flips, is_alive, free, short, destroyed, i, attempts,
                   result>>

\* sleep_for() ends and the pool is looked up again.
Wake(c) ==
    /\ pc[c] = "sleep"
    /\ Goto(c, IF destroyed THEN "done" ELSE UnlessAlive("dconnect"))
    /\ Hold(c, IF pc'[c] = "done" THEN NoClient ELSE cli[c])
    /\ UNCHANGED <<host, flips, is_alive, free, short, destroyed, i, attempts,
                   result>>

---------------------------------------------------------------------------
(* The operation of the user and collect_free_client().                    *)

\* op(*client) is done.  A client that it closed, or that has lived too long,
\* is destroyed.
Op(c) ==
    /\ pc[c] = "op"
    /\ result' = [result EXCEPT ![c] = "value"]
    /\ \/ Goto(c, "collect") /\ UNCHANGED cli
       \/ Goto(c, "done") /\ Hold(c, NoClient)
    /\ UNCHANGED <<host, flips, is_alive, free, short, destroyed, i, attempts>>

\* Which queue: free_clients_ below max_connection, else the short one.  The
\* client of alive_detect may be closed already: then only dmark2 is left.
Collect(c) ==
    /\ \/ pc[c] = "collect" /\ Hold(c, cli[c])
          /\ Goto(c, IF Cardinality(free) < MaxConnection
                     THEN "put_free" ELSE "put_short")
       \/ pc[c] = "dcollect" /\ Hold(c, cli[c])
          /\ Goto(c, IF Cardinality(free) < MaxConnection
                     THEN "dput_free" ELSE "dput_short")
       \/ pc[c] = "dcollect" /\ Goto(c, "dmark2") /\ Hold(c, NoClient)
    /\ UNCHANGED <<host, flips, is_alive, free, short, destroyed, i, attempts,
                   result>>

Put(c) ==
    /\ \/ /\ pc[c] \in {"put_free", "dput_free"}
          /\ free' = free \cup {cli[c]} /\ UNCHANGED short
       \/ /\ pc[c] \in {"put_short", "dput_short"}
          /\ short' = short \cup {cli[c]} /\ UNCHANGED free
    /\ Goto(c, IF pc[c] \in {"put_free", "put_short"} THEN "mark" ELSE "dmark")
    /\ Hold(c, NoClient)
    /\ UNCHANGED <<host, flips, is_alive, destroyed, i, attempts, result>>

\* The end of collect_free_client, and of alive_detect, which marks again.
Mark(c) ==
    /\ pc[c] \in {"mark", "dmark", "dmark2"}
    /\ is_alive' = TRUE
    /\ Goto(c, IF pc[c] = "dmark" THEN "dmark2" ELSE "done")
    /\ UNCHANGED <<host, flips, free, short, destroyed, cli, i, attempts,
                   result>>

---------------------------------------------------------------------------
(* The collectors of idle clients, clear(), the destructor and the host.   *)

Expire(k) ==
    /\ k \in free \cup short
    /\ free' = free \ {k} /\ short' = short \ {k}
    /\ UNCHANGED <<host, flips, is_alive, destroyed, pc, cli, i, attempts,
                   result>>

Destroy ==
    /\ ~destroyed /\ \A c \in Call : pc[c] \in Finished
    /\ destroyed' = TRUE /\ free' = {} /\ short' = {}
    /\ UNCHANGED <<host, flips, is_alive, pc, cli, i, attempts, result>>

HostFlip ==
    /\ flips < MaxFlips /\ flips' = flips + 1
    /\ host' = IF host = "up" THEN "down" ELSE "up"
    /\ UNCHANGED <<is_alive, free, short, destroyed, pc, cli, i, attempts,
                   result>>

Request(c) ==
    GetFree(c) \/ GetShort(c) \/ ConnectOk(c) \/ ConnectFail(c) \/ Op(c)
AliveDetect(c) ==
    \/ Check(c) \/ Exchange(c) \/ Recheck(c) \/ Unmark(c) \/ DetectInit(c)
    \/ DetectOk(c) \/ DetectFail(c) \/ Test(c) \/ Wake(c)
CollectFreeClient(c) == Collect(c) \/ Put(c) \/ Mark(c)

Next ==
    \/ \E c \in Call : Request(c) \/ AliveDetect(c) \/ CollectFreeClient(c)
    \/ \E k \in Client : Expire(k)
    \/ Destroy \/ HostFlip

Spec == Init /\ [][Next]_vars

\* Coroutines run on; a host that is up accepts one of the connects that
\* alive_detect tries again and again.
Fairness ==
    \A c \in Call :
        /\ WF_vars(GetShort(c)) /\ WF_vars(ConnectOk(c) \/ ConnectFail(c))
        /\ WF_vars(AliveDetect(c)) /\ SF_vars(DetectOk(c))
        /\ WF_vars(CollectFreeClient(c))

FairSpec == Spec /\ Fairness

---------------------------------------------------------------------------
(* Properties.                                                             *)

Labels == Detecting \cup Finished \cup
          {"short", "connect", "check", "exchange", "op", "collect", "put_free",
           "put_short", "mark"}

HostType ==
    /\ host \in {"up", "down"} /\ flips \in 0..MaxFlips
    /\ is_alive \in BOOLEAN /\ destroyed \in BOOLEAN
ClientType ==
    /\ free \subseteq Client /\ short \subseteq Client
    /\ cli \in [Call -> Client \cup {NoClient}]
CallType ==
    /\ pc \in [Call -> Labels]
    /\ i \in [Call -> 0..IntSpace - 1] /\ attempts \in [Call -> Nat]
    /\ result \in [Call -> {"none", "value", "connection refused",
                            "not initialized"}]

\* Every variable of the pool keeps its type; in particular only clients are
\* ever queued.
TypeOK == HostType /\ ClientType /\ CallType

\* "other alive detect coroutine is running": while is_alive_ is off some
\* alive_detect is there to turn it on again, so a pool is never given up,
\* unless a detector could not set up a client.
AliveDetected ==
    ~is_alive /\ ~destroyed =>
        \E c \in Call : pc[c] \in Detecting \cup {"given up"}

\* "recheck for multi-thread": a pool with a free client is alive, or the
\* thread that will see or mark it so is on its way.
FreeMeansAlive ==
    ~is_alive /\ free \cup short # {} =>
        \E c \in Call : pc[c] \in {"recheck", "unmark", "mark", "dmark", "dmark2"}

\* A call is refused after the first connect and connect_retry_count more:
\* the counter starts at UINT32_MAX and wraps to 0.
RefusedAfterRetries ==
    \A c \in Call : result[c] = "connection refused" => attempts[c] = Retry + 1

\* A host that stays up is found alive again, if no detector has given up.
\* (That it stays up and is never found alive is the negation of this.)
AliveAgain ==
    []<>(\/ is_alive \/ destroyed \/ host = "down"
         \/ \E c \in Call : pc[c] = "given up")

=============================================================================
