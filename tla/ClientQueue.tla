----------------------------- MODULE ClientQueue -----------------------------
(***************************************************************************)
(* A queue of free clients and the coroutine that collects the idle ones   *)
(* (include/ylt/coro_io/detail/client_queue.hpp and the collector of       *)
(* include/ylt/coro_io/client_pool.hpp).                                   *)
(*                                                                         *)
(* The queue has two halves.  Clients are put into the selected half; the  *)
(* collector selects the other half, sleeps for the idle timeout and then  *)
(* destroys what is still in the half that was selected before.  A counter *)
(* per half replaces the sizes the concurrent queues cannot tell.  Threads *)
(* take and return clients all the time: a step is one access to shared    *)
(* state.                                                                  *)
(*                                                                         *)
(* moodycamel::ConcurrentQueue orders only the elements of one producer,   *)
(* so a half is a set here.  Its enqueue returns false when it cannot      *)
(* allocate; MaxFail bounds how often.                                     *)
(***************************************************************************)
EXTENDS Integers, FiniteSets

CONSTANTS
    Thread,     \* the threads that run send_request
    Client,     \* names for the clients
    Own,        \* those whose executor is the one the collector runs on
    SizeSpace,  \* values of size_t, 2^64 in the code
    ReuseAt,    \* the pipeline size from which a second client is looked at
    MaxPending, \* bound on the calls pending on a client
    MaxClear,   \* idle_queue_per_max_clear_count
    MaxFail     \* bound on failing allocations

ASSUME ConstantsAssumption ==
    /\ SizeSpace \in Nat \ {0} /\ MaxClear \in Nat \ {0}
    /\ MaxPending \in Nat /\ ReuseAt \in Nat /\ MaxFail \in Nat
    /\ Own \subseteq Client

NoClient == "no client"
ASSUME NoClientAssumption == NoClient \notin Client

VARIABLES
    q,          \* queue_[0] and queue_[1]
    size,       \* size_[0] and size_[1]
    sel,        \* selected_index_
    pending,    \* get_pipeline_size() of each client
    started,    \* collecter_cnt_ is 1
    destroyed,  \* the pool is gone
    fails,      \* allocations that failed
    lost,       \* how many of them lost a client that stays counted
    pc,         \* where a thread is
    idx,        \* its local index
    cli,        \* its client, c
    cli2,       \* the second client, c2
    cnt,        \* the count enqueue() got
    cpc,        \* where the collector is
    old,        \* its local index
    kept,       \* using_clients
    taken,      \* clear_cnt
    cleared,    \* real_clear_cnt
    fresh       \* clients whose return began after the last reselect()

thread == <<pc, idx, cli, cli2, cnt>>
collector == <<cpc, old, kept, taken, cleared>>
pool == <<q, size, sel, pending, started, destroyed, fails, lost, fresh>>
vars == <<pool, thread, collector>>

Halves == {0, 1}
Other(h) == 1 - h
Held == {cli[t] : t \in Thread} \cup {cli2[t] : t \in Thread}
Unused == Client \ (q[0] \cup q[1] \cup kept \cup Held)

Init ==
    /\ q = [h \in Halves |-> {}] /\ size = [h \in Halves |-> 0] /\ sel = 0
    /\ pending = [k \in Client |-> 0] /\ started = FALSE /\ destroyed = FALSE
    /\ fails = 0 /\ lost = 0 /\ fresh = {}
    /\ pc = [t \in Thread |-> "idle"] /\ idx = [t \in Thread |-> 0]
    /\ cli = [t \in Thread |-> NoClient] /\ cli2 = [t \in Thread |-> NoClient]
    /\ cnt = [t \in Thread |-> 0]
    /\ cpc = "off" /\ old = 0 /\ kept = {} /\ taken = 0 /\ cleared = 0

Goto(t, label) == pc' = [pc EXCEPT ![t] = label]
Hold(t, k) == cli' = [cli EXCEPT ![t] = k]
AddTo(h, k) == q' = [q EXCEPT ![h] = @ \cup {k}]
TakeFrom(h, k) == q' = [q EXCEPT ![h] = @ \ {k}]

\* The local variables of a function that returns are gone.
Forget(t) == idx' = [idx EXCEPT ![t] = 0] /\ cnt' = [cnt EXCEPT ![t] = 0]

\* Mutant: a counter wider than size_t.
WideAdd(h, n) == size' = [size EXCEPT ![h] = @ + n]

\* size_[h] += n, in size_t.
Add(h, n) == size' = [size EXCEPT ![h] = (@ + n) % SizeSpace]

---------------------------------------------------------------------------
(* try_dequeue().                                                          *)

\* Reads selected_index_, once.
Select(t) ==
    /\ pc[t] = "idle" /\ ~destroyed
    /\ idx' = [idx EXCEPT ![t] = sel] /\ Goto(t, "first")
    /\ UNCHANGED <<pool, collector, cli, cli2, cnt>>

\* From the selected half ...
First(t) ==
    /\ pc[t] = "first"
    /\ \/ \E k \in q[idx[t]] :
            TakeFrom(idx[t], k) /\ Hold(t, k) /\ Goto(t, "busy")
       \/ q[idx[t]] = {} /\ Goto(t, "second") /\ UNCHANGED <<q, cli>>
    /\ UNCHANGED <<size, sel, pending, started, destroyed, fails, lost, fresh,
                   idx, cli2, cnt, collector>>

\* ... or from the other one, or a new client that connects.
Second(t) ==
    /\ pc[t] = "second"
    /\ \/ \E k \in q[Other(idx[t])] :
            /\ TakeFrom(Other(idx[t]), k) /\ Hold(t, k) /\ Goto(t, "busy")
            /\ idx' = [idx EXCEPT ![t] = Other(@)]
       \/ /\ q[Other(idx[t])] = {}
          /\ \E k \in Unused : Hold(t, k) /\ Goto(t, "use")
          /\ idx' = [idx EXCEPT ![t] = 0] /\ UNCHANGED q
    /\ UNCHANGED <<size, sel, pending, started, destroyed, fails, lost, fresh,
                   cli2, cnt, collector>>

\* try_dequeue_connect_reuse_impl(): a second client for one with a long
\* pipeline, if the half seems to have one.
Busy(t) ==
    /\ pc[t] = "busy"
    /\ Goto(t, IF pending[cli[t]] >= ReuseAt /\ size[idx[t]] > 1
               THEN "another" ELSE "uncount")
    /\ UNCHANGED <<pool, collector, idx, cli, cli2, cnt>>

Another(t) ==
    /\ pc[t] = "another"
    /\ \/ \E k \in q[idx[t]] :
            /\ TakeFrom(idx[t], k) /\ Goto(t, "swap")
            /\ cli2' = [cli2 EXCEPT ![t] = k]
       \/ q[idx[t]] = {} /\ Goto(t, "uncount") /\ UNCHANGED <<q, cli2>>
    /\ UNCHANGED <<size, sel, pending, started, destroyed, fails, lost, fresh,
                   idx, cli, cnt, collector>>

\* The one with the shorter pipeline stays, the other goes back.
Loser(t) == IF pending[cli2[t]] < pending[cli[t]] THEN cli[t] ELSE cli2[t]

\* The result of this enqueue is ignored: when it fails the client is
\* destroyed, and stays counted.
PutBack(h, k) ==
    \/ AddTo(h, k) /\ UNCHANGED <<fails, lost, fresh, pending>>
    \/ /\ fails < MaxFail /\ fails' = fails + 1 /\ lost' = lost + 1
       /\ fresh' = fresh \ {k} /\ pending' = [pending EXCEPT ![k] = 0]
       /\ UNCHANGED q

Swap(t) ==
    /\ pc[t] = "swap" /\ PutBack(idx[t], Loser(t))
    /\ Hold(t, IF Loser(t) = cli[t] THEN cli2[t] ELSE cli[t])
    /\ cli2' = [cli2 EXCEPT ![t] = NoClient] /\ Goto(t, "uncount")
    /\ UNCHANGED <<size, sel, started, destroyed, idx, cnt, collector>>

Uncount(t) ==
    /\ pc[t] = "uncount" /\ Add(idx[t], -1) /\ Goto(t, "use") /\ Forget(t)
    /\ fresh' = fresh \ {cli[t]}
    /\ UNCHANGED <<q, sel, pending, started, destroyed, fails, lost, cli, cli2,
                   collector>>

---------------------------------------------------------------------------
(* The operation of the user and enqueue().                                *)

\* With client_reuse_hint calls may still be pending when op() is done; a
\* client that is closed is destroyed.  enqueue() reads selected_index_.
Use(t) ==
    /\ pc[t] = "use"
    /\ \/ /\ \E n \in pending[cli[t]]..MaxPending :
                pending' = [pending EXCEPT ![cli[t]] = n]
          /\ idx' = [idx EXCEPT ![t] = sel] /\ fresh' = fresh \cup {cli[t]}
          /\ Goto(t, "count") /\ UNCHANGED cli
       \/ /\ pending' = [pending EXCEPT ![cli[t]] = 0]
          /\ Hold(t, NoClient) /\ Goto(t, "idle") /\ UNCHANGED <<idx, fresh>>
    /\ UNCHANGED <<q, size, sel, started, destroyed, fails, lost, cli2, cnt,
                   collector>>

\* cnt = ++size_[index]
Count(t) ==
    /\ pc[t] = "count" /\ Add(idx[t], 1) /\ Goto(t, "push")
    /\ cnt' = [cnt EXCEPT ![t] = size'[idx[t]]]
    /\ UNCHANGED <<q, sel, pending, started, destroyed, fails, lost, fresh, idx,
                   cli, cli2, collector>>

Push(t) ==
    /\ pc[t] = "push"
    /\ \/ /\ AddTo(idx[t], cli[t]) /\ Hold(t, NoClient) /\ Goto(t, "start")
          /\ UNCHANGED fails
       \/ /\ fails < MaxFail /\ fails' = fails + 1 /\ Goto(t, "undo")
          /\ UNCHANGED <<q, cli>>
    /\ UNCHANGED <<size, sel, pending, started, destroyed, lost, fresh, idx,
                   cli2, cnt, collector>>

\* Mutant: the counter is not taken back.
KeepCount(h) == UNCHANGED size

\* --size_[index]
TakeBack(h) == Add(h, -1)

\* The client that could not be queued is destroyed.
Undo(t) ==
    /\ pc[t] = "undo" /\ TakeBack(idx[t]) /\ Goto(t, "idle") /\ Forget(t)
    /\ pending' = [pending EXCEPT ![cli[t]] = 0]
    /\ fresh' = fresh \ {cli[t]} /\ Hold(t, NoClient)
    /\ UNCHANGED <<q, sel, started, destroyed, fails, lost, cli2, collector>>

\* Mutant: the counter is read again.
SizeIsOne(t) == size[idx[t]] = 1

\* enqueue() returned 1.
CountedToOne(t) == cnt[t] = 1

\* The first client of a half starts the collector, once for all.
Start(t) ==
    /\ pc[t] = "start" /\ Goto(t, "idle") /\ Forget(t)
    /\ IF CountedToOne(t) /\ ~started THEN started' = TRUE /\ cpc' = "reselect"
                                 ELSE UNCHANGED <<started, cpc>>
    /\ UNCHANGED <<q, size, sel, pending, destroyed, fails, lost, fresh, cli,
                   cli2, old, kept, taken, cleared>>

\* The collector is in its loop over clear_old(), which never suspends: nothing
\* else runs on its executor.
Looping == cpc \in {"take", "back", "again"}

\* A response arrives, or the call times out: either is a handler that runs on
\* the executor of the client.
Respond(k) ==
    /\ pending[k] > 0 /\ (k \in Own => ~Looping)
    /\ pending' = [pending EXCEPT ![k] = @ - 1]
    /\ UNCHANGED <<q, size, sel, started, destroyed, fails, lost, fresh, thread,
                   collector>>

---------------------------------------------------------------------------
(* collect_idle_timeout_client() and clear_old().                          *)

\* selected_index_ ^= 1
Flipped == Other(sel)

Reselect ==
    /\ cpc = "reselect" /\ sel' = Flipped /\ cpc' = "sleep" /\ fresh' = {}
    /\ UNCHANGED <<q, size, pending, started, destroyed, fails, lost, thread,
                   old, kept, taken, cleared>>

\* Mutant: the selected half.
NewHalf == sel

\* The half that was selected before the sleep.
OldHalf == Other(sel)

\* The sleep ends; without a pool the collector does too.  clear_old() begins.
Wake ==
    /\ cpc = "sleep" /\ destroyed /\ cpc' = "over"
    /\ UNCHANGED <<pool, thread, old, kept, taken, cleared>>

ClearBegin ==
    /\ \/ cpc = "sleep" /\ ~destroyed
       \/ cpc = "again"
    /\ cpc' = "take" /\ old' = OldHalf /\ taken' = 0 /\ cleared' = 0
    /\ UNCHANGED <<pool, thread, kept>>

\* A client with calls pending is kept aside, the others are destroyed.
Take(k) ==
    /\ cpc = "take" /\ taken < MaxClear /\ k \in q[old]
    /\ TakeFrom(old, k) /\ taken' = taken + 1
    /\ \/ pending[k] > 0 /\ kept' = kept \cup {k}
          /\ UNCHANGED <<cleared, fresh>>
       \/ pending[k] = 0 /\ cleared' = cleared + 1 /\ fresh' = fresh \ {k}
          /\ UNCHANGED kept
    /\ UNCHANGED <<size, sel, pending, started, destroyed, fails, lost, thread,
                   cpc, old>>

TakeEnd ==
    /\ cpc = "take" /\ (taken = MaxClear \/ q[old] = {}) /\ cpc' = "back"
    /\ UNCHANGED <<pool, thread, old, kept, taken, cleared>>

Back(k) ==
    /\ cpc = "back" /\ k \in kept /\ kept' = kept \ {k} /\ PutBack(old, k)
    /\ UNCHANGED <<size, sel, started, destroyed, thread, cpc, old, taken,
                   cleared>>

\* Mutant: off by one, the half is never found empty.
AlmostCleared == taken < MaxClear - 1

\* clear_cnt < max_clear_cnt: the half was emptied.
AllCleared == taken < MaxClear

\* size_[selected_index_] -= real_clear_cnt: from the counter of the other
\* half than the one that was cleared.
Subtract ==
    /\ cpc = "back" /\ kept = {} /\ Add(sel, -cleared)
    /\ old' = 0 /\ taken' = 0 /\ cleared' = 0
    /\ cpc' = IF AllCleared THEN "reselect" ELSE "again"
    /\ UNCHANGED <<q, sel, pending, started, destroyed, fails, lost, fresh,
                   thread, kept>>

\* ~client_pool()
Destroy ==
    /\ ~destroyed /\ \A t \in Thread : pc[t] = "idle"
    /\ cpc \in {"off", "sleep"}
    /\ destroyed' = TRUE /\ q' = [h \in Halves |-> {}] /\ fresh' = {}
    /\ pending' = [k \in Client |-> 0]
    /\ UNCHANGED <<size, sel, started, fails, lost, thread, collector>>

TryDequeue(t) ==
    Select(t) \/ First(t) \/ Second(t) \/ Busy(t) \/ Another(t) \/ Swap(t)
    \/ Uncount(t)
Enqueue(t) == Count(t) \/ Push(t) \/ Undo(t) \/ Start(t)
ClearOld ==
    \/ ClearBegin \/ TakeEnd \/ Subtract
    \/ \E k \in Client : Take(k) \/ Back(k)
Collector == Reselect \/ Wake \/ ClearOld

Next ==
    \/ \E t \in Thread : TryDequeue(t) \/ Use(t) \/ Enqueue(t)
    \/ \E k \in Client : Respond(k)
    \/ Collector \/ Destroy

Spec == Init /\ [][Next]_vars

\* A thread that has begun try_dequeue() or enqueue() ends it: neither suspends.
\* When it calls them, and whether op() returns, is up to the user.
ThreadStep(t) == (TryDequeue(t) /\ pc[t] # "idle") \/ Enqueue(t)

\* The threads and the collector run on, and calls are answered or time out,
\* which says nothing of the clients of Own while the collector is looping.
Fairness ==
    /\ \A t \in Thread : WF_vars(ThreadStep(t))
    /\ WF_vars(Collector) /\ \A k \in Client : WF_vars(Respond(k))

FairSpec == Spec /\ Fairness

---------------------------------------------------------------------------
(* Properties.                                                             *)

\* Every variable keeps its type; the counters stay values of size_t although
\* each of them on its own is taken below zero.
TypeOK ==
    /\ q \in [Halves -> SUBSET Client] /\ size \in [Halves -> 0..SizeSpace - 1]
    /\ sel \in Halves /\ pending \in [Client -> 0..MaxPending]
    /\ started \in BOOLEAN /\ destroyed \in BOOLEAN
    /\ fails \in 0..MaxFail /\ lost \in 0..MaxFail /\ fresh \subseteq Client
    /\ pc \in [Thread -> {"idle", "first", "second", "busy", "another", "swap",
                          "uncount", "use", "count", "push", "undo", "start"}]
    /\ idx \in [Thread -> Halves] /\ cnt \in [Thread -> 0..SizeSpace - 1]
    /\ cli \in [Thread -> Client \cup {NoClient}]
    /\ cli2 \in [Thread -> Client \cup {NoClient}]
    /\ cpc \in {"off", "reselect", "sleep", "again", "take", "back", "over"}
    /\ old \in Halves /\ kept \subseteq Client
    /\ taken \in 0..MaxClear /\ cleared \in 0..MaxClear

\* Clients that are counted but not queued: being taken, put back or queued.
InTransit ==
    Cardinality({t \in Thread : pc[t] \in {"busy", "another", "swap", "uncount",
                                           "push", "undo"}})
    + Cardinality({t \in Thread : pc[t] = "swap"})
    + Cardinality(kept) + cleared

\* size() counts the free clients: it is off only by what is in transit, and
\* by the clients that a failed allocation lost in line 71, 75 or 113, although
\* clear_old() subtracts from the counter of the wrong half.
SizeCounts ==
    ~destroyed =>
        (size[0] + size[1]) % SizeSpace =
        (Cardinality(q[0]) + Cardinality(q[1]) + InTransit + lost) % SizeSpace

\* The point of the two halves: a client whose return began after the last
\* reselect() is never in the half that clear_old() empties, so it stays for
\* the whole idle timeout at least.
FreshSurvives == cpc = "take" => fresh \cap q[old] = {}

\* The collector is started by whoever counted to one, however the counting,
\* the queueing and the taking of several threads are mixed: a queue with
\* clients in it has a collector, or a thread that is about to start it.  An
\* allocation that failed is excused: it may hit the one that counted to one.
CollectorStarted ==
    /\ ~started /\ ~destroyed /\ fails = 0 /\ q[0] \cup q[1] # {}
    => \E t \in Thread : pc[t] \in {"push", "start"} /\ cnt[t] = 1

\* An idle client does not stay in the queue forever: it is taken, or the
\* collector destroys it, if the allocations succeed.  Whoever counts to one
\* has started the collector, and its loop ends (see CollectorRests).
IdleCollected ==
    \A k \in Client :
        []<>(destroyed \/ pending[k] > 0 \/ k \notin q[0] \cup q[1] \/ fails > 0)

\* The collector comes to rest between its rounds: the loop over clear_old()
\* ends.  It does if fewer clients than one round clears, max_clear_cnt, have
\* the executor of the collector.
CollectorRests == []<>(cpc \in {"off", "sleep", "over"})

=============================================================================
