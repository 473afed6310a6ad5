------------------------------ MODULE DnsCache ------------------------------
(***************************************************************************)
(* The cache of resolved endpoints of a client pool: reconnect_impl() and  *)
(* the retries of reconnect() (include/ylt/coro_io/client_pool.hpp).       *)
(*                                                                         *)
(* A connect uses the cached endpoints unless they are outdated.  One that *)
(* failed with them empties the cache, one that succeeded with freshly     *)
(* resolved ones fills it.  No lock is held: the cache and its time point  *)
(* are read one after the other; an exchange on the time point elects the  *)
(* caller that may store, and a tryLock that fails drops the store.        *)
(*                                                                         *)
(* The endpoints are the addresses the host had one after the other.  A    *)
(* time point is a reading of the steady clock: only its identity is kept, *)
(* and whether it is outdated is a free choice.                            *)
(***************************************************************************)
EXTENDS Naturals, FiniteSets, FiniteSetsExt

CONSTANTS
    Connector,      \* the coroutines that connect
    ConnectRetry,   \* connect_retry_count
    MaxMoves        \* bound on how often the host changes its address

\* Two retries are needed to get rid of a stale address; the default is three.
ASSUME DnsAssumption ==
    /\ IsFiniteSet(Connector) /\ MaxMoves \in Nat
    /\ ConnectRetry \in Nat /\ ConnectRetry >= 2

NoAddr == MaxMoves + 1      \* an empty vector of endpoints

VARIABLES
    addr,       \* the address of the host
    eps,        \* eps_
    timepoint,  \* timepoint_
    mutex,      \* dns_cache_update_mutex_ is locked
    dpc,        \* where a caller is
    local,      \* the endpoints it connects to: cached or resolved
    cached,     \* eps_raw_ptr != &eps
    old_tp,     \* the time point it has read
    fails,      \* failed attempts of this call of reconnect()
    excused     \* since the call began the host has moved, or a retry has read
                \* the cache in the middle of the store of another caller

dnsVars == <<addr, eps, timepoint, mutex, dpc, local, cached, old_tp, fails,
             excused>>

DnsInit ==
    /\ addr = 0 /\ eps = NoAddr /\ timepoint = 0 /\ mutex = FALSE
    /\ dpc = [c \in Connector |-> "idle"]
    /\ local = [c \in Connector |-> NoAddr]
    /\ cached = [c \in Connector |-> FALSE] /\ old_tp = [c \in Connector |-> 0]
    /\ fails = [c \in Connector |-> 0]
    /\ excused = [c \in Connector |-> FALSE]

DnsGoto(c, label) == dpc' = [dpc EXCEPT ![c] = label]

\* pre_time_point, when the attempt began: no other attempt began just then, so
\* it is a time point nobody holds.
Now == Min((0..Cardinality(Connector) + 1)
           \ ({timepoint} \cup {old_tp[c] : c \in Connector}))

---------------------------------------------------------------------------

\* reconnect() begins.
Begin(c) ==
    /\ dpc[c] \in {"idle", "refused"} /\ DnsGoto(c, "load")
    /\ fails' = [fails EXCEPT ![c] = 0]
    /\ excused' = [excused EXCEPT ![c] = FALSE]
    /\ UNCHANGED <<addr, eps, timepoint, mutex, local, cached, old_tp>>

\* A caller has won the exchange and has not ended its store.
SomeoneStores == \E d \in Connector : dpc[d] \in {"lock", "store", "unlock"}

\* eps_.load(), at the beginning of every attempt.  The sleep before a retry is
\* skipped when the failed attempt took long, and orders nothing otherwise.
LoadEps(c) ==
    /\ dpc[c] = "load" /\ local' = [local EXCEPT ![c] = eps]
    /\ excused' = [excused EXCEPT ![c] = @ \/ (fails[c] > 0 /\ SomeoneStores)]
    /\ DnsGoto(c, "load_tp")
    /\ UNCHANGED <<addr, eps, timepoint, mutex, cached, old_tp, fails>>

\* timepoint_.load(), and the choice between the cache and a resolve, which
\* connect() makes when it is given no endpoints.
LoadTimepoint(c) ==
    /\ dpc[c] = "load_tp" /\ old_tp' = [old_tp EXCEPT ![c] = timepoint]
    /\ \/ /\ local[c] # NoAddr /\ cached' = [cached EXCEPT ![c] = TRUE]
          /\ DnsGoto(c, "connect") /\ UNCHANGED local
       \/ /\ local' = [local EXCEPT ![c] = NoAddr]
          /\ cached' = [cached EXCEPT ![c] = FALSE] /\ DnsGoto(c, "resolve")
    /\ UNCHANGED <<addr, eps, timepoint, mutex, fails, excused>>

Resolve(c) ==
    /\ dpc[c] = "resolve" /\ local' = [local EXCEPT ![c] = addr]
    /\ DnsGoto(c, "connect")
    /\ UNCHANGED <<addr, eps, timepoint, mutex, cached, old_tp, fails, excused>>

\* What reconnect() does with the outcome; the locals die with each attempt.
Done(c, ok, n) ==
    /\ DnsGoto(c, CASE ok -> "idle" [] ~ok /\ n <= ConnectRetry -> "load"
                    [] OTHER -> "refused")
    /\ local' = [local EXCEPT ![c] = NoAddr]
    /\ cached' = [cached EXCEPT ![c] = FALSE]
    /\ old_tp' = [old_tp EXCEPT ![c] = 0]

\* Mutant: only a success touches the cache.
KeepBad(c, ok) == ok /\ ~cached[c]

\* The cache is emptied or filled.
MustUpdate(c, ok) == (~ok /\ cached[c]) \/ (ok /\ ~cached[c])

\* connect() succeeds if the host still has the address.
Connect(c) ==
    /\ dpc[c] = "connect"
    /\ LET ok == local[c] = addr
           n == fails[c] + (IF ok THEN 0 ELSE 1)
       IN  /\ fails' = [fails EXCEPT ![c] = n]
           /\ \/ MustUpdate(c, ok) /\ DnsGoto(c, "exchange")
                 /\ UNCHANGED <<local, cached, old_tp>>
              \/ ~MustUpdate(c, ok) /\ Done(c, ok, n)
    /\ UNCHANGED <<addr, eps, timepoint, mutex, excused>>

\* The attempt is over: of the calls that come here those that used the cache
\* have failed, the others have not.
Updated(c) == Done(c, ~cached[c], fails[c])

\* timepoint_.compare_exchange_strong()
ExchangeTimepoint(c) ==
    /\ dpc[c] = "exchange"
    /\ \/ timepoint = old_tp[c] /\ timepoint' = Now /\ DnsGoto(c, "lock")
          /\ UNCHANGED <<local, cached, old_tp>>
       \/ timepoint # old_tp[c] /\ Updated(c) /\ UNCHANGED timepoint
    /\ UNCHANGED <<addr, eps, mutex, fails, excused>>

\* tryLock()
TryLock(c) ==
    /\ dpc[c] = "lock"
    /\ \/ ~mutex /\ mutex' = TRUE /\ DnsGoto(c, "store")
          /\ UNCHANGED <<local, cached, old_tp>>
       \/ mutex /\ Updated(c) /\ UNCHANGED mutex
    /\ UNCHANGED <<addr, eps, timepoint, fails, excused>>

\* Mutant: the endpoints that failed are stored again.
StoreUsed(c) == local[c]

\* new_eps_ptr: the local vector, which is empty if the cache was used.
NewEps(c) == IF cached[c] THEN NoAddr ELSE local[c]

Store(c) ==
    /\ dpc[c] = "store" /\ eps' = NewEps(c) /\ DnsGoto(c, "unlock")
    /\ UNCHANGED <<addr, timepoint, mutex, local, cached, old_tp, fails, excused>>

Unlock(c) ==
    /\ dpc[c] = "unlock" /\ mutex' = FALSE /\ Updated(c)
    /\ UNCHANGED <<addr, eps, timepoint, fails, excused>>

\* The host gets a new address.
Move ==
    /\ addr < MaxMoves /\ addr' = addr + 1
    /\ excused' = [c \in Connector |-> TRUE]
    /\ UNCHANGED <<eps, timepoint, mutex, dpc, local, cached, old_tp, fails>>

Reconnect(c) ==
    \/ Begin(c) \/ LoadEps(c) \/ LoadTimepoint(c) \/ Resolve(c) \/ Connect(c)
    \/ ExchangeTimepoint(c) \/ TryLock(c) \/ Store(c) \/ Unlock(c)

DnsNext == (\E c \in Connector : Reconnect(c)) \/ Move

DnsSpec == DnsInit /\ [][DnsNext]_dnsVars

\* The pool is in use: the callers run on and call again.
DnsFairSpec == DnsSpec /\ \A c \in Connector : WF_dnsVars(Reconnect(c))

---------------------------------------------------------------------------
(* Properties.                                                             *)

\* A call that began after the host got its address is not refused for a stale
\* cache: whichever exchanges and tryLocks it loses, connect_retry_count
\* retries are enough to get rid of it, unless one of them read the cache in
\* the middle of the store of another caller.
RetriesSuffice == \A c \in Connector : dpc[c] = "refused" => excused[c]

\* An address the host no longer has does not stay in the cache.
StaleLeaves == []<>(eps \in {addr, NoAddr})

=============================================================================
