----------------------------- MODULE RpcServer -----------------------------
(***************************************************************************)
(* Starting and stopping a coro_rpc server                                 *)
(* (include/ylt/coro_rpc/impl/coro_rpc_server.hpp), its acceptors          *)
(* (include/ylt/coro_io/server_acceptor.hpp) and its threads               *)
(* (include/ylt/coro_io/io_context_pool.hpp).                              *)
(*                                                                         *)
(* One thread calls start(), others call stop(); thd_ runs the pool, whose *)
(* threads run one io_context each.  A step is one access of one of these  *)
(* threads to shared state, or one handler on an io_context.  What happens *)
(* inside a connection is in module RpcConnection: here it is open, asked  *)
(* to close, and closed.                                                   *)
(*                                                                         *)
(* An io_context runs what is queued on it until its work guard is gone    *)
(* and nothing is queued or pending: then it is over for good, and what is *)
(* queued later never runs.                                                *)
(***************************************************************************)
EXTENDS Naturals, FiniteSets

CONSTANTS
    Acceptors,      \* how many acceptors: they are numbered from 1
    Contexts,       \* how many io_contexts: they are numbered from 0
    Conn,           \* names for the connections clients open
    Stopper,        \* the threads that call stop()
    ListenMayFail,  \* TRUE: an address may be in use
    Reconsider      \* TRUE: connections may be refused by the client filter,
                    \* and accepting may fail for a passing reason

ASSUME ConstantsAssumption ==
    /\ Acceptors \in Nat \ {0} /\ Contexts \in Nat \ {0}
    /\ ListenMayFail \in BOOLEAN /\ Reconsider \in BOOLEAN

Acceptor == 1..Acceptors
Ctx == 0..Contexts - 1
NoConn == "no connection"
ASSUME NoConnAssumption == NoConn \notin Conn

VARIABLES
    \* coro_rpc_server
    flag,           \* flag_
    conns,          \* conns_
    cst,            \* each connection: "none", "accepted", "refused", "open",
                    \* "closed"
    closing,        \* connections with an async_close() queued
    kctx,           \* the io_context of each connection
    spc, sa,        \* the thread in start(), and its acceptor
    tpc, ta,        \* the threads in stop(), and their acceptor or io_context
    \* tcp_server_acceptor
    open,           \* acceptor_ is open
    accept_started, \* accept_started_
    waiter,         \* how often acceptor_close_waiter_ was set
    close_posted,   \* close_now() queued the close
    exec,           \* executor_
    apc,            \* where the accept loop is
    sock,           \* the io_context of the next connection
    got,            \* the connection async_accept() came back with
    \* io_context_pool
    has_run_or_stop, work, next_ctx,
    ctx,            \* each io_context: "idle", "running", "polled" or "over"
    thd,            \* thd_: "none", "created", "joining" or "over"
    promise         \* promise_ is set

connVars == <<conns, cst, closing, kctx>>
startVars == <<spc, sa>>
stopVars == <<tpc, ta>>
accVars == <<open, accept_started, waiter, close_posted, exec, apc, sock, got>>
poolVars == <<has_run_or_stop, work, next_ctx, ctx, thd, promise>>
vars == <<flag, connVars, startVars, stopVars, accVars, poolVars>>

Init ==
    /\ flag = "init" /\ conns = {} /\ cst = [k \in Conn |-> "none"]
    /\ closing = {} /\ kctx = [k \in Conn |-> 0]
    /\ spc = "idle" /\ sa = 1
    /\ tpc = [t \in Stopper |-> "idle"] /\ ta = [t \in Stopper |-> 1]
    /\ open = [a \in Acceptor |-> FALSE]
    /\ accept_started = [a \in Acceptor |-> FALSE]
    /\ waiter = [a \in Acceptor |-> 0]
    /\ close_posted = [a \in Acceptor |-> FALSE]
    /\ exec = [a \in Acceptor |-> 0] /\ apc = [a \in Acceptor |-> "none"]
    /\ sock = [a \in Acceptor |-> 0] /\ got = [a \in Acceptor |-> NoConn]
    /\ has_run_or_stop = FALSE /\ work = TRUE /\ next_ctx = 0
    /\ ctx = [c \in Ctx |-> "idle"] /\ thd = "none" /\ promise = FALSE

\* start_mtx_: start() holds it within one step, stop() from its first step
\* to its last.
Locked == \E t \in Stopper : tpc[t] \notin {"idle", "done"}

\* get_executor(), n calls from now: round robin.
Executor(n) == (next_ctx + n) % Contexts

---------------------------------------------------------------------------
(* start().                                                                *)

\* The locked part of async_start().  Without acceptors that listen the
\* server is stopped, else thd_ is created.
AsyncStart ==
    /\ spc = "idle" /\ ~Locked
    /\ \/ /\ flag # "init" /\ spc' = "refused"
          /\ UNCHANGED <<flag, open, exec, next_ctx, thd>>
       \/ /\ flag = "init" /\ ListenMayFail
          /\ \E n \in Acceptor : next_ctx' = Executor(n)
          /\ flag' = "stop" /\ spc' = "refused"
          /\ UNCHANGED <<open, exec, thd>>
       \/ /\ flag = "init"
          /\ open' = [a \in Acceptor |-> TRUE]
          /\ exec' = [a \in Acceptor |-> Executor(a - 1)]
          /\ next_ctx' = Executor(Acceptors)
          /\ flag' = "started" /\ thd' = "created" /\ spc' = "store"
    /\ UNCHANGED <<connVars, sa, stopVars, accept_started, waiter, close_posted,
                   apc, sock, got, has_run_or_stop, work, ctx, promise>>

\* The accept loop of an acceptor begins on the thread of start(): the store
\* to accept_started_ ...
StoreStarted ==
    /\ spc = "store" /\ spc' = "dispatch"
    /\ accept_started' = [accept_started EXCEPT ![sa] = TRUE]
    /\ sock' = [sock EXCEPT ![sa] = Executor(0)] /\ next_ctx' = Executor(1)
    /\ UNCHANGED <<flag, connVars, sa, stopVars, open, waiter, close_posted,
                   exec, apc, got, has_run_or_stop, work, ctx, thd, promise>>

\* ... and the dispatch to the executor of the acceptor.
Dispatch ==
    /\ spc = "dispatch" /\ apc' = [apc EXCEPT ![sa] = "posted"]
    /\ \/ sa < Acceptors /\ sa' = sa + 1 /\ spc' = "store"
       \/ sa = Acceptors /\ spc' = "wait" /\ UNCHANGED sa
    /\ UNCHANGED <<flag, connVars, stopVars, open, accept_started, waiter,
                   close_posted, exec, sock, got, poolVars>>

\* collectAny(): the first accept loop that ends sets the future of start().
StartReturn ==
    /\ spc = "wait" /\ \E a \in Acceptor : apc[a] = "exited"
    /\ spc' = "returned"
    /\ UNCHANGED <<flag, connVars, sa, stopVars, accVars, poolVars>>

---------------------------------------------------------------------------
(* stop().                                                                 *)

GotoStop(t, label) == tpc' = [tpc EXCEPT ![t] = label]

StopBegin(t) ==
    /\ tpc[t] = "idle" /\ ~Locked
    /\ \/ flag = "stop" /\ GotoStop(t, "done") /\ UNCHANGED flag
       \/ flag = "init" /\ GotoStop(t, "done") /\ flag' = "stop"
       \/ flag = "started" /\ GotoStop(t, "close") /\ UNCHANGED flag
    /\ UNCHANGED <<connVars, startVars, ta, accVars, poolVars>>

\* close_now(): an acceptor that has not begun to accept is closed from here,
\* else from its executor.
CloseNow(t) ==
    /\ tpc[t] = "close"
    /\ \/ /\ accept_started[ta[t]] /\ GotoStop(t, "load")
          /\ close_posted' = [close_posted EXCEPT ![ta[t]] = TRUE]
       \/ /\ ~accept_started[ta[t]] /\ GotoStop(t, "direct")
          /\ UNCHANGED close_posted
    /\ UNCHANGED <<flag, connVars, startVars, ta, open, accept_started, waiter,
                   exec, apc, sock, got, poolVars>>

CloseDirect(t) ==
    /\ tpc[t] = "direct" /\ GotoStop(t, "load")
    /\ open' = [open EXCEPT ![ta[t]] = FALSE]
    /\ UNCHANGED <<flag, connVars, startVars, ta, accept_started, waiter,
                   close_posted, exec, apc, sock, got, poolVars>>

\* Mutant: close() does not wait for the accept loop.
NeverAwaits(a) == FALSE

\* The second look of close() at accept_started_.
Awaits(a) == accept_started[a]

\* acceptor_close_future_.wait(), or nothing; the next acceptor.
CloseWait(t) ==
    /\ tpc[t] = "load" \/ (tpc[t] = "await" /\ waiter[ta[t]] > 0)
    /\ \/ /\ tpc[t] = "load" /\ Awaits(ta[t]) /\ GotoStop(t, "await")
          /\ UNCHANGED ta
       \/ /\ ~(tpc[t] = "load" /\ Awaits(ta[t]))
          /\ \/ /\ ta[t] < Acceptors /\ GotoStop(t, "close")
                /\ ta' = [ta EXCEPT ![t] = @ + 1]
             \/ ta[t] = Acceptors /\ GotoStop(t, "sweep") /\ UNCHANGED ta
    /\ UNCHANGED <<flag, connVars, startVars, accVars, poolVars>>

\* Under conns_mtx_: close what is registered, forget it.
Sweep(t) ==
    /\ tpc[t] = "sweep" /\ GotoStop(t, "pool")
    /\ closing' = closing \cup {k \in conns : cst[k] = "open"} /\ conns' = {}
    /\ UNCHANGED <<flag, cst, kctx, startVars, ta, accVars, poolVars>>

\* pool_.stop(): the exchange on has_run_or_stop_ ...
PoolStop(t) ==
    /\ tpc[t] = "pool" /\ has_run_or_stop' = TRUE
    /\ GotoStop(t, IF has_run_or_stop THEN "work" ELSE "unrun")
    /\ UNCHANGED <<flag, connVars, startVars, ta, accVars, work, next_ctx, ctx,
                   thd, promise>>

\* ... work_.clear(), and then the promise of run(), or a poll() of each
\* io_context that never ran.
WorkClear(t) ==
    /\ tpc[t] \in {"work", "unrun"} /\ work' = FALSE
    /\ GotoStop(t, IF tpc[t] = "work" THEN "promise" ELSE "poll")
    /\ ta' = [ta EXCEPT ![t] = 0]
    /\ UNCHANGED <<flag, connVars, startVars, accVars, has_run_or_stop, next_ctx,
                   ctx, thd, promise>>

---------------------------------------------------------------------------
(* The io_contexts.                                                        *)

Runs(c) == ctx[c] \in {"running", "polled"}

\* The acceptors, and the connections, with a handler that could run on c.
ReadyAcceptors(c) ==
    {a \in Acceptor : /\ exec[a] = c
                      /\ \/ close_posted[a]
                         \/ apc[a] \in {"posted", "got", "failed"}
                         \/ apc[a] = "accepting" /\ ~open[a]}
ReadyConns(c) == {k \in closing : kctx[k] = c}
Ready(c) == ReadyAcceptors(c) # {} \/ ReadyConns(c) # {}

\* Operations that have not completed keep an io_context going too.
Outstanding(c) ==
    \/ Ready(c)
    \/ \E a \in Acceptor : exec[a] = c /\ apc[a] = "accepting"
    \/ \E k \in Conn : kctx[k] = c /\ cst[k] = "open"

\* poll() of one io_context after the other, by stop().
Poll(t) ==
    /\ tpc[t] = "poll"
    /\ \/ /\ ta[t] < Contexts /\ ctx[ta[t]] = "idle"
          /\ ctx' = [ctx EXCEPT ![ta[t]] = "polled"]
          /\ UNCHANGED <<tpc, ta>>
       \/ /\ ta[t] < Contexts /\ ctx[ta[t]] = "polled" /\ ~Ready(ta[t])
          /\ ctx' = [ctx EXCEPT ![ta[t]] = "over"]
          /\ ta' = [ta EXCEPT ![t] = @ + 1] /\ UNCHANGED tpc
       \/ ta[t] = Contexts /\ GotoStop(t, "join") /\ UNCHANGED <<ctx, ta>>
    /\ UNCHANGED <<flag, connVars, startVars, accVars, has_run_or_stop, work,
                   next_ctx, thd, promise>>

\* run() of thd_, unless stop() was first.
Run ==
    /\ thd = "created" /\ has_run_or_stop' = TRUE
    /\ \/ has_run_or_stop /\ thd' = "over" /\ UNCHANGED ctx
       \/ /\ ~has_run_or_stop /\ thd' = "joining"
          /\ ctx' = [c \in Ctx |-> "running"]
    /\ UNCHANGED <<flag, connVars, startVars, stopVars, accVars, work, next_ctx,
                   promise>>

\* Mutant: the io_contexts are told to stop, as stop(true) does.
Forced(c) == TRUE

\* Nothing is left to do.
Drained(c) == ~Outstanding(c)

\* An io_context runs out of work.
CtxOver(c) ==
    /\ ctx[c] = "running" /\ ~work /\ Drained(c)
    /\ ctx' = [ctx EXCEPT ![c] = "over"]
    /\ UNCHANGED <<flag, connVars, startVars, stopVars, accVars, has_run_or_stop,
                   work, next_ctx, thd, promise>>

\* The threads are joined, the promise set, thd_ ends.
RunEnd ==
    /\ thd = "joining" /\ \A c \in Ctx : ctx[c] = "over"
    /\ thd' = "over" /\ promise' = TRUE
    /\ UNCHANGED <<flag, connVars, startVars, stopVars, accVars, has_run_or_stop,
                   work, next_ctx, ctx>>

\* The end of pool_.stop(), the future of promise_, and of stop(): thd_ is
\* joined.
StopEnd(t) ==
    /\ \/ tpc[t] = "promise" /\ promise /\ GotoStop(t, "join")
          /\ UNCHANGED flag
       \/ tpc[t] = "join" /\ thd = "over" /\ GotoStop(t, "done")
          /\ flag' = "stop"
    /\ UNCHANGED <<connVars, startVars, ta, accVars, poolVars>>

---------------------------------------------------------------------------
(* The accept loops, accept_impl() and accept(), on their executors.       *)

\* One more async_accept() for a connection on the next io_context: on an
\* acceptor that is closed it fails with bad_descriptor.
AcceptNext(a) ==
    /\ apc' = [apc EXCEPT ![a] = IF open[a] THEN "accepting" ELSE "failed"]
    /\ got' = [got EXCEPT ![a] = NoConn]
    /\ sock' = [sock EXCEPT ![a] = Executor(0)] /\ next_ctx' = Executor(1)

\* The first one, after the dispatch.
AcceptFirst(a) ==
    /\ apc[a] = "posted" /\ Runs(exec[a])
    /\ apc' = [apc EXCEPT ![a] = IF open[a] THEN "accepting" ELSE "failed"]
    /\ UNCHANGED <<flag, connVars, startVars, stopVars, open, accept_started,
                   waiter, close_posted, exec, sock, got, poolVars>>

\* A client connects.
Arrive(a, k) ==
    /\ apc[a] = "accepting" /\ open[a] /\ Runs(exec[a]) /\ cst[k] = "none"
    /\ apc' = [apc EXCEPT ![a] = "got"] /\ got' = [got EXCEPT ![a] = k]
    /\ cst' = [cst EXCEPT ![k] = "accepted"]
    /\ UNCHANGED <<flag, conns, closing, kctx, startVars, stopVars, open,
                   accept_started, waiter, close_posted, exec, sock, poolVars>>

\* The connection is registered and started, and the loop goes on.
Register(a) ==
    /\ apc[a] = "got" /\ Runs(exec[a])
    /\ cst' = [cst EXCEPT ![got[a]] = "open"] /\ conns' = conns \cup {got[a]}
    /\ kctx' = [kctx EXCEPT ![got[a]] = sock[a]]
    /\ AcceptNext(a)
    /\ UNCHANGED <<flag, closing, startVars, stopVars, open, accept_started,
                   waiter, close_posted, exec, has_run_or_stop, work, ctx, thd,
                   promise>>

\* client_filter_ refuses it, or accepting failed for another reason than the
\* end of the acceptor: the loop goes on as well.
Refuse(a) ==
    /\ Reconsider /\ Runs(exec[a])
    /\ \/ /\ apc[a] = "got" /\ cst' = [cst EXCEPT ![got[a]] = "refused"]
       \/ apc[a] = "accepting" /\ open[a] /\ UNCHANGED cst
    /\ AcceptNext(a)
    /\ UNCHANGED <<flag, conns, closing, kctx, startVars, stopVars, open,
                   accept_started, waiter, close_posted, exec, has_run_or_stop,
                   work, ctx, thd, promise>>

\* Mutants: only operation_aborted counts as the end of an acceptor; the loop
\* goes on after it.
OnlyAborted(a) == apc[a] = "accepting"
GoOn(a) == "failed"

\* operation_aborted, or bad_descriptor.
Ended(a) == apc[a] \in {"accepting", "failed"}

\* What accept_impl() does then.
AfterEnd(a) == "exited"

\* The acceptor is closed: the waiter is told and the loop ends.
AcceptEnd(a) ==
    /\ Ended(a) /\ ~open[a] /\ Runs(exec[a])
    /\ apc' = [apc EXCEPT ![a] = AfterEnd(a)]
    /\ waiter' = [waiter EXCEPT ![a] = IF @ < 2 THEN @ + 1 ELSE @]
    /\ UNCHANGED <<flag, connVars, startVars, stopVars, open, accept_started,
                   close_posted, exec, sock, got, poolVars>>

\* The close that close_now() queued.
RunClose(a) ==
    /\ close_posted[a] /\ Runs(exec[a])
    /\ close_posted' = [close_posted EXCEPT ![a] = FALSE]
    /\ open' = [open EXCEPT ![a] = FALSE]
    /\ UNCHANGED <<flag, connVars, startVars, stopVars, accept_started, waiter,
                   exec, apc, sock, got, poolVars>>

---------------------------------------------------------------------------
(* Connections.                                                            *)

\* close() and its quit callback: because async_close() was called ...
AsyncClose(k) ==
    /\ k \in closing /\ Runs(kctx[k]) /\ closing' = closing \ {k}
    /\ cst' = [cst EXCEPT ![k] = "closed"] /\ conns' = conns \ {k}
    /\ UNCHANGED <<flag, kctx, startVars, stopVars, accVars, poolVars>>

\* ... or because the peer is gone, the handshake failed, the connection
\* timed out or belongs to another protocol.
ConnEnd(k) ==
    /\ cst[k] = "open" /\ Runs(kctx[k])
    /\ cst' = [cst EXCEPT ![k] = "closed"] /\ conns' = conns \ {k}
    /\ UNCHANGED <<flag, closing, kctx, startVars, stopVars, accVars, poolVars>>

---------------------------------------------------------------------------
Start == AsyncStart \/ StoreStarted \/ Dispatch \/ StartReturn
Stop(t) ==
    \/ StopBegin(t) \/ CloseNow(t) \/ CloseDirect(t) \/ CloseWait(t) \/ Sweep(t)
    \/ PoolStop(t) \/ WorkClear(t) \/ Poll(t) \/ StopEnd(t)
Accept(a) ==
    \/ AcceptFirst(a) \/ Register(a) \/ Refuse(a) \/ AcceptEnd(a) \/ RunClose(a)

Next ==
    \/ Start \/ Run \/ RunEnd
    \/ \E t \in Stopper : Stop(t)
    \/ \E c \in Ctx : CtxOver(c)
    \/ \E a \in Acceptor : Accept(a) \/ \E k \in Conn : Arrive(a, k)
    \/ \E k \in Conn : AsyncClose(k) \/ ConnEnd(k)

Spec == Init /\ [][Next]_vars

\* Threads that are in start() or stop() run on, and so do the io_contexts.
\* Nobody has to call start() or stop(), and no client has to do anything.
Fairness ==
    /\ WF_vars(StoreStarted \/ Dispatch \/ StartReturn)
    /\ WF_vars(Run) /\ WF_vars(RunEnd) /\ \A c \in Ctx : WF_vars(CtxOver(c))
    /\ \A t \in Stopper : WF_vars(tpc[t] # "idle" /\ Stop(t))
    /\ \A a \in Acceptor :
         /\ WF_vars(AcceptFirst(a)) /\ WF_vars(Register(a))
         /\ WF_vars(AcceptEnd(a)) /\ WF_vars(RunClose(a))
    /\ \A k \in Conn : WF_vars(AsyncClose(k))

FairSpec == Spec /\ Fairness

---------------------------------------------------------------------------
(* Properties.                                                             *)

\* Every variable keeps its type; acceptor_close_waiter_ is set at most once:
\* a second set_value() throws, and the exception would make an io_context
\* call stop(), which waits for it.
TypeOK ==
    /\ flag \in {"init", "started", "stop"} /\ conns \subseteq Conn
    /\ cst \in [Conn -> {"none", "accepted", "refused", "open", "closed"}]
    /\ closing \subseteq Conn /\ kctx \in [Conn -> Ctx]
    /\ spc \in {"idle", "refused", "store", "dispatch", "wait", "returned"}
    /\ sa \in Acceptor /\ ta \in [Stopper -> 0..Acceptors + Contexts]
    /\ tpc \in [Stopper -> {"idle", "close", "direct", "load", "await", "sweep",
                            "pool", "work", "unrun", "promise", "poll", "join",
                            "done"}]
    /\ open \in [Acceptor -> BOOLEAN] /\ accept_started \in [Acceptor -> BOOLEAN]
    /\ waiter \in [Acceptor -> 0..1] /\ close_posted \in [Acceptor -> BOOLEAN]
    /\ exec \in [Acceptor -> Ctx] /\ sock \in [Acceptor -> Ctx]
    /\ apc \in [Acceptor -> {"none", "posted", "accepting", "got", "failed",
                             "exited"}]
    /\ got \in [Acceptor -> Conn \cup {NoConn}]
    /\ has_run_or_stop \in BOOLEAN /\ work \in BOOLEAN /\ next_ctx \in Ctx
    /\ ctx \in [Ctx -> {"idle", "running", "polled", "over"}]
    /\ thd \in {"none", "created", "joining", "over"} /\ promise \in BOOLEAN

\* Once stop() has swept conns_ no connection is forgotten: each one that is
\* open has been told to close, and no accept loop will bring another.
SweptAll ==
    (\E t \in Stopper : tpc[t] \in {"pool", "work", "unrun", "promise", "poll",
                                    "join"})
    => \A k \in Conn : cst[k] # "accepted" /\ (cst[k] = "open" => k \in closing)

\* "Block and wait server stops": stop() always comes to its end, whatever
\* start() was doing when it was called.
StopReturns == \A t \in Stopper : tpc[t] # "idle" ~> tpc[t] = "done"

\* "otherwise block until server stop": start() returns when the server has
\* been stopped.
StartReturns == (spc = "wait" /\ flag = "stop") ~> spc = "returned"

Lifecycle == INSTANCE ServerLifecycle WITH
    phase <- flag,
    live <- {k \in Conn : cst[k] = "open"},
    served <- {k \in Conn : cst[k] \in {"open", "closed"}}

\* The server keeps the promises of ServerLifecycle: nobody is served before
\* start() or after stop(), and stop() leaves no connection behind.
ImplementsLifecycle == Lifecycle!Spec

=============================================================================
