# A verification development for yalantinglibs: coro_rpc and coro_io

TLA+ models, TLC runs and TLAPS proofs for the concurrent core of
yalantinglibs. All paths are relative to the repository (`src/` in
`PROJECT.json` is its root).

The two questions behind the project are whether the lock-free hand-overs of
the RPC client and server, the client pool and the smaller concurrent parts are
right in every interleaving, and what happens to them when sockets, timers and
hosts fail, or a stop comes, at the wrong moment. `PROJECT.json` holds the list of hazards with their lines,
the map from definitions to source lines, the runs, the mutants that show each
property can fail, and the theorems.

## 1. Inventory

yalantinglibs is a header-only C++20 library. Its own logic falls into these
parts; `PROJECT.json` lists each of them with its sources and its status.

| Part | State | Operations | Interacts through |
|---|---|---|---|
| **coro_rpc client** (`coro_rpc/impl/coro_rpc_client.hpp`) | `has_closed_`, `is_timeout_`, `recv_running_`, the response handler table, `write_mutex_`, `request_id_`, `connect_mutex_`, the socket | `connect`, `send_request`, `recv`, `timeout`, `close` | bytes of the socket, the executor it posts to, timers, promises of its callers |
| **coro_rpc connection** (`coro_rpc/impl/coro_connection.hpp`, `context.hpp`) | `write_queue_`, `rpc_processing_cnt_`, `is_rpc_return_by_callback_`, the keep-alive timer, `context_info_t::status_` | `start_impl`, `response`, `send_data`, `reset_timer`, `cancel_timer`, `close`, `context::response_msg/_error` | the socket, handlers of the user on any thread, `asio::dispatch` |
| **coro_rpc server** (`coro_rpc_server.hpp`, `nd_server_acceptor.hpp`, `coro_io/server_acceptor.hpp`) | `flag_`, connection map, acceptors | `async_start`, `stop`, `accept` | creates connections, joins the executor threads |
| **router, rpc_execute, protocol** (`router.hpp`, `rpc_execute.hpp`, `protocol/`) | handler maps, filled before the start | register, route | called by the connection |
| **client pool** (`coro_io/client_pool.hpp`, `detail/client_queue.hpp`) | two queues of free clients with two halves each, their sizes, `is_alive_`, DNS cache | `send_request`, `get_client`, `reconnect`, `alive_detect`, `collect_free_client`, the idle collectors, `clear` | owns clients; called by load balancers and users on any thread |
| **load balancer** (`coro_io/load_balancer.hpp`) | round-robin counters, weights | `send_request`, the three algorithms | picks a client pool |
| **rate limiter** (`coro_io/rate_limiter.hpp`) | permits stored, next free ticket time | `acquire`, `set_rate` | sleeps on the executor |
| **io_context pool** (`coro_io/io_context_pool.hpp`) | the contexts, `work_`, promise of stop, total threads | `run`, `stop`, `get_executor` | runs everything above |
| **coro_io primitives** (`coro_io/coro_io.hpp`) | cancellation handshake of one I/O | `async_io`, `sleep_for`, `period_timer` | asio, signals of async_simple |
| **socket wrapper** (`coro_io/socket_wrapper.hpp`) | the socket variant, `init_ok_` | `init_client`, `visit`, `close` | used by client and connection |
| **circle buffer, ibverbs, urma, networkdirect, cuda** | ring, RDMA queues | | hardware |
| **metric** (`metric/*.hpp`) | counters, dynamic metric maps, summaries | `inc`, `observe`, `serialize` | any thread |
| **easylog** (`easylog/*.hpp`) | queue of records, rotating files | `write`, `flush`, `stop` | any thread, one writer thread |
| **util** (`util/map_sharded.hpp`, ...) | sharded maps | | |
| **coro_http / cinatra** (`standalone/cinatra`) | HTTP client, server, sessions, websocket | | |
| **struct_pack, struct_json/xml/yaml/pb, iguana, reflection** | none | (de)serialization | sequential template code |


What is hard in this code, and what makes each part correct:

* **client**: callers on several threads share one socket, one table and one
  receiver. Correct means: one receiver, no waiter forgotten, a response
  reaches its own caller, writes do not overlap, calls with a timeout return,
  and a reconnect is not undone by leftovers of the old socket.
* **connection**: one executor thread, but handlers answer from any thread and
  at any later time. Correct means: a request is answered once and with its
  own header, a response in the queue has a writer, calls in execution are
  counted exactly, the keep-alive timer rests while they execute and a silent
  client is disconnected.
* **pool and queue**: only atomics and concurrent queues. Correct means: a pool
  with free clients is usable, an unusable pool is watched, retries are counted
  right, sizes are right, fresh clients are not collected and idle ones are.
* **server and io_context pool**: `start()`, several `stop()`s, the accept loops
  and the threads of the pool meet. Correct means: nobody is served before the
  start or after the stop, no connection slips in behind the sweep of `conns_`,
  and both calls return.
* **async_io**: the starting thread, the signal and the completion share one
  flag. Correct means: a signal ends the wait, and the object is not touched
  after its owner has it back.
* **endpoint cache**: no lock is held. Correct means: a stale address leaves the
  cache, and the retries of a call outlast it.
* **easylog**: correct means: records of before a stop are written, `stop()`
  returns, and rolling drops the oldest records only.
* **metric**: correct means: nothing is lost or counted twice, and `value()` is
  plausible although it is no snapshot.
* **rate limiter, load balancer, circle buffer**: arithmetic and wrap-around.

## 2. Modules

| Module | Models | Uses |
|---|---|---|
| `RpcClient` | one `coro_rpc_client` | |
| `RpcConnection` | one server-side `coro_connection` and its contexts | |
| `RpcServer` | one `coro_rpc_server` with its TCP acceptors and `io_context_pool` | `ServerLifecycle` |
| `ServerLifecycle` | what a server promises (abstract) | |
| `ClientPool` | one `client_pool` with its `alive_detect` coroutines | |
| `ClientQueue` | one `client_queue` and its collector | |
| `DnsCache` | the endpoint cache of a pool, in `reconnect_impl()` | |
| `AsyncIo` | one call of `async_io()` and its cancellation | |
| `LoadBalancer` | `send_request()` of the balancer, round robin and weighted | |
| `CircleBuffer` | `circle_buffer` | `BoundedQueue` |
| `BoundedQueue` | a queue with a capacity (abstract) | |
| `RateLimiter` | `smooth_bursty_rate_limiter` | |
| `ThreadLocalValue` | `thread_local_value` of the metrics | |
| `Appender` | the asynchronous log | |
| `MCRpcClient`, `MCRpcConnection`, `MCClientQueue`, `MCRpcServer`, `MCAppender` | instances for TLC | the module named |
| `MCComponents` | one instance of nine components | extends them all; `ClientQueue`, which has an instance of its own, by `INSTANCE` |
| `RpcClientProofs`, `RpcConnectionProofs`, `RpcServerProofs`, `ClientPoolProofs`, `ClientQueueProofs` | theorems | the module named, `TLAPS` |
| `CoroIoProofs` | theorems | `AsyncIo`, `RateLimiter`, `CircleBuffer` |
| `HostProofs` | theorems | `DnsCache`, `LoadBalancer` |
| `FoldProofs` | theorems, and the lemmas on folds they need | `ThreadLocalValue`, `LoadBalancer`, `Appender` |

**RpcClient.** A call of `send_request` is an element of `Req`; a recv coroutine
is named by the call that started it. Variables carry the names of the members
they model (`has_closed`, `recv_running`, `table`, `write_mutex`, ...). The
actions follow the code in order: `Begin`, `Emplace`, `CheckClosed`,
`StartWrite`, `WriteOk`/`WriteFail`, `WriteErrorClose`, `EraseFailed`,
`StartRecv`, `Await` for the caller; `ReadHead`, `ReadBody`, `ReadFail`,
`Erase`, `StoreFalse`, `Recheck`, `Cas`, `BreakClose`, `SendErrResponse` for
`recv`; `ConnectBegin`, `ResetSocket`, `ResolveFail`/`ConnectStart`,
`ConnectOk`/`ConnectRefused`/`ConnectAborted` for `connect`; `Expire`,
`Timeout`, `ConnExpire`, `ConnTimeout` for the timers; `UserClose`, `RunClose`,
`PeerDown`. A step is one access to shared state, so the interleavings are
those of any number of threads. A write is one step at the socket: its bytes
are not modelled, only whether two writes are outstanding. The ghost variable
`excuse` records that somebody had a reason to close the current socket, `from`
which request a promise was filled for. Three constants state how the client is
used: `QuietReconnect` (connect only without pending calls), `CallConnected`
(call only after a successful connect), `InitMayFail` (the process may run out
of descriptors).

**RpcConnection.** The connection runs on one executor thread, so an action of
it is a whole handler; user handlers are threads of their own and take one
access per step. `Coro`, `Callback`, `Throwing` and `Dropping` say what kind of
handler a request is routed to; `Copies` are the copies of its context a handler
may answer through. `Claim` is the exchange on `status_`, `RunPosted` the
dispatch of a response to the executor of the connection. The ghost variable
`sent` is the order on the wire.

**ClientPool.** A call of `send_request` becomes, once refused, the
`alive_detect` coroutine it started; `pc` names the line it is at. The host is
up or down (`HostFlip`). The two queues are sets. The label `"given up"` is a
detector that ended because `init_config()` failed (see §6).

**ClientQueue.** The inside of one of these queues: halves as sets (the
concurrent queue orders only the elements of one producer), counters modulo
`SizeSpace`, the thread-local index read once, the second client looked at when
the first has a long pipeline, and the collector with `clear_old()` step by
step. `lost` counts clients destroyed by an enqueue whose result the code
ignores, `fresh` the clients returned since the last `reselect()`. The clients in
`Own` have the executor the collector runs on: as its loop over `clear_old()`
does not suspend, their responses and timeouts wait until it ends (`Looping`).

**RpcServer.** One thread is in `start()`, the elements of `Stopper` are in
`stop()`, `thd_` is in `run()` of the pool. The locked part of `async_start()` is
one step, because whoever else wants `start_mtx_` waits; what follows it is
taken apart (`StoreStarted`, `Dispatch` for each acceptor). `stop()` holds the
mutex from `StopBegin` to its end, and its calls are steps: the two looks at
`accept_started_` (`CloseNow`, `CloseWait`), the sweep, the exchange on
`has_run_or_stop_`, `work_.clear()`, `poll()` or the wait for the promise, the
join. An io_context is modelled from its use: it runs what is queued on it, and
is over for good when the work guard is gone and nothing is queued or pending.
An accept loop runs on the context of its acceptor, a connection on the one the
round robin gave it. `waiter` counts how often `acceptor_close_waiter_` was set;
a second time throws. `Lifecycle` maps `flag_` and the open connections to
`ServerLifecycle`.

**DnsCache.** A caller is a coroutine in `reconnect()`; every access to `eps_`,
`timepoint_` and the mutex is a step. Endpoints are the addresses the host has
had, and connecting succeeds when the address is the present one. A time point
is kept by its identity, because the code compares it with what it read; whether
it is outdated is a free choice. Nothing is assumed of the sleep between two
attempts, which the code skips when the failed one took longer than
`reconnect_wait_time`. The ghost `excused` marks a call during which the host
moved, or one of whose retries read the cache while another caller was between
its exchange and the end of its store. A cache switched off by a negative
`dns_cache_update_duration` always resolves, and is not modelled.

**AsyncIo.** The exchange of flags is the same code in the starting thread and
in the signal handler, and one operator here (`CancelStep`). The coroutine may
be resumed while the starting thread is still in it. The slot of async_simple is
modelled from its use.

**LoadBalancer.** The counter of the round robin wraps at `IndexSpace`; a turn of
the weighted walk is a step, with one call at a time because its state is not
protected. Which hosts are alive is chosen at the start. Weights are natural
numbers: the code takes `int` and does not look for negative ones, which would
mean no share.

**CircleBuffer, RateLimiter.** Sequential. The ring is mapped to the sequence of
its elements; the limiter counts permits by the time they cost, which
`set_rate()` leaves alone. Clock, intervals (doubles in the code) and prices are
in ticks finer than the millisecond the code cuts to; the ghost `cuts` counts
the prices that were cut.

**ThreadLocalValue.** A step is one access to a duplicate or to a pointer to
one. `added`, `returned` and `low` are ghosts: what was put in, what `update()`
gave back, and what a reader of `value()` may rely on.

**Appender.** Producers, the writing thread and `stop()`. The concurrent queue
keeps the order of each producer only. `notify_one()` does nothing unless the
writer is blocked, so the notification of `write()` may be lost. Files are
sequences of records; rolling is done in one step, by the only thread that
touches them.

## 3. Runs

Every run of TLC is a row; all pass except those that end in a finding (§6).

| Run | Shows | Instance |
|---|---|---|
| `client_pipeline` | `OwnResponse`, `OneWriter`, `NoLostWakeup`, types | three pipelined calls over two ids, one request too large, before, during and after the one connect, a second connect waiting, any order of answers, peer and user closing |
| `client_live` | `ConnectedStaysOpen` if connect is called on a quiet client; `SingleReceiver` with timers and a reconnect; `TimedCallReturns` | two calls, one timed, two connects with a timer, sockets that cannot be opened |
| `connection_handlers` | `QueueServed`, `CountExact`, `TimerOnlyWhenIdle`, `AnswersOwnRequest`, `AnsweredOnce`, `SilentClientClosed`, types | a coroutine, a callback with two copies of its context that may be dropped, a plain handler |
| `queue_halves` | `FreshSurvives`, `SizeCounts`, `CollectorStarted`, types | two threads, two clients, a failing allocation |
| `server_stop` | `SweptAll`, `StopReturns`, `ImplementsLifecycle`, types | two acceptors, two io_contexts, two threads in `stop()`, two clients, a listen that may fail |
| `components` | see below | nine components |
| `client_stale`, `client_leak`, `connection_throw`, `queue_spin`, `server_early`, `appender_stop` | findings | |

`components` is one run for nine components that are too small for one each. The
variable `part` chooses the component that moves, the others stay in their
initial states, and the fairness of a component is asked for when it is the one
that moves; the state space is the sum of theirs, not the product.

| Component | Shows | Instance |
|---|---|---|
| `ClientPool` | `FreeMeansAlive`, `RefusedAfterRetries`, `AliveDetected`, `AliveAgain`, types | two calls, two changes of the host, a counter of two values, clients that may not be set up |
| `ClientQueue` | `IdleCollected` | one thread, two clients, one of them on the executor of the collector, two cleared per round |
| `DnsCache` | `RetriesSuffice`, `StaleLeaves` | two callers, two retries, the host moves once |
| `AsyncIo` | `ObjectAlive`, `SignalReturns` | complete: it has no parameters |
| `LoadBalancer` | `AliveFound`, `SharesKept` | two callers, three hosts, a counter of five values, five vectors of weights |
| `CircleBuffer` | `ImplementsQueue` | capacity three, two elements |
| `RateLimiter` | `RateKept` | intervals of 2/3, 1 and 4/3 ms, up to three permits, three ms |
| `ThreadLocalValue` | `Conserved`, `ReadBetween` | three threads, two duplicates |
| `Appender` | `NewestKept`, `StopReturns` | two threads with two records each, two files |

Bounds. Two callers are enough for a hand-over between a leaving receiver and a
new caller; three let a third one act between the two halves of the race, and
let ids wrap (`IdSpace = 2`). Two connects are one reconnect. Three requests on
a connection are one of every kind. Two calls on a pool are a detector and a
loser of its exchange, or a call that returns a client in between; the proofs
cover any number. Two acceptors and two threads in `stop()` let one accept loop
end while the other has not begun, and a second `stop()` wait for the first. Two
callers of the endpoint cache are a winner and a loser of every exchange; with
fewer than two retries `RetriesSuffice` fails (the default of the code is
three). Five values of the round-robin counter are
not a multiple of three hosts, so a round meets the wrap; the weights have a
common divisor, a host without weight, and no weight at all. Three threads on
two duplicates share one. Three milliseconds are more than a burst of
the limiter, which is two, and the intervals make prices that are cut by one tick,
by two and not at all. In the queue two clients are
what the choice of the less busy one needs, and `SizeSpace = 4` makes the drift
of the counters wrap. `CHECK_DEADLOCK` is off because every one of these systems
may come to rest: calls end and no more are issued.

Fairness. The executor runs what is ready, so every continuation of a coroutine
is weakly fair; so are timers, because the clock goes on. Nothing is assumed of
the server: `TimedCallReturns` holds although no response has to arrive.
`SilentClientClosed` assumes that handlers finish or drop their context. `AliveAgain` assumes that the
connects of a detector to a host that is up succeed infinitely often if tried
infinitely often (strong fairness of `DetectOk`). The queue assumes
that `try_dequeue()` and `enqueue()`, which do not suspend, end, and that the
pending calls of clients on other executors than the collector's are answered
or time out; of those on its own it assumes nothing while it is looping, and of
the user's `op()` nothing at all. With that `IdleCollected`, and so that the loop
over `clear_old()` ends, holds as long as fewer clients than one round clears
share the executor of the collector; `queue_spin` shows that this is needed. One
thread is enough for it because the part with two, who starts the collector, is
the invariant `CollectorStarted`. In the server the threads that are
in a call run on and an io_context runs what is queued on it; nobody has to call
`start()` or `stop()`, no client has to leave. `SignalReturns` assumes nothing of
an operation that is not canceled, `StaleLeaves` that the pool is used (its
callers call again), `StopReturns` of the log that its two threads run on.

Mutants. For every property of every passing run `PROJECT.json` names a
variation of one definition, written next to it and marked `Mutant`, that makes
the property fail in that run.

## 4. Proofs

The proof modules show for every value of the constants (any number of calls,
ids, connections, threads, clients, retries, ...) what TLC checks on instances;
`AsyncIo` has no constants, and its proof records why it is right. Every
invariant of every passing run is stated by a theorem, and so are the two
refinements. TLC has checked the inductive invariants below on the instances of the
runs too, with bounds for their quantifiers over numbers. The only assumptions are the `ASSUME`s of the
modules, which TLC evaluates, and the hypotheses named here.

| Theorem | States | Hypotheses |
|---|---|---|
| `RpcClientProofs!TypeCorrect`, `OneReceiver`, `WritesExclude` | `TypeOK`, `SingleReceiver`, `OneWriter` | none |
| `RpcClientProofs!WakeupNotLost`, `ResponsesMatch` | `NoLostWakeup`, `OwnResponse` | the id counter has not wrapped |
| `RpcClientProofs!ReconnectIsClean` | `ConnectedStaysOpen` | the same, `QuietReconnect`, `CallConnected` |
| `RpcConnectionProofs!TypeCorrect`, `QueueAlwaysServed` | `TypeOK`, `QueueServed` | none |
| `RpcConnectionProofs!AnswersMatch`, `NoSecondAnswer` | `AnswersOwnRequest`, `AnsweredOnce` | no handler throws after keeping its context |
| `RpcConnectionProofs!CountIsExact`, `TimerSparesCalls` | `CountExact`, `TimerOnlyWhenIdle` | the same; finitely many requests, fewer than the counter has values |
| `RpcServerProofs!TypeCorrect`, `SweepForgetsNothing` | `TypeOK`, `SweptAll` | none |
| `RpcServerProofs!KeepsLifecycle` | `ImplementsLifecycle` | none |
| `ClientPoolProofs!TypeCorrect`, `NeverGivenUp`, `FreePoolIsAlive`, `RetriesCounted` | `TypeOK`, `AliveDetected`, `FreeMeansAlive`, `RefusedAfterRetries` | none |
| `ClientQueueProofs!TypeCorrect`, `FreshOutOfReach` | `TypeOK`, `FreshSurvives` | none |
| `ClientQueueProofs!CollectorNotMissed` | `CollectorStarted` | `size_t` has more than one value |
| `ClientQueueProofs!SizeIsExact` | `SizeCounts` | finitely many threads and clients |
| `CoroIoProofs!CancelBeforeReturn` | `ObjectAlive` | none |
| `CoroIoProofs!RateIsKept` | `RateKept` | none |
| `CoroIoProofs!WholeRatesExact` | `RateKept` without its allowance for cuts | the burst and all intervals are whole milliseconds |
| `CoroIoProofs!RingIsQueue` | `ImplementsQueue` | a capacity above 0 |
| `HostProofs!StaleCacheForgotten` | `RetriesSuffice` | at least two retries, finitely many callers |
| `HostProofs!AliveHostFound` | `AliveFound` | the counter has a value for each host |
| `FoldProofs!NothingLost`, `ReadsBetween` | `Conserved`, `ReadBetween` | finitely many threads, at least one duplicate |
| `FoldProofs!SharesAreKept` | `SharesKept` | weights are natural numbers |
| `FoldProofs!NewestRecordsKept` | `NewestKept` | none |

*RpcClient.* `TypeCorrect` is an induction on `TypeOK` with one step per action.
`OneReceiver` needs only that invariant: each step that turns `recv_running` on
or off moves the ownership of the input with it. `WritesExclude` adds to
`OneWriter` that who writes holds `write_mutex_` (`WriterInv`); an abort of the
write by a close leaves the lock with the caller. `WakeupNotLost` and
`ResponsesMatch` share the invariant `CallInv`: ids in use are distinct
(`UniqueIds`), only begun calls are in the table or at the server (`Begun`), the
handler a receiver has taken is that of the message it read (`Dispatch`), a
registered call without an outcome is in the table (`InTable`), and when the
table is not empty somebody will look at it (`Attended`). Neither property is
inductive alone: `NoLostWakeup` speaks of waiting calls only, and has to be
carried from the insertion on. Both theorems assume `MaxCalls <= IdSpace`: that
the counter has not wrapped around, because `UniqueIds` speaks of all ids handed
out. After a wrap the argument would have to be that ids are unique among the
calls in the table and at the server; `client_pipeline` checks `OwnResponse`
there on an id space of two. For a client that calls `connect()` with calls
pending the assumption cannot be dropped: with `QuietReconnect = FALSE`, two
connects, three calls and two ids, TLC violates `OwnResponse`. The receiver left
over from the old socket clears the whole table, a new call takes the id of one
still at the server, and gets its response. With `QuietReconnect = TRUE` the
same instance holds. An id of the code has 32 bits, so this needs 2^32 calls.

`ReconnectIsClean` is the other side of the finding `client_stale`: it says
what a user must do for `ConnectedStaysOpen`. Its invariant `CleanInv` has three
parts. `Linked` follows `connect()`: unless it has succeeded the client is
quiet, and without a reason the client is marked closed only between
`close_socket()` and the flags being cleared. `Serving` says that as long as
nobody has a reason to close, the socket is open, no write has failed, no recv
loop has ended and every request at the server has its handler, so that no
coroutine has cause to close either. `OnWire` supports the last point: a response
is read once. The set of unanswered requests has to be emptied with the old
socket; with a call pending at the reconnect `Linked` fails at once, which is
the finding.

*RpcConnection.* `SafeInv` adds to the types and `QueueServed` that a handler
that was called has a context with a header, and the read loop one before it
calls (`ReadInv`). The other theorems rest on `ContextInv`, about who owns a
context: an unsent request has touched none (`UnsentInv`), a live handler's
context holds its header and the context the read loop may reuse is in nobody's
hands (`OwnerInv`), and one copy at most is between its claim and its answer
(`ClaimInv`). `OnceInv` and `OwnInv` carry this along the three places a
response passes, `posted`, `write_queue` and `sent`. `CountInv` says that
`rpc_processing_cnt_` is the cardinality of the executing and the posted calls;
cardinalities are why the requests must be finitely many, and the counter being
larger than their number is what excludes its wrap. A handler that throws after
keeping its context is answered twice (finding `connection_throw`), and the
second answer takes the counter down again: the hypothesis `Throwing = {}` is
necessary.

*RpcServer.* `SweptAll` is true at one moment of `stop()` only, and inductive
with six parts: `start_mtx_` admits one `stop()` at a time (`LockInv`); how far
the loop of `start()` has come (`StartInv`); a waiter is set by a loop that has
ended (`WaiterInv`); what `stop()` has closed stays closed, also for a `start()`
still dispatching (`CloseInv`), the part that covers the race of the two; a
connection is in one hand between its accept and its end (`ConnInv`); an
io_context that is over has and gets no connection (`PoolInv`). The same
invariant gives the refinement, step by step: only the end of `async_start()`,
of a `stop()`, and the beginning and the end of a connection are steps of
`ServerLifecycle`, all others stutter.

*ClientPool.* `NeverGivenUp` excuses detectors that have given up (see the
observation in §6); `AliveDetected` together with the types is inductive, and so is
`FreeMeansAlive`. `RetriesCounted` uses `RetryInv`: while a call is connecting,
either it has not tried yet and the counter is at its maximum, or the counter is
the number of tries less one and below the limit.

*ClientQueue.* `FreshOutOfReach` needs that a client is in one place only
(`PlaceInv`: a half, aside, or one thread's hands), which hands are full
(`LocalInv`), and that a fresh client on its way is on its way to the selected
half (`FreshInv`), although the index was read earlier. `SizeIsExact` counts: each
step changes `size()` and the number of clients by the same amount modulo
`SizeSpace` (`CountStep`). `clear_old()` may take its subtraction off either
counter because only the sum is claimed; the lemmas on remainders (`ModAdd`)
make that an argument for every width. `CollectorNotMissed`: until the collector
is started only one half is used (`OneHalf`), and either no client has been
counted (`Untouched`) or the thread that counted to one is on its way to start it
(`Starter`); nobody else's steps can take that away from it.

*AsyncIo.* `CancelBeforeReturn`: `ObjectAlive` speaks of the moment after the
return only. The invariant behind it says who owns the flag: it is
`start_cancel_flag` exactly while one thread is between its claim and its store
(`OneCancels`), there is no exchange before the handler is in the slot (`Apart`),
and the coroutine returns with the flag at `finish_cancel_flag`, which nobody can
claim, or without any other thread taking part (`Closed`).

*RateLimiter.* `RateKept` is inductive with the types: `resync()` stores no more
time than the ticket moves on by, and a price that is cut loses less than a
millisecond, which the allowance grows by. For whole intervals
`WholeRatesExact` adds that what is stored is a whole number of milliseconds, so
that no price is ever cut.

*CircleBuffer.* The invariant is the type of the ring. The n-th element is at
`Place(n)`, the last one at `end_`, and as there are no more elements than
places `push()` overwrites none; the step to `BoundedQueue` compares the two
sequences element by element.

*DnsCache.* `RetriesSuffice` is about the end of a call, and everything that
leads to it depends on what other callers store meanwhile. The invariant counts
the failed attempts of a call that has seen no move of the host. After the first
one nobody who resolved before the move can win the exchange on `timepoint_` any
more (`Spent`), and, unless the call is excused, none of them is still storing
when the second attempt loads the cache (`Clean`). After the second one
the stale address is out of the cache or somebody is about to store a good one
(`Leaving`), so that the third attempt finds the present address or an empty
cache, and resolves. `OneStores`, that the mutex has one holder, is what makes a
lost `tryLock` harmless. `Beaten` says that an exchange was lost because
somebody else won it since.

*LoadBalancer.* `AllDrawnDead` says of a call nobody came between that every
index it has drawn belongs to a host that is dead; the indices drawn are an
interval of the counter's values, or two when it has wrapped (`Recent`). Of
`2 * size() + 1` consecutive values one of the two parts has at least `size()`
of them, and such an interval meets every host (a fact on remainders). For the
weights, the invariant says what each host has got in the middle of a cycle: the
part of its weight that is above the threshold, for the hosts the walk has
passed with the threshold included (`Walked`). It is kept because thresholds and
weights are multiples of the common divisor, so that a weight is never strictly
between two thresholds (`MultiplesApart`). At the lowest threshold all have got
their weights, and this stays true until the next cycle counts its first choice
(`BetweenCycles`).

*ThreadLocalValue.* `Conserved` is inductive with the types and with what a
thread knows of the duplicate it works on (`Placed`): it is there, whoever
allocated it. For `ReadBetween` a reader in the middle has at most what the
duplicates it has passed hold, and with what the others hold at least what was
stored when it began (`Between`).

*Appender.* `LogInv` names the records that were dropped: what was written is
those followed by the log, and there are some only if all `max_files` files
exist. Rolling moves the records of the last file over to them.

*Folds.* The sums, the common divisor and the joined files are folds of the
community modules, defined by a recursion over a set or a number. `FoldProofs`
shows first that the recursive function exists and is unique (`FoldUnfolds`),
then that an element may be taken out of a sum wherever it is, that the divisor
divides every weight, and that the first of some joined sequences may be split
off. The provers cannot instantiate an induction theorem with a predicate; each
of these lemmas takes a smallest set or number for which it fails, which exists
because the order is well-founded, and finds a smaller one. For the same reason
the operation of a fold is a name (`Combine`), not an operator parameter.

Only model-checked: the liveness properties `TimedCallReturns`,
`SilentClientClosed`, `StopReturns` (of the server and of the log), `AliveAgain`,
`IdleCollected`, `SignalReturns` and `StaleLeaves`, because
fairness and `ENABLED` are outside the reach of the provers used; and the client after
a wrap of its ids, where the invariant would have to be another one (see above).
No module declares a `RECURSIVE` operator.

## 5. Not modelled

The bytes of messages and of the protocol header, attachments, TLS, RDMA, the
text of the log. Memory reclamation: a coroutine that outlives its object is
kept alive by `shared_ptr` in the code and simply exists in the models; the
exception is `AsyncIo`, which is about it. Weak memory: every atomic access is a
step of a sequentially consistent memory.

Of the parts modelled: the NetworkDirect acceptor, the upgrade of a connection
to RDMA, and the handler that calls `stop()` when an accept loop ended with an
exception; the forced stop of the pool and the data it clears; the random
balancer, and concurrent calls of the weighted one; the synchronous mode, the
console and `flush()` of the log; of the metrics everything but the values; the
map of pools.

The parts left out altogether, with their reasons, are in `PROJECT.json`: the
hardware sockets and cuda (completion queues of devices), file I/O (system
calls), router and protocol (filled before the start, then only read),
serialization (sequential, generated at compile time), cinatra (a project of its
own), `util` and everything third-party (asio, async_simple, the concurrent
queue, iguana), which the models use by what the code expects of them.

## 6. Findings

* `client_stale`: `connect()` on a client with a pending call may return success
  and then be closed by the coroutine that was reading the old socket.
* `client_leak`: after a socket could not be opened, `connect()` returns with
  `connect_mutex_` locked; the next one waits forever.
* `connection_throw`: a handler that hands out its context and then throws is
  answered twice.
* `queue_spin`: the collector repeats `clear_old()` without suspending while a
  full round of clients is busy. If their executor is its own, which the global
  pool of io_contexts allows, the responses that would end the loop never run.
* `server_early`: a `stop()` between the unlocked end of `async_start()` and the
  start of the accept loops leaves `start()` waiting forever.
* `appender_stop`: when `stop_` is set between the two places where the writing
  thread looks at it, records logged before `stop()` are not written.

Some observations are not runs.
`clear_old()` subtracts from the counter of the wrong half (`client_queue.hpp`,
line 116): the sum stays right (`SizeCounts`), but the test `size_[index] > 1`
of line 69 reads a number that may have wrapped. An enqueue that
counted to one and then fails to allocate leaves the start of the collector to
the next time a half is counted to one; `CollectorStarted` and `IdleCollected`
excuse it. A call that fails with cached endpoints should "clear cache"
(`client_pool.hpp`, line 152), but drops its store when it loses the exchange or
the `tryLock` (line 161): while another caller is suspended by the system between
its store and its unlock, TLC finds a call refused after any number of retries
(checked for three and five). `RetriesSuffice` therefore excuses calls that retry
in the middle of a store. A call with a timeout during which `connect()` replaces
the socket may hang: its timer closed the old socket and its write waits on the new
one. `TimedCallReturns` is checked for clients that connect first, and reconnect
when quiet. `connect()` that waited for another one reports success whatever that one
returned (`coro_rpc_client.hpp`, line 682), and a timer of `connect()` that
expires during the resolve closes a socket that is not connecting yet (line
1206). A handler that keeps its context and never answers keeps the connection
open forever (`context.hpp`, line 107); `SilentClientClosed` excuses it. The limit
of free clients is read, compared and used in three steps, and so only
approximate (`client_pool.hpp`, line 360). If `init_config()` fails in
`alive_detect` (line 239) the pool stays marked not alive with no detector left:
`AliveDetected` and `AliveAgain` excuse detectors that gave up in this way.

If `accept()` ended with an exception, its callback would call `stop()` on an io
thread (`coro_rpc_server.hpp`, line 363), which waits for that thread; `TypeOK` of
the server shows that the exception of a promise set twice does not happen. The
state of the weighted balancer is not protected (`load_balancer.hpp`, line 102),
and `2 * size() + 1` tries need not reach the only host alive if its weight is
small. The limiter cuts what it charges to whole milliseconds (`rate_limiter.hpp`,
line 121): any rate whose prices are not whole, such as three permits per second
one by one, is exceeded by a fraction of a millisecond per call (`RateKept`), and
above 1000 per second single permits cost no time at all. A record
whose notification is lost waits for the next one (`appender.hpp`, line 289), and
`flush()` locks a mutex the asynchronous writer does not use (line 293).

## 7. Plan

1. Prove next: `NoLostWakeup` and `OwnResponse` after a wrap of the ids
   for quiet reconnects.
2. Compose: a client and a connection joined by a byte stream, shown to
   implement an abstract call (issued, executed at most once, returned once);
   `ClientQueue` shown to implement the sets `ClientPool` uses.
3. Model: labels of the dynamic metrics and their expiry, the summary with its
   refresh, the map of pools.
