----------------------------- MODULE RpcClient -----------------------------
(***************************************************************************)
(* The client side of coro_rpc: one coro_rpc_client with its socket, its   *)
(* response handler table, its recv coroutine and its timers               *)
(* (include/ylt/coro_rpc/impl/coro_rpc_client.hpp).                        *)
(*                                                                         *)
(* Many callers pipeline calls of send_request on one connection.  Every   *)
(* caller registers a handler under a fresh 32 bit id, writes its request  *)
(* under a spin lock and leaves; the caller that finds no recv coroutine   *)
(* running starts one, which dispatches responses by id until the table is *)
(* empty.  A timer, a read or write error, a malformed response or the     *)
(* user close the socket, which fails every pending call.  connect() may   *)
(* replace the socket at any time.                                         *)
(*                                                                         *)
(* A call of send_request is an element of Req.  A recv coroutine is named *)
(* by the call that started it.  A step is one access to shared state, so  *)
(* the callers and the recv coroutines interleave as on any executor, the  *)
(* multi-threaded one included.                                            *)
(***************************************************************************)
EXTENDS Naturals, FiniteSets

CONSTANTS
    Req,            \* the calls of send_request
    Timed,          \* the calls with a request_timeout_duration >= 0
    ConnTimed,      \* TRUE: connect() has a connect_timeout_duration >= 0
    Large,          \* the calls whose request prepare_buffer refuses
    IdSpace,        \* number of request ids, 2^32 in the code
    MaxCalls,       \* bound on the calls issued
    MaxConnects,    \* bound on the calls of connect() that get the lock
    Waiters,        \* calls of connect() that may find the lock taken
    QuietReconnect, \* TRUE: connect() is only called on a quiet client
    CallConnected,  \* TRUE: the client is only used after connect() succeeded
    InitMayFail     \* TRUE: opening a fresh socket may throw (no descriptor)

ASSUME ConstantsAssumption ==
    /\ Timed \subseteq Req /\ Large \subseteq Req
    /\ IdSpace \in Nat \ {0} /\ MaxCalls \in Nat /\ MaxConnects \in Nat
    /\ QuietReconnect \in BOOLEAN /\ CallConnected \in BOOLEAN
    /\ ConnTimed \in BOOLEAN /\ InitMayFail \in BOOLEAN

VARIABLES
    \* control_t and the members of coro_rpc_client
    has_closed,     \* control_->has_closed_
    is_timeout,     \* control_->is_timeout_
    recv_running,   \* control_->recv_running_
    table,          \* response_handler_table_: the calls registered, by id[r]
    write_mutex,    \* write_mutex_
    request_id,     \* calls issued so far; request_id_ is its residue
    should_reset,   \* should_reset_
    connect_mutex,  \* connect_mutex_ is held
    init_ok,        \* socket_wrapper_.init_ok_
    \* the socket and the executor
    sock,           \* "fresh", "connecting", "open", "broken" or "closed"
    closing,        \* a close of the socket is posted to the executor
    wire,           \* requests at the server of this socket, unanswered
    \* the callers of send_request
    pc,             \* where the call is
    id,             \* its request id
    timer,          \* its timer: "off", "armed" or "expired" (handler queued)
    outcome,        \* the value of its promise, "none" before setValue
    from,           \* the call whose response filled the promise
    result,         \* what the caller gets, "none" before
    \* the recv coroutines
    rpc,            \* where the recv coroutine is
    rmsg,           \* the call whose response it read
    rhandler,       \* the handler it found for that response
    rerr,           \* ret.first at the end of the loop
    \* connect()
    conn_pc,        \* where connect() is
    conn_result,    \* what the last connect() returned
    conn_timer,     \* timer_: the waits on it, "armed" and "expired"
    connects,       \* calls of connect() that took the lock
    waiting,        \* calls of connect() blocked on the lock
    returned,       \* those that returned from it
    \* history
    excuse          \* something that may close this socket has happened

ctrlVars == <<has_closed, is_timeout, recv_running, table, write_mutex,
              request_id, should_reset, connect_mutex, init_ok>>
sockVars == <<sock, closing, wire>>
callVars == <<pc, id, timer, outcome, from, result>>
recvVars == <<rpc, rmsg, rhandler, rerr>>
connVars == <<conn_pc, conn_result, conn_timer, connects, waiting, returned>>
vars == <<ctrlVars, sockVars, callVars, recvVars, connVars, excuse>>

\* A recv coroutine in one of these states holds recv_running_.
Owning == {"head", "body", "erase", "store", "brk"}
\* It still has shared state to touch, but no longer the flag.
Leaving == {"recheck", "cas", "brkclose", "brkerr"}
\* It waits for bytes of the socket.
Reading == {"head", "body"}

Init ==
    /\ has_closed = FALSE /\ is_timeout = FALSE /\ recv_running = FALSE
    /\ table = {} /\ write_mutex = FALSE /\ request_id = 0
    /\ should_reset = FALSE /\ connect_mutex = FALSE /\ init_ok = TRUE
    /\ sock = "fresh" /\ closing = FALSE /\ wire = {}
    /\ pc = [r \in Req |-> "idle"]
    /\ id = [r \in Req |-> 0]
    /\ timer = [r \in Req |-> "off"]
    /\ outcome = [r \in Req |-> "none"]
    /\ from = [r \in Req |-> r]
    /\ result = [r \in Req |-> "none"]
    /\ rpc = [r \in Req |-> "none"]
    /\ rmsg = [r \in Req |-> r]
    /\ rhandler = [r \in Req |-> r]
    /\ rerr = [r \in Req |-> "success"]
    /\ conn_pc = "idle" /\ conn_result = "none" /\ conn_timer = {}
    /\ connects = 0 /\ waiting = {} /\ returned = {}
    /\ excuse = FALSE

---------------------------------------------------------------------------
(* Closing the socket, timers.                                             *)

\* Mutant: the exchange is tested the wrong way round, nothing is dispatched.
CloseSocketNever == has_closed' = TRUE /\ closing' = (closing \/ has_closed)

\* close_socket_async: the first closer wins the exchange and dispatches the
\* close to the executor, where it runs at once or later (RunClose).
CloseSocketAsync ==
    /\ has_closed' = TRUE
    /\ closing' = (closing \/ ~has_closed)

\* What destroying the socket does to the coroutines suspended on it: their
\* reads and writes complete with operation_aborted.
AbortPending ==
    /\ pc' = [r \in Req |-> IF pc[r] = "writing" THEN "aborted" ELSE pc[r]]
    /\ rpc' = [q \in Req |-> IF rpc[q] \in Reading THEN "brk" ELSE rpc[q]]
    /\ rerr' = [q \in Req |->
                  IF rpc[q] \in Reading THEN "canceled" ELSE rerr[q]]
    /\ wire' = {}

\* The posted socket_wrapper_.close().
RunClose ==
    /\ closing
    /\ closing' = FALSE /\ sock' = "closed"
    /\ AbortPending
    /\ UNCHANGED <<ctrlVars, id, timer, outcome, from, result, rmsg, rhandler,
                   connVars, excuse>>

\* coro_rpc_client::close(), called by the user.
UserClose ==
    /\ ~has_closed
    /\ CallConnected => conn_result = "ok"
    /\ CloseSocketAsync /\ excuse' = TRUE
    /\ UNCHANGED <<is_timeout, recv_running, table, write_mutex, request_id,
                   should_reset, connect_mutex, init_ok, sock, wire, callVars,
                   recvVars, connVars>>

\* timer.cancel(): too late once the expiry is queued on the executor.
Canceled(t) == IF t = "armed" THEN "off" ELSE t

\* The clock reaches the deadline of a request timer.
Expire(r) ==
    /\ timer[r] = "armed"
    /\ timer' = [timer EXCEPT ![r] = "expired"]
    /\ UNCHANGED <<ctrlVars, sockVars, pc, id, outcome, from, result, recvVars,
                   connVars, excuse>>

\* The body of timeout() after the expiry of a request timer.
Timeout(r) ==
    /\ timer[r] = "expired"
    /\ timer' = [timer EXCEPT ![r] = "off"]
    /\ is_timeout' = TRUE
    /\ CloseSocketAsync /\ excuse' = TRUE
    /\ UNCHANGED <<recv_running, table, write_mutex, request_id, should_reset,
                   connect_mutex, init_ok, sock, wire, pc, id, outcome, from,
                   result, recvVars, connVars>>

ConnExpire ==
    /\ "armed" \in conn_timer /\ conn_timer' = {"expired"}
    /\ UNCHANGED <<ctrlVars, sockVars, callVars, recvVars, conn_pc,
                   conn_result, connects, waiting, returned, excuse>>

\* The same for the timer of connect_impl.
ConnTimeout ==
    /\ "expired" \in conn_timer /\ conn_timer' = conn_timer \ {"expired"}
    /\ is_timeout' = TRUE
    /\ CloseSocketAsync /\ excuse' = TRUE
    /\ UNCHANGED <<recv_running, table, write_mutex, request_id, should_reset,
                   connect_mutex, init_ok, sock, wire, callVars, recvVars,
                   conn_pc, conn_result, connects, waiting, returned>>

\* The peer closes or resets the connection.
PeerDown ==
    /\ sock = "open" /\ sock' = "broken" /\ excuse' = TRUE
    /\ UNCHANGED <<ctrlVars, closing, wire, callVars, recvVars, connVars>>

---------------------------------------------------------------------------
(* connect(), reset() and connect_impl().                                  *)

\* Nobody is calling, nothing is pending.
Quiet ==
    /\ \A r \in Req : pc[r] \in {"idle", "done"}
    /\ \A q \in Req : rpc[q] \in {"none", "done"}

\* expires_after() cancels the wait of an earlier connect(), unless its
\* expiry is already queued.
StartConnTimer ==
    IF ConnTimed THEN conn_timer \cup {"armed"} ELSE conn_timer

\* connect() takes the lock, which unlock() hands to a waiter if there is
\* one.  With !init_ok() it returns at once, and keeps
\* the lock.  The first connect uses the socket it has; the next ones close
\* it through close_socket(), whose co_await resumes in ResetSocket.
ConnectBegin ==
    /\ conn_pc = "idle" /\ ~connect_mutex /\ waiting = {}
    /\ connects < MaxConnects
    /\ QuietReconnect => Quiet
    /\ connect_mutex' = TRUE /\ connects' = connects + 1
    /\ \/ /\ ~init_ok
          /\ conn_result' = "not_connected"
          /\ UNCHANGED <<has_closed, should_reset, conn_pc, conn_timer>>
       \/ /\ init_ok /\ should_reset
          /\ has_closed' = TRUE
          /\ conn_pc' = "reset" /\ conn_result' = "none"
          /\ UNCHANGED <<should_reset, conn_timer>>
       \/ /\ init_ok /\ ~should_reset
          /\ should_reset' = TRUE /\ has_closed' = FALSE
          /\ conn_pc' = "resolve" /\ conn_result' = "none"
          /\ conn_timer' = StartConnTimer
    /\ UNCHANGED <<is_timeout, recv_running, table, write_mutex, request_id,
                   init_ok, sockVars, callVars, recvVars, waiting, returned,
                   excuse>>

\* Mutant: only is_timeout_ is cleared.
ClearTimeoutOnly == is_timeout' = FALSE /\ UNCHANGED has_closed

\* The flags a fresh socket starts with.
ClearFlags == is_timeout' = FALSE /\ has_closed' = FALSE

\* Everything reset() and the head of connect_impl do in the handler that
\* follows the posted close (or drain): close the old socket, open a new one,
\* clear both flags, start the connect timer.  The handler is queued behind
\* any close posted earlier.
ResetSocket ==
    /\ conn_pc = "reset" /\ ~closing
    /\ AbortPending
    /\ ClearFlags /\ excuse' = FALSE
    /\ \/ /\ init_ok' = TRUE
          /\ sock' = "fresh" /\ conn_pc' = "resolve" /\ conn_timer' = StartConnTimer
          /\ UNCHANGED <<connect_mutex, conn_result>>
       \/ /\ InitMayFail
          /\ init_ok' = FALSE
          /\ sock' = "closed" /\ conn_pc' = "idle"
          /\ conn_result' = "not_connected" /\ connect_mutex' = FALSE
          /\ UNCHANGED conn_timer
    /\ UNCHANGED <<recv_running, table, write_mutex, request_id, should_reset,
                   closing, id, timer, outcome, from, result, rmsg, rhandler,
                   connects, waiting, returned>>

\* connect_impl returns and connect() unlocks.
ConnectReturn(res) ==
    /\ conn_pc' = "idle" /\ conn_result' = res /\ connect_mutex' = FALSE
    /\ UNCHANGED <<has_closed, is_timeout, recv_running, table, write_mutex,
                   request_id, should_reset, init_ok, closing, wire, callVars,
                   recvVars, connects, waiting, returned, excuse>>

\* async_resolve fails: the timer keeps running.
ResolveFail ==
    /\ conn_pc = "resolve"
    /\ ConnectReturn("not_connected")
    /\ UNCHANGED <<sock, conn_timer>>

\* async_resolve succeeds, or the endpoints are known: async_connect reopens
\* the socket and starts to connect it.
ConnectStart ==
    /\ conn_pc = "resolve"
    /\ conn_pc' = "connecting" /\ sock' = "connecting"
    /\ UNCHANGED <<ctrlVars, closing, wire, callVars, recvVars, conn_result,
                   conn_timer, connects, waiting, returned, excuse>>

\* async_connect completes with state s of the socket.
ConnectDone(s) ==
    /\ conn_pc = "connecting"
    /\ sock' = s
    /\ conn_timer' = conn_timer \ {"armed"}
    /\ ConnectReturn(IF is_timeout THEN "timed_out"
                     ELSE IF s = "open" THEN "ok" ELSE "not_connected")

ConnectOk == sock = "connecting" /\ ConnectDone("open")
ConnectRefused == sock = "connecting" /\ ConnectDone("fresh")
ConnectAborted == sock = "closed" /\ ConnectDone("closed")

\* connect() while another one holds the lock: wait for it, return success.
ConnectBusy(w) ==
    /\ connect_mutex /\ w \notin waiting \cup returned
    /\ waiting' = waiting \cup {w}
    /\ UNCHANGED <<ctrlVars, sockVars, callVars, recvVars, conn_pc,
                   conn_result, conn_timer, connects, returned, excuse>>

ConnectBusyReturn(w) ==
    /\ w \in waiting /\ ~connect_mutex
    /\ waiting' = waiting \ {w} /\ returned' = returned \cup {w}
    /\ UNCHANGED <<ctrlVars, sockVars, callVars, recvVars, conn_pc,
                   conn_result, conn_timer, connects, excuse>>

---------------------------------------------------------------------------
(* send_request() and the coroutine it returns.                            *)

SameId(i) == {r \in Req : id[r] = i}

\* Mutant: a wider counter, incremented first.
WideId == request_id + 1

\* id = request_id_++, 32 bits wide
NextId == request_id % IdSpace

Begin(r) ==
    /\ pc[r] = "idle" /\ request_id < MaxCalls
    /\ CallConnected => conn_result = "ok"
    /\ pc' = [pc EXCEPT ![r] = "begun"]
    /\ id' = [id EXCEPT ![r] = NextId]
    /\ request_id' = request_id + 1
    /\ UNCHANGED <<has_closed, is_timeout, recv_running, table, write_mutex,
                   should_reset, connect_mutex, init_ok, sockVars, timer,
                   outcome, from, result, recvVars, connVars, excuse>>

\* Mutant: insert_or_assign instead of try_emplace.
AlwaysFree(r) == TRUE

\* The outcome of try_emplace.
IdFree(r) == table \cap SameId(id[r]) = {}

\* try_emplace in the table; an id still in use closes the connection.
Emplace(r) ==
    /\ pc[r] = "begun"
    /\ \/ /\ IdFree(r)
          /\ table' = table \cup {r}
          /\ pc' = [pc EXCEPT ![r] = "emplaced"]
          /\ UNCHANGED <<has_closed, closing, result, excuse>>
       \/ /\ ~IdFree(r)
          /\ CloseSocketAsync /\ excuse' = TRUE
          /\ pc' = [pc EXCEPT ![r] = "done"]
          /\ result' = [result EXCEPT ![r] = "serial_number_conflict"]
          /\ UNCHANGED table
    /\ UNCHANGED <<is_timeout, recv_running, write_mutex, request_id,
                   should_reset, connect_mutex, init_ok, sock, wire, id, timer,
                   outcome, from, recvVars, connVars>>

\* send_request_for_impl: refuse a closed client, start the timer, and the
\* size check at the head of send_impl.
CheckClosed(r) ==
    /\ pc[r] = "emplaced"
    /\ timer' = [timer EXCEPT ![r] =
                   IF ~has_closed /\ r \in Timed THEN "armed" ELSE @]
    /\ pc' = [pc EXCEPT ![r] =
                IF has_closed \/ r \in Large THEN "failed" ELSE "lock"]
    /\ result' = [result EXCEPT ![r] =
                    IF has_closed THEN "io_error"
                    ELSE IF r \in Large THEN "message_too_large" ELSE @]
    /\ UNCHANGED <<ctrlVars, sockVars, id, outcome, from, recvVars, connVars,
                   excuse>>

\* Mutant: the flag is set without a look at its old value.
SetWriteMutex == write_mutex' = TRUE

\* The compare_exchange loop on write_mutex_.
LockWrite == ~write_mutex /\ write_mutex' = TRUE

\* Win write_mutex_ and start async_write; a socket without a connection
\* refuses it.
StartWrite(r) ==
    /\ pc[r] = "lock" /\ LockWrite
    /\ pc' = [pc EXCEPT ![r] =
                IF sock \in {"open", "broken"} THEN "writing" ELSE "aborted"]
    /\ excuse' = (excuse \/ sock \notin {"open", "broken"})
    /\ UNCHANGED <<has_closed, is_timeout, recv_running, table, request_id,
                   should_reset, connect_mutex, init_ok, sockVars, id, timer,
                   outcome, from, result, recvVars, connVars>>

\* async_write completes and write_mutex_ is released.
WriteOk(r) ==
    /\ pc[r] = "writing" /\ sock = "open"
    /\ write_mutex' = FALSE
    /\ wire' = wire \cup {r}
    /\ pc' = [pc EXCEPT ![r] = "written"]
    /\ UNCHANGED <<has_closed, is_timeout, recv_running, table, request_id,
                   should_reset, connect_mutex, init_ok, sock, closing, id,
                   timer, outcome, from, result, recvVars, connVars, excuse>>

WriteFail(r) ==
    /\ pc[r] = "aborted" \/ (pc[r] = "writing" /\ sock = "broken")
    /\ write_mutex' = FALSE
    /\ pc' = [pc EXCEPT ![r] = "wfail"]
    /\ UNCHANGED <<has_closed, is_timeout, recv_running, table, request_id,
                   should_reset, connect_mutex, init_ok, sockVars, id, timer,
                   outcome, from, result, recvVars, connVars, excuse>>

\* The error path of send_impl: close(), and the error by is_timeout_.
WriteErrorClose(r) ==
    /\ pc[r] = "wfail"
    /\ CloseSocketAsync
    /\ pc' = [pc EXCEPT ![r] = "failed"]
    /\ result' = [result EXCEPT ![r] =
                    IF is_timeout THEN "timed_out" ELSE "io_error"]
    /\ UNCHANGED <<is_timeout, recv_running, table, write_mutex, request_id,
                   should_reset, connect_mutex, init_ok, sock, wire, id, timer,
                   outcome, from, recvVars, connVars, excuse>>

\* send_request after a send error: erase the id, cancel the timer, return.
EraseFailed(r) ==
    /\ pc[r] = "failed"
    /\ table' = table \ SameId(id[r])
    /\ timer' = [timer EXCEPT ![r] = Canceled(@)]
    /\ pc' = [pc EXCEPT ![r] = "done"]
    /\ UNCHANGED <<has_closed, is_timeout, recv_running, write_mutex,
                   request_id, should_reset, connect_mutex, init_ok, sockVars,
                   id, outcome, from, result, recvVars, connVars, excuse>>

\* A read of the socket starts: it fails at once without a connection.
ReadState == IF sock \in {"open", "broken"} THEN "head" ELSE "brk"
ReadError == IF sock \in {"open", "broken"} THEN "success" ELSE "bad_descriptor"

\* Mutant: store(true) instead of exchange(true).
AlwaysReceive == TRUE

\* What exchange(true) on recv_running_ tells the caller.
FirstReceiver == ~recv_running

\* recv_running_.exchange(true): the caller that turns it on starts recv.
StartRecv(r) ==
    /\ pc[r] = "written"
    /\ pc' = [pc EXCEPT ![r] = "wait"]
    /\ recv_running' = TRUE
    /\ \/ /\ FirstReceiver
          /\ rpc' = [rpc EXCEPT ![r] = ReadState]
          /\ rerr' = [rerr EXCEPT ![r] = ReadError]
       \/ ~FirstReceiver /\ UNCHANGED <<rpc, rerr>>
    /\ UNCHANGED <<has_closed, is_timeout, table, write_mutex, request_id,
                   should_reset, connect_mutex, init_ok, sockVars, id, timer,
                   outcome, from, result, rmsg, rhandler, connVars, excuse>>

\* deserialize_rpc_result after the promise is set: a local error is mapped,
\* a response that does not deserialize closes the socket.
Await(r) ==
    /\ pc[r] = "wait" /\ outcome[r] # "none"
    /\ pc' = [pc EXCEPT ![r] = "done"]
    /\ \/ /\ outcome[r] # "response"
          /\ result' = [result EXCEPT ![r] =
               IF outcome[r] \in {"canceled", "timed_out"}
               THEN "timed_out" ELSE "io_error"]
          /\ UNCHANGED <<has_closed, closing, excuse>>
       \/ /\ outcome[r] = "response"
          /\ result' = [result EXCEPT ![r] = "ok"]
          /\ UNCHANGED <<has_closed, closing, excuse>>
       \/ /\ outcome[r] = "response"
          /\ result' = [result EXCEPT ![r] = "invalid_rpc_result"]
          /\ CloseSocketAsync /\ excuse' = TRUE
    /\ UNCHANGED <<is_timeout, recv_running, table, write_mutex, request_id,
                   should_reset, connect_mutex, init_ok, sock, wire, id, timer,
                   outcome, from, recvVars, connVars>>

---------------------------------------------------------------------------
(* The recv coroutine started by call q.                                   *)

\* handler_t::operator() and local_error: only the first completion counts.
Complete(hs, value) ==
    /\ outcome' = [r \in Req |-> IF r \in hs /\ outcome[r] = "none"
                                 THEN value ELSE outcome[r]]
    /\ timer' = [r \in Req |-> IF r \in hs /\ outcome[r] = "none"
                               THEN Canceled(timer[r]) ELSE timer[r]]

\* find(header.seq_num) in the table.
HandlerOf(m) == table \cap SameId(id[m])

\* The header of the response to m arrives; its handler is looked up by id.
ReadHead(q, m) ==
    /\ rpc[q] = "head" /\ sock \in {"open", "broken"} /\ m \in wire
    /\ wire' = wire \ {m}
    /\ rmsg' = [rmsg EXCEPT ![q] = m]
    /\ \/ \E h \in HandlerOf(m) :
             /\ rhandler' = [rhandler EXCEPT ![q] = h]
             /\ rpc' = [rpc EXCEPT ![q] = "body"]
       \/ /\ HandlerOf(m) = {}
          /\ rpc' = [rpc EXCEPT ![q] = "brk"]
          /\ UNCHANGED rhandler
    /\ rerr' = [rerr EXCEPT ![q] = "success"]
    /\ UNCHANGED <<ctrlVars, sock, closing, callVars, connVars, excuse>>

\* A read ends with eof or a reset, and nothing more is read after it.
ReadFail(q) ==
    /\ rpc[q] \in Reading /\ sock = "broken"
    /\ wire' = {}
    /\ rpc' = [rpc EXCEPT ![q] = "brk"]
    /\ rerr' = [rerr EXCEPT ![q] = "eof"]
    /\ UNCHANGED <<ctrlVars, sock, closing, callVars, rmsg, rhandler, connVars,
                   excuse>>

\* The body is read and the handler called with it.
ReadBody(q) ==
    /\ rpc[q] = "body" /\ sock \in {"open", "broken"}
    /\ rpc' = [rpc EXCEPT ![q] = "erase"]
    /\ Complete({rhandler[q]}, "response")
    /\ from' = [from EXCEPT ![rhandler[q]] =
                  IF outcome[rhandler[q]] = "none" THEN rmsg[q] ELSE @]
    /\ UNCHANGED <<ctrlVars, sockVars, pc, id, result, rmsg, rhandler, rerr,
                   connVars, excuse>>

\* The response read and its handler go out of scope.
Forget(q) ==
    /\ rmsg' = [rmsg EXCEPT ![q] = q]
    /\ rhandler' = [rhandler EXCEPT ![q] = q]

\* Erase the id; read on while handlers are left.
Erase(q) ==
    /\ rpc[q] = "erase"
    /\ table' = table \ SameId(id[rmsg[q]])
    /\ \/ /\ table' # {}
          /\ rpc' = [rpc EXCEPT ![q] = ReadState]
          /\ rerr' = [rerr EXCEPT ![q] = ReadError]
       \/ /\ table' = {}
          /\ rpc' = [rpc EXCEPT ![q] = "store"]
          /\ UNCHANGED rerr
    /\ Forget(q)
    /\ UNCHANGED <<has_closed, is_timeout, recv_running, write_mutex,
                   request_id, should_reset, connect_mutex, init_ok, sockVars,
                   callVars, connVars, excuse>>

\* recv_running_.store(false), after the last handler or after the loop.
StoreFalse(q) ==
    /\ rpc[q] \in {"store", "brk"}
    /\ recv_running' = FALSE
    /\ rpc' = [rpc EXCEPT ![q] = IF @ = "store" THEN "recheck" ELSE "brkclose"]
    /\ UNCHANGED <<has_closed, is_timeout, table, write_mutex, request_id,
                   should_reset, connect_mutex, init_ok, sockVars, callVars,
                   rmsg, rhandler, rerr, connVars, excuse>>

\* Mutant: no second look.
StopReceiving == "done"

\* Handlers registered since the table was found empty.
LookAgain == IF table # {} THEN "cas" ELSE "done"

\* The second look at the table, under its lock.
Recheck(q) ==
    /\ rpc[q] = "recheck"
    /\ rpc' = [rpc EXCEPT ![q] = LookAgain]
    /\ UNCHANGED <<ctrlVars, sockVars, callVars, rmsg, rhandler, rerr, connVars,
                   excuse>>

\* compare_exchange_strong(recv_running_, false, true)
Cas(q) ==
    /\ rpc[q] = "cas"
    /\ \/ /\ ~recv_running
          /\ recv_running' = TRUE
          /\ rpc' = [rpc EXCEPT ![q] = ReadState]
          /\ rerr' = [rerr EXCEPT ![q] = ReadError]
       \/ /\ recv_running
          /\ rpc' = [rpc EXCEPT ![q] = "done"]
          /\ UNCHANGED <<recv_running, rerr>>
    /\ UNCHANGED <<has_closed, is_timeout, table, write_mutex, request_id,
                   should_reset, connect_mutex, init_ok, sockVars, callVars,
                   rmsg, rhandler, connVars, excuse>>

\* After the loop: close_socket_async ...
BreakClose(q) ==
    /\ rpc[q] = "brkclose"
    /\ CloseSocketAsync
    /\ rpc' = [rpc EXCEPT ![q] = "brkerr"]
    /\ UNCHANGED <<is_timeout, recv_running, table, write_mutex, request_id,
                   should_reset, connect_mutex, init_ok, sock, wire, callVars,
                   rmsg, rhandler, rerr, connVars, excuse>>

\* ... and send_err_response: fail every handler in the table.
SendErrResponse(q) ==
    /\ rpc[q] = "brkerr"
    /\ rpc' = [rpc EXCEPT ![q] = "done"]
    /\ Complete(table, IF is_timeout THEN "timed_out" ELSE rerr[q])
    /\ table' = {}
    /\ Forget(q) /\ rerr' = [rerr EXCEPT ![q] = "success"]
    /\ UNCHANGED <<has_closed, is_timeout, recv_running, write_mutex,
                   request_id, should_reset, connect_mutex, init_ok, sockVars,
                   pc, id, from, result, connVars, excuse>>

---------------------------------------------------------------------------
Close == RunClose \/ UserClose \/ PeerDown
Timers == ConnExpire \/ ConnTimeout \/ \E r \in Req : Expire(r) \/ Timeout(r)
Connect ==
    \/ ConnectBegin \/ ResetSocket \/ ResolveFail \/ ConnectStart
    \/ ConnectOk \/ ConnectRefused \/ ConnectAborted
    \/ \E w \in Waiters : ConnectBusy(w) \/ ConnectBusyReturn(w)
SendRequest(r) ==
    \/ Begin(r) \/ Emplace(r) \/ CheckClosed(r) \/ StartWrite(r)
    \/ WriteOk(r) \/ WriteFail(r) \/ WriteErrorClose(r) \/ EraseFailed(r)
    \/ StartRecv(r) \/ Await(r)
Recv(q) ==
    \/ \E m \in Req : ReadHead(q, m)
    \/ ReadFail(q) \/ ReadBody(q) \/ Erase(q) \/ StoreFalse(q) \/ Recheck(q)
    \/ Cas(q) \/ BreakClose(q) \/ SendErrResponse(q)

Next == Close \/ Timers \/ Connect \/ \E r \in Req : SendRequest(r) \/ Recv(r)

Spec == Init /\ [][Next]_vars

\* The executor runs what is queued on it, the clock advances and the kernel
\* gives up on a connect that nobody answers.  Nothing is assumed of the user
\* or of the peer: answers and the completion of a write may never come.
Fairness ==
    /\ WF_vars(RunClose) /\ WF_vars(ConnExpire) /\ WF_vars(ConnTimeout)
    /\ WF_vars(ResetSocket) /\ WF_vars(ResolveFail \/ ConnectStart)
    /\ WF_vars(ConnectOk \/ ConnectRefused) /\ WF_vars(ConnectAborted)
    /\ \A w \in Waiters : WF_vars(ConnectBusyReturn(w))
    /\ \A r \in Req :
         /\ WF_vars(Expire(r) \/ Timeout(r))
         /\ WF_vars(\/ Emplace(r) \/ CheckClosed(r) \/ StartWrite(r)
                    \/ WriteFail(r) \/ WriteErrorClose(r) \/ EraseFailed(r)
                    \/ StartRecv(r) \/ Await(r))
         /\ WF_vars(\/ ReadFail(r) \/ Erase(r) \/ StoreFalse(r) \/ Recheck(r)
                    \/ Cas(r) \/ BreakClose(r) \/ SendErrResponse(r))

FairSpec == Spec /\ Fairness

---------------------------------------------------------------------------
(* Properties.                                                             *)

PcStates == {"idle", "begun", "emplaced", "lock", "writing", "aborted",
             "wfail", "failed", "written", "wait", "done"}
RecvStates == {"none", "done"} \cup Owning \cup Leaving
Errors == {"success", "canceled", "eof", "bad_descriptor"}
Results == {"none", "ok", "invalid_rpc_result", "timed_out", "io_error",
            "message_too_large", "serial_number_conflict"}

CtrlType ==
    /\ has_closed \in BOOLEAN /\ is_timeout \in BOOLEAN
    /\ recv_running \in BOOLEAN /\ table \subseteq Req
    /\ write_mutex \in BOOLEAN /\ request_id \in 0..MaxCalls
    /\ should_reset \in BOOLEAN /\ connect_mutex \in BOOLEAN
    /\ init_ok \in BOOLEAN /\ excuse \in BOOLEAN
SockType ==
    /\ sock \in {"fresh", "connecting", "open", "broken", "closed"}
    /\ closing \in BOOLEAN /\ wire \subseteq Req
CallType ==
    /\ pc \in [Req -> PcStates] /\ id \in [Req -> 0..IdSpace - 1]
    /\ timer \in [Req -> {"off", "armed", "expired"}]
    /\ outcome \in [Req -> {"none", "response", "timed_out"} \cup Errors]
    /\ from \in [Req -> Req] /\ result \in [Req -> Results]
RecvType ==
    /\ rpc \in [Req -> RecvStates] /\ rmsg \in [Req -> Req]
    /\ rhandler \in [Req -> Req] /\ rerr \in [Req -> Errors]
ConnType ==
    /\ conn_pc \in {"idle", "reset", "resolve", "connecting"}
    /\ conn_result \in {"none", "ok", "not_connected", "timed_out"}
    /\ conn_timer \subseteq {"armed", "expired"}
    /\ connects \in 0..MaxConnects
    /\ waiting \subseteq Waiters /\ returned \subseteq Waiters

\* Every variable of the client keeps its type; in particular the table and
\* the requests on the wire only hold calls, ids stay in the id space.
TypeOK == CtrlType /\ SockType /\ CallType /\ RecvType /\ ConnType

\* "Ensure at most one recv coroutine runs per connection": recv_running_ is
\* on exactly while one recv coroutine owns the socket's input, and no two do.
SingleReceiver ==
    /\ recv_running <=> \E q \in Req : rpc[q] \in Owning
    /\ \A p, q \in Req : rpc[p] \in Owning /\ rpc[q] \in Owning => p = q

\* No lost wake-up: a caller that waits for its response is in the table and
\* a recv coroutine is there to complete it, either one that owns the flag or
\* one that has dropped the flag and still has to look at the table again.
NoLostWakeup ==
    \A r \in Req : pc[r] = "wait" /\ outcome[r] = "none" =>
        /\ r \in table
        /\ recv_running \/ \E q \in Req : rpc[q] \in Leaving

\* The response handed to a caller answers the request of that caller.
OwnResponse == \A r \in Req : from[r] = r

Writing == {"writing", "aborted"}

\* Only one async_write is outstanding on the socket.
OneWriter ==
    \A r, s \in Req : pc[r] \in Writing /\ pc[s] \in Writing => r = s

\* After connect() has returned success the client is not marked closed,
\* unless the user, a timer, the peer or a bad message gave a reason: nothing
\* left over from the previous socket closes the new one.
ConnectedStaysOpen ==
    conn_result = "ok" /\ ~excuse => ~has_closed

\* Every call with a timeout returns to its caller, whatever the server does.
TimedCallReturns ==
    \A r \in Timed : pc[r] = "begun" ~> pc[r] = "done"

\* Every connect() returns.
ConnectReturns == \A w \in Waiters : w \in waiting ~> w \in returned

=============================================================================
