--------------------------- MODULE RpcConnection ---------------------------
(***************************************************************************)
(* The server side of one coro_rpc connection: the read loop, the write    *)
(* queue and the keep-alive timer of coro_connection                       *)
(* (include/ylt/coro_rpc/impl/coro_connection.hpp), and the context through *)
(* which a handler answers later (include/ylt/coro_rpc/impl/context.hpp).  *)
(*                                                                         *)
(* The connection runs on one executor thread: an action of the connection *)
(* is one handler run there.  Handlers of the user that answer through a   *)
(* context run on any thread; their steps interleave at each access to     *)
(* shared state.                                                           *)
(***************************************************************************)
EXTENDS Naturals, Sequences, FiniteSets

CONSTANTS
    Req,         \* the requests the client sends
    Coro,        \* requests routed to a coroutine handler, or to none at all
    Callback,    \* requests whose handler keeps its context and answers later
    Throwing,    \* those of Callback whose handler then throws
    Dropping,    \* those of Callback whose handler may never answer
    Copies,      \* the copies of its context such a handler may answer through
    KeepAlive,   \* TRUE: enable_check_timeout_
    CntSpace     \* values of the unsigned rpc_processing_cnt_, 2^64 in the code

ASSUME ConstantsAssumption ==
    /\ Coro \subseteq Req /\ Callback \subseteq Req
    /\ Throwing \subseteq Callback /\ Dropping \subseteq Callback
    /\ Coro \cap Callback = {}
    /\ KeepAlive \in BOOLEAN /\ CntSpace \in Nat \ {0}

VARIABLES
    \* coro_connection
    has_closed,     \* has_closed_
    peer,           \* "up", or "down": the client is gone
    loop,           \* start_impl: "head", "payload" or "stopped"
    unsent,         \* the requests the client has not sent yet
    current,        \* the request being read
    by_callback,    \* is_rpc_return_by_callback_
    processing,     \* rpc_processing_cnt_
    write_queue,    \* write_queue_
    sending,        \* send_data is running
    timer,          \* timer_: its waits, "armed" and "expired"
    sent,           \* responses handed to the socket, in order
    \* context_info_t, named by the request it was made for
    context,        \* context_info of start_impl
    head,           \* req_head_: the request whose header the context holds
    status,         \* status_
    \* the handlers
    ctx,            \* the context a handler was given
    hpc,            \* where the handler of a request is
    apc,            \* where the answer through a copy of its context is
    posted          \* responses posted to the executor, in order

connVars == <<has_closed, peer, loop, unsent, current, by_callback>>
queueVars == <<processing, write_queue, sending, timer, sent>>
ctxVars == <<context, head, status, ctx>>
handlerVars == <<hpc, apc, posted>>
vars == <<connVars, queueVars, ctxVars, handlerVars>>

\* The context start_impl creates before it reads the first request.
FirstContext == "first context"
Contexts == Req \cup {FirstContext}
NoReq == "no request"
ASSUME NamesAssumption == FirstContext \notin Req /\ NoReq \notin Req

\* A response: the handler that made it and the request its header names.
Answer(r, c) == [by |-> r, id |-> head[c]]

Init ==
    /\ has_closed = FALSE /\ peer = "up" /\ loop = "head"
    /\ unsent = Req /\ current = NoReq /\ by_callback = FALSE
    /\ processing = 0 /\ write_queue = <<>> /\ sending = FALSE
    /\ timer = IF KeepAlive THEN {"armed"} ELSE {}
    /\ sent = <<>>
    /\ context = FirstContext
    /\ head = [c \in Contexts |-> NoReq]
    /\ status = [c \in Contexts |-> "init"]
    /\ ctx = [r \in Req |-> FirstContext]
    /\ hpc = [r \in Req |-> "none"]
    /\ apc = [r \in Req |-> [t \in Copies |-> "idle"]]
    /\ posted = <<>>

---------------------------------------------------------------------------
(* The timer, the write queue and close().                                 *)

\* Mutants: the timer restarts while a call executes; it never restarts.
ResetAlways(cnt, t) == IF KeepAlive THEN t \cup {"armed"} ELSE t
ResetNever(cnt, t) == t

\* reset_timer with count cnt and waits t: nothing while a call executes;
\* expires_from_now drops an earlier wait unless its expiry is queued.
ResetTimer(cnt, t) == IF KeepAlive /\ cnt = 0 THEN t \cup {"armed"} ELSE t

\* cancel_timer
CancelTimer(t) == t \ {"armed"}

\* Mutants: a call is not counted down; the queue is tested for empty.
KeepCount(cnt) == cnt
WasEmpty(q) == q = <<>>

\* --rpc_processing_cnt_, and the test write_queue_.size() == 1
CountDown(cnt) == (cnt + CntSpace - 1) % CntSpace
StartsWriter(q) == Len(q) = 1

\* response() with count cnt and waits t: on a closed connection the response
\* is dropped; otherwise it is queued, and when it is alone in the queue
\* send_data starts.
Response(a, cnt, t) ==
    IF has_closed
    THEN processing' = cnt /\ timer' = t /\ UNCHANGED <<write_queue, sending>>
    ELSE /\ write_queue' = Append(write_queue, a)
         /\ processing' = CountDown(cnt)
         /\ timer' = ResetTimer(processing', t)
         /\ sending' = (sending \/ StartsWriter(write_queue'))

\* One async_write of send_data completes.
SendData ==
    /\ sending /\ ~has_closed /\ peer = "up"
    /\ sent' = Append(sent, Head(write_queue))
    /\ write_queue' = Tail(write_queue)
    /\ sending' = (write_queue' # <<>>)
    /\ UNCHANGED <<connVars, processing, timer, ctxVars, handlerVars>>

\* close()
Close == has_closed' = TRUE

\* An async_write fails: send_data closes and leaves the queue as it is.
SendFail ==
    /\ sending /\ (has_closed \/ peer = "down")
    /\ sending' = FALSE /\ Close
    /\ UNCHANGED <<peer, loop, unsent, current, by_callback, processing,
                   write_queue, timer, sent, ctxVars, handlerVars>>

\* The deadline of the keep-alive timer passes ...
Expire ==
    /\ "armed" \in timer /\ timer' = {"expired"}
    /\ UNCHANGED <<connVars, processing, write_queue, sending, sent, ctxVars,
                   handlerVars>>

\* ... and its handler closes the connection.
TimerClose ==
    /\ "expired" \in timer /\ timer' = timer \ {"expired"}
    /\ Close
    /\ UNCHANGED <<peer, loop, unsent, current, by_callback, processing,
                   write_queue, sending, sent, ctxVars, handlerVars>>

\* async_close(), by the server or by a handler.
AsyncClose ==
    /\ ~has_closed /\ Close
    /\ UNCHANGED <<peer, loop, unsent, current, by_callback, queueVars, ctxVars,
                   handlerVars>>

\* The client goes away.
PeerDown ==
    /\ peer = "up" /\ peer' = "down"
    /\ UNCHANGED <<has_closed, loop, unsent, current, by_callback, queueVars,
                   ctxVars, handlerVars>>

---------------------------------------------------------------------------
(* The read loop of start_impl.                                            *)

\* Mutants: the context is kept whoever holds it; the header is stored in
\* the context of the previous request.
KeepContext(r) == context
StoreInOld(c, r) == [head EXCEPT ![context] = r]

\* A context that a handler may still hold is replaced; the header of the
\* request is stored in the context.
ContextFor(r) == IF by_callback THEN r ELSE context
StoreHead(c, r) == [head EXCEPT ![c] = r]

\* A header arrives.
ReadHead(r) ==
    /\ loop = "head" /\ ~has_closed /\ r \in unsent
    /\ loop' = "payload" /\ unsent' = unsent \ {r} /\ current' = r
    /\ by_callback' = FALSE
    /\ context' = ContextFor(r)
    /\ head' = StoreHead(context', r)
    /\ ctx' = [ctx EXCEPT ![r] = context']
    /\ UNCHANGED <<has_closed, peer, queueVars, status, handlerVars>>

\* The payload has arrived, possibly just before a close: the timer is
\* cancelled, the call counted and routed.  A coroutine handler starts, a
\* handler with a context answers later; the result of any other handler,
\* and the error of a handler that throws, are answered at once.
Execute ==
    /\ loop = "payload" /\ loop' = "head"
    /\ LET r == current
           cnt == (processing + 1) % CntSpace
       IN  /\ hpc' = [hpc EXCEPT ![r] = CASE r \in Coro -> "running"
                                           [] r \in Callback -> "held"
                                           [] OTHER -> "done"]
           /\ \/ /\ r \in Coro \cup (Callback \ Throwing)
                 /\ by_callback' = TRUE
                 /\ processing' = cnt /\ timer' = CancelTimer(timer)
                 /\ UNCHANGED <<write_queue, sending>>
              \/ /\ r \notin Coro \cup (Callback \ Throwing)
                 /\ by_callback' = FALSE
                 /\ Response(Answer(r, context), cnt, CancelTimer(timer))
    /\ UNCHANGED <<has_closed, peer, unsent, current, sent, ctxVars, apc,
                   posted>>

\* A read fails, or the header is bad: leave the loop, close, stop the timer.
LoopEnd ==
    /\ loop # "stopped" /\ (has_closed \/ peer = "down" \/ loop = "payload")
    /\ loop' = "stopped" /\ Close
    /\ timer' = CancelTimer(timer)
    /\ UNCHANGED <<peer, unsent, current, by_callback, processing, write_queue,
                   sending, sent, ctxVars, handlerVars>>

---------------------------------------------------------------------------
(* Handlers that answer later.                                             *)

\* A coroutine handler is done: its response is scheduled on the executor.
CoroDone(r) ==
    /\ hpc[r] = "running"
    /\ hpc' = [hpc EXCEPT ![r] = "done"]
    /\ posted' = Append(posted, Answer(r, ctx[r]))
    /\ UNCHANGED <<connVars, queueVars, ctxVars, apc>>

\* Mutant: the status is tested without a claim.
NotFinished(c) == status[c] # "finish_response"

\* compare_exchange_strong(status_, init, start_response)
Unclaimed(c) == status[c] = "init"

\* context_base::check_status: one of the copies claims the context, another
\* one logs an error.
Claim(r, t) ==
    /\ hpc[r] \in {"held", "answered"} /\ apc[r][t] = "idle"
    /\ \/ /\ Unclaimed(ctx[r])
          /\ status' = [status EXCEPT ![ctx[r]] = "start_response"]
          /\ apc' = [apc EXCEPT ![r][t] = "claimed"]
       \/ /\ ~Unclaimed(ctx[r])
          /\ apc' = [apc EXCEPT ![r][t] = "done"]
          /\ UNCHANGED status
    /\ UNCHANGED <<connVars, queueVars, context, head, ctx, hpc, posted>>

\* The rest of response_error or response_msg: nothing on a closed
\* connection, else the response is dispatched to the executor.
Answered(r, t, next) ==
    /\ apc[r][t] = "claimed"
    /\ hpc' = [hpc EXCEPT ![r] = "answered"]
    /\ apc' = [apc EXCEPT ![r][t] = IF has_closed THEN "done" ELSE next]
    /\ posted' = IF has_closed THEN posted
                 ELSE Append(posted, Answer(r, ctx[r]))
    /\ UNCHANGED <<connVars, queueVars, ctxVars>>

ResponseError(r, t) == Answered(r, t, "done")
ResponseMsg(r, t) == Answered(r, t, "finish")

\* The end of response_msg, on the thread of the handler.
Finish(r, t) ==
    /\ apc[r][t] = "finish"
    /\ apc' = [apc EXCEPT ![r][t] = "done"]
    /\ status' = [status EXCEPT ![ctx[r]] = "finish_response"]
    /\ UNCHANGED <<connVars, queueVars, context, head, ctx, hpc, posted>>

\* The handler lets go of its context without an answer.
Drop(r) ==
    /\ hpc[r] = "held" /\ r \in Dropping
    /\ \A t \in Copies : apc[r][t] = "idle"
    /\ hpc' = [hpc EXCEPT ![r] = "dropped"]
    /\ UNCHANGED <<connVars, queueVars, ctxVars, apc, posted>>

\* The executor runs the oldest posted response.
RunPosted ==
    /\ posted # <<>>
    /\ posted' = Tail(posted)
    /\ Response(Head(posted), processing, timer)
    /\ UNCHANGED <<connVars, sent, ctxVars, hpc, apc>>

---------------------------------------------------------------------------
Handler(r) ==
    \/ CoroDone(r) \/ Drop(r)
    \/ \E t \in Copies : \/ Claim(r, t) \/ ResponseError(r, t)
                        \/ ResponseMsg(r, t) \/ Finish(r, t)

Next ==
    \/ SendData \/ SendFail \/ Expire \/ TimerClose \/ AsyncClose \/ PeerDown
    \/ Execute \/ LoopEnd \/ RunPosted
    \/ \E r \in Req : ReadHead(r) \/ Handler(r)

Spec == Init /\ [][Next]_vars

\* The executor runs what is queued on it, the clock advances and handlers
\* answer.  Nothing is assumed of the client, nor of writes to a live peer.
Fairness ==
    /\ WF_vars(SendFail) /\ WF_vars(Expire) /\ WF_vars(TimerClose)
    /\ WF_vars(RunPosted)
    /\ \A r \in Req : WF_vars(CoroDone(r))
    /\ \A r \in Req, t \in Copies :
         WF_vars(Claim(r, t)) /\ WF_vars(ResponseError(r, t) \/ ResponseMsg(r, t))

FairSpec == Spec /\ Fairness

---------------------------------------------------------------------------
(* Properties.                                                             *)

Answers == [by : Req, id : Req]

\* Every variable of the connection keeps its type; in particular no response
\* is made from a context whose header was never set.
TypeOK ==
    /\ has_closed \in BOOLEAN /\ peer \in {"up", "down"}
    /\ loop \in {"head", "payload", "stopped"}
    /\ unsent \subseteq Req /\ current \in Req \cup {NoReq}
    /\ by_callback \in BOOLEAN /\ processing \in 0..CntSpace - 1
    /\ write_queue \in Seq(Answers) /\ sending \in BOOLEAN
    /\ timer \subseteq {"armed", "expired"} /\ sent \in Seq(Answers)
    /\ context \in Contexts /\ head \in [Contexts -> Req \cup {NoReq}]
    /\ status \in [Contexts -> {"init", "start_response", "finish_response"}]
    /\ ctx \in [Req -> Contexts]
    /\ hpc \in [Req -> {"none", "running", "held", "answered", "dropped", "done"}]
    /\ apc \in [Req -> [Copies -> {"idle", "claimed", "finish", "done"}]]
    /\ posted \in Seq(Answers)

\* While the connection is open send_data runs exactly when there is something
\* to send: no response waits in the queue without a writer, and the test
\* write_queue_.size() == 1 never starts a second writer.
QueueServed == ~has_closed => (sending <=> write_queue # <<>>)

\* All responses made so far, in the order they reach the socket.
Responses == sent \o write_queue \o posted

\* A response carries the header of the request its handler was called for:
\* the context a handler holds is never given to another request.
AnswersOwnRequest ==
    \A i \in 1..Len(Responses) : Responses[i].id = Responses[i].by

\* "If the connection has already sent response message, an error log will be
\* reported": no request is answered twice.
AnsweredOnce ==
    \A i, j \in 1..Len(Responses) : Responses[i].by = Responses[j].by => i = j

\* rpc_processing_cnt_ counts the calls that execute: read, routed and without
\* a response in the queue.  In particular it does not wrap below zero.
CountExact ==
    ~has_closed =>
        processing = Len(posted) + Cardinality(
            {r \in Req : hpc[r] \in {"running", "held", "dropped"}})

\* The keep-alive timer does not run while a call executes.
TimerOnlyWhenIdle ==
    "armed" \in timer /\ ~has_closed => processing = 0

\* "if don't get any message in keep_alive_timeout_duration_, the connection
\* will be closed": a client that falls silent is disconnected, unless a
\* handler dropped its context, which counts as executing forever.
SilentClientClosed == <>(has_closed \/ \E r \in Req : hpc[r] = "dropped")

=============================================================================
