------------------------ MODULE RpcConnectionProofs ------------------------
(***************************************************************************)
(* Theorems about module RpcConnection, for any set of requests and any    *)
(* number of copies of a context.                                          *)
(*                                                                         *)
(* The types and the write queue need nothing more.  That every response   *)
(* carries the header of its own request, and that no request is answered  *)
(* twice, hold when no handler throws after it has kept its context, and   *)
(* the count of executing calls is exact when it also has a value for each *)
(* request.                                                                *)
(***************************************************************************)
EXTENDS RpcConnection, FiniteSetTheorems, TLAPS

\* A handler that has been called holds a context with a header, and so does
\* the read loop when it is about to call one.
ReadInv ==
    /\ loop = "payload" => /\ current \in Req /\ ctx[current] = context
                           /\ head[context] = current
    /\ \A r \in Req : hpc[r] # "none" => head[ctx[r]] \in Req
    /\ \A r \in Req, t \in Copies : apc[r][t] # "idle" => hpc[r] # "none"

SafeInv == TypeOK /\ QueueServed /\ ReadInv

\* The handlers that may still use the context they were given.
Live(r) == hpc[r] \in {"running", "held", "answered", "dropped"}

\* The read loop may store the next header in the context it has.
Reusable == loop = "payload" \/ (loop = "head" /\ ~by_callback)

\* A request that was not sent has touched nothing, not even the context
\* that will be named after it.
UnsentInv ==
    /\ \A r \in unsent : /\ hpc[r] = "none" /\ status[r] = "init"
                         /\ context # r /\ \A q \in Req : ctx[q] # r
    /\ loop = "payload" => hpc[current] = "none" /\ current \notin unsent

\* A context belongs to the request whose header it holds; the context the
\* read loop may reuse is fresh, and in no handler's hands.
OwnerInv ==
    /\ \A r \in Req : Live(r) => head[ctx[r]] = r
    /\ Reusable => /\ status[context] = "init"
                   /\ \A r \in Req : Live(r) => ctx[r] # context

\* One copy of a context at most is between its claim and its answer, and
\* none is left once the request has been answered.
ClaimInv ==
    /\ \A r \in Req, t \in Copies :
         apc[r][t] # "idle" => hpc[r] \in {"held", "answered"}
    /\ \A r \in Req : Live(r) /\ status[ctx[r]] = "init"
         => hpc[r] # "answered" /\ \A t \in Copies : apc[r][t] = "idle"
    /\ \A r \in Req, t \in Copies : apc[r][t] = "claimed"
         => /\ hpc[r] = "held" /\ status[ctx[r]] # "init"
            /\ \A u \in Copies \ {t} : apc[r][u] \in {"idle", "done"}

ContextInv == UnsentInv /\ OwnerInv /\ ClaimInv

\* What is said of a sequence of responses.
By(s) == {s[i].by : i \in 1..Len(s)}
Once(s) == \A i, j \in 1..Len(s) : s[i].by = s[j].by => i = j
Own(s) == \A i \in 1..Len(s) : s[i].id = s[i].by

\* No response is in two places, and who has one does not make another.
OnceInv ==
    /\ Once(sent) /\ Once(write_queue) /\ Once(posted)
    /\ By(sent) \cap By(write_queue) = {} /\ By(sent) \cap By(posted) = {}
    /\ By(write_queue) \cap By(posted) = {}
    /\ \A r \in By(sent) \cup By(write_queue) \cup By(posted) :
         hpc[r] \in {"done", "answered"}

OwnInv == Own(sent) /\ Own(write_queue) /\ Own(posted)

\* The calls that rpc_processing_cnt_ counts.
Executing == {r \in Req : hpc[r] \in {"running", "held", "dropped"}}
InFlight == By(posted) \cup Executing

CountInv == ~has_closed => processing = Cardinality(InFlight)

---------------------------------------------------------------------------
(* Sequences of responses. *)

\* What send_data and the executor do to a queue: take the oldest response.
LEMMA TakeHead ==
  ASSUME NEW s \in Seq(Answers), s # <<>>
  PROVE  /\ Head(s) \in Answers /\ Tail(s) \in Seq(Answers)
         /\ Len(s) \in Nat \ {0} /\ Len(Tail(s)) = Len(s) - 1
         /\ Head(s) = s[1]
         /\ \A i \in 1..Len(Tail(s)) : Tail(s)[i] = s[i + 1]
  OBVIOUS

\* What response() does to a queue: add one response at the end.
LEMMA AppendAnswer ==
  ASSUME NEW s \in Seq(Answers), NEW a \in Answers
  PROVE  /\ Append(s, a) \in Seq(Answers)
         /\ Len(s) \in Nat /\ Len(Append(s, a)) = Len(s) + 1
         /\ \A i \in 1..Len(s) : Append(s, a)[i] = s[i]
         /\ Append(s, a)[Len(s) + 1] = a
         /\ Append(s, a) # <<>>
  OBVIOUS

\* The handlers whose responses are in a queue, when one is added ...
LEMMA ByAppend ==
  ASSUME NEW s \in Seq(Answers), NEW a \in Answers
  PROVE  /\ By(Append(s, a)) = By(s) \cup {a.by}
         /\ Once(s) /\ a.by \notin By(s) => Once(Append(s, a))
         /\ Own(s) /\ a.id = a.by => Own(Append(s, a))
  <1>1. By(s) \subseteq By(Append(s, a)) /\ a.by \in By(Append(s, a))
    BY AppendAnswer DEF By
  <1>2. By(Append(s, a)) \subseteq By(s) \cup {a.by}
    <2> SUFFICES ASSUME NEW i \in 1..Len(Append(s, a))
                 PROVE  Append(s, a)[i].by \in By(s) \cup {a.by}
      BY DEF By
    <2>1. CASE i \in 1..Len(s)
      BY <2>1, AppendAnswer DEF By
    <2>2. CASE i = Len(s) + 1
      BY <2>2, AppendAnswer
    <2>3. QED
      BY <2>1, <2>2, AppendAnswer
  <1>3. ASSUME Once(s), a.by \notin By(s)
        PROVE  Once(Append(s, a))
    <2>1. \A i \in 1..Len(s) : Append(s, a)[i].by # a.by
      BY <1>3, AppendAnswer DEF By
    <2>2. QED
      BY <1>3, <2>1, AppendAnswer DEF Once
  <1>4. ASSUME Own(s), a.id = a.by
        PROVE  Own(Append(s, a))
    BY <1>4, AppendAnswer DEF Own
  <1>5. QED
    BY <1>1, <1>2, <1>3, <1>4

\* ... and when the oldest one is taken.
LEMMA ByTail ==
  ASSUME NEW s \in Seq(Answers), s # <<>>
  PROVE  /\ By(s) = By(Tail(s)) \cup {Head(s).by}
         /\ Once(s) => Once(Tail(s)) /\ Head(s).by \notin By(Tail(s))
         /\ Own(s) => Own(Tail(s)) /\ Head(s).id = Head(s).by
         /\ Head(s).by \in Req
  <1>1. By(Tail(s)) \cup {Head(s).by} \subseteq By(s)
    BY TakeHead DEF By
  <1>2. By(s) \subseteq By(Tail(s)) \cup {Head(s).by}
    <2> SUFFICES ASSUME NEW i \in 1..Len(s)
                 PROVE  s[i].by \in By(Tail(s)) \cup {Head(s).by}
      BY DEF By
    <2>1. CASE i = 1
      BY <2>1, TakeHead
    <2>2. CASE i > 1
      <3>1. i - 1 \in 1..Len(Tail(s)) /\ Tail(s)[i - 1] = s[i]
        BY <2>2, TakeHead
      <3>2. QED
        BY <3>1 DEF By
    <2>3. QED
      BY <2>1, <2>2
  <1>3. ASSUME Once(s)
        PROVE  Once(Tail(s)) /\ Head(s).by \notin By(Tail(s))
    BY <1>3, TakeHead DEF Once, By
  <1>4. ASSUME Own(s)
        PROVE  Own(Tail(s)) /\ Head(s).id = Head(s).by
    BY <1>4, TakeHead DEF Own
  <1>5. QED
    BY <1>1, <1>2, <1>3, <1>4, TakeHead DEF Answers

\* Responses are made by handlers of requests.
LEMMA ByRequests ==
  ASSUME NEW s \in Seq(Answers)
  PROVE  By(s) \subseteq Req
  <1>1. \A i \in 1..Len(s) : s[i] \in Answers
    OBVIOUS
  <1>2. QED
    BY <1>1 DEF By, Answers

\* A queue without duplicates is as long as the number of its handlers.
LEMMA LenIsCardinality ==
  ASSUME NEW s \in Seq(Answers), Once(s)
  PROVE  /\ By(s) \subseteq Req /\ IsFiniteSet(By(s))
         /\ Cardinality(By(s)) = Len(s)
  <1> DEFINE f == [i \in 1..Len(s) |-> s[i].by]
  <1>1. Len(s) \in Nat /\ \A i \in 1..Len(s) : s[i] \in Answers
    OBVIOUS
  <1>2. f \in Bijection(1..Len(s), By(s))
    BY <1>1 DEF Bijection, Injection, Surjection, IsInjective, By, Once
  <1>3. IsFiniteSet(1..Len(s)) /\ Cardinality(1..Len(s)) = Len(s)
    <2>1. 1 \in Int /\ Len(s) \in Int
      BY <1>1
    <2>2. /\ IsFiniteSet(1..Len(s))
          /\ Cardinality(1..Len(s)) = IF 1 > Len(s) THEN 0 ELSE Len(s) - 1 + 1
      BY <2>1, FS_Interval, Zenon
    <2>3. QED
      BY <1>1, <2>2
  <1>4. IsFiniteSet(By(s)) /\ Cardinality(By(s)) = Len(s)
    BY <1>2, <1>3, FS_Bijection DEF ExistsBijection
  <1>5. QED
    BY <1>1, <1>4 DEF By, Answers

---------------------------------------------------------------------------
(* The types and the write queue. *)

\* What response() does with an answer keeps the queue served.
LEMMA ResponseSafe ==
  ASSUME SafeInv, NEW a \in Answers, NEW cnt \in 0..CntSpace - 1,
         NEW t \in SUBSET {"armed", "expired"}, Response(a, cnt, t),
         UNCHANGED has_closed
  PROVE  /\ processing' \in 0..CntSpace - 1 /\ write_queue' \in Seq(Answers)
         /\ timer' \subseteq {"armed", "expired"} /\ sending' \in BOOLEAN
         /\ QueueServed'
  <1> USE DEF SafeInv, TypeOK
  <1>1. CASE has_closed
    BY <1>1 DEF Response, QueueServed
  <1>2. CASE ~has_closed
    <2>1. /\ write_queue' = Append(write_queue, a)
          /\ processing' = CountDown(cnt)
          /\ timer' = ResetTimer(processing', t)
          /\ sending' = (sending \/ StartsWriter(write_queue'))
      BY <1>2 DEF Response
    <2>2. processing' \in 0..CntSpace - 1
      BY <2>1, ConstantsAssumption DEF CountDown
    <2>3. timer' \subseteq {"armed", "expired"}
      BY <2>1 DEF ResetTimer
    <2>4. write_queue' \in Seq(Answers) /\ write_queue' # <<>>
      BY <2>1, AppendAnswer
    <2>5. sending' = TRUE
      <3>1. CASE write_queue = <<>>
        <4>1. Len(write_queue) = 0
          BY <3>1
        <4>2. Len(write_queue') = 1
          BY <2>1, <4>1, AppendAnswer
        <4>3. QED
          BY <2>1, <4>2 DEF StartsWriter
      <3>2. CASE write_queue # <<>>
        BY <1>2, <2>1, <3>2 DEF QueueServed
      <3>3. QED
        BY <3>1, <3>2
    <2>6. QED
      BY <2>2, <2>3, <2>4, <2>5 DEF QueueServed
  <1>3. QED
    BY <1>1, <1>2

\* A context with a header makes a response that names a request.
LEMMA AnswerTyped ==
  ASSUME NEW r \in Req, NEW c, head[c] \in Req
  PROVE  Answer(r, c) \in Answers /\ Answer(r, c).by = r
         /\ Answer(r, c).id = head[c]
  BY DEF Answer, Answers

AnswerStep == {"idle", "claimed", "finish", "done"}

\* One copy of one context moves on.
LEMMA MoveCopy ==
  ASSUME NEW r \in Req, NEW t \in Copies, NEW v \in AnswerStep,
         apc \in [Req -> [Copies -> AnswerStep]],
         apc' = [apc EXCEPT ![r][t] = v]
  PROVE  /\ apc' \in [Req -> [Copies -> AnswerStep]]
         /\ \A q \in Req, u \in Copies :
              apc'[q][u] = IF q = r /\ u = t THEN v ELSE apc[q][u]
  <1>1. apc' = [apc EXCEPT ![r] = [apc[r] EXCEPT ![t] = v]]
    OBVIOUS
  <1>2. [apc[r] EXCEPT ![t] = v] \in [Copies -> AnswerStep]
    OBVIOUS
  <1>3. QED
    BY <1>1, <1>2

\* Every step keeps the types, the writer of the queue and the headers.
LEMMA SafeStep == SafeInv /\ [Next]_vars => SafeInv'
  <1> SUFFICES ASSUME SafeInv, [Next]_vars PROVE SafeInv'
    OBVIOUS
  <1> USE DEF SafeInv, TypeOK, ReadInv
  <1>1. CASE SendData
    <2>1. write_queue # <<>>
      BY <1>1 DEF SendData, QueueServed
    <2>2. sent' \in Seq(Answers) /\ write_queue' \in Seq(Answers)
      BY <1>1, <2>1, TakeHead, AppendAnswer DEF SendData
    <2>3. QED
      BY <1>1, <2>2 DEF SendData, QueueServed, connVars, ctxVars, handlerVars
  <1>2. CASE SendFail
    BY <1>2 DEF SendFail, Close, QueueServed, ctxVars, handlerVars
  <1>3. CASE Expire
    BY <1>3 DEF Expire, QueueServed, connVars, ctxVars, handlerVars
  <1>4. CASE TimerClose
    BY <1>4 DEF TimerClose, Close, QueueServed, ctxVars, handlerVars
  <1>5. CASE AsyncClose
    BY <1>5 DEF AsyncClose, Close, QueueServed, queueVars, ctxVars, handlerVars
  <1>6. CASE PeerDown
    BY <1>6 DEF PeerDown, QueueServed, queueVars, ctxVars, handlerVars
  <1>7. CASE Execute
    <2> DEFINE cnt == (processing + 1) % CntSpace
    <2>1. cnt \in 0..CntSpace - 1
      BY ConstantsAssumption
    <2>2. /\ current \in Req /\ ctx[current] = context
          /\ head[context] = current /\ Answer(current, context) \in Answers
      BY <1>7, AnswerTyped DEF Execute
    <2>3. /\ hpc' = [hpc EXCEPT ![current] = hpc'[current]]
          /\ hpc'[current] \in {"running", "held", "done"}
          /\ loop' = "head" /\ UNCHANGED <<has_closed, peer, unsent, current,
                                           sent, ctxVars, apc, posted>>
      BY <1>7, <2>2 DEF Execute
    <2>4. /\ processing' \in 0..CntSpace - 1 /\ write_queue' \in Seq(Answers)
          /\ timer' \subseteq {"armed", "expired"} /\ sending' \in BOOLEAN
          /\ QueueServed' /\ by_callback' \in BOOLEAN
      <3>1. CASE current \in Coro \cup (Callback \ Throwing)
        <4>1. /\ by_callback' = TRUE /\ processing' = cnt
              /\ timer' = CancelTimer(timer)
              /\ UNCHANGED <<write_queue, sending>>
          BY <1>7, <3>1 DEF Execute
        <4>2. timer' \subseteq {"armed", "expired"}
          BY <4>1 DEF CancelTimer
        <4> HIDE DEF cnt
        <4>3. QED
          BY <2>1, <2>3, <4>1, <4>2 DEF QueueServed
      <3>2. CASE current \notin Coro \cup (Callback \ Throwing)
        <4>1. /\ Response(Answer(current, context), cnt, CancelTimer(timer))
              /\ by_callback' = FALSE
          BY <1>7, <3>2 DEF Execute
        <4>2. CancelTimer(timer) \in SUBSET {"armed", "expired"}
          BY DEF CancelTimer
        <4> HIDE DEF cnt
        <4>3. QED
          BY <2>1, <2>2, <2>3, <4>1, <4>2, ResponseSafe
      <3>3. QED
        BY <3>1, <3>2
    <2>5. QED
      BY <2>2, <2>3, <2>4 DEF ctxVars
  <1>8. CASE LoopEnd
    BY <1>8 DEF LoopEnd, Close, CancelTimer, QueueServed, ctxVars, handlerVars
  <1>9. CASE RunPosted
    <2>1. Head(posted) \in Answers /\ Tail(posted) \in Seq(Answers)
      BY <1>9, TakeHead DEF RunPosted
    <2>2. Response(Head(posted), processing, timer) /\ has_closed' = has_closed
      BY <1>9 DEF RunPosted, connVars
    <2>3. /\ processing' \in 0..CntSpace - 1 /\ write_queue' \in Seq(Answers)
          /\ timer' \subseteq {"armed", "expired"} /\ sending' \in BOOLEAN
          /\ QueueServed'
      BY <2>1, <2>2, ResponseSafe
    <2>4. QED
      BY <1>9, <2>1, <2>3 DEF RunPosted, connVars, ctxVars
  <1>10. ASSUME NEW r \in Req, ReadHead(r)
         PROVE  SafeInv'
    <2>1. context' \in Contexts
      BY <1>10 DEF ReadHead, ContextFor, Contexts
    <2>2. QED
      BY <1>10, <2>1 DEF ReadHead, StoreHead, QueueServed, queueVars,
                         handlerVars
  <1>11. ASSUME NEW r \in Req, CoroDone(r)
         PROVE  SafeInv'
    <2>1. Answer(r, ctx[r]) \in Answers
      BY <1>11, AnswerTyped DEF CoroDone
    <2>2. posted' \in Seq(Answers)
      BY <1>11, <2>1, AppendAnswer DEF CoroDone
    <2>3. QED
      BY <1>11, <2>2 DEF CoroDone, QueueServed, connVars, queueVars, ctxVars
  <1>12. ASSUME NEW r \in Req, Drop(r)
         PROVE  SafeInv'
    BY <1>12 DEF Drop, QueueServed, connVars, queueVars, ctxVars
  <1>13. ASSUME NEW r \in Req, NEW t \in Copies, Claim(r, t)
         PROVE  SafeInv'
    <2>1. /\ apc' \in [Req -> [Copies -> AnswerStep]]
          /\ \A q \in Req, u \in Copies : apc'[q][u] # apc[q][u] => q = r
      <3>1. PICK v \in AnswerStep : apc' = [apc EXCEPT ![r][t] = v]
        BY <1>13 DEF Claim, AnswerStep
      <3>2. QED
        BY <3>1, MoveCopy DEF AnswerStep
    <2>2. status' \in [Contexts -> {"init", "start_response",
                                    "finish_response"}]
      BY <1>13 DEF Claim
    <2>3. QED
      BY <1>13, <2>1, <2>2 DEF Claim, QueueServed, connVars, queueVars,
                               AnswerStep
  <1>14. ASSUME NEW r \in Req, NEW t \in Copies,
                ResponseError(r, t) \/ ResponseMsg(r, t)
         PROVE  SafeInv'
    <2>1. PICK next \in {"done", "finish"} : Answered(r, t, next)
      BY <1>14 DEF ResponseError, ResponseMsg
    <2>2. Answer(r, ctx[r]) \in Answers
      BY <2>1, AnswerTyped DEF Answered
    <2>3. posted' \in Seq(Answers)
      BY <2>1, <2>2, AppendAnswer DEF Answered
    <2>4. QED
      BY <2>1, <2>3 DEF Answered, QueueServed, connVars, queueVars, ctxVars
  <1>15. ASSUME NEW r \in Req, NEW t \in Copies, Finish(r, t)
         PROVE  SafeInv'
    BY <1>15 DEF Finish, QueueServed, connVars, queueVars
  <1>16. CASE UNCHANGED vars
    BY <1>16 DEF vars, QueueServed, connVars, queueVars, ctxVars, handlerVars
  <1>17. QED
    BY <1>1, <1>2, <1>3, <1>4, <1>5, <1>6, <1>7, <1>8, <1>9, <1>10, <1>11,
       <1>12, <1>13, <1>14, <1>15, <1>16 DEF Next, Handler

\* The types, the writer and the headers hold in every state.
LEMMA SafeAlways == Spec => []SafeInv
  <1>1. Init => SafeInv
    <2> SUFFICES ASSUME Init PROVE SafeInv
      OBVIOUS
    <2>1. TypeOK
      <3>1. /\ processing \in 0..CntSpace - 1
            /\ timer \subseteq {"armed", "expired"}
            /\ current \in Req \cup {NoReq} /\ unsent \subseteq Req
        BY ConstantsAssumption DEF Init
      <3>2. /\ context \in Contexts /\ head \in [Contexts -> Req \cup {NoReq}]
            /\ ctx \in [Req -> Contexts]
        BY DEF Init, Contexts
      <3>3. /\ status \in [Contexts -> {"init", "start_response",
                                        "finish_response"}]
            /\ hpc \in [Req -> {"none", "running", "held", "answered",
                                "dropped", "done"}]
            /\ apc \in [Req -> [Copies -> {"idle", "claimed", "finish",
                                           "done"}]]
        BY DEF Init
      <3>4. /\ has_closed \in BOOLEAN /\ peer \in {"up", "down"}
            /\ loop \in {"head", "payload", "stopped"}
            /\ by_callback \in BOOLEAN /\ sending \in BOOLEAN
        BY DEF Init
      <3>5. <<>> \in Seq(Answers)
        OBVIOUS
      <3>6. QED
        BY <3>1, <3>2, <3>3, <3>4, <3>5 DEF TypeOK, Init
    <2>2. QED
      BY <2>1 DEF Init, SafeInv, QueueServed, ReadInv
  <1>2. QED
    BY <1>1, SafeStep, PTL DEF Spec

\* Every variable of the connection keeps its type, whatever handlers do and
\* however requests, timers and closes interleave.
THEOREM TypeCorrect == Spec => []TypeOK
  BY SafeAlways, PTL DEF SafeInv

\* While the connection is open no response waits without a writer, and
\* write_queue_.size() == 1 never starts a second one.
THEOREM QueueAlwaysServed == Spec => []QueueServed
  BY SafeAlways, PTL DEF SafeInv

---------------------------------------------------------------------------
(* Contexts and claims, when no handler throws after keeping its context.  *)

\* The steps of the connection that touch neither contexts nor handlers.
LEMMA QuietContext ==
  ASSUME ContextInv, UNCHANGED <<loop, unsent, current, by_callback, ctxVars,
                                 hpc, apc>>
  PROVE  ContextInv'
  BY DEF ContextInv, UnsentInv, OwnerInv, ClaimInv, Live, Reusable, ctxVars

\* Every step keeps each context in one hand.
LEMMA ContextStep ==
  ASSUME Throwing = {}, SafeInv, ContextInv, [Next]_vars
  PROVE  ContextInv'
  <1> USE DEF SafeInv, TypeOK, ReadInv, ContextInv, Live
  <1>1. CASE Execute
    <2>1. /\ current \in Req /\ ctx[current] = context
          /\ head[context] = current /\ hpc[current] = "none"
          /\ Reusable /\ current \notin unsent
      BY <1>1 DEF Execute, UnsentInv, Reusable
    <2>2. /\ hpc' = [hpc EXCEPT ![current] = hpc'[current]]
          /\ loop' = "head" /\ UNCHANGED <<unsent, current, ctxVars, apc>>
      BY <1>1, <2>1 DEF Execute
    <2>3. \/ hpc'[current] \in {"running", "held"} /\ by_callback' = TRUE
          \/ hpc'[current] = "done"
      BY <1>1, <2>1, ConstantsAssumption DEF Execute
    <2>4. \A t \in Copies : apc[current][t] = "idle"
      BY <2>1
    <2>5. UnsentInv'
      BY <2>1, <2>2 DEF UnsentInv, ctxVars
    <2>6. OwnerInv'
      BY <2>1, <2>2, <2>3 DEF OwnerInv, Reusable, ctxVars
    <2>7. ClaimInv'
      <3>1. /\ \A q \in Req : q # current => hpc'[q] = hpc[q]
            /\ UNCHANGED <<status, ctx, apc>>
        BY <2>2 DEF ctxVars
      <3>2. hpc'[current] # "answered"
        BY <2>3
      <3>3. \A q \in Req, t \in Copies : apc'[q][t] # "idle" => q # current
        BY <2>4, <3>1
      <3>4. \A q \in Req : Live(q)' => q = current \/ Live(q)
        BY <3>1
      <3> HIDE DEF SafeInv, TypeOK, ReadInv
      <3>5. QED
        BY <2>4, <3>1, <3>2, <3>3, <3>4 DEF ClaimInv
    <2>8. QED
      BY <2>5, <2>6, <2>7
  <1>2. CASE LoopEnd
    BY <1>2 DEF LoopEnd, UnsentInv, OwnerInv, ClaimInv, Reusable, ctxVars,
                handlerVars
  <1>3. ASSUME NEW r \in Req, ReadHead(r)
        PROVE  ContextInv'
    <2>1. /\ hpc[r] = "none" /\ status[r] = "init" /\ loop = "head"
          /\ context # r /\ \A q \in Req : ctx[q] # r /\ r \in unsent
      BY <1>3 DEF ReadHead, UnsentInv
    <2>2. /\ loop' = "payload" /\ unsent' = unsent \ {r} /\ current' = r
          /\ head' = [head EXCEPT ![context'] = r]
          /\ ctx' = [ctx EXCEPT ![r] = context']
          /\ UNCHANGED <<status, hpc, apc>>
      BY <1>3 DEF ReadHead, StoreHead, handlerVars
    <2>3. /\ context' \in Contexts /\ context' \notin unsent'
          /\ status[context'] = "init"
          /\ \A q \in Req : Live(q) => ctx[q] # context'
      BY <1>3, <2>1, <2>2 DEF ReadHead, ContextFor, Contexts, OwnerInv,
                              Reusable, UnsentInv
    <2>4. \A q \in Req : Live(q) => q # r /\ ctx'[q] = ctx[q]
      BY <2>1, <2>2
    <2>5. UnsentInv'
      BY <2>1, <2>2, <2>3 DEF UnsentInv
    <2>6. OwnerInv'
      BY <2>1, <2>2, <2>3, <2>4 DEF OwnerInv, Contexts
    <2>7. ClaimInv'
      BY <2>1, <2>2, <2>4 DEF ClaimInv
    <2>8. QED
      BY <2>5, <2>6, <2>7
  <1>4. ASSUME NEW r \in Req, CoroDone(r)
        PROVE  ContextInv'
    BY <1>4 DEF CoroDone, UnsentInv, OwnerInv, ClaimInv, Reusable, connVars,
                ctxVars
  <1>5. ASSUME NEW r \in Req, Drop(r)
        PROVE  ContextInv'
    BY <1>5 DEF Drop, UnsentInv, OwnerInv, ClaimInv, Reusable, connVars,
                ctxVars
  <1>6. ASSUME NEW r \in Req, NEW t \in Copies, Claim(r, t)
        PROVE  ContextInv'
    <2>1. /\ hpc[r] \in {"held", "answered"} /\ apc[r][t] = "idle"
          /\ UNCHANGED <<loop, unsent, current, by_callback, context, head, ctx,
                         hpc>>
      BY <1>6 DEF Claim, connVars
    <2>2. \A q \in Req : Live(q) /\ q # r => ctx[q] # ctx[r]
      BY <2>1 DEF OwnerInv
    <2>3. CASE /\ status[ctx[r]] = "init"
               /\ status' = [status EXCEPT ![ctx[r]] = "start_response"]
               /\ apc' = [apc EXCEPT ![r][t] = "claimed"]
      <3>1. \A q \in Req, u \in Copies :
              apc'[q][u] = IF q = r /\ u = t THEN "claimed" ELSE apc[q][u]
        BY <2>3, MoveCopy DEF AnswerStep
      <3>2. ctx[r] \notin unsent
        BY DEF UnsentInv
      <3>3. UnsentInv'
        BY <2>1, <2>3, <3>2 DEF UnsentInv
      <3>4. OwnerInv'
        BY <2>1, <2>3 DEF OwnerInv, Reusable
      <3>5. ClaimInv'
        BY <2>1, <2>2, <2>3, <3>1 DEF ClaimInv
      <3>6. QED
        BY <3>3, <3>4, <3>5
    <2>4. CASE /\ status[ctx[r]] # "init" /\ status' = status
               /\ apc' = [apc EXCEPT ![r][t] = "done"]
      <3>1. \A q \in Req, u \in Copies :
              apc'[q][u] = IF q = r /\ u = t THEN "done" ELSE apc[q][u]
        BY <2>4, MoveCopy DEF AnswerStep
      <3>2. UnsentInv' /\ OwnerInv'
        BY <2>1, <2>4 DEF UnsentInv, OwnerInv, Reusable
      <3>3. ClaimInv'
        BY <2>1, <2>2, <2>4, <3>1 DEF ClaimInv
      <3>4. QED
        BY <3>2, <3>3
    <2>5. QED
      BY <1>6, <2>3, <2>4 DEF Claim, Unclaimed
  <1>7. ASSUME NEW r \in Req, NEW t \in Copies,
               ResponseError(r, t) \/ ResponseMsg(r, t)
        PROVE  ContextInv'
    <2>1. PICK v \in {"done", "finish"} :
            /\ apc[r][t] = "claimed" /\ hpc' = [hpc EXCEPT ![r] = "answered"]
            /\ apc' = [apc EXCEPT ![r][t] = v]
            /\ UNCHANGED <<loop, unsent, current, by_callback, context, head,
                           status, ctx>>
      BY <1>7 DEF ResponseError, ResponseMsg, Answered, connVars, ctxVars
    <2>2. \A q \in Req, u \in Copies :
            apc'[q][u] = IF q = r /\ u = t THEN v ELSE apc[q][u]
      BY <2>1, MoveCopy DEF AnswerStep
    <2>3. hpc[r] = "held" /\ status[ctx[r]] # "init"
      BY <2>1 DEF ClaimInv
    <2>4. UnsentInv'
      BY <2>1, <2>3 DEF UnsentInv
    <2>5. OwnerInv'
      BY <2>1, <2>3 DEF OwnerInv, Reusable
    <2>6. ClaimInv'
      BY <2>1, <2>2, <2>3 DEF ClaimInv
    <2>7. QED
      BY <2>4, <2>5, <2>6
  <1>8. ASSUME NEW r \in Req, NEW t \in Copies, Finish(r, t)
        PROVE  ContextInv'
    <2>1. /\ apc[r][t] = "finish" /\ apc' = [apc EXCEPT ![r][t] = "done"]
          /\ status' = [status EXCEPT ![ctx[r]] = "finish_response"]
          /\ UNCHANGED <<loop, unsent, current, by_callback, context, head, ctx,
                         hpc>>
      BY <1>8 DEF Finish, connVars
    <2>2. \A q \in Req, u \in Copies :
            apc'[q][u] = IF q = r /\ u = t THEN "done" ELSE apc[q][u]
      BY <2>1, MoveCopy DEF AnswerStep
    <2>3. /\ hpc[r] \in {"held", "answered"} /\ ctx[r] \notin unsent
          /\ \A q \in Req : Live(q) /\ q # r => ctx[q] # ctx[r]
      BY <2>1 DEF ClaimInv, OwnerInv, UnsentInv
    <2>4. UnsentInv'
      BY <2>1, <2>3 DEF UnsentInv
    <2>5. OwnerInv'
      BY <2>1, <2>3 DEF OwnerInv, Reusable
    <2>6. ClaimInv'
      BY <2>1, <2>2, <2>3 DEF ClaimInv
    <2>7. QED
      BY <2>4, <2>5, <2>6
  <1>9. CASE UNCHANGED <<loop, unsent, current, by_callback, ctxVars, hpc, apc>>
    BY <1>9, QuietContext
  <1>10. QED
    BY <1>1, <1>2, <1>3, <1>4, <1>5, <1>6, <1>7, <1>8, <1>9
    DEF Next, Handler, SendData, SendFail, Expire, TimerClose, AsyncClose,
        PeerDown, RunPosted, vars, connVars, handlerVars

---------------------------------------------------------------------------
(* Responses: each to its own request, and one only. *)

\* A response moves from one queue to the next, or is dropped: the pairs of
\* properties of sent, write_queue and posted are kept.
LEMMA ResponseMoves ==
  ASSUME SafeInv, OnceInv, OwnInv, UNCHANGED hpc, SendData \/ RunPosted
  PROVE  OnceInv' /\ OwnInv'
  <1> USE DEF SafeInv, TypeOK, OnceInv, OwnInv
  <1>1. CASE SendData
    <2>1. /\ write_queue # <<>> /\ write_queue' = Tail(write_queue)
          /\ sent' = Append(sent, Head(write_queue)) /\ posted' = posted
      BY <1>1 DEF SendData, QueueServed, handlerVars
    <2>2. Head(write_queue) \in Answers
      BY <2>1, TakeHead
    <2>3. /\ By(write_queue) = By(write_queue') \cup {Head(write_queue).by}
          /\ Once(write_queue') /\ Head(write_queue).by \notin By(write_queue')
          /\ Own(write_queue') /\ Head(write_queue).id = Head(write_queue).by
      BY <2>1, ByTail
    <2>4. /\ By(sent') = By(sent) \cup {Head(write_queue).by}
          /\ Once(sent') /\ Own(sent')
      BY <2>1, <2>2, <2>3, ByAppend
    <2>5. QED
      BY <2>1, <2>3, <2>4
  <1>2. CASE RunPosted
    <2>1. /\ posted # <<>> /\ posted' = Tail(posted) /\ sent' = sent
          /\ write_queue' \in {write_queue, Append(write_queue, Head(posted))}
      BY <1>2 DEF RunPosted, Response
    <2>2. Head(posted) \in Answers
      BY <2>1, TakeHead
    <2>3. /\ By(posted) = By(posted') \cup {Head(posted).by}
          /\ Once(posted') /\ Head(posted).by \notin By(posted')
          /\ Own(posted') /\ Head(posted).id = Head(posted).by
      BY <2>1, ByTail
    <2>4. /\ By(write_queue') \subseteq By(write_queue) \cup {Head(posted).by}
          /\ Once(write_queue') /\ Own(write_queue')
      <3>1. CASE write_queue' = write_queue
        BY <3>1
      <3>2. CASE write_queue' = Append(write_queue, Head(posted))
        <4>1. Head(posted).by \notin By(write_queue)
          BY <2>3
        <4>2. QED
          BY <2>2, <2>3, <3>2, <4>1, ByAppend
      <3>3. QED
        BY <2>1, <3>1, <3>2
    <2>5. QED
      BY <2>1, <2>3, <2>4
  <1>3. QED
    BY <1>1, <1>2

\* A handler that has not answered posts its response.
LEMMA ResponsePosted ==
  ASSUME SafeInv, OnceInv, OwnInv, NEW r \in Req,
         hpc[r] \notin {"done", "answered"}, head[ctx[r]] = r,
         NEW label \in {"done", "answered"}, hpc' = [hpc EXCEPT ![r] = label],
         posted' \in {posted, Append(posted, Answer(r, ctx[r]))},
         UNCHANGED <<sent, write_queue>>
  PROVE  OnceInv' /\ OwnInv'
  <1> USE DEF SafeInv, TypeOK, OnceInv, OwnInv
  <1>1. /\ Answer(r, ctx[r]) \in Answers /\ Answer(r, ctx[r]).by = r
        /\ Answer(r, ctx[r]).id = r
    BY AnswerTyped
  <1>2. r \notin By(posted) /\ r \notin By(sent) /\ r \notin By(write_queue)
    OBVIOUS
  <1>3. /\ By(posted') \subseteq By(posted) \cup {r}
        /\ Once(posted') /\ Own(posted')
    <2>1. CASE posted' = posted
      BY <2>1
    <2>2. CASE posted' = Append(posted, Answer(r, ctx[r]))
      BY <1>1, <1>2, <2>2, ByAppend
    <2>3. QED
      BY <2>1, <2>2
  <1>4. \A q \in By(sent) \cup By(write_queue) \cup By(posted') :
          hpc'[q] \in {"done", "answered"}
    <2>1. /\ By(sent) \subseteq Req /\ By(write_queue) \subseteq Req
          /\ By(posted) \subseteq Req
      BY ByRequests
    <2>2. QED
      BY <1>3, <2>1
  <1>5. QED
    BY <1>2, <1>3, <1>4

\* Every step keeps the responses apart and each with its own header.
LEMMA OnceStep ==
  ASSUME Throwing = {}, SafeInv, ContextInv, OnceInv, OwnInv, [Next]_vars
  PROVE  OnceInv' /\ OwnInv'
  <1> USE DEF SafeInv, TypeOK
  <1>1. CASE SendData
    BY <1>1, ResponseMoves DEF SendData, handlerVars
  <1>2. CASE RunPosted
    BY <1>2, ResponseMoves DEF RunPosted
  <1>3. CASE Execute
    <2>1. /\ current \in Req /\ ctx[current] = context /\ hpc[current] = "none"
          /\ head[context] = current
      BY <1>3 DEF Execute, ReadInv, ContextInv, UnsentInv
    <2>2. /\ hpc' = [hpc EXCEPT ![current] = hpc'[current]]
          /\ UNCHANGED <<sent, posted>>
      BY <1>3, <2>1 DEF Execute
    <2>3. /\ By(sent) \subseteq Req /\ By(write_queue) \subseteq Req
          /\ By(posted) \subseteq Req
      BY ByRequests
    <2>4. CASE write_queue' = write_queue
      BY <2>1, <2>2, <2>3, <2>4 DEF OnceInv, OwnInv
    <2>5. CASE /\ write_queue' = Append(write_queue, Answer(current, context))
               /\ hpc'[current] = "done"
      <3>1. /\ Answer(current, context) \in Answers
            /\ Answer(current, context).by = current
            /\ Answer(current, context).id = current
        BY <2>1, AnswerTyped
      <3>2. /\ current \notin By(sent) /\ current \notin By(write_queue)
            /\ current \notin By(posted)
        BY <2>1 DEF OnceInv
      <3>3. /\ By(write_queue') = By(write_queue) \cup {current}
            /\ Once(write_queue') /\ Own(write_queue')
        BY <2>5, <3>1, <3>2, ByAppend DEF OnceInv, OwnInv
      <3>4. QED
        BY <2>1, <2>2, <2>3, <2>5, <3>2, <3>3 DEF OnceInv, OwnInv
    <2>6. QED
      BY <1>3, <2>1, <2>4, <2>5, ConstantsAssumption DEF Execute, Response
  <1>4. ASSUME NEW r \in Req, CoroDone(r)
        PROVE  OnceInv' /\ OwnInv'
    <2>1. /\ hpc[r] = "running" /\ head[ctx[r]] = r
          /\ hpc' = [hpc EXCEPT ![r] = "done"]
          /\ posted' = Append(posted, Answer(r, ctx[r]))
          /\ UNCHANGED <<sent, write_queue>>
      BY <1>4 DEF CoroDone, ContextInv, OwnerInv, Live, queueVars
    <2>2. QED
      BY <2>1, ResponsePosted
  <1>5. ASSUME NEW r \in Req, NEW t \in Copies,
               ResponseError(r, t) \/ ResponseMsg(r, t)
        PROVE  OnceInv' /\ OwnInv'
    <2>1. /\ apc[r][t] = "claimed" /\ hpc' = [hpc EXCEPT ![r] = "answered"]
          /\ posted' \in {posted, Append(posted, Answer(r, ctx[r]))}
          /\ UNCHANGED <<sent, write_queue>>
      BY <1>5 DEF ResponseError, ResponseMsg, Answered, queueVars
    <2>2. hpc[r] = "held" /\ head[ctx[r]] = r
      BY <2>1 DEF ContextInv, ClaimInv, OwnerInv, Live
    <2>3. QED
      BY <2>1, <2>2, ResponsePosted
  <1>6. ASSUME NEW r \in Req, Drop(r)
        PROVE  OnceInv' /\ OwnInv'
    BY <1>6 DEF Drop, OnceInv, OwnInv, queueVars
  <1>7. CASE UNCHANGED <<sent, write_queue, posted, hpc>>
    BY <1>7 DEF OnceInv, OwnInv
  <1>8. QED
    BY <1>1, <1>2, <1>3, <1>4, <1>5, <1>6, <1>7
    DEF Next, Handler, SendFail, Expire, TimerClose, AsyncClose, PeerDown,
        LoopEnd, ReadHead, Claim, Finish, vars, queueVars, handlerVars

---------------------------------------------------------------------------
(* The count of executing calls, and the timer that depends on it. *)

\* Counting up and down, as long as the counter does not wrap.
LEMMA CountsBack ==
  ASSUME NEW n \in Nat, n + 1 < CntSpace
  PROVE  /\ (n + 1) % CntSpace = n + 1
         /\ CountDown(n + 1) = n
  BY ConstantsAssumption DEF CountDown

\* There are never more executing calls than requests, so the counter has a
\* value for them.
LEMMA FlightBounded ==
  ASSUME IsFiniteSet(Req), Cardinality(Req) < CntSpace, NEW T \in SUBSET Req
  PROVE  /\ IsFiniteSet(T) /\ Cardinality(T) \in Nat
         /\ Cardinality(T) < CntSpace
         /\ \A r \in Req \ T : /\ Cardinality(T) + 1 < CntSpace
                               /\ Cardinality(T \cup {r}) = Cardinality(T) + 1
         /\ \A r \in T : /\ Cardinality(T \ {r}) \in Nat
                         /\ Cardinality(T) = Cardinality(T \ {r}) + 1
  <1>1. Cardinality(Req) \in Nat
    BY FS_CardinalityType
  <1>2. ASSUME NEW S \in SUBSET Req
        PROVE  /\ IsFiniteSet(S) /\ Cardinality(S) \in Nat
               /\ Cardinality(S) < CntSpace
    <2>1. IsFiniteSet(S) /\ Cardinality(S) <= Cardinality(Req)
      BY FS_Subset
    <2>2. Cardinality(S) \in Nat
      BY <2>1, FS_CardinalityType
    <2>3. QED
      BY <1>1, <2>1, <2>2, ConstantsAssumption
  <1>3. ASSUME NEW r \in Req \ T
        PROVE  /\ Cardinality(T) + 1 < CntSpace
               /\ Cardinality(T \cup {r}) = Cardinality(T) + 1
    <2>1. Cardinality(T \cup {r}) = Cardinality(T) + 1
      BY <1>2, <1>3, FS_AddElement
    <2>2. Cardinality(T \cup {r}) < CntSpace
      BY <1>2
    <2>3. QED
      BY <2>1, <2>2
  <1>4. ASSUME NEW r \in T
        PROVE  /\ Cardinality(T \ {r}) \in Nat
               /\ Cardinality(T) = Cardinality(T \ {r}) + 1
    <2>1. Cardinality(T \ {r}) = Cardinality(T) - 1
      BY <1>2, <1>4, FS_RemoveElement
    <2>2. Cardinality(T \ {r}) \in Nat /\ Cardinality(T) \in Nat
      BY <1>2
    <2>3. QED
      BY <2>1, <2>2
  <1>5. QED
    BY <1>2, <1>3, <1>4

\* Every step keeps the count exact, and the timer off while it is not zero.
LEMMA CountStep ==
  ASSUME Throwing = {}, IsFiniteSet(Req), Cardinality(Req) < CntSpace,
         SafeInv, ContextInv, OnceInv, CountInv, TimerOnlyWhenIdle, [Next]_vars
  PROVE  CountInv' /\ TimerOnlyWhenIdle'
  <1> USE DEF SafeInv, TypeOK
  <1>1. By(posted) \subseteq Req /\ InFlight \subseteq Req
    BY ByRequests DEF InFlight, Executing
  <1>2. CASE Execute
    <2> DEFINE cnt == (processing + 1) % CntSpace
    <2>1. /\ current \in Req /\ hpc[current] = "none"
          /\ current \notin InFlight
      BY <1>2 DEF Execute, ReadInv, ContextInv, UnsentInv, InFlight, OnceInv,
                  Executing
    <2>2. /\ hpc' = [hpc EXCEPT ![current] = hpc'[current]]
          /\ UNCHANGED <<has_closed, posted>>
      BY <1>2, <2>1 DEF Execute
    <2> SUFFICES ASSUME ~has_closed
                 PROVE  CountInv' /\ TimerOnlyWhenIdle'
      BY <2>2 DEF CountInv, TimerOnlyWhenIdle
    <2>3. /\ processing = Cardinality(InFlight) /\ processing \in Nat
          /\ processing + 1 < CntSpace
          /\ Cardinality(InFlight \cup {current}) = processing + 1
      BY <1>1, <2>1, FlightBounded DEF CountInv
    <2>4. cnt = processing + 1 /\ CountDown(cnt) = processing
      BY <2>3, CountsBack
    <2>5. CASE current \in Coro \cup Callback
      <3>1. /\ hpc'[current] \in {"running", "held"} /\ processing' = cnt
            /\ timer' = CancelTimer(timer)
        BY <1>2, <2>5, ConstantsAssumption DEF Execute
      <3>2. InFlight' = InFlight \cup {current}
        BY <2>1, <2>2, <3>1 DEF InFlight, Executing
      <3>3. "armed" \notin timer'
        BY <3>1 DEF CancelTimer
      <3>4. QED
        BY <2>3, <2>4, <3>1, <3>2, <3>3 DEF CountInv, TimerOnlyWhenIdle
    <2>6. CASE current \notin Coro \cup Callback
      <3>1. /\ hpc'[current] = "done" /\ processing' = CountDown(cnt)
            /\ timer' = ResetTimer(processing', CancelTimer(timer))
        <4>1. /\ hpc'[current] = "done"
              /\ Response(Answer(current, context), cnt, CancelTimer(timer))
          BY <1>2, <2>1, <2>6, ConstantsAssumption DEF Execute
        <4>2. QED
          BY <4>1, Zenon DEF Response
      <3>2. InFlight' = InFlight
        BY <2>1, <2>2, <3>1 DEF InFlight, Executing
      <3>3. "armed" \in timer' => processing' = 0
        BY <3>1 DEF CancelTimer, ResetTimer
      <3> HIDE DEF cnt
      <3>4. QED
        BY <2>3, <2>4, <3>1, <3>2, <3>3 DEF CountInv, TimerOnlyWhenIdle
    <2>7. QED
      BY <2>5, <2>6
  <1>3. CASE RunPosted
    <2>1. /\ posted # <<>> /\ posted' = Tail(posted)
          /\ UNCHANGED <<hpc, has_closed>>
          /\ Response(Head(posted), processing, timer)
      BY <1>3 DEF RunPosted, connVars
    <2> SUFFICES ASSUME ~has_closed
                 PROVE  CountInv' /\ TimerOnlyWhenIdle'
      BY <2>1 DEF CountInv, TimerOnlyWhenIdle
    <2> DEFINE r == Head(posted).by
    <2>2. /\ By(posted) = By(posted') \cup {r} /\ r \notin By(posted')
          /\ r \in Req
      BY <2>1, ByTail DEF OnceInv
    <2>3. r \notin Executing /\ Executing' = Executing
      BY <2>1, <2>2 DEF OnceInv, Executing
    <2>4. r \in InFlight /\ InFlight' = InFlight \ {r}
      BY <2>2, <2>3 DEF InFlight
    <2>5. /\ Cardinality(InFlight') \in Nat
          /\ processing = Cardinality(InFlight') + 1
          /\ processing < CntSpace
      BY <1>1, <2>4, FlightBounded DEF CountInv
    <2>6. /\ processing' = CountDown(processing)
          /\ timer' = ResetTimer(processing', timer)
      BY <2>1 DEF Response
    <2>7. processing' = Cardinality(InFlight')
      BY <2>5, <2>6, CountsBack
    <2>8. "armed" \notin timer
      BY <2>5 DEF TimerOnlyWhenIdle
    <2>9. QED
      BY <2>6, <2>7, <2>8 DEF CountInv, TimerOnlyWhenIdle, ResetTimer
  <1>4. ASSUME NEW r \in Req, CoroDone(r)
        PROVE  CountInv' /\ TimerOnlyWhenIdle'
    <2>1. /\ hpc[r] = "running" /\ head[ctx[r]] \in Req
          /\ hpc' = [hpc EXCEPT ![r] = "done"]
          /\ posted' = Append(posted, Answer(r, ctx[r]))
          /\ UNCHANGED <<processing, timer, has_closed>>
      BY <1>4 DEF CoroDone, ReadInv, queueVars, connVars
    <2>2. By(posted') = By(posted) \cup {r}
      BY <2>1, AnswerTyped, ByAppend
    <2>3. InFlight' = InFlight
      BY <2>1, <2>2 DEF InFlight, Executing
    <2>4. QED
      BY <2>1, <2>3 DEF CountInv, TimerOnlyWhenIdle
  <1>5. ASSUME NEW r \in Req, NEW t \in Copies,
               ResponseError(r, t) \/ ResponseMsg(r, t)
        PROVE  CountInv' /\ TimerOnlyWhenIdle'
    <2>1. /\ apc[r][t] = "claimed" /\ hpc' = [hpc EXCEPT ![r] = "answered"]
          /\ ~has_closed => posted' = Append(posted, Answer(r, ctx[r]))
          /\ UNCHANGED <<processing, timer, has_closed>>
      BY <1>5 DEF ResponseError, ResponseMsg, Answered, queueVars, connVars
    <2> SUFFICES ASSUME ~has_closed
                 PROVE  CountInv' /\ TimerOnlyWhenIdle'
      BY <2>1 DEF CountInv, TimerOnlyWhenIdle
    <2>2. hpc[r] = "held" /\ head[ctx[r]] \in Req
      BY <2>1 DEF ContextInv, ClaimInv, ReadInv
    <2>3. By(posted') = By(posted) \cup {r}
      <3>1. /\ Answer(r, ctx[r]) \in Answers /\ Answer(r, ctx[r]).by = r
            /\ posted' = Append(posted, Answer(r, ctx[r]))
        BY <2>1, <2>2, AnswerTyped
      <3>2. QED
        BY <3>1, ByAppend
    <2>4. InFlight' = InFlight
      BY <2>1, <2>2, <2>3 DEF InFlight, Executing
    <2>5. QED
      BY <2>1, <2>4 DEF CountInv, TimerOnlyWhenIdle
  <1>6. ASSUME NEW r \in Req, Drop(r)
        PROVE  CountInv' /\ TimerOnlyWhenIdle'
    <2>1. Executing' = Executing /\ UNCHANGED <<posted, has_closed, processing,
                                                timer>>
      BY <1>6 DEF Drop, Executing, connVars, queueVars
    <2>2. QED
      BY <2>1 DEF CountInv, InFlight, TimerOnlyWhenIdle
  <1>7. CASE /\ UNCHANGED <<posted, hpc, processing>>
             /\ has_closed => has_closed'
             /\ "armed" \in timer' => "armed" \in timer
    BY <1>7 DEF CountInv, InFlight, Executing, TimerOnlyWhenIdle
  <1>8. QED
    BY <1>2, <1>3, <1>4, <1>5, <1>6, <1>7
    DEF Next, Handler, SendData, SendFail, Expire, TimerClose, AsyncClose,
        PeerDown, LoopEnd, ReadHead, Claim, Finish, Close, CancelTimer, vars,
        connVars, queueVars, handlerVars

---------------------------------------------------------------------------
(* The theorems. *)

\* What holds as long as no handler throws after it has kept its context.
LEMMA ResponsesAlways ==
  ASSUME Throwing = {}
  PROVE  Spec => [](SafeInv /\ ContextInv /\ OnceInv /\ OwnInv)
  <1>1. Init => ContextInv /\ OnceInv /\ OwnInv
    <2> SUFFICES ASSUME Init PROVE ContextInv /\ OnceInv /\ OwnInv
      OBVIOUS
    <2>1. UnsentInv
      BY NamesAssumption DEF Init, UnsentInv, Contexts
    <2>2. OwnerInv /\ ClaimInv
      BY DEF Init, OwnerInv, ClaimInv, Live, Reusable, Contexts
    <2>3. By(<<>>) = {} /\ Once(<<>>) /\ Own(<<>>)
      BY DEF By, Once, Own
    <2>4. OnceInv /\ OwnInv
      BY <2>3 DEF Init, OnceInv, OwnInv
    <2>5. QED
      BY <2>1, <2>2, <2>4 DEF ContextInv
  <1>2. SafeInv /\ ContextInv /\ OnceInv /\ OwnInv /\ [Next]_vars
        => ContextInv' /\ OnceInv' /\ OwnInv'
    BY ContextStep, OnceStep
  <1>3. QED
    BY <1>1, <1>2, SafeAlways, PTL DEF Spec

\* A response at a place of the three queues taken together is a response at
\* a place of one of them.
LEMMA ResponsePlaces ==
  ASSUME SafeInv, NEW i \in 1..Len(Responses)
  PROVE  \/ /\ i \in 1..Len(sent) /\ Responses[i] = sent[i]
            /\ Responses[i].by \in By(sent)
         \/ /\ i - Len(sent) \in 1..Len(write_queue)
            /\ Responses[i] = write_queue[i - Len(sent)]
            /\ Responses[i].by \in By(write_queue)
         \/ /\ i - Len(sent) - Len(write_queue) \in 1..Len(posted)
            /\ Responses[i] = posted[i - Len(sent) - Len(write_queue)]
            /\ Responses[i].by \in By(posted)
  <1>1. /\ sent \in Seq(Answers) /\ write_queue \in Seq(Answers)
        /\ posted \in Seq(Answers)
    BY DEF SafeInv, TypeOK
  <1>2. \/ i \in 1..Len(sent) /\ Responses[i] = sent[i]
        \/ /\ i - Len(sent) \in 1..Len(write_queue)
           /\ Responses[i] = write_queue[i - Len(sent)]
        \/ /\ i - Len(sent) - Len(write_queue) \in 1..Len(posted)
           /\ Responses[i] = posted[i - Len(sent) - Len(write_queue)]
    BY <1>1 DEF Responses
  <1>3. QED
    BY <1>2 DEF By

\* With no throwing handlers, every response carries the header of the
\* request its handler was called for: req_head_ of a context in use is never
\* overwritten by the read loop.
THEOREM AnswersMatch ==
  ASSUME Throwing = {}
  PROVE  Spec => []AnswersOwnRequest
  <1>1. SafeInv /\ OwnInv => AnswersOwnRequest
    BY ResponsePlaces DEF OwnInv, Own, AnswersOwnRequest
  <1>2. QED
    BY <1>1, ResponsesAlways, PTL

\* With no throwing handlers, no request is answered twice, through however
\* many copies of its context and on however many threads.
THEOREM NoSecondAnswer ==
  ASSUME Throwing = {}
  PROVE  Spec => []AnsweredOnce
  <1>1. SafeInv /\ OnceInv => AnsweredOnce
    <2> SUFFICES ASSUME SafeInv, OnceInv,
                        NEW i \in 1..Len(Responses),
                        NEW j \in 1..Len(Responses),
                        Responses[i].by = Responses[j].by
                 PROVE  i = j
      BY DEF AnsweredOnce
    <2>1. /\ sent \in Seq(Answers) /\ write_queue \in Seq(Answers)
          /\ posted \in Seq(Answers)
      BY DEF SafeInv, TypeOK
    <2>2. Len(sent) \in Nat /\ Len(write_queue) \in Nat /\ Len(posted) \in Nat
          /\ i \in Int /\ j \in Int
      BY <2>1 DEF Responses
    <2> DEFINE iw == i - Len(sent)
               jw == j - Len(sent)
               ip == i - Len(sent) - Len(write_queue)
               jp == j - Len(sent) - Len(write_queue)
    <2>3. CASE /\ i \in 1..Len(sent) /\ Responses[i] = sent[i]
               /\ Responses[i].by \in By(sent)
      <3>1. j \in 1..Len(sent) /\ Responses[j] = sent[j]
        BY <2>3, ResponsePlaces DEF OnceInv
      <3>2. QED
        BY <2>3, <3>1 DEF OnceInv, Once
    <2>4. CASE /\ iw \in 1..Len(write_queue) /\ Responses[i] = write_queue[iw]
               /\ Responses[i].by \in By(write_queue)
      <3>1. jw \in 1..Len(write_queue) /\ Responses[j] = write_queue[jw]
        BY <2>4, ResponsePlaces DEF OnceInv
      <3>2. iw = jw
        BY <2>4, <3>1 DEF OnceInv, Once
      <3>3. QED
        BY <2>2, <3>2
    <2>5. CASE /\ ip \in 1..Len(posted) /\ Responses[i] = posted[ip]
               /\ Responses[i].by \in By(posted)
      <3>1. jp \in 1..Len(posted) /\ Responses[j] = posted[jp]
        BY <2>5, ResponsePlaces DEF OnceInv
      <3>2. ip = jp
        BY <2>5, <3>1 DEF OnceInv, Once
      <3>3. QED
        BY <2>2, <3>2
    <2>6. QED
      BY <2>3, <2>4, <2>5, ResponsePlaces
  <1>2. QED
    BY <1>1, ResponsesAlways, PTL

\* The count and the timer, in every state.
LEMMA CountAlways ==
  ASSUME Throwing = {}, IsFiniteSet(Req), Cardinality(Req) < CntSpace
  PROVE  Spec => [](/\ SafeInv /\ ContextInv /\ OnceInv /\ CountInv
                    /\ TimerOnlyWhenIdle)
  <1>1. Init => CountInv /\ TimerOnlyWhenIdle
    <2> SUFFICES ASSUME Init PROVE CountInv /\ TimerOnlyWhenIdle
      OBVIOUS
    <2>1. InFlight = {}
      BY DEF Init, InFlight, By, Executing
    <2>2. QED
      BY <2>1, FS_EmptySet DEF Init, CountInv, TimerOnlyWhenIdle
  <1>2. /\ SafeInv /\ ContextInv /\ OnceInv /\ CountInv /\ TimerOnlyWhenIdle
        /\ [Next]_vars
        => CountInv' /\ TimerOnlyWhenIdle'
    BY CountStep
  <1>3. QED
    BY <1>1, <1>2, ResponsesAlways, PTL DEF Spec

\* With no throwing handlers and a counter as large as the number of requests,
\* rpc_processing_cnt_ of an open connection is exactly the number of calls
\* that execute: it neither leaks nor wraps below zero.
THEOREM CountIsExact ==
  ASSUME Throwing = {}, IsFiniteSet(Req), Cardinality(Req) < CntSpace
  PROVE  Spec => []CountExact
  <1>1. SafeInv /\ OnceInv /\ CountInv => CountExact
    <2> SUFFICES ASSUME SafeInv, OnceInv, CountInv, ~has_closed
                 PROVE  processing = Len(posted) + Cardinality(Executing)
      BY DEF CountExact, Executing
    <2>1. /\ By(posted) \subseteq Req /\ IsFiniteSet(By(posted))
          /\ Cardinality(By(posted)) = Len(posted) /\ Len(posted) \in Nat
      BY LenIsCardinality DEF SafeInv, TypeOK, OnceInv
    <2>2. IsFiniteSet(Executing) /\ Cardinality(Executing) \in Nat
      BY FlightBounded DEF Executing
    <2>3. By(posted) \cap Executing = {}
      BY DEF OnceInv, Executing
    <2>4. Cardinality(InFlight) = Cardinality(By(posted))
              + Cardinality(Executing) - Cardinality(By(posted) \cap Executing)
      BY <2>1, <2>2, FS_Union DEF InFlight
    <2>5. Cardinality(By(posted) \cap Executing) = 0
      BY <2>3, FS_EmptySet
    <2>6. QED
      BY <2>1, <2>2, <2>4, <2>5 DEF CountInv
  <1>2. QED
    BY <1>1, CountAlways, PTL

\* Under the same conditions the keep-alive timer never runs while a call
\* executes: a slow handler does not get its connection closed.
THEOREM TimerSparesCalls ==
  ASSUME Throwing = {}, IsFiniteSet(Req), Cardinality(Req) < CntSpace
  PROVE  Spec => []TimerOnlyWhenIdle
  BY CountAlways, PTL

=============================================================================
