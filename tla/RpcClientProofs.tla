-------------------------- MODULE RpcClientProofs --------------------------
(***************************************************************************)
(* Theorems about RpcClient, for every set of calls, every bound and every *)
(* discipline of the user.                                                 *)
(***************************************************************************)
EXTENDS RpcClient, TLAPS

\* A request id is in the id space.
LEMMA IdRange == ASSUME NEW n \in Nat PROVE n % IdSpace \in 0..IdSpace - 1
  BY ConstantsAssumption

\* What the destruction of the socket leaves of the suspended coroutines.
LEMMA AbortType ==
  ASSUME TypeOK, AbortPending
  PROVE  /\ pc' \in [Req -> PcStates] /\ rpc' \in [Req -> RecvStates]
         /\ rerr' \in [Req -> Errors] /\ wire' \subseteq Req
<1> USE DEF TypeOK, CallType, RecvType, SockType, PcStates, RecvStates, Owning,
   Leaving, Reading, Errors
<1>1. pc' \in [Req -> PcStates]
  BY DEF AbortPending
<1>2. rpc' \in [Req -> RecvStates]
  BY DEF AbortPending
<1>3. rerr' \in [Req -> Errors] /\ wire' \subseteq Req
  BY DEF AbortPending
<1> QED
  BY <1>1, <1>2, <1>3

\* What completing some handlers leaves of the promises and the timers.
LEMMA CompleteType ==
  ASSUME TypeOK, NEW hs, NEW v \in {"none", "response", "timed_out"} \cup Errors,
         Complete(hs, v)
  PROVE  /\ outcome' \in [Req -> {"none", "response", "timed_out"} \cup Errors]
         /\ timer' \in [Req -> {"off", "armed", "expired"}]
<1> USE DEF TypeOK, CallType, Complete, Canceled
<1>1. outcome' \in [Req -> {"none", "response", "timed_out"} \cup Errors]
  OBVIOUS
<1>2. timer' \in [Req -> {"off", "armed", "expired"}]
  OBVIOUS
<1> QED
  BY <1>1, <1>2

\* Every step of the client keeps the types.
LEMMA TypeStep == TypeOK /\ [Next]_vars => TypeOK'
<1> SUFFICES ASSUME TypeOK, [Next]_vars PROVE TypeOK'
  OBVIOUS
<1> USE ConstantsAssumption DEF ctrlVars, sockVars, callVars, recvVars,
   connVars
<1>1. CASE RunClose
  <2> USE <1>1, AbortType DEF TypeOK, RunClose, TypeOK
  <2>1. CtrlType' /\ SockType'
    BY DEF CtrlType, SockType
  <2>2. CallType'
    BY DEF CallType, PcStates, Results, Errors
  <2>3. RecvType'
    BY DEF RecvType, RecvStates, Owning, Leaving, Reading, Errors
  <2>4. ConnType'
    BY DEF ConnType
  <2> QED
    BY <2>1, <2>2, <2>3, <2>4 DEF TypeOK
<1>2. CASE UserClose
  BY <1>2 DEF UserClose, CloseSocketAsync, TypeOK, CtrlType, SockType,
     CallType, RecvType, ConnType, PcStates, RecvStates, Owning, Leaving,
     Reading, Errors, Results
<1>3. CASE PeerDown
  BY <1>3 DEF PeerDown, TypeOK, CtrlType, SockType, CallType, RecvType,
     ConnType, PcStates, RecvStates, Owning, Leaving, Reading, Errors,
     Results
<1>4. CASE ConnExpire
  BY <1>4 DEF ConnExpire, TypeOK, CtrlType, SockType, CallType, RecvType,
     ConnType, PcStates, RecvStates, Owning, Leaving, Reading, Errors,
     Results
<1>5. CASE ConnTimeout
  BY <1>5 DEF ConnTimeout, CloseSocketAsync, TypeOK, CtrlType, SockType,
     CallType, RecvType, ConnType, PcStates, RecvStates, Owning, Leaving,
     Reading, Errors, Results
<1>6. ASSUME NEW r \in Req, Expire(r)
      PROVE  TypeOK'
  BY <1>6 DEF Expire, TypeOK, CtrlType, SockType, CallType, RecvType,
     ConnType, PcStates, RecvStates, Owning, Leaving, Reading, Errors,
     Results
<1>7. ASSUME NEW r \in Req, Timeout(r)
      PROVE  TypeOK'
  BY <1>7 DEF Timeout, CloseSocketAsync, TypeOK, CtrlType, SockType,
     CallType, RecvType, ConnType, PcStates, RecvStates, Owning, Leaving,
     Reading, Errors, Results
<1>8. CASE ConnectBegin
  <2> USE <1>8 DEF TypeOK, ConnectBegin, StartConnTimer
  <2>1. CtrlType' /\ SockType'
    BY DEF CtrlType, SockType
  <2>2. CallType'
    BY DEF CallType, PcStates, Results, Errors
  <2>3. RecvType'
    BY DEF RecvType, RecvStates, Owning, Leaving, Reading, Errors
  <2>4. ConnType'
    <3>1. connects' \in 0..MaxConnects
      BY DEF ConnType
    <3>2. conn_timer' \subseteq {"armed", "expired"}
      BY DEF ConnType
    <3> QED
      BY <3>1, <3>2 DEF ConnType
  <2> QED
    BY <2>1, <2>2, <2>3, <2>4 DEF TypeOK
<1>9. CASE ResetSocket
  <2> USE <1>9, AbortType DEF TypeOK, ResetSocket, ClearFlags, StartConnTimer
  <2>1. CtrlType' /\ SockType'
    BY DEF CtrlType, SockType
  <2>2. CallType'
    BY DEF CallType, PcStates, Results, Errors
  <2>3. RecvType'
    BY DEF RecvType, RecvStates, Owning, Leaving, Reading, Errors
  <2>4. ConnType'
    BY DEF ConnType
  <2> QED
    BY <2>1, <2>2, <2>3, <2>4 DEF TypeOK
<1>10. CASE ResolveFail
  <2> USE <1>10 DEF TypeOK, ResolveFail, ConnectReturn
  <2>1. CtrlType' /\ SockType'
    BY DEF CtrlType, SockType
  <2>2. CallType'
    BY DEF CallType, callVars
  <2>3. RecvType'
    BY DEF RecvType, recvVars
  <2>4. ConnType'
    BY DEF ConnType
  <2> QED
    BY <2>1, <2>2, <2>3, <2>4 DEF TypeOK
<1>11. CASE ConnectStart
  BY <1>11 DEF ConnectStart, TypeOK, CtrlType, SockType, CallType, RecvType,
     ConnType, PcStates, RecvStates, Owning, Leaving, Reading, Errors,
     Results
<1>12. CASE ConnectOk
  BY <1>12 DEF ConnectOk, ConnectDone, ConnectReturn, TypeOK, CtrlType,
     SockType, CallType, RecvType, ConnType, PcStates, RecvStates, Owning,
     Leaving, Reading, Errors, Results
<1>13. CASE ConnectRefused
  BY <1>13 DEF ConnectRefused, ConnectDone, ConnectReturn, TypeOK, CtrlType,
     SockType, CallType, RecvType, ConnType, PcStates, RecvStates, Owning,
     Leaving, Reading, Errors, Results
<1>14. CASE ConnectAborted
  BY <1>14 DEF ConnectAborted, ConnectDone, ConnectReturn, TypeOK, CtrlType,
     SockType, CallType, RecvType, ConnType, PcStates, RecvStates, Owning,
     Leaving, Reading, Errors, Results
<1>15. ASSUME NEW w \in Waiters, ConnectBusy(w)
      PROVE  TypeOK'
  BY <1>15 DEF ConnectBusy, TypeOK, CtrlType, SockType, CallType, RecvType,
     ConnType, PcStates, RecvStates, Owning, Leaving, Reading, Errors,
     Results
<1>16. ASSUME NEW w \in Waiters, ConnectBusyReturn(w)
      PROVE  TypeOK'
  BY <1>16 DEF ConnectBusyReturn, TypeOK, CtrlType, SockType, CallType,
     RecvType, ConnType, PcStates, RecvStates, Owning, Leaving, Reading,
     Errors, Results
<1>17. ASSUME NEW r \in Req, Begin(r)
      PROVE  TypeOK'
  BY <1>17, IdRange, SMTT(30)
     DEF Begin, NextId, TypeOK, CtrlType, SockType, CallType,
     RecvType, ConnType, PcStates, RecvStates, Owning, Leaving, Reading,
     Errors, Results
<1>18. ASSUME NEW r \in Req, Emplace(r)
      PROVE  TypeOK'
  <2> USE <1>18 DEF TypeOK, Emplace, IdFree, CloseSocketAsync
  <2>1. CtrlType' /\ SockType'
    BY ZenonT(40) DEF CtrlType, SockType
  <2>2. CallType'
    BY DEF CallType, PcStates, Results, Errors
  <2>3. RecvType'
    BY DEF RecvType, RecvStates, Owning, Leaving, Reading, Errors
  <2>4. ConnType'
    BY DEF ConnType
  <2> QED
    BY <2>1, <2>2, <2>3, <2>4 DEF TypeOK
<1>19. ASSUME NEW r \in Req, CheckClosed(r)
      PROVE  TypeOK'
  <2> USE <1>19 DEF TypeOK, CheckClosed
  <2>1. CtrlType' /\ SockType'
    BY DEF CtrlType, SockType
  <2>2. CallType'
    BY DEF CallType, PcStates, Results, Errors
  <2>3. RecvType'
    BY DEF RecvType, RecvStates, Owning, Leaving, Reading, Errors
  <2>4. ConnType'
    BY DEF ConnType
  <2> QED
    BY <2>1, <2>2, <2>3, <2>4 DEF TypeOK
<1>20. ASSUME NEW r \in Req, StartWrite(r)
      PROVE  TypeOK'
  BY <1>20 DEF StartWrite, LockWrite, TypeOK,
     CtrlType, SockType, CallType, RecvType,
     ConnType, PcStates, RecvStates, Owning, Leaving, Reading, Errors,
     Results
<1>21. ASSUME NEW r \in Req, WriteOk(r)
      PROVE  TypeOK'
  <2> USE <1>21 DEF TypeOK, WriteOk
  <2>1. CtrlType' /\ SockType'
    BY DEF CtrlType, SockType
  <2>2. CallType'
    BY DEF CallType, PcStates, Results, Errors
  <2>3. RecvType'
    BY DEF RecvType, RecvStates, Owning, Leaving, Reading, Errors
  <2>4. ConnType'
    BY DEF ConnType
  <2> QED
    BY <2>1, <2>2, <2>3, <2>4 DEF TypeOK
<1>22. ASSUME NEW r \in Req, WriteFail(r)
      PROVE  TypeOK'
  <2> USE <1>22 DEF TypeOK, WriteFail
  <2>1. CtrlType' /\ SockType'
    BY DEF CtrlType, SockType
  <2>2. CallType'
    BY DEF CallType, PcStates, Results, Errors
  <2>3. RecvType'
    BY DEF RecvType, RecvStates, Owning, Leaving, Reading, Errors
  <2>4. ConnType'
    BY DEF ConnType
  <2> QED
    BY <2>1, <2>2, <2>3, <2>4 DEF TypeOK
<1>23. ASSUME NEW r \in Req, WriteErrorClose(r)
      PROVE  TypeOK'
  BY <1>23 DEF WriteErrorClose, CloseSocketAsync, TypeOK, CtrlType, SockType,
     CallType, RecvType, ConnType, PcStates, RecvStates, Owning, Leaving,
     Reading, Errors, Results
<1>24. ASSUME NEW r \in Req, EraseFailed(r)
      PROVE  TypeOK'
  <2> USE <1>24 DEF TypeOK, EraseFailed, Canceled, SameId
  <2>1. CtrlType' /\ SockType'
    BY DEF CtrlType, SockType
  <2>2. CallType'
    BY DEF CallType, PcStates, Results, Errors
  <2>3. RecvType'
    BY DEF RecvType, RecvStates, Owning, Leaving, Reading, Errors
  <2>4. ConnType'
    BY DEF ConnType
  <2> QED
    BY <2>1, <2>2, <2>3, <2>4 DEF TypeOK
<1>25. ASSUME NEW r \in Req, StartRecv(r)
      PROVE  TypeOK'
  <2> USE <1>25 DEF TypeOK, StartRecv, FirstReceiver, ReadState, ReadError
  <2>1. CtrlType' /\ SockType'
    BY DEF CtrlType, SockType
  <2>2. CallType'
    BY DEF CallType, PcStates, Results, Errors
  <2>3. RecvType'
    BY DEF RecvType, RecvStates, Owning, Leaving, Reading, Errors
  <2>4. ConnType'
    BY DEF ConnType
  <2> QED
    BY <2>1, <2>2, <2>3, <2>4 DEF TypeOK
<1>26. ASSUME NEW r \in Req, Await(r)
      PROVE  TypeOK'
  <2> USE <1>26 DEF TypeOK, Await, CloseSocketAsync
  <2>1. CtrlType' /\ SockType'
    BY DEF CtrlType, SockType
  <2>2. CallType'
    BY DEF CallType, PcStates, Results, Errors
  <2>3. RecvType'
    BY DEF RecvType, RecvStates, Owning, Leaving, Reading, Errors
  <2>4. ConnType'
    BY DEF ConnType
  <2> QED
    BY <2>1, <2>2, <2>3, <2>4 DEF TypeOK
<1>27. ASSUME NEW q \in Req, NEW m \in Req, ReadHead(q, m)
      PROVE  TypeOK'
  <2> USE <1>27 DEF TypeOK, ReadHead, HandlerOf, SameId
  <2>1. CtrlType' /\ SockType'
    BY DEF CtrlType, SockType
  <2>2. CallType'
    BY DEF CallType, PcStates, Results, Errors
  <2>3. RecvType'
    BY DEF RecvType, RecvStates, Owning, Leaving, Reading, Errors
  <2>4. ConnType'
    BY DEF ConnType
  <2> QED
    BY <2>1, <2>2, <2>3, <2>4 DEF TypeOK
<1>28. ASSUME NEW q \in Req, ReadFail(q)
      PROVE  TypeOK'
  BY <1>28 DEF ReadFail, TypeOK, CtrlType, SockType, CallType, RecvType,
     ConnType, PcStates, RecvStates, Owning, Leaving, Reading, Errors,
     Results
<1>29. ASSUME NEW q \in Req, ReadBody(q)
      PROVE  TypeOK'
  <2> USE <1>29 DEF TypeOK, ReadBody
  <2>1. CtrlType' /\ SockType'
    BY DEF CtrlType, SockType
  <2>2. CallType'
    <3>1. rhandler[q] \in Req /\ rmsg[q] \in Req
      BY DEF RecvType
    <3>2. from' \in [Req -> Req]
      BY <3>1 DEF CallType
    <3> QED
      BY <3>2, CompleteType DEF CallType
  <2>3. RecvType'
    BY DEF RecvType, RecvStates, Owning, Leaving, Reading, Errors
  <2>4. ConnType'
    BY DEF ConnType
  <2> QED
    BY <2>1, <2>2, <2>3, <2>4 DEF TypeOK
<1>30. ASSUME NEW q \in Req, Erase(q)
      PROVE  TypeOK'
  <2> USE <1>30 DEF TypeOK, Erase, Forget, SameId, ReadState, ReadError
  <2>1. CtrlType' /\ SockType'
    BY DEF CtrlType, SockType
  <2>2. CallType'
    BY DEF CallType, PcStates, Results, Errors
  <2>3. RecvType'
    BY DEF RecvType, RecvStates, Owning, Leaving, Reading, Errors
  <2>4. ConnType'
    BY DEF ConnType
  <2> QED
    BY <2>1, <2>2, <2>3, <2>4 DEF TypeOK
<1>31. ASSUME NEW q \in Req, StoreFalse(q)
      PROVE  TypeOK'
  <2> USE <1>31 DEF TypeOK, StoreFalse
  <2>1. CtrlType' /\ SockType'
    BY DEF CtrlType, SockType
  <2>2. CallType'
    BY DEF CallType, PcStates, Results, Errors
  <2>3. RecvType'
    BY DEF RecvType, RecvStates, Owning, Leaving, Reading, Errors
  <2>4. ConnType'
    BY DEF ConnType
  <2> QED
    BY <2>1, <2>2, <2>3, <2>4 DEF TypeOK
<1>32. ASSUME NEW q \in Req, Recheck(q)
      PROVE  TypeOK'
  BY <1>32 DEF Recheck, LookAgain, TypeOK,
     CtrlType, SockType, CallType, RecvType,
     ConnType, PcStates, RecvStates, Owning, Leaving, Reading, Errors,
     Results
<1>33. ASSUME NEW q \in Req, Cas(q)
      PROVE  TypeOK'
  <2> USE <1>33 DEF TypeOK, Cas, ReadState, ReadError
  <2>1. CtrlType' /\ SockType'
    BY ZenonT(40) DEF CtrlType, SockType
  <2>2. CallType'
    BY DEF CallType, PcStates, Results, Errors
  <2>3. RecvType'
    BY DEF RecvType, RecvStates, Owning, Leaving, Reading, Errors
  <2>4. ConnType'
    BY DEF ConnType
  <2> QED
    BY <2>1, <2>2, <2>3, <2>4 DEF TypeOK
<1>34. ASSUME NEW q \in Req, BreakClose(q)
      PROVE  TypeOK'
  BY <1>34 DEF BreakClose, CloseSocketAsync, TypeOK, CtrlType, SockType,
     CallType, RecvType, ConnType, PcStates, RecvStates, Owning, Leaving,
     Reading, Errors, Results
<1>35. ASSUME NEW q \in Req, SendErrResponse(q)
      PROVE  TypeOK'
  <2> USE <1>35 DEF TypeOK, SendErrResponse, Forget
  <2>1. CtrlType' /\ SockType'
    BY DEF CtrlType, SockType
  <2>2. CallType'
    <3>1. rerr[q] \in Errors
      BY DEF RecvType
    <3> QED
      BY <3>1, CompleteType DEF CallType
  <2>3. RecvType'
    BY DEF RecvType, RecvStates, Owning, Leaving, Reading, Errors
  <2>4. ConnType'
    BY DEF ConnType
  <2> QED
    BY <2>1, <2>2, <2>3, <2>4 DEF TypeOK
<1>36. CASE UNCHANGED vars
  BY <1>36 DEF vars, TypeOK, CtrlType, SockType, CallType, RecvType,
     ConnType, PcStates, RecvStates, Owning, Leaving, Reading, Errors,
     Results
<1> QED
  BY <1>1, <1>2, <1>3, <1>4, <1>5, <1>6, <1>7, <1>8, <1>9, <1>10, <1>11,
     <1>12, <1>13, <1>14, <1>15, <1>16, <1>17, <1>18, <1>19, <1>20, <1>21,
     <1>22, <1>23, <1>24, <1>25, <1>26, <1>27, <1>28, <1>29, <1>30, <1>31,
     <1>32, <1>33, <1>34, <1>35, <1>36 DEF Next, Close, Timers, Connect,
     SendRequest, Recv

\* The client keeps its types forever.
THEOREM TypeCorrect == Spec => []TypeOK
<1>1. Init => TypeOK
  <2> SUFFICES ASSUME Init PROVE TypeOK
    OBVIOUS
  <2> USE ConstantsAssumption DEF Init
  <2>1. CtrlType /\ SockType
    <3>1. request_id \in 0..MaxCalls
      OBVIOUS
    <3> QED
      BY <3>1, Zenon DEF CtrlType, SockType
  <2>2. CallType
    BY DEF CallType, PcStates, Results
  <2>3. RecvType
    BY DEF RecvType, RecvStates, Errors
  <2>4. ConnType
    BY DEF ConnType
  <2> QED
    BY <2>1, <2>2, <2>3, <2>4 DEF TypeOK
<1> QED
  BY <1>1, TypeStep, PTL DEF Spec

---------------------------------------------------------------------------
(* One recv coroutine at a time.                                           *)

\* The steps that touch neither recv_running_ nor a recv coroutine.
OtherStep ==
    \/ UserClose \/ PeerDown \/ Timers
    \/ ConnectBegin \/ ResolveFail \/ ConnectStart
    \/ ConnectOk \/ ConnectRefused \/ ConnectAborted
    \/ \E w \in Waiters : ConnectBusy(w) \/ ConnectBusyReturn(w)
    \/ UNCHANGED vars

\* They leave alone everything the invariants below speak about.
LEMMA OtherStepFrame ==
  OtherStep => UNCHANGED <<pc, id, request_id, table, wire, outcome, from,
                           recv_running, rpc, rmsg, rhandler, write_mutex>>
<1> USE DEF ctrlVars, sockVars, callVars, recvVars, connVars
<1>1. ASSUME UserClose \/ PeerDown \/ ConnectBegin \/ UNCHANGED vars
      PROVE  UNCHANGED <<pc, id, request_id, table, wire, outcome, from,
                         recv_running, rpc, rmsg, rhandler, write_mutex>>
  BY <1>1 DEF UserClose, PeerDown, ConnectBegin, vars
<1>2. ASSUME Timers
      PROVE  UNCHANGED <<pc, id, request_id, table, wire, outcome, from,
                         recv_running, rpc, rmsg, rhandler, write_mutex>>
  BY <1>2 DEF Timers, ConnExpire, ConnTimeout, Expire, Timeout
<1>3. ASSUME \/ ResolveFail \/ ConnectStart \/ ConnectOk \/ ConnectRefused
             \/ ConnectAborted
             \/ \E w \in Waiters : ConnectBusy(w) \/ ConnectBusyReturn(w)
      PROVE  UNCHANGED <<pc, id, request_id, table, wire, outcome, from,
                         recv_running, rpc, rmsg, rhandler, write_mutex>>
  BY <1>3 DEF ResolveFail, ConnectStart, ConnectOk, ConnectRefused,
     ConnectAborted, ConnectDone, ConnectReturn, ConnectBusy,
     ConnectBusyReturn
<1> QED
  BY <1>1, <1>2, <1>3 DEF OtherStep

\* Nothing but the two closes and the steps of the coroutines is left.
LEMMA NextCases ==
  ASSUME [Next]_vars
  PROVE  \/ OtherStep \/ RunClose \/ ResetSocket
         \/ \E r \in Req : SendRequest(r) \/ Recv(r)
  BY DEF Next, Close, Connect, OtherStep

\* Every step hands recv_running_ over with the ownership of the input.
LEMMA ReceiverStep == TypeOK /\ SingleReceiver /\ [Next]_vars => SingleReceiver'
<1> SUFFICES ASSUME TypeOK, SingleReceiver, [Next]_vars PROVE SingleReceiver'
  OBVIOUS
<1> USE DEF SingleReceiver, Owning, ctrlVars, sockVars, recvVars
<1>t. rpc \in [Req -> RecvStates] /\ recv_running \in BOOLEAN
  BY DEF TypeOK, RecvType, CtrlType
<1>1. CASE OtherStep
  BY <1>1, OtherStepFrame
<1>2. CASE RunClose
  BY <1>2, <1>t DEF RunClose, AbortPending, Reading
<1>3. CASE ResetSocket
  BY <1>3, <1>t DEF ResetSocket, AbortPending, Reading
<1>4. ASSUME NEW r \in Req, SendRequest(r)
      PROVE  SingleReceiver'
  <2>1. CASE StartRecv(r)
    BY <2>1, <1>t DEF StartRecv, FirstReceiver, ReadState
  <2>2. CASE ~StartRecv(r)
    BY <2>2, <1>4 DEF SendRequest, Begin, Emplace, CheckClosed, StartWrite,
       WriteOk, WriteFail, WriteErrorClose, EraseFailed, Await
  <2> QED
    BY <2>1, <2>2
<1>5. ASSUME NEW q \in Req, Recv(q)
      PROVE  SingleReceiver'
  <2>1. ASSUME NEW m \in Req, ReadHead(q, m) PROVE SingleReceiver'
    BY <2>1, <1>t DEF ReadHead
  <2>2. CASE ReadFail(q)
    BY <2>2, <1>t DEF ReadFail, Reading
  <2>3. CASE ReadBody(q)
    BY <2>3, <1>t DEF ReadBody
  <2>4. CASE Erase(q)
    BY <2>4, <1>t DEF Erase, ReadState
  <2>5. CASE StoreFalse(q)
    BY <2>5, <1>t DEF StoreFalse
  <2>6. CASE Recheck(q)
    BY <2>6, <1>t DEF Recheck, LookAgain
  <2>7. CASE Cas(q)
    BY <2>7, <1>t DEF Cas, ReadState
  <2>8. CASE BreakClose(q)
    BY <2>8, <1>t DEF BreakClose
  <2>9. CASE SendErrResponse(q)
    BY <2>9, <1>t DEF SendErrResponse
  <2> QED
    BY <1>5, <2>1, <2>2, <2>3, <2>4, <2>5, <2>6, <2>7, <2>8, <2>9 DEF Recv
<1> QED
  BY <1>1, <1>2, <1>3, <1>4, <1>5, NextCases

\* "Ensure at most one recv coroutine runs per connection" (send_request):
\* recv_running_ is on exactly while one recv coroutine owns the input.
THEOREM OneReceiver == Spec => []SingleReceiver
<1>1. Init => SingleReceiver
  BY DEF Init, SingleReceiver, Owning
<1> QED
  BY <1>1, TypeCorrect, ReceiverStep, PTL DEF Spec

---------------------------------------------------------------------------
(* No lost wake-up, and every caller gets its own response.                *)

\* Between try_emplace and the return of the call.
Registered == {"emplaced", "lock", "writing", "aborted", "wfail", "failed",
               "written", "wait"}

\* The ids handed out are distinct: true while the 32 bit counter has not
\* wrapped around.
UniqueIds ==
    /\ \A r \in Req : pc[r] # "idle" => id[r] < request_id
    /\ \A r, s \in Req : pc[r] # "idle" /\ pc[s] # "idle" /\ id[r] = id[s] => r = s

\* Only calls that have begun are in the table or at the server.
Begun == \A r \in table \cup wire : pc[r] # "idle"

\* What a recv coroutine holds between the header and the erase.
Dispatch ==
    \A q \in Req :
        /\ rpc[q] \in {"body", "erase"} => pc[rmsg[q]] # "idle"
        /\ rpc[q] = "body" => rhandler[q] = rmsg[q]
        /\ rpc[q] = "erase" => outcome[rmsg[q]] # "none"

\* A call whose promise is not set is still in the table.
InTable == \A r \in Req : pc[r] \in Registered /\ outcome[r] = "none" => r \in table

\* Somebody will look at the table again.
Attended ==
    (\E r \in Req : pc[r] = "wait" /\ outcome[r] = "none") =>
        recv_running \/ \E q \in Req : rpc[q] \in Leaving

CallInv == UniqueIds /\ Begun /\ Dispatch /\ InTable /\ Attended /\ OwnResponse

\* Ids do not repeat before the id space is used up.
LEMMA SmallMod ==
  ASSUME MaxCalls <= IdSpace, NEW n \in 0..MaxCalls, n < MaxCalls
  PROVE  n % IdSpace = n
  BY ConstantsAssumption

\* The types the steps below need.
LEMMA TypeFacts ==
  ASSUME TypeOK
  PROVE  /\ pc \in [Req -> PcStates] /\ id \in [Req -> 0..IdSpace - 1]
         /\ outcome \in [Req -> {"none", "response", "timed_out"} \cup Errors]
         /\ from \in [Req -> Req] /\ rpc \in [Req -> RecvStates]
         /\ rmsg \in [Req -> Req] /\ rhandler \in [Req -> Req]
         /\ rerr \in [Req -> Errors] /\ table \subseteq Req
         /\ wire \subseteq Req /\ recv_running \in BOOLEAN
         /\ request_id \in 0..MaxCalls
  BY DEF TypeOK, CtrlType, SockType, CallType, RecvType

\* Closing a socket breaks the recv loop and the pending write, nothing else.
LEMMA AbortStep ==
  ASSUME TypeOK, SingleReceiver, CallInv, AbortPending,
         UNCHANGED <<id, request_id, table, outcome, from, recv_running, rmsg,
                     rhandler>>
  PROVE  CallInv'
<1> USE TypeFacts DEF CallInv, AbortPending, Reading
<1>1. \A r \in Req : (pc'[r] = "idle") <=> (pc[r] = "idle")
  BY DEF PcStates
<1>2. UniqueIds' /\ Begun'
  BY <1>1 DEF UniqueIds, Begun
<1>3. Dispatch'
  BY <1>1 DEF Dispatch
<1>4. InTable'
  BY DEF InTable, Registered
<1>5. Attended' /\ OwnResponse'
  BY DEF Attended, OwnResponse, Leaving
<1> QED
  BY <1>2, <1>3, <1>4, <1>5

\* The steps of send_request preserve the invariant.
LEMMA SendStep ==
  ASSUME MaxCalls <= IdSpace, TypeOK, SingleReceiver, CallInv, NEW r \in Req,
         SendRequest(r)
  PROVE  CallInv'
<1> USE TypeFacts DEF CallInv, ctrlVars, sockVars, callVars, recvVars
<1>1. CASE Begin(r)
  <2> USE <1>1 DEF Begin, NextId
  <2>1. id' = [id EXCEPT ![r] = request_id] /\ request_id' = request_id + 1
    BY SmallMod
  <2>2. UniqueIds'
    BY <2>1 DEF UniqueIds
  <2>3. Begun' /\ Dispatch'
    BY DEF Begun, Dispatch
  <2>4. InTable' /\ Attended' /\ OwnResponse'
    BY DEF InTable, Registered, Attended, OwnResponse
  <2> QED
    BY <2>2, <2>3, <2>4
<1>2. CASE Emplace(r)
  <2> USE <1>2 DEF Emplace, IdFree
  <2>1. UniqueIds' /\ Begun'
    BY DEF UniqueIds, Begun
  <2>2. Dispatch' /\ OwnResponse'
    BY DEF Dispatch, OwnResponse
  <2>3. InTable' /\ Attended'
    BY DEF InTable, Registered, Attended
  <2> QED
    BY <2>1, <2>2, <2>3
<1>3. CASE CheckClosed(r) \/ StartWrite(r) \/ WriteFail(r) \/ WriteErrorClose(r)
  <2>1. /\ pc[r] \in Registered \ {"wait"}
        /\ \E v \in Registered \ {"wait"} : pc' = [pc EXCEPT ![r] = v]
        /\ UNCHANGED <<id, request_id, table, wire, outcome, from,
                       recv_running, rpc, rmsg, rhandler>>
    BY <1>3 DEF CheckClosed, StartWrite, WriteFail, WriteErrorClose, Registered
  <2>2. UniqueIds' /\ Begun' /\ Dispatch'
    BY <2>1 DEF UniqueIds, Begun, Dispatch, Registered
  <2>3. InTable' /\ Attended' /\ OwnResponse'
    BY <2>1 DEF InTable, Attended, OwnResponse
  <2> QED
    BY <2>2, <2>3
<1>4. CASE WriteOk(r)
  <2> USE <1>4 DEF WriteOk
  <2>1. UniqueIds' /\ Begun' /\ Dispatch'
    BY DEF UniqueIds, Begun, Dispatch
  <2>2. InTable' /\ Attended' /\ OwnResponse'
    BY DEF InTable, Registered, Attended, OwnResponse
  <2> QED
    BY <2>1, <2>2
<1>5. CASE EraseFailed(r)
  <2> USE <1>5 DEF EraseFailed
  <2>1. UniqueIds' /\ Begun' /\ Dispatch'
    BY DEF UniqueIds, Begun, Dispatch
  <2>2. \A s \in table : s # r => s \in table'
    BY DEF SameId, UniqueIds, Begun
  <2>3. InTable'
    BY <2>2 DEF InTable, Registered
  <2>4. Attended' /\ OwnResponse'
    BY DEF Attended, OwnResponse
  <2> QED
    BY <2>1, <2>3, <2>4
<1>6. CASE StartRecv(r)
  <2> USE <1>6 DEF StartRecv, FirstReceiver
  <2>1. UniqueIds' /\ Begun'
    BY DEF UniqueIds, Begun
  <2>2. Dispatch'
    BY DEF Dispatch, ReadState
  <2>3. InTable' /\ OwnResponse'
    BY DEF InTable, Registered, OwnResponse
  <2>4. Attended'
    BY DEF Attended
  <2> QED
    BY <2>1, <2>2, <2>3, <2>4
<1>7. CASE Await(r)
  <2> USE <1>7 DEF Await
  <2>1. UniqueIds' /\ Begun' /\ Dispatch'
    BY DEF UniqueIds, Begun, Dispatch
  <2>2. InTable' /\ Attended' /\ OwnResponse'
    BY DEF InTable, Registered, Attended, OwnResponse
  <2> QED
    BY <2>1, <2>2
<1> QED
  BY <1>1, <1>2, <1>3, <1>4, <1>5, <1>6, <1>7 DEF SendRequest

\* The steps of a recv coroutine preserve the invariant.
LEMMA RecvStep ==
  ASSUME TypeOK, SingleReceiver, CallInv, NEW q \in Req, Recv(q)
  PROVE  CallInv'
<1> USE TypeFacts DEF CallInv, ctrlVars, sockVars, callVars, recvVars
<1>1. ASSUME NEW m \in Req, ReadHead(q, m) PROVE CallInv'
  <2> USE <1>1 DEF ReadHead, HandlerOf
  <2>1. \A h \in table \cap SameId(id[m]) : h = m
    BY DEF SameId, UniqueIds, Begun
  <2>2. UniqueIds' /\ Begun'
    BY DEF UniqueIds, Begun
  <2>3. Dispatch'
    BY <2>1 DEF Dispatch, Begun
  <2>4. InTable' /\ Attended' /\ OwnResponse'
    BY DEF InTable, Attended, OwnResponse, Leaving
  <2> QED
    BY <2>2, <2>3, <2>4
<1>2. CASE ReadFail(q)
  <2> USE <1>2 DEF ReadFail, Reading
  <2>1. UniqueIds' /\ Begun' /\ Dispatch'
    BY DEF UniqueIds, Begun, Dispatch
  <2>2. InTable' /\ Attended' /\ OwnResponse'
    BY DEF InTable, Attended, OwnResponse, Leaving
  <2> QED
    BY <2>1, <2>2
<1>3. CASE ReadBody(q)
  <2> USE <1>3 DEF ReadBody
  <2>1. /\ rhandler[q] = rmsg[q]
        /\ outcome' = [s \in Req |-> IF s = rmsg[q] /\ outcome[s] = "none"
                                     THEN "response" ELSE outcome[s]]
    BY DEF Complete, Dispatch
  <2>2. UniqueIds' /\ Begun'
    BY DEF UniqueIds, Begun
  <2>3. Dispatch'
    BY <2>1 DEF Dispatch
  <2>4. InTable' /\ Attended'
    BY <2>1 DEF InTable, Attended, Leaving
  <2>5. OwnResponse'
    BY <2>1 DEF OwnResponse
  <2> QED
    BY <2>2, <2>3, <2>4, <2>5
<1>4. CASE Erase(q)
  <2> USE <1>4 DEF Erase, Forget
  <2>1. \A s \in table : s # rmsg[q] => s \in table'
    BY DEF SameId, UniqueIds, Begun, Dispatch
  <2>2. UniqueIds' /\ Begun'
    BY DEF UniqueIds, Begun
  <2>3. Dispatch'
    BY DEF Dispatch, ReadState
  <2>4. InTable'
    BY <2>1 DEF InTable, Dispatch
  <2>5. Attended' /\ OwnResponse'
    BY DEF Attended, OwnResponse, Leaving
  <2> QED
    BY <2>2, <2>3, <2>4, <2>5
<1>5. CASE StoreFalse(q)
  <2> USE <1>5 DEF StoreFalse
  <2>1. UniqueIds' /\ Begun' /\ Dispatch'
    BY DEF UniqueIds, Begun, Dispatch
  <2>2. InTable' /\ OwnResponse'
    BY DEF InTable, OwnResponse
  <2>3. rpc'[q] \in Leaving
    BY DEF Leaving
  <2>4. Attended'
    BY <2>3 DEF Attended
  <2> QED
    BY <2>1, <2>2, <2>4
<1>6. CASE Recheck(q)
  <2> USE <1>6 DEF Recheck, LookAgain
  <2>1. UniqueIds' /\ Begun' /\ Dispatch'
    BY DEF UniqueIds, Begun, Dispatch
  <2>2. InTable' /\ OwnResponse'
    BY DEF InTable, OwnResponse
  <2>3. Attended'
    BY DEF Attended, InTable, Registered, Leaving
  <2> QED
    BY <2>1, <2>2, <2>3
<1>7. CASE Cas(q)
  <2> USE <1>7 DEF Cas
  <2>1. UniqueIds' /\ Begun' /\ Dispatch'
    BY DEF UniqueIds, Begun, Dispatch, ReadState
  <2>2. InTable' /\ Attended' /\ OwnResponse'
    BY DEF InTable, Attended, OwnResponse
  <2> QED
    BY <2>1, <2>2
<1>8. CASE BreakClose(q)
  <2> USE <1>8 DEF BreakClose
  <2>1. UniqueIds' /\ Begun' /\ Dispatch'
    BY DEF UniqueIds, Begun, Dispatch
  <2>2. InTable' /\ Attended' /\ OwnResponse'
    BY DEF InTable, Attended, OwnResponse, Leaving
  <2> QED
    BY <2>1, <2>2
<1>9. CASE SendErrResponse(q)
  <2> USE <1>9 DEF SendErrResponse, Forget, Complete
  <2>1. \A s \in table : outcome'[s] # "none"
    BY DEF Errors
  <2>2. UniqueIds' /\ Begun'
    BY DEF UniqueIds, Begun
  <2>3. Dispatch'
    BY DEF Dispatch
  <2>4. InTable'
    BY <2>1 DEF InTable
  <2>5. Attended' /\ OwnResponse'
    BY <2>4 DEF Attended, OwnResponse, InTable, Registered
  <2> QED
    BY <2>2, <2>3, <2>4, <2>5
<1> QED
  BY <1>1, <1>2, <1>3, <1>4, <1>5, <1>6, <1>7, <1>8, <1>9 DEF Recv

\* The invariant of the calls is inductive together with the types.
LEMMA CallInvInductive ==
  ASSUME MaxCalls <= IdSpace
  PROVE  Spec => []CallInv
<1>1. Init => CallInv
  BY DEF Init, CallInv, UniqueIds, Begun, Dispatch, InTable, Registered,
     Attended, OwnResponse
<1>2. TypeOK /\ SingleReceiver /\ CallInv /\ [Next]_vars => CallInv'
  <2> SUFFICES ASSUME TypeOK, SingleReceiver, CallInv, [Next]_vars PROVE CallInv'
    OBVIOUS
  <2>1. CASE OtherStep
    BY <2>1, OtherStepFrame DEF CallInv, UniqueIds, Begun, Dispatch, InTable,
       Attended, OwnResponse
  <2>2. CASE RunClose \/ ResetSocket
    BY <2>2, AbortStep DEF RunClose, ResetSocket, ctrlVars
  <2> QED
    BY <2>1, <2>2, NextCases, SendStep, RecvStep
<1> QED
  BY <1>1, <1>2, TypeCorrect, OneReceiver, PTL DEF Spec

\* As long as fewer requests than ids have been issued, no wake-up of a
\* waiting caller is lost: the re-check after recv_running_.store(false) and
\* the exchange in send_request never both decline to read.
THEOREM WakeupNotLost ==
  ASSUME MaxCalls <= IdSpace
  PROVE  Spec => []NoLostWakeup
<1>1. CallInv => NoLostWakeup
  BY DEF CallInv, InTable, Registered, Attended, NoLostWakeup
<1> QED
  BY <1>1, CallInvInductive, PTL

\* Under the same condition a promise is only filled with the response to
\* the request of its own caller, however the server orders its answers.
THEOREM ResponsesMatch ==
  ASSUME MaxCalls <= IdSpace
  PROVE  Spec => []OwnResponse
<1>1. CallInv => OwnResponse
  BY DEF CallInv
<1> QED
  BY <1>1, CallInvInductive, PTL
---------------------------------------------------------------------------
(* One async_write at a time.                                              *)

\* A call that writes holds write_mutex_, alone.
WriterInv == OneWriter /\ \A r \in Req : pc[r] \in Writing => write_mutex

\* Every step hands write_mutex_ over with the right to write.
LEMMA WriterStep == TypeOK /\ WriterInv /\ [Next]_vars => WriterInv'
<1> SUFFICES ASSUME TypeOK, WriterInv, [Next]_vars PROVE WriterInv'
  OBVIOUS
<1> USE TypeFacts DEF WriterInv, OneWriter, Writing, ctrlVars, callVars
<1>1. CASE OtherStep
  BY <1>1, OtherStepFrame
<1>2. CASE RunClose \/ ResetSocket
  BY <1>2 DEF RunClose, ResetSocket, AbortPending
<1>3. ASSUME NEW r \in Req, SendRequest(r)
      PROVE  WriterInv'
  <2>1. CASE StartWrite(r)
    BY <2>1 DEF StartWrite, LockWrite
  <2>2. CASE WriteOk(r) \/ WriteFail(r)
    BY <2>2 DEF WriteOk, WriteFail
  <2>3. CASE Begin(r) \/ Emplace(r) \/ CheckClosed(r) \/ WriteErrorClose(r)
    BY <2>3 DEF Begin, Emplace, CheckClosed, WriteErrorClose
  <2>4. CASE EraseFailed(r) \/ StartRecv(r) \/ Await(r)
    BY <2>4 DEF EraseFailed, StartRecv, Await
  <2> QED
    BY <1>3, <2>1, <2>2, <2>3, <2>4 DEF SendRequest
<1>4. ASSUME NEW q \in Req, Recv(q)
      PROVE  WriterInv'
  BY <1>4 DEF Recv, ReadHead, ReadFail, ReadBody, Erase, StoreFalse, Recheck,
     Cas, BreakClose, SendErrResponse
<1> QED
  BY <1>1, <1>2, <1>3, <1>4, NextCases

\* The spin lock in send_impl keeps the writes of any number of callers
\* apart, whatever closes or replaces the socket under them.
THEOREM WritesExclude == Spec => []OneWriter
<1>1. Init => WriterInv
  BY DEF Init, WriterInv, OneWriter, Writing
<1>2. WriterInv => OneWriter
  BY DEF WriterInv
<1> QED
  BY <1>1, <1>2, TypeCorrect, WriterStep, PTL DEF Spec

---------------------------------------------------------------------------
(* Nothing of the old socket closes the new one.                           *)

Sent == {"written", "wait", "done"}

\* A response is read once, and only to a request that was written.
OnWire ==
    /\ \A r \in wire : pc[r] \in Sent
    /\ \A q \in Req : rpc[q] \in {"body", "erase"} =>
         rmsg[q] \notin wire /\ pc[rmsg[q]] \in Sent

\* The client is quiet unless connect() has succeeded, and is marked closed
\* only for a reason or by connect() itself.
Linked ==
    /\ conn_result # "ok" => Quiet
    /\ conn_result = "ok" => conn_pc = "idle" /\ should_reset
    /\ ~should_reset => conn_pc = "idle" /\ wire = {}
    /\ conn_pc \in {"resolve", "connecting"} => wire = {}
    /\ ~excuse /\ conn_pc # "reset" => ~has_closed /\ ~closing

\* The socket is open, no write has failed and no recv loop has ended; every
\* response that may come finds its handler.
Serving ==
    /\ sock = "open" /\ wire \subseteq table
    /\ \A r \in Req :
         /\ pc[r] \notin {"aborted", "wfail"}
         /\ pc[r] \in {"emplaced", "lock", "writing"} => r \in table
    /\ \A q \in Req : rpc[q] \notin {"brk", "brkclose", "brkerr"}

CleanInv == OnWire /\ Linked /\ (conn_result = "ok" /\ ~excuse => Serving)

\* Every step keeps the requests on the wire apart from the responses read.
LEMMA OnWireStep == TypeOK /\ OnWire /\ [Next]_vars => OnWire'
<1> SUFFICES ASSUME TypeOK, OnWire, [Next]_vars PROVE OnWire'
  OBVIOUS
<1> USE TypeFacts DEF OnWire, Sent, ctrlVars, sockVars, callVars, recvVars
<1>1. CASE OtherStep
  BY <1>1, OtherStepFrame
<1>2. CASE RunClose \/ ResetSocket
  BY <1>2 DEF RunClose, ResetSocket, AbortPending, Reading
<1>3. ASSUME NEW r \in Req, SendRequest(r)
      PROVE  OnWire'
  <2>1. CASE WriteOk(r)
    BY <2>1 DEF WriteOk
  <2>2. CASE Begin(r) \/ Emplace(r) \/ CheckClosed(r) \/ WriteErrorClose(r)
    BY <2>2 DEF Begin, Emplace, CheckClosed, WriteErrorClose
  <2>3. CASE StartWrite(r) \/ WriteFail(r) \/ EraseFailed(r) \/ Await(r)
    BY <2>3 DEF StartWrite, WriteFail, EraseFailed, Await
  <2>4. CASE StartRecv(r)
    BY <2>4 DEF StartRecv, ReadState
  <2> QED
    BY <1>3, <2>1, <2>2, <2>3, <2>4 DEF SendRequest
<1>4. ASSUME NEW q \in Req, Recv(q)
      PROVE  OnWire'
  <2>1. ASSUME NEW m \in Req, ReadHead(q, m) PROVE OnWire'
    BY <2>1 DEF ReadHead
  <2>2. CASE ReadFail(q) \/ ReadBody(q)
    BY <2>2 DEF ReadFail, ReadBody
  <2>3. CASE Erase(q) \/ Cas(q)
    BY <2>3 DEF Erase, Forget, Cas, ReadState
  <2>4. CASE StoreFalse(q) \/ Recheck(q) \/ BreakClose(q)
    BY <2>4 DEF StoreFalse, Recheck, LookAgain, BreakClose
  <2>5. CASE SendErrResponse(q)
    BY <2>5 DEF SendErrResponse, Forget
  <2> QED
    BY <1>4, <2>1, <2>2, <2>3, <2>4, <2>5 DEF Recv
<1> QED
  BY <1>1, <1>2, <1>3, <1>4, NextCases

\* Steps of closers, timers and connect() keep Linked and Serving.
LEMMA ConnectStep ==
  ASSUME QuietReconnect, CallConnected, TypeOK, CleanInv,
         Close \/ Timers \/ Connect \/ UNCHANGED vars
  PROVE  Linked' /\ (conn_result' = "ok" /\ ~excuse' => Serving')
<1> USE TypeFacts DEF CleanInv, Linked, Quiet, Serving, ctrlVars, sockVars,
   callVars, recvVars, connVars
<1>1. CASE RunClose
  BY <1>1 DEF RunClose, AbortPending, Reading
<1>2. CASE UserClose \/ PeerDown
  BY <1>2 DEF UserClose, PeerDown, CloseSocketAsync
<1>3. CASE Timers
  <2>1. CASE ConnTimeout \/ \E r \in Req : Timeout(r)
    BY <2>1 DEF ConnTimeout, Timeout, CloseSocketAsync
  <2>2. CASE ConnExpire \/ \E r \in Req : Expire(r)
    BY <2>2 DEF ConnExpire, Expire
  <2> QED
    BY <1>3, <2>1, <2>2 DEF Timers
<1>4. CASE ConnectBegin
  BY <1>4 DEF ConnectBegin
<1>5. CASE ResetSocket
  BY <1>5 DEF ResetSocket, AbortPending, Reading, ClearFlags
<1>6. CASE ResolveFail \/ ConnectStart
  BY <1>6 DEF ResolveFail, ConnectStart, ConnectReturn
<1>7. CASE ConnectOk \/ ConnectRefused \/ ConnectAborted
  BY <1>7 DEF ConnectOk, ConnectRefused, ConnectAborted, ConnectDone,
     ConnectReturn
<1>8. CASE \/ \E w \in Waiters : ConnectBusy(w) \/ ConnectBusyReturn(w)
           \/ UNCHANGED vars
  BY <1>8 DEF ConnectBusy, ConnectBusyReturn, vars
<1> QED
  BY <1>1, <1>2, <1>3, <1>4, <1>5, <1>6, <1>7, <1>8 DEF Close, Connect

\* Steps of callers keep Linked and Serving.
LEMMA CallerStep ==
  ASSUME QuietReconnect, CallConnected, TypeOK, CallInv, CleanInv,
         NEW r \in Req, SendRequest(r)
  PROVE  Linked' /\ (conn_result' = "ok" /\ ~excuse' => Serving')
<1> USE TypeFacts DEF CleanInv, Linked, Serving, ctrlVars, sockVars,
   callVars, recvVars, connVars
<1>1. conn_result = "ok"
  BY DEF Quiet, SendRequest, Begin, Emplace, CheckClosed, StartWrite, WriteOk,
     WriteFail, WriteErrorClose, EraseFailed, StartRecv, Await
<1> USE <1>1
<1>2. CASE Begin(r) \/ CheckClosed(r)
  <2>1. CASE Begin(r)
    BY <2>1 DEF Begin
  <2>2. CASE CheckClosed(r)
    BY <2>2 DEF CheckClosed
  <2> QED
    BY <1>2, <2>1, <2>2
<1>3. CASE Emplace(r)
  BY <1>3 DEF Emplace, CloseSocketAsync
<1>4. CASE StartWrite(r) \/ WriteOk(r) \/ WriteFail(r)
  <2>1. CASE StartWrite(r)
    BY <2>1 DEF StartWrite
  <2>2. CASE WriteOk(r)
    BY <2>2 DEF WriteOk
  <2>3. CASE WriteFail(r)
    BY <2>3 DEF WriteFail
  <2> QED
    BY <1>4, <2>1, <2>2, <2>3
<1>5. CASE WriteErrorClose(r)
  BY <1>5 DEF WriteErrorClose
<1>6. CASE EraseFailed(r)
  <2>1. \A s \in table : s # r => s \in table'
    BY <1>6 DEF EraseFailed, SameId, CallInv, UniqueIds, Begun
  <2>2. r \notin wire
    BY <1>6 DEF EraseFailed, OnWire, Sent
  <2> QED
    BY <1>6, <2>1, <2>2 DEF EraseFailed
<1>7. CASE StartRecv(r)
  BY <1>7 DEF StartRecv, ReadState
<1>8. CASE Await(r)
  BY <1>8 DEF Await, CloseSocketAsync
<1> QED
  BY <1>2, <1>3, <1>4, <1>5, <1>6, <1>7, <1>8 DEF SendRequest

\* Steps of a recv coroutine keep Linked and Serving.
LEMMA ReceiverKeeps ==
  ASSUME QuietReconnect, CallConnected, TypeOK, CallInv, CleanInv,
         NEW q \in Req, Recv(q)
  PROVE  Linked' /\ (conn_result' = "ok" /\ ~excuse' => Serving')
<1> USE TypeFacts DEF CleanInv, Linked, Serving, ctrlVars, sockVars,
   callVars, recvVars, connVars
<1>1. conn_result = "ok"
  BY DEF Quiet, Recv, ReadHead, ReadFail, ReadBody, Erase, StoreFalse, Recheck,
     Cas, BreakClose, SendErrResponse, Reading
<1> USE <1>1
<1>2. ASSUME NEW m \in Req, ReadHead(q, m)
      PROVE  Linked' /\ (conn_result' = "ok" /\ ~excuse' => Serving')
  BY <1>2 DEF ReadHead, HandlerOf, SameId
<1>3. CASE ReadFail(q)
  BY <1>3 DEF ReadFail
<1>4. CASE ReadBody(q)
  BY <1>4 DEF ReadBody
<1>5. CASE Erase(q)
  <2>1. \A s \in table : s # rmsg[q] => s \in table'
    BY <1>5 DEF Erase, SameId, CallInv, UniqueIds, Begun, Dispatch
  <2>2. rmsg[q] \notin wire /\ pc[rmsg[q]] \in Sent
    BY <1>5 DEF Erase, OnWire
  <2> QED
    BY <1>5, <2>1, <2>2 DEF Erase, ReadState, Sent
<1>6. CASE StoreFalse(q) \/ Recheck(q)
  <2>1. CASE StoreFalse(q)
    BY <2>1 DEF StoreFalse
  <2>2. CASE Recheck(q)
    BY <2>2 DEF Recheck, LookAgain
  <2> QED
    BY <1>6, <2>1, <2>2
<1>7. CASE Cas(q)
  BY <1>7 DEF Cas, ReadState
<1>8. CASE BreakClose(q) \/ SendErrResponse(q)
  BY <1>8 DEF BreakClose, SendErrResponse
<1> QED
  BY <1>2, <1>3, <1>4, <1>5, <1>6, <1>7, <1>8 DEF Recv

\* A client that is used only after connect() has succeeded, and that calls
\* connect() again only when no call is pending, stays open after connect()
\* until the user, a timer, the peer or a bad message closes it.  Without
\* the second condition it does not (run client_stale).
THEOREM ReconnectIsClean ==
  ASSUME QuietReconnect, CallConnected, MaxCalls <= IdSpace
  PROVE  Spec => []ConnectedStaysOpen
<1>1. Init => CleanInv
  BY DEF Init, CleanInv, OnWire, Linked, Quiet
<1>2. TypeOK /\ CallInv /\ CleanInv /\ [Next]_vars => CleanInv'
  <2> SUFFICES ASSUME TypeOK, CallInv, CleanInv, [Next]_vars
               PROVE  CleanInv'
    OBVIOUS
  <2>1. OnWire'
    BY OnWireStep DEF CleanInv
  <2>2. Linked' /\ (conn_result' = "ok" /\ ~excuse' => Serving')
    BY ConnectStep, CallerStep, ReceiverKeeps DEF Next
  <2> QED
    BY <2>1, <2>2 DEF CleanInv
<1>3. CleanInv => ConnectedStaysOpen
  BY DEF CleanInv, Linked, ConnectedStaysOpen
<1> QED
  BY <1>1, <1>2, <1>3, TypeCorrect, CallInvInductive, PTL DEF Spec

=============================================================================
