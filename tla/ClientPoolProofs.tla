-------------------------- MODULE ClientPoolProofs --------------------------
(* Proofs about ClientPool: a pool marked dead is never given up, and a    *)
(* pool with free clients is never left marked dead.                       *)
EXTENDS ClientPool, TLAPS

\* A call or a detector at one of these labels owns a client.
Holding == {"connect", "op", "collect", "put_free", "put_short", "dconnect",
            "dcollect", "dput_free", "dput_short", "test", "sleep"}

\* TypeOK alone is not inductive: Put stores the client of the call.
TypeInv == TypeOK /\ \A c \in Call : pc[c] \in Holding => cli[c] \in Client

\* What the proofs use of the constants.
LEMMA NatConstants ==
  MaxFlips \in Nat /\ IntSpace \in Nat \ {0} /\ Retry \in 0..IntSpace - 1
BY ConstantsAssumption

\* The attempts are counted in the naturals.
LEMMA Successor == \A n \in Nat : n + 1 \in Nat
OBVIOUS

\* ++i wraps only on the first failure.
LEMMA IncrementFacts ==
  /\ Increment(IntSpace - 1) = 0
  /\ \A n \in 0..IntSpace - 1 : n # IntSpace - 1 => Increment(n) = n + 1
  /\ \A n \in 0..IntSpace - 1 : Increment(n) \in 0..IntSpace - 1
<1>1. ASSUME NEW n \in 0..IntSpace - 1, n # IntSpace - 1 PROVE Increment(n) = n + 1
  BY <1>1, NatConstants DEF Increment
<1>2. Increment(IntSpace - 1) = 0
  BY NatConstants DEF Increment
<1> QED
  BY <1>1, <1>2, NatConstants

\* Every step keeps the types and never enqueues a client it does not have.
LEMMA TypeStep == TypeInv /\ [Next]_vars => TypeInv'
<1> SUFFICES ASSUME TypeInv, [Next]_vars PROVE TypeInv'
  OBVIOUS
<1> DEFINE Own == \A c \in Call : pc[c] \in Holding => cli[c] \in Client
<1> USE DEF TypeInv, TypeOK
<1>1. ASSUME NEW c \in Call, Request(c) PROVE TypeInv'
  <2> USE <1>1 DEF Request, Goto
  <2>1. HostType'
    BY DEF HostType, GetFree, GetShort, ConnectOk, ConnectFail, Op
  <2>2. CallType'
    <3>1. CASE ConnectFail(c)
      <4>1. Increment(i[c]) \in 0..IntSpace - 1
        BY IncrementFacts DEF CallType
      <4>2. attempts[c] + 1 \in Nat
        <5>1. attempts[c] \in Nat
          BY DEF CallType
        <5> QED
          BY <5>1, Successor
      <4> QED
        BY <3>1, <4>1, <4>2 DEF ConnectFail, CallType, Labels
    <3>2. CASE GetFree(c) \/ GetShort(c) \/ ConnectOk(c) \/ Op(c)
      BY <3>2 DEF GetFree, GetShort, ConnectOk, Op, CallType, Labels, Finished
    <3> QED
      BY <3>1, <3>2
  <2>3. ClientType' /\ Own'
    <3> USE DEF ClientType, CallType, Hold, Holding
    <3>1. CASE GetFree(c)
      BY <3>1, ZenonT(40) DEF GetFree
    <3>2. CASE GetShort(c)
      BY <3>2, ZenonT(40) DEF GetShort, Unused
    <3>3. CASE ConnectOk(c) \/ ConnectFail(c) \/ Op(c)
      BY <3>3 DEF ConnectOk, ConnectFail, Op
    <3> QED
      BY <3>1, <3>2, <3>3
  <2> QED
    BY <2>1, <2>2, <2>3
<1>2. ASSUME NEW c \in Call, AliveDetect(c) PROVE TypeInv'
  <2> USE <1>2 DEF AliveDetect, Goto
  <2>1. HostType' /\ CallType'
    BY DEF HostType, CallType, Labels, Detecting, Finished, Check, Exchange,
       Recheck, AfterExchange, Unmark, Restore, DetectInit, DetectOk,
       DetectFail, Test, Wake, UnlessAlive
  <2>2. ClientType' /\ Own'
    <3> USE DEF ClientType, CallType, Hold, Holding
    <3>1. CASE DetectInit(c)
      BY <3>1, ZenonT(40) DEF DetectInit, Unused
    <3>2. CASE Test(c) \/ Wake(c)
      BY <3>2 DEF Test, Wake, UnlessAlive
    <3>3. CASE Check(c) \/ Exchange(c) \/ Recheck(c) \/ Unmark(c)
      BY <3>3 DEF Check, Exchange, Recheck, AfterExchange, Unmark, Restore
    <3>4. CASE DetectOk(c) \/ DetectFail(c)
      BY <3>4 DEF DetectOk, DetectFail
    <3> QED
      BY <3>1, <3>2, <3>3, <3>4
  <2> QED
    BY <2>1, <2>2
<1>3. ASSUME NEW c \in Call, CollectFreeClient(c) PROVE TypeInv'
  <2> USE <1>3 DEF CollectFreeClient, Collect, Put, Mark, Goto
  <2>1. HostType'
    BY DEF HostType
  <2>2. CallType'
    BY DEF CallType, Labels, Detecting, Finished
  <2>3. ClientType' /\ Own'
    BY ZenonT(40) DEF ClientType, CallType, Hold, Holding
  <2> QED
    BY <2>1, <2>2, <2>3
<1>4. CASE (\E k \in Client : Expire(k)) \/ Destroy \/ HostFlip
  <2> USE <1>4 DEF Expire, Destroy, HostFlip
  <2>0. flips' \in 0..MaxFlips
    BY NatConstants DEF HostType
  <2>1. HostType'
    BY <2>0 DEF HostType
  <2>2. CallType' /\ ClientType' /\ Own'
    BY DEF CallType, ClientType
  <2> QED
    BY <2>1, <2>2
<1>5. CASE UNCHANGED vars
  BY <1>5 DEF vars, HostType, CallType, ClientType
<1> QED
  BY <1>1, <1>2, <1>3, <1>4, <1>5 DEF Next

\* The pool starts with its types, and no client anywhere.
LEMMA TypeInit == Init => TypeInv
<1> SUFFICES ASSUME Init PROVE TypeInv
  OBVIOUS
<1> USE DEF Init
<1>1. HostType
  <2>1. flips \in 0..MaxFlips
    BY NatConstants
  <2> QED
    BY <2>1 DEF HostType
<1>2. CallType
  BY NatConstants DEF CallType, Labels, Finished
<1>3. ClientType /\ \A c \in Call : pc[c] \in Holding => cli[c] \in Client
  BY DEF ClientType, Holding
<1> QED
  BY <1>1, <1>2, <1>3 DEF TypeInv, TypeOK

\* The pool keeps its types forever: in particular only clients are queued and
\* the retry counter stays a 32 bit number.
THEOREM TypeCorrect == Spec => []TypeOK
<1>1. TypeInv => TypeOK
  BY DEF TypeInv
<1> QED
  BY <1>1, TypeInit, TypeStep, PTL DEF Spec

\* What the proofs below use of the types.
PcType == pc \in [Call -> Labels] /\ is_alive \in BOOLEAN

\* The types imply it.
LEMMA PcFromType == TypeInv => PcType
BY DEF TypeInv, TypeOK, HostType, CallType, PcType

\* A detector only leaves when it has seen or set is_alive_, or when the pool
\* is gone; one whose client could not be set up is remembered as given up.
LEMMA DetectedStep ==
  ASSUME PcType, AliveDetected, [Next]_vars
  PROVE  AliveDetected'
<1> USE DEF PcType, AliveDetected, Labels, Detecting, Finished, Goto
<1>1. ASSUME NEW c \in Call, Request(c) PROVE AliveDetected'
  BY <1>1 DEF Request, GetFree, GetShort, ConnectOk, ConnectFail, Op
<1>2. ASSUME NEW c \in Call, AliveDetect(c) PROVE AliveDetected'
  <2>1. CASE Check(c) \/ Exchange(c) \/ Recheck(c) \/ Unmark(c)
    BY <2>1 DEF Check, Exchange, Recheck, AfterExchange, Unmark, Restore
  <2>2. CASE DetectInit(c)
    BY <2>2 DEF DetectInit
  <2>3. CASE DetectOk(c) \/ DetectFail(c)
    BY <2>3 DEF DetectOk, DetectFail
  <2>4. CASE Test(c)
    BY <2>4 DEF Test, UnlessAlive
  <2>5. CASE Wake(c)
    BY <2>5 DEF Wake, UnlessAlive
  <2> QED
    BY <1>2, <2>1, <2>2, <2>3, <2>4, <2>5 DEF AliveDetect
<1>3. ASSUME NEW c \in Call, CollectFreeClient(c) PROVE AliveDetected'
  BY <1>3 DEF CollectFreeClient, Collect, Put, Mark
<1>4. CASE (\E k \in Client : Expire(k)) \/ Destroy \/ HostFlip
  BY <1>4 DEF Expire, Destroy, HostFlip
<1>5. CASE UNCHANGED vars
  BY <1>5 DEF vars
<1> QED
  BY <1>1, <1>2, <1>3, <1>4, <1>5 DEF Next

\* alive_detect, "other alive detect coroutine is running": is_alive_ is
\* never off without a detector at work, unless init_config failed for one.
THEOREM NeverGivenUp == Spec => []AliveDetected
<1>1. Init => TypeInv /\ AliveDetected
  BY TypeInit DEF Init, AliveDetected
<1>2. TypeInv /\ AliveDetected /\ [Next]_vars => TypeInv' /\ AliveDetected'
  BY TypeStep, PcFromType, DetectedStep
<1> QED
  BY <1>1, <1>2, PTL DEF Spec

\* Every client enters a queue before its thread marks the pool alive, and
\* every detector looks at the queues after it marked the pool dead.
LEMMA FreeStep ==
  ASSUME PcType, FreeMeansAlive, [Next]_vars
  PROVE  FreeMeansAlive'
<1> USE DEF PcType, FreeMeansAlive, Labels, Detecting, Finished, Goto
<1>1. ASSUME NEW c \in Call, Request(c) PROVE FreeMeansAlive'
  BY <1>1 DEF Request, GetFree, GetShort, ConnectOk, ConnectFail, Op
<1>2. ASSUME NEW c \in Call, AliveDetect(c) PROVE FreeMeansAlive'
  BY <1>2 DEF AliveDetect, Check, Exchange, Recheck, AfterExchange, Unmark,
     Restore, DetectInit, DetectOk, DetectFail, Test, Wake, UnlessAlive
<1>3. ASSUME NEW c \in Call, CollectFreeClient(c) PROVE FreeMeansAlive'
  BY <1>3 DEF CollectFreeClient, Collect, Put, Mark
<1>4. CASE (\E k \in Client : Expire(k)) \/ Destroy \/ HostFlip
  BY <1>4 DEF Expire, Destroy, HostFlip
<1>5. CASE UNCHANGED vars
  BY <1>5 DEF vars
<1> QED
  BY <1>1, <1>2, <1>3, <1>4, <1>5 DEF Next

\* alive_detect, "recheck for multi-thread": a pool that holds a free client
\* is alive, or a thread that will mark it so is on its way.
THEOREM FreePoolIsAlive == Spec => []FreeMeansAlive
<1>1. Init => TypeInv /\ FreeMeansAlive
  BY TypeInit DEF Init, FreeMeansAlive
<1>2. TypeInv /\ FreeMeansAlive /\ [Next]_vars => TypeInv' /\ FreeMeansAlive'
  BY TypeStep, PcFromType, FreeStep
<1> QED
  BY <1>1, <1>2, PTL DEF Spec

\* Where the retry loop is: before the first connect, or with as many
\* failures behind it as the counter shows.
Retrying(c) ==
    /\ result[c] = "none"
    /\ \/ i[c] = IntSpace - 1 /\ attempts[c] = 0
       \/ i[c] \in 0..Retry - 1 /\ attempts[c] = i[c] + 1

RetryInv ==
    /\ \A c \in Call : pc[c] \in {"idle", "short", "connect"} => Retrying(c)
    /\ RefusedAfterRetries

\* One more failure: the counter shows one less than the attempts made, and
\* the loop ends when it reaches connect_retry_count.
LEMMA RetryCount ==
  ASSUME NEW n \in 0..IntSpace - 1, NEW a \in Nat,
         (n = IntSpace - 1 /\ a = 0) \/ (n \in 0..Retry - 1 /\ a = n + 1)
  PROVE  /\ a + 1 = Increment(n) + 1
         /\ Increment(n) < Retry => Increment(n) \in 0..Retry - 1
         /\ ~(Increment(n) < Retry) => Increment(n) >= Retry /\ a + 1 = Retry + 1
<1>1. Increment(n) = a /\ a \in 0..Retry
  BY IncrementFacts, NatConstants
<1> QED
  BY <1>1, NatConstants

\* A count below connect_retry_count does not end the loop.
LEMMA BelowRetry == \A x \in 0..Retry - 1 : ~(x >= Retry)
BY NatConstants

\* The retry loop keeps its count.
LEMMA RetryStep ==
  ASSUME TypeInv, RetryInv, [Next]_vars
  PROVE  RetryInv'
<1> USE DEF TypeInv, TypeOK, CallType, RetryInv, Retrying, RefusedAfterRetries,
        Goto, Hold
<1>1. ASSUME NEW c \in Call, Request(c) PROVE RetryInv'
  <2>1. CASE GetFree(c)
    BY <2>1 DEF GetFree
  <2>2. CASE GetShort(c)
    BY <2>2 DEF GetShort
  <2>3. CASE ConnectOk(c) \/ Op(c)
    BY <2>3 DEF ConnectOk, Op
  <2>4. CASE ConnectFail(c)
    <3>1. i'[c] = Increment(i[c]) /\ attempts'[c] = attempts[c] + 1
      BY <2>4 DEF ConnectFail
    <3>2. \/ i[c] = IntSpace - 1 /\ attempts[c] = 0
          \/ i[c] \in 0..Retry - 1 /\ attempts[c] = i[c] + 1
      BY <2>4 DEF ConnectFail
    <3>3. /\ attempts'[c] = i'[c] + 1
          /\ i'[c] < Retry => i'[c] \in 0..Retry - 1
          /\ ~(i'[c] < Retry) => i'[c] >= Retry /\ attempts'[c] = Retry + 1
      <4>1. i[c] \in 0..IntSpace - 1 /\ attempts[c] \in Nat
        OBVIOUS
      <4> QED
        BY <3>1, <3>2, <4>1, RetryCount
    <3>4. \A d \in Call \ {c} : /\ pc'[d] = pc[d] /\ result'[d] = result[d]
                              /\ i'[d] = i[d] /\ attempts'[d] = attempts[d]
      BY <2>4 DEF ConnectFail
    <3>5. CASE i'[c] < Retry
      <4>1. ~(i'[c] >= Retry)
        BY <3>3, <3>5, BelowRetry
      <4>2. result'[c] = "none" /\ pc'[c] = "connect"
        BY <2>4, <4>1 DEF ConnectFail
      <4> QED
        BY <3>3, <3>4, <3>5, <4>2
    <3>6. CASE ~(i'[c] < Retry)
      <4>1. result'[c] = "connection refused" /\ pc'[c] = "check"
        BY <2>4, <3>6 DEF ConnectFail
      <4> QED
        BY <3>3, <3>4, <3>6, <4>1
    <3> QED
      BY <3>5, <3>6
  <2> QED
    BY <1>1, <2>1, <2>2, <2>3, <2>4 DEF Request
<1>2. ASSUME NEW c \in Call, AliveDetect(c) PROVE RetryInv'
  BY <1>2, ZenonT(40) DEF AliveDetect, Check, Exchange, Recheck, AfterExchange, Unmark,
     Restore, DetectInit, DetectOk, DetectFail, Test, Wake, UnlessAlive
<1>3. ASSUME NEW c \in Call, CollectFreeClient(c) PROVE RetryInv'
  BY <1>3 DEF CollectFreeClient, Collect, Put, Mark
<1>4. CASE (\E k \in Client : Expire(k)) \/ Destroy \/ HostFlip
  BY <1>4 DEF Expire, Destroy, HostFlip
<1>5. CASE UNCHANGED vars
  BY <1>5 DEF vars
<1> QED
  BY <1>1, <1>2, <1>3, <1>4, <1>5 DEF Next

\* reconnect, "at least connect once": a refused call has tried to connect
\* once and connect_retry_count times more, for every count a uint32_t holds.
THEOREM RetriesCounted == Spec => []RefusedAfterRetries
<1>1. Init => TypeInv /\ RetryInv
  BY TypeInit DEF Init, RetryInv, Retrying, RefusedAfterRetries
<1>2. TypeInv /\ RetryInv /\ [Next]_vars => TypeInv' /\ RetryInv'
  BY TypeStep, RetryStep
<1>3. RetryInv => RefusedAfterRetries
  BY DEF RetryInv
<1> QED
  BY <1>1, <1>2, <1>3, PTL DEF Spec

=============================================================================
