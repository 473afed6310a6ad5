------------------------- MODULE ClientQueueProofs -------------------------
(***************************************************************************)
(* Theorems about module ClientQueue, for any number of threads and        *)
(* clients and every size of the counters: the types, that a client        *)
(* returned since the last reselect() is out of reach of clear_old(), that *)
(* the start of the collector is not missed, and, for finitely many        *)
(* threads and clients, that size() is exact.                              *)
(***************************************************************************)
EXTENDS ClientQueue, FiniteSetTheorems, TLAPS

\* The labels at which a thread holds a client.
Holding == {"busy", "another", "swap", "uncount", "use", "count", "push",
            "undo"}

\* Where a thread holds a client, and a second one; where the collector has
\* clients aside, and counts them.
LocalInv ==
    /\ \A t \in Thread : cli[t] \in Client <=> pc[t] \in Holding
    /\ \A t \in Thread : cli2[t] \in Client <=> pc[t] = "swap"
    /\ cpc \notin {"take", "back"} => kept = {} /\ taken = 0 /\ cleared = 0
    /\ cleared <= taken /\ lost <= fails /\ (~started => cpc = "off")

\* A client is in one place: in a half, aside, or in the hands of one thread.
PlaceInv ==
    /\ q[0] \cap q[1] = {} /\ kept \cap (q[0] \cup q[1]) = {}
    /\ \A t \in Thread : /\ cli[t] \notin q[0] \cup q[1] \cup kept
                         /\ cli2[t] \notin q[0] \cup q[1] \cup kept
    /\ \A t, u \in Thread : cli[t] \in Client /\ cli[t] = cli[u] => t = u
    /\ \A t, u \in Thread : cli2[t] \in Client /\ cli2[t] = cli2[u] => t = u
    /\ \A t, u \in Thread : cli[t] \in Client => cli[t] # cli2[u]

\* A fresh client is in the selected half or on its way to it, and the
\* collector works on the other half.
FreshInv ==
    /\ fresh \cap q[Other(sel)] = {} /\ fresh \cap kept = {}
    /\ \A t \in Thread :
         /\ cli[t] \in fresh
         /\ pc[t] \in {"busy", "another", "swap", "count", "push"}
         => idx[t] = sel
    /\ \A t \in Thread : cli2[t] \in fresh => idx[t] = sel
    /\ cpc \in {"take", "back"} => old = Other(sel)

IInv == TypeOK /\ LocalInv /\ PlaceInv /\ FreshInv

---------------------------------------------------------------------------
(* Each part of the invariant is preserved. *)

\* Every step keeps the types.
LEMMA TypeStep == IInv /\ [Next]_vars => TypeOK'
  <1> SUFFICES ASSUME IInv, [Next]_vars PROVE TypeOK'
    OBVIOUS
  <1> USE ConstantsAssumption, NoClientAssumption DEF IInv, TypeOK, LocalInv,
       Holding, Halves, Other
  <1>1. ASSUME NEW t \in Thread, Select(t)
        PROVE  TypeOK'
    BY <1>1 DEF Select, Goto, collector, pool
  <1>2. ASSUME NEW t \in Thread, First(t)
        PROVE  TypeOK'
    BY <1>2 DEF First, Goto, Hold, TakeFrom, collector
  <1>3. ASSUME NEW t \in Thread, Second(t)
        PROVE  TypeOK'
    BY <1>3 DEF Second, Goto, Hold, TakeFrom, Unused, Held, collector
  <1>4. ASSUME NEW t \in Thread, Busy(t)
        PROVE  TypeOK'
    BY <1>4 DEF Busy, Goto, collector, pool
  <1>5. ASSUME NEW t \in Thread, Another(t)
        PROVE  TypeOK'
    BY <1>5 DEF Another, Goto, TakeFrom, collector
  <1>6. ASSUME NEW t \in Thread, Swap(t)
        PROVE  TypeOK'
    BY <1>6 DEF Swap, Goto, Hold, PutBack, Loser, AddTo, collector
  <1>7. ASSUME NEW t \in Thread, Uncount(t)
        PROVE  TypeOK'
    BY <1>7 DEF Uncount, Goto, Forget, Add, collector
  <1>8. ASSUME NEW t \in Thread, Use(t)
        PROVE  TypeOK'
    BY <1>8 DEF Use, Goto, Hold, collector
  <1>9. ASSUME NEW t \in Thread, Count(t)
        PROVE  TypeOK'
    BY <1>9 DEF Count, Goto, Add, collector
  <1>10. ASSUME NEW t \in Thread, Push(t)
        PROVE  TypeOK'
    BY <1>10 DEF Push, Goto, Hold, AddTo, collector
  <1>11. ASSUME NEW t \in Thread, Undo(t)
        PROVE  TypeOK'
    BY <1>11 DEF Undo, Goto, Hold, Forget, TakeBack, Add, collector
  <1>12. ASSUME NEW t \in Thread, Start(t)
        PROVE  TypeOK'
    <2>1. /\ UNCHANGED <<q, size, sel, pending, destroyed, fails, lost, fresh,
                         cli, cli2, old, kept, taken, cleared>>
          /\ pc' = [pc EXCEPT ![t] = "idle"]
          /\ idx' = [idx EXCEPT ![t] = 0] /\ cnt' = [cnt EXCEPT ![t] = 0]
      BY <1>12 DEF Start, Goto, Forget
    <2>2. /\ started' \in BOOLEAN
          /\ cpc' \in {"off", "reselect", "sleep", "again", "take", "back",
                       "over"}
      BY <1>12 DEF Start, Goto, Forget
    <2>3. QED
      BY <2>1, <2>2
  <1>13. ASSUME NEW k \in Client, Respond(k)
        PROVE  TypeOK'
    BY <1>13 DEF Respond, thread, collector
  <1>14. CASE Reselect
    BY <1>14 DEF Reselect, Flipped, thread
  <1>15. CASE Wake
    BY <1>15 DEF Wake, thread, pool
  <1>16. CASE ClearBegin
    BY <1>16 DEF ClearBegin, OldHalf, thread, pool
  <1>17. ASSUME NEW k \in Client, Take(k)
        PROVE  TypeOK'
    BY <1>17 DEF Take, TakeFrom, thread
  <1>18. CASE TakeEnd
    BY <1>18 DEF TakeEnd, thread, pool
  <1>19. ASSUME NEW k \in Client, Back(k)
        PROVE  TypeOK'
    BY <1>19 DEF Back, PutBack, AddTo, thread
  <1>20. CASE Subtract
    BY <1>20 DEF Subtract, Add, AllCleared, thread
  <1>21. CASE Destroy
    BY <1>21 DEF Destroy, thread, collector
  <1>22. CASE UNCHANGED <<q, size, sel, pending, started, destroyed, fails,
                          lost, fresh, pc, idx, cli, cli2, cnt, cpc, old,
                          kept, taken, cleared>>
    BY <1>22
  <1>23. QED
    BY <1>1, <1>2, <1>3, <1>4, <1>5, <1>6, <1>7, <1>8, <1>9, <1>10, <1>11,
       <1>12, <1>13, <1>14, <1>15, <1>16, <1>17, <1>18, <1>19, <1>20, <1>21,
       <1>22
    DEF Next, TryDequeue, Enqueue, Collector, ClearOld, vars, thread,
         collector, pool

\* Every step keeps a thread and its clients together.
LEMMA LocalStep == IInv /\ [Next]_vars => LocalInv'
  <1> SUFFICES ASSUME IInv, [Next]_vars PROVE LocalInv'
    OBVIOUS
  <1> USE NoClientAssumption DEF IInv, TypeOK, LocalInv, Holding
  <1>1. ASSUME NEW t \in Thread, Select(t)
        PROVE  LocalInv'
    BY <1>1 DEF Select, Goto, collector, pool
  <1>2. ASSUME NEW t \in Thread, First(t)
        PROVE  LocalInv'
    BY <1>2 DEF First, Goto, Hold, collector
  <1>3. ASSUME NEW t \in Thread, Second(t)
        PROVE  LocalInv'
    BY <1>3 DEF Second, Goto, Hold, Unused, Held, collector, Other, Halves
  <1>4. ASSUME NEW t \in Thread, Busy(t)
        PROVE  LocalInv'
    BY <1>4 DEF Busy, Goto, collector, pool
  <1>5. ASSUME NEW t \in Thread, Another(t)
        PROVE  LocalInv'
    BY <1>5 DEF Another, Goto, collector
  <1>6. ASSUME NEW t \in Thread, Swap(t)
        PROVE  LocalInv'
    BY <1>6 DEF Swap, Goto, Hold, PutBack, Loser, collector
  <1>7. ASSUME NEW t \in Thread, Uncount(t)
        PROVE  LocalInv'
    BY <1>7 DEF Uncount, Goto, Forget, collector
  <1>8. ASSUME NEW t \in Thread, Use(t)
        PROVE  LocalInv'
    BY <1>8 DEF Use, Goto, Hold, collector
  <1>9. ASSUME NEW t \in Thread, Count(t)
        PROVE  LocalInv'
    BY <1>9 DEF Count, Goto, collector
  <1>10. ASSUME NEW t \in Thread, Push(t)
        PROVE  LocalInv'
    BY <1>10 DEF Push, Goto, Hold, collector
  <1>11. ASSUME NEW t \in Thread, Undo(t)
        PROVE  LocalInv'
    BY <1>11 DEF Undo, Goto, Hold, Forget, TakeBack, collector
  <1>12. ASSUME NEW t \in Thread, Start(t)
        PROVE  LocalInv'
    <2>1. /\ UNCHANGED <<cli, cli2, kept, taken, cleared, lost, fails>>
          /\ pc[t] = "start" /\ pc' = [pc EXCEPT ![t] = "idle"]
      BY <1>12 DEF Start, Goto, Forget
    <2>2. \/ UNCHANGED <<started, cpc>>
          \/ ~started /\ started' = TRUE /\ cpc' = "reselect"
      BY <1>12 DEF Start, Goto, Forget
    <2>3. QED
      BY <2>1, <2>2
  <1>13. CASE Reselect
    BY <1>13 DEF Reselect, Flipped, thread
  <1>14. CASE Wake
    BY <1>14 DEF Wake, thread, pool
  <1>15. CASE ClearBegin
    BY <1>15 DEF ClearBegin, OldHalf, thread, pool
  <1>16. ASSUME NEW k \in Client, Take(k)
        PROVE  LocalInv'
    BY <1>16 DEF Take, thread
  <1>17. CASE TakeEnd
    BY <1>17 DEF TakeEnd, thread, pool
  <1>18. ASSUME NEW k \in Client, Back(k)
        PROVE  LocalInv'
    BY <1>18 DEF Back, PutBack, thread
  <1>19. CASE Subtract
    BY <1>19 DEF Subtract, AllCleared, thread
  <1>20. CASE UNCHANGED <<pc, cli, cli2, cpc, kept, taken, cleared, lost,
                          fails, started>>
    BY <1>20
  <1>21. QED
    BY <1>1, <1>2, <1>3, <1>4, <1>5, <1>6, <1>7, <1>8, <1>9, <1>10, <1>11,
       <1>12, <1>13, <1>14, <1>15, <1>16, <1>17, <1>18, <1>19, <1>20
    DEF Next, TryDequeue, Enqueue, Collector, ClearOld, vars, Respond, Destroy,
         thread, collector, pool

\* No step puts a client into two places.
LEMMA PlaceStep == IInv /\ [Next]_vars => PlaceInv'
  <1> SUFFICES ASSUME IInv, [Next]_vars PROVE PlaceInv'
    OBVIOUS
  <1> USE NoClientAssumption DEF IInv, TypeOK, LocalInv, PlaceInv, Holding,
       Halves, Other
  <1>1. ASSUME NEW t \in Thread, First(t)
        PROVE  PlaceInv'
    BY <1>1 DEF First, Goto, Hold, TakeFrom, collector
  <1>2. ASSUME NEW t \in Thread, Second(t)
        PROVE  PlaceInv'
    BY <1>2 DEF Second, Goto, Hold, TakeFrom, Unused, Held, collector
  <1>3. ASSUME NEW t \in Thread, Another(t)
        PROVE  PlaceInv'
    BY <1>3 DEF Another, Goto, TakeFrom, collector
  <1>4. ASSUME NEW t \in Thread, Swap(t)
        PROVE  PlaceInv'
    BY <1>4 DEF Swap, Goto, Hold, PutBack, Loser, AddTo, collector
  <1>5. ASSUME NEW t \in Thread, Use(t)
        PROVE  PlaceInv'
    BY <1>5 DEF Use, Goto, Hold, collector
  <1>6. ASSUME NEW t \in Thread, Push(t)
        PROVE  PlaceInv'
    BY <1>6 DEF Push, Goto, Hold, AddTo, collector
  <1>7. ASSUME NEW t \in Thread, Undo(t)
        PROVE  PlaceInv'
    BY <1>7 DEF Undo, Goto, Hold, Forget, TakeBack, collector
  <1>8. ASSUME NEW k \in Client, Take(k)
        PROVE  PlaceInv'
    BY <1>8 DEF Take, TakeFrom, thread
  <1>9. ASSUME NEW k \in Client, Back(k)
        PROVE  PlaceInv'
    BY <1>9 DEF Back, PutBack, AddTo, thread
  <1>10. CASE Destroy
    BY <1>10 DEF Destroy, thread, collector
  <1>11. CASE UNCHANGED <<q, cli, cli2, kept>>
    BY <1>11
  <1>12. QED
    BY <1>1, <1>2, <1>3, <1>4, <1>5, <1>6, <1>7, <1>8, <1>9, <1>10, <1>11
    DEF Next, TryDequeue, Enqueue, Collector, ClearOld, vars, Select, Busy,
         Uncount, Count, Start, Respond, Reselect, Wake, ClearBegin, TakeEnd,
         Subtract, thread, collector, pool

\* No step brings a fresh client within reach of clear_old().
LEMMA FreshStep == IInv /\ [Next]_vars => FreshInv'
  <1> SUFFICES ASSUME IInv, [Next]_vars PROVE FreshInv'
    OBVIOUS
  <1> USE NoClientAssumption DEF IInv, TypeOK, LocalInv, PlaceInv, FreshInv,
       Holding, Halves, Other
  <1>1. ASSUME NEW t \in Thread, Select(t)
        PROVE  FreshInv'
    BY <1>1 DEF Select, Goto, collector, pool
  <1>2. ASSUME NEW t \in Thread, First(t)
        PROVE  FreshInv'
    BY <1>2 DEF First, Goto, Hold, TakeFrom, collector
  <1>3. ASSUME NEW t \in Thread, Second(t)
        PROVE  FreshInv'
    BY <1>3 DEF Second, Goto, Hold, TakeFrom, Unused, Held, collector
  <1>4. ASSUME NEW t \in Thread, Busy(t)
        PROVE  FreshInv'
    BY <1>4 DEF Busy, Goto, collector, pool
  <1>5. ASSUME NEW t \in Thread, Another(t)
        PROVE  FreshInv'
    BY <1>5 DEF Another, Goto, TakeFrom, collector
  <1>6. ASSUME NEW t \in Thread, Swap(t)
        PROVE  FreshInv'
    BY <1>6 DEF Swap, Goto, Hold, PutBack, Loser, AddTo, collector
  <1>7. ASSUME NEW t \in Thread, Uncount(t)
        PROVE  FreshInv'
    BY <1>7 DEF Uncount, Goto, Forget, collector
  <1>8. ASSUME NEW t \in Thread, Use(t)
        PROVE  FreshInv'
    BY <1>8 DEF Use, Goto, Hold, collector
  <1>9. ASSUME NEW t \in Thread, Count(t)
        PROVE  FreshInv'
    BY <1>9 DEF Count, Goto, collector
  <1>10. ASSUME NEW t \in Thread, Push(t)
        PROVE  FreshInv'
    BY <1>10 DEF Push, Goto, Hold, AddTo, collector
  <1>11. ASSUME NEW t \in Thread, Undo(t)
        PROVE  FreshInv'
    BY <1>11 DEF Undo, Goto, Hold, Forget, TakeBack, collector
  <1>12. ASSUME NEW t \in Thread, Start(t)
        PROVE  FreshInv'
    BY <1>12 DEF Start, Goto, Forget
  <1>13. CASE Reselect
    BY <1>13 DEF Reselect, Flipped, thread
  <1>14. CASE Wake
    BY <1>14 DEF Wake, thread, pool
  <1>15. CASE ClearBegin
    BY <1>15 DEF ClearBegin, OldHalf, thread, pool
  <1>16. ASSUME NEW k \in Client, Take(k)
        PROVE  FreshInv'
    BY <1>16 DEF Take, TakeFrom, thread
  <1>17. CASE TakeEnd
    BY <1>17 DEF TakeEnd, thread, pool
  <1>18. ASSUME NEW k \in Client, Back(k)
        PROVE  FreshInv'
    BY <1>18 DEF Back, PutBack, AddTo, thread
  <1>19. CASE Subtract
    BY <1>19 DEF Subtract, AllCleared, thread
  <1>20. CASE Destroy
    BY <1>20 DEF Destroy, thread, collector
  <1>21. CASE UNCHANGED <<q, sel, fresh, idx, pc, cli, cli2, kept, cpc, old>>
    BY <1>21
  <1>22. QED
    BY <1>1, <1>2, <1>3, <1>4, <1>5, <1>6, <1>7, <1>8, <1>9, <1>10, <1>11,
       <1>12, <1>13, <1>14, <1>15, <1>16, <1>17, <1>18, <1>19, <1>20, <1>21
    DEF Next, TryDequeue, Enqueue, Collector, ClearOld, vars, Respond, thread,
         collector, pool

\* The inductive invariant of the queue.
LEMMA Invariant == Spec => []IInv
  <1>1. Init => IInv
    <2> SUFFICES ASSUME Init PROVE IInv
      OBVIOUS
    <2>1. /\ 0 \in 0..SizeSpace - 1 /\ 0 \in 0..MaxPending /\ 0 \in 0..MaxFail
          /\ 0 \in 0..MaxClear /\ 0 \in Halves
      BY ConstantsAssumption DEF Halves
    <2>2. TypeOK
      <3>1. /\ q \in [Halves -> SUBSET Client]
            /\ size \in [Halves -> 0..SizeSpace - 1]
            /\ pending \in [Client -> 0..MaxPending]
            /\ cnt \in [Thread -> 0..SizeSpace - 1]
        BY <2>1 DEF Init
      <3>2. QED
        BY <2>1, <3>1 DEF Init, TypeOK
    <2>3. LocalInv
      BY NoClientAssumption DEF Init, LocalInv, Holding
    <2>4. PlaceInv /\ FreshInv
      BY NoClientAssumption DEF Init, PlaceInv, FreshInv, Halves, Other
    <2>5. QED
      BY <2>2, <2>3, <2>4 DEF IInv
  <1>2. IInv /\ [Next]_vars => IInv'
    BY TypeStep, LocalStep, PlaceStep, FreshStep DEF IInv
  <1>3. QED
    BY <1>1, <1>2, PTL DEF Spec

\* Every variable of the queue keeps its type: the counters stay in size_t
\* although each of them is taken below zero.
THEOREM TypeCorrect == Spec => []TypeOK
  BY Invariant, PTL DEF IInv

\* A client whose return began after the last reselect() is never in the half
\* that clear_old() empties, whichever index its thread read and when.
THEOREM FreshOutOfReach == Spec => []FreshSurvives
  <1>1. IInv => FreshSurvives
    BY DEF IInv, FreshInv, FreshSurvives
  <1>2. QED
    BY <1>1, Invariant, PTL

---------------------------------------------------------------------------
(* The start of the collector.                                             *)

\* As long as there is no collector only one half is used; either nobody has
\* counted a client yet, or somebody who counted to one has not come to start
\* the collector.
Starter == \E t \in Thread : pc[t] \in {"push", "start"} /\ cnt[t] = 1
Untouched ==
    /\ size[0] = 0 /\ q[0] = {}
    /\ \A t \in Thread : pc[t] \in {"idle", "first", "second", "use", "count"}
OneHalf == sel = 0 /\ q[1] = {} /\ \A t \in Thread : idx[t] = 0
Waiting == ~started /\ ~destroyed /\ fails = 0
StartInv == Waiting => OneHalf /\ (Starter \/ Untouched)

\* Without a collector the halves are not exchanged.
LEMMA OneHalfStep ==
  ASSUME IInv, StartInv, Next, Waiting' PROVE Waiting /\ OneHalf'
  <1> USE DEF IInv, TypeOK, LocalInv, StartInv, Waiting, OneHalf, Halves, Other
  <1>1. ASSUME NEW t \in Thread, TryDequeue(t) \/ Use(t) \/ Enqueue(t)
        PROVE  Waiting /\ OneHalf'
    <2>1. CASE Select(t) \/ First(t) \/ Second(t)
      BY <2>1 DEF Select, First, Second, pool, TakeFrom
    <2>2. CASE Busy(t) \/ Another(t) \/ Uncount(t)
      BY <2>2 DEF Busy, Another, Uncount, pool, TakeFrom, Forget
    <2>3. CASE Swap(t)
      BY <2>3 DEF Swap, PutBack, AddTo
    <2>4. CASE Use(t) \/ Count(t)
      BY <2>4 DEF Use, Count
    <2>5. CASE Push(t)
      BY <2>5 DEF Push, AddTo
    <2>6. CASE Undo(t) \/ Start(t)
      BY <2>6 DEF Undo, Start, Forget
    <2>7. QED
      BY <1>1, <2>1, <2>2, <2>3, <2>4, <2>5, <2>6, Zenon DEF TryDequeue, Enqueue
  <1>2. CASE \E k \in Client : Respond(k)
    BY <1>2 DEF Respond, thread
  <1>3. ASSUME Collector PROVE FALSE
    <2>1. started' = started
      BY <1>3, Zenon DEF Collector, ClearOld, Reselect, Wake, ClearBegin,
                         TakeEnd, Subtract, Take, Back, pool
    <2>2. cpc = "off"
      BY <2>1
    <2>3. QED
      BY <1>3, <2>2 DEF Collector, ClearOld, Reselect, Wake, ClearBegin,
                        TakeEnd, Subtract, Take, Back
  <1>4. ~Destroy
    BY DEF Destroy
  <1>5. QED
    BY <1>1, <1>2, <1>3, <1>4, Zenon DEF Next

\* Who has counted to one starts the collector next; the first who counts
\* counts to one.
LEMMA StarterStep ==
  ASSUME SizeSpace > 1, IInv, StartInv, Next, Waiting'
  PROVE  Starter' \/ Untouched'
  <1>0. Waiting /\ OneHalf
    BY OneHalfStep DEF StartInv
  <1> USE DEF IInv, TypeOK, LocalInv, Waiting, OneHalf, Halves, Other
  <1>1. ASSUME NEW t \in Thread, TryDequeue(t) \/ Use(t) \/ Enqueue(t)
        PROVE  Starter' \/ Untouched'
    <2>1. CASE Starter
      <3>1. PICK u \in Thread : pc[u] \in {"push", "start"} /\ cnt[u] = 1
        BY <2>1 DEF Starter
      <3>2. CASE t # u
        <4>1. pc'[u] = pc[u] /\ cnt'[u] = cnt[u]
          BY <1>1, <3>2
          DEF TryDequeue, Select, First, Second, Busy, Another, Swap, Uncount,
              Use, Enqueue, Count, Push, Undo, Start, Goto, Forget
        <4>2. QED
          BY <3>1, <4>1 DEF Starter
      <3>3. CASE t = u
        <4>1. Push(t) \/ Start(t)
          BY <1>1, <3>1, <3>3
          DEF TryDequeue, Select, First, Second, Busy, Another, Swap, Uncount,
              Use, Enqueue, Count, Undo
        <4>2. ~Start(t)
          BY <1>0, <3>1, <3>3 DEF Start, CountedToOne
        <4>3. pc'[u] = "start" /\ cnt'[u] = cnt[u]
          BY <1>0, <3>3, <4>1, <4>2 DEF Push, Goto
        <4>4. QED
          BY <3>1, <4>3 DEF Starter
      <3>4. QED
        BY <3>2, <3>3
    <2>2. CASE Untouched
      <3>1. CASE Select(t) \/ First(t) \/ Second(t) \/ Use(t)
        BY <1>0, <2>2, <3>1
        DEF Select, First, Second, Use, Goto, pool, Untouched, TakeFrom
      <3>2. CASE Count(t)
        <4>1. (0 + 1) % SizeSpace = 1
          BY ConstantsAssumption
        <4>2. size'[0] = 1
          BY <1>0, <2>2, <3>2, <4>1 DEF Count, Add, Untouched
        <4>3. pc'[t] = "push" /\ cnt'[t] = 1
          BY <1>0, <3>2, <4>2 DEF Count, Goto
        <4>4. QED
          BY <4>3 DEF Starter
      <3>3. QED
        BY <1>1, <2>2, <3>1, <3>2
        DEF Untouched, TryDequeue, Enqueue, Busy, Another, Swap, Uncount, Push,
            Undo, Start
    <2>3. QED
      BY <1>0, <2>1, <2>2 DEF StartInv
  <1>2. CASE \E k \in Client : Respond(k)
    BY <1>0, <1>2 DEF Respond, thread, StartInv, Starter, Untouched
  <1>3. ASSUME Collector PROVE FALSE
    BY <1>0, <1>3 DEF Collector, ClearOld, Reselect, Wake, ClearBegin,
                      TakeEnd, Subtract, Take, Back
  <1>4. ~Destroy
    BY DEF Destroy
  <1>5. QED
    BY <1>1, <1>2, <1>3, <1>4, Zenon DEF Next

\* For any number of threads and clients, a queue with clients in it has a
\* collector, or a thread that counted to one and is about to start it, unless
\* an allocation has failed; size_t has more than one value.
THEOREM CollectorNotMissed ==
  ASSUME SizeSpace > 1
  PROVE  Spec => []CollectorStarted
  <1>1. Init => StartInv
    BY DEF Init, StartInv, OneHalf, Untouched, Halves
  <1>2. IInv /\ StartInv /\ [Next]_vars => StartInv'
    <2> SUFFICES ASSUME IInv, StartInv, [Next]_vars, Waiting'
                 PROVE  OneHalf' /\ (Starter' \/ Untouched')
      BY DEF StartInv
    <2>1. CASE Next
      BY <2>1, OneHalfStep, StarterStep
    <2>2. CASE UNCHANGED vars
      BY <2>2 DEF vars, pool, thread, collector, StartInv, Waiting, OneHalf,
                  Starter, Untouched
    <2>3. QED
      BY <2>1, <2>2
  <1>3. StartInv => CollectorStarted
    BY DEF StartInv, Waiting, OneHalf, Starter, Untouched, CollectorStarted
  <1>4. QED
    BY <1>1, <1>2, <1>3, Invariant, PTL DEF Spec

---------------------------------------------------------------------------
(* The counters.  First arithmetic modulo the size of size_t. *)

\* Every number is its quotient times S plus its remainder.
LEMMA Remainder ==
  ASSUME NEW S \in Nat \ {0}, NEW a \in Int
  PROVE  a % S \in 0..S - 1 /\ \E k \in Int : a = k * S + (a % S)
  <1>1. a = (a \div S) * S + (a % S)
    BY Z3
  <1>2. a \div S \in Int /\ a % S \in 0..S - 1
    OBVIOUS
  <1>3. QED
    BY <1>1, <1>2

\* The remainder is unique.
LEMMA RemainderUnique ==
  ASSUME NEW S \in Nat \ {0}, NEW m \in Int, NEW n \in Int,
         NEW r \in 0..S - 1, NEW s \in 0..S - 1, m * S + r = n * S + s
  PROVE  r = s
  <1>1. CASE m = n
    BY <1>1
  <1>2. CASE m < n
    <2>1. (n - m) * S >= S
      BY <1>2
    <2>2. (n - m) * S = n * S - m * S
      OBVIOUS
    <2>3. QED
      BY <2>1, <2>2
  <1>3. CASE n < m
    <2>1. (m - n) * S >= S
      BY <1>3
    <2>2. (m - n) * S = m * S - n * S
      OBVIOUS
    <2>3. QED
      BY <2>1, <2>2
  <1>4. QED
    BY <1>1, <1>2, <1>3

\* Numbers that agree modulo S still agree when the same is added to both.
LEMMA ModAdd ==
  ASSUME NEW S \in Nat \ {0}, NEW a \in Int, NEW b \in Int, NEW n \in Int,
         a % S = b % S
  PROVE  (a + n) % S = (b + n) % S
  <1> DEFINE r == (a + n) % S
             s == (b + n) % S
  <1>1. PICK k \in Int : a = k * S + (a % S)
    BY Remainder
  <1>2. PICK l \in Int : b = l * S + (b % S)
    BY Remainder
  <1>3. r \in 0..S - 1 /\ \E i \in Int : a + n = i * S + r
    <2>1. a + n \in Int
      OBVIOUS
    <2>2. QED
      BY <2>1, Remainder
  <1>4. s \in 0..S - 1 /\ \E j \in Int : b + n = j * S + s
    <2>1. b + n \in Int
      OBVIOUS
    <2>2. QED
      BY <2>1, Remainder
  <1>5. a % S \in Int
    BY Remainder
  <1> HIDE DEF r, s
  <1>6. PICK i \in Int : a + n = i * S + r
    BY <1>3
  <1>7. PICK j \in Int : b + n = j * S + s
    BY <1>4
  <1>8. (i - k) * S + r = (j - l) * S + s
    <2>1. (i - k) * S = i * S - k * S /\ (j - l) * S = j * S - l * S
      OBVIOUS
    <2>2. i * S \in Int /\ j * S \in Int /\ k * S \in Int /\ l * S \in Int
      OBVIOUS
    <2>3. QED
      BY <1>1, <1>2, <1>3, <1>4, <1>5, <1>6, <1>7, <2>1, <2>2
  <1>9. i - k \in Int /\ j - l \in Int
    OBVIOUS
  <1>10. r = s
    BY <1>3, <1>4, <1>8, <1>9, RemainderUnique
  <1>11. QED
    BY <1>10 DEF r, s

---------------------------------------------------------------------------
(* What size() adds up to. *)

SizeSum == size[0] + size[1]

\* The labels at which a thread holds a client that stays counted.
Counted == {"busy", "another", "swap", "uncount", "push", "undo"}
At(A) == {t \in Thread : pc[t] \in A}

Queued == Cardinality(q[0]) + Cardinality(q[1])
Hands == Cardinality(At(Counted))
Swaps == Cardinality(At({"swap"}))
Aside == Cardinality(kept)
Total == Queued + Hands + Swaps + Aside + cleared + lost

\* The free clients, and those in transit, are finitely many.
LEMMA TotalTyped ==
  ASSUME IsFiniteSet(Thread), IsFiniteSet(Client), TypeOK
  PROVE  /\ IsFiniteSet(q[0]) /\ IsFiniteSet(q[1]) /\ IsFiniteSet(kept)
         /\ Cardinality(q[0]) \in Nat /\ Cardinality(q[1]) \in Nat
         /\ Queued \in Nat /\ Hands \in Nat /\ Swaps \in Nat /\ Aside \in Nat
         /\ cleared \in Nat /\ lost \in Nat /\ SizeSum \in Nat
  <1>1. q[0] \in SUBSET Client /\ q[1] \in SUBSET Client
    BY DEF TypeOK, Halves
  <1>2. IsFiniteSet(q[0]) /\ IsFiniteSet(q[1]) /\ IsFiniteSet(kept)
    BY <1>1, FS_Subset DEF TypeOK
  <1>3. IsFiniteSet(At(Counted)) /\ IsFiniteSet(At({"swap"}))
    BY FS_Subset DEF At
  <1>4. /\ Cardinality(q[0]) \in Nat /\ Cardinality(q[1]) \in Nat
        /\ Hands \in Nat /\ Swaps \in Nat /\ Aside \in Nat
    BY <1>2, <1>3, FS_CardinalityType DEF Hands, Swaps, Aside
  <1>5. cleared \in Nat /\ lost \in Nat /\ size[0] \in Nat /\ size[1] \in Nat
    BY ConstantsAssumption DEF TypeOK, Halves
  <1>6. QED
    BY <1>2, <1>4, <1>5 DEF Queued, SizeSum

\* A thread that goes to another label.
LEMMA LabelMoves ==
  ASSUME IsFiniteSet(Thread), TypeOK, NEW A, NEW t \in Thread, NEW l,
         Goto(t, l)
  PROVE  /\ Cardinality(At(A)) \in Nat
         /\ Cardinality(At(A)') = Cardinality(At(A))
              + (IF l \in A THEN 1 ELSE 0) - (IF pc[t] \in A THEN 1 ELSE 0)
  <1>1. IsFiniteSet(At(A)) /\ IsFiniteSet(At(A) \ {t})
    BY FS_Subset DEF At
  <1>2. Cardinality(At(A)) \in Nat /\ Cardinality(At(A) \ {t}) \in Nat
    BY <1>1, FS_CardinalityType
  <1>3. At(A)' = IF l \in A THEN (At(A) \ {t}) \cup {t} ELSE At(A) \ {t}
    BY DEF At, Goto, TypeOK
  <1>4. Cardinality(At(A) \ {t})
          = IF t \in At(A) THEN Cardinality(At(A)) - 1 ELSE Cardinality(At(A))
    BY <1>1, FS_RemoveElement
  <1>5. Cardinality((At(A) \ {t}) \cup {t}) = Cardinality(At(A) \ {t}) + 1
    BY <1>1, FS_AddElement
  <1>6. t \in At(A) <=> pc[t] \in A
    BY DEF At
  <1>7. QED
    BY <1>2, <1>3, <1>4, <1>5, <1>6

\* What the move of a thread does to Hands and to Swaps.
LEMMA HandsMove ==
  ASSUME IsFiniteSet(Thread), TypeOK, NEW t \in Thread, NEW l, Goto(t, l)
  PROVE  /\ Hands' = Hands + (IF l \in Counted THEN 1 ELSE 0)
                           - (IF pc[t] \in Counted THEN 1 ELSE 0)
         /\ Swaps' = Swaps + (IF l = "swap" THEN 1 ELSE 0)
                           - (IF pc[t] = "swap" THEN 1 ELSE 0)
  <1>1. Hands' = Hands + (IF l \in Counted THEN 1 ELSE 0)
                       - (IF pc[t] \in Counted THEN 1 ELSE 0)
    <2>1. Cardinality(At(Counted)') = Cardinality(At(Counted))
            + (IF l \in Counted THEN 1 ELSE 0)
            - (IF pc[t] \in Counted THEN 1 ELSE 0)
      BY LabelMoves
    <2>2. QED
      BY <2>1 DEF Hands
  <1>2. Cardinality(At({"swap"})') = Cardinality(At({"swap"}))
          + (IF l \in {"swap"} THEN 1 ELSE 0)
          - (IF pc[t] \in {"swap"} THEN 1 ELSE 0)
    BY LabelMoves
  <1>3. QED
    BY <1>1, <1>2 DEF Swaps

\* A client leaves a half, or enters one.
LEMMA QueuedMoves ==
  ASSUME IsFiniteSet(Thread), IsFiniteSet(Client), TypeOK,
         NEW h \in Halves, NEW k \in Client
  PROVE  /\ k \in q[h] /\ TakeFrom(h, k) => Queued' = Queued - 1
         /\ k \notin q[h] /\ AddTo(h, k) => Queued' = Queued + 1
  <1>1. /\ IsFiniteSet(q[h]) /\ Cardinality(q[0]) \in Nat
        /\ Cardinality(q[1]) \in Nat
    BY TotalTyped DEF Halves
  <1>2. ASSUME k \in q[h], TakeFrom(h, k)
        PROVE  Queued' = Queued - 1
    <2>1. Cardinality(q[h] \ {k}) = Cardinality(q[h]) - 1
      BY <1>1, <1>2, FS_RemoveElement
    <2>2. q'[h] = q[h] \ {k} /\ \A g \in Halves : g # h => q'[g] = q[g]
      BY <1>2 DEF TakeFrom, TypeOK
    <2>3. CASE h = 0
      <3>1. q'[1] = q[1] /\ Cardinality(q'[0]) = Cardinality(q[0]) - 1
        BY <2>1, <2>2, <2>3 DEF Halves
      <3>2. QED
        BY <1>1, <3>1 DEF Queued
    <2>4. CASE h = 1
      <3>1. q'[0] = q[0] /\ Cardinality(q'[1]) = Cardinality(q[1]) - 1
        BY <2>1, <2>2, <2>4 DEF Halves
      <3>2. QED
        BY <1>1, <3>1 DEF Queued
    <2>5. QED
      BY <2>3, <2>4 DEF Halves
  <1>3. ASSUME k \notin q[h], AddTo(h, k)
        PROVE  Queued' = Queued + 1
    <2>1. Cardinality(q[h] \cup {k}) = Cardinality(q[h]) + 1
      BY <1>1, <1>3, FS_AddElement
    <2>2. q'[h] = q[h] \cup {k} /\ \A g \in Halves : g # h => q'[g] = q[g]
      BY <1>3 DEF AddTo, TypeOK
    <2>3. CASE h = 0
      <3>1. q'[1] = q[1] /\ Cardinality(q'[0]) = Cardinality(q[0]) + 1
        BY <2>1, <2>2, <2>3 DEF Halves
      <3>2. QED
        BY <1>1, <3>1 DEF Queued
    <2>4. CASE h = 1
      <3>1. q'[0] = q[0]
        BY <2>2, <2>4 DEF Halves
      <3>2. Cardinality(q'[1]) = Cardinality(q[1]) + 1
        BY <2>1, <2>2, <2>4, Zenon
      <3>3. QED
        BY <1>1, <3>1, <3>2 DEF Queued
    <2>5. QED
      BY <2>3, <2>4 DEF Halves
  <1>4. QED
    BY <1>2, <1>3

\* A counter that is changed by n changes size() by n, modulo the size of
\* size_t, whichever of the two it is.
LEMMA SizeMoves ==
  ASSUME TypeOK, NEW h \in Halves, NEW n \in Int, Add(h, n)
  PROVE  SizeSum' % SizeSpace = (SizeSum + n) % SizeSpace
  <1> DEFINE x == size[h]
             y == size[Other(h)]
             r == (x + n) % SizeSpace
  <1>1. /\ x \in Int /\ y \in Int /\ SizeSpace \in Nat \ {0}
        /\ Other(h) \in Halves /\ Other(h) # h /\ x + n \in Int
    BY ConstantsAssumption DEF TypeOK, Halves, Other
  <1>2. r \in 0..SizeSpace - 1 /\ r \in Int
    <2> HIDE DEF x, y
    <2>1. (x + n) % SizeSpace \in 0..SizeSpace - 1
      BY <1>1
    <2>2. QED
      BY <1>1, <2>1
  <1>3. size'[h] = r /\ size'[Other(h)] = y
    BY <1>1 DEF Add, TypeOK
  <1>4. SizeSum' = r + y /\ SizeSum + n = (x + n) + y
    BY <1>1, <1>2, <1>3 DEF SizeSum, Halves, Other
  <1>5. r % SizeSpace = (x + n) % SizeSpace
    <2> HIDE DEF r
    <2>1. r % SizeSpace = r
      BY <1>1, <1>2
    <2>2. QED
      BY <2>1 DEF r
  <1> HIDE DEF r, x, y
  <1>6. (r + y) % SizeSpace = ((x + n) + y) % SizeSpace
    BY <1>1, <1>2, <1>5, ModAdd
  <1>7. QED
    BY <1>4, <1>6

\* Both sides change by the same number: they still agree.
LEMMA BothMove ==
  ASSUME SizeSum \in Int, Total \in Int, NEW n \in Int,
         SizeSum % SizeSpace = Total % SizeSpace,
         SizeSum' % SizeSpace = (SizeSum + n) % SizeSpace,
         Total' = Total + n
  PROVE  SizeSum' % SizeSpace = Total' % SizeSpace
  <1>1. SizeSpace \in Nat \ {0}
    BY ConstantsAssumption
  <1>2. (SizeSum + n) % SizeSpace = (Total + n) % SizeSpace
    BY <1>1, ModAdd
  <1>3. QED
    BY <1>2

\* Every step changes both sides alike.
LEMMA CountStep ==
  ASSUME IsFiniteSet(Thread), IsFiniteSet(Client), IInv, ~destroyed,
         SizeSum % SizeSpace = Total % SizeSpace, Next, TypeOK'
  PROVE  destroyed' \/ SizeSum' % SizeSpace = Total' % SizeSpace
  <1> DEFINE Agree == SizeSum' % SizeSpace = Total' % SizeSpace
  <1>1. /\ TypeOK /\ Queued \in Nat /\ Hands \in Nat /\ Swaps \in Nat
        /\ Aside \in Nat /\ cleared \in Nat /\ lost \in Nat
        /\ SizeSum \in Int /\ Total \in Int
    BY TotalTyped DEF IInv, Total
  <1>2. ASSUME SizeSum' = SizeSum, Total' = Total
        PROVE  Agree
    BY <1>2
  <1>3. ASSUME NEW t \in Thread, Select(t)
        PROVE  Agree
    <2>1. Goto(t, "first") /\ pc[t] = "idle" /\ UNCHANGED <<pool, collector>>
      BY <1>3 DEF Select
    <2>2. Hands' = Hands /\ Swaps' = Swaps
      BY <1>1, <2>1, HandsMove DEF Counted
    <2>3. SizeSum' = SizeSum /\ Total' = Total
      BY <2>1, <2>2 DEF SizeSum, Total, Queued, Aside, pool, collector
    <2>4. QED
      BY <1>2, <2>3
  <1>4. ASSUME NEW t \in Thread, First(t)
        PROVE  Agree
    <2>1. /\ pc[t] = "first" /\ UNCHANGED <<size, lost, kept, cleared>>
          /\ idx[t] \in Halves /\ q[idx[t]] \subseteq Client
      BY <1>1, <1>4 DEF First, collector, TypeOK
    <2>2. CASE \E k \in q[idx[t]] : TakeFrom(idx[t], k) /\ Goto(t, "busy")
      <3>1. PICK k \in q[idx[t]] : TakeFrom(idx[t], k) /\ Goto(t, "busy")
        BY <2>2
      <3>2. Queued' = Queued - 1
        BY <1>1, <2>1, <3>1, QueuedMoves
      <3>3. Hands' = Hands + 1 /\ Swaps' = Swaps
        BY <1>1, <2>1, <3>1, HandsMove DEF Counted
      <3>4. QED
        BY <1>1, <1>2, <2>1, <3>2, <3>3 DEF SizeSum, Total, Aside
    <2>3. CASE Goto(t, "second") /\ q' = q
      <3>1. Hands' = Hands /\ Swaps' = Swaps
        BY <1>1, <2>1, <2>3, HandsMove DEF Counted
      <3>2. QED
        BY <1>2, <2>1, <2>3, <3>1 DEF SizeSum, Total, Queued, Aside
    <2>4. QED
      BY <1>4, <2>2, <2>3 DEF First
  <1>5. ASSUME NEW t \in Thread, Second(t)
        PROVE  Agree
    <2> DEFINE h == Other(idx[t])
    <2>1. /\ pc[t] = "second" /\ UNCHANGED <<size, lost, kept, cleared>>
          /\ h \in Halves /\ q[h] \subseteq Client
      BY <1>1, <1>5 DEF Second, collector, TypeOK, Halves, Other
    <2>2. CASE \E k \in q[h] : TakeFrom(h, k) /\ Goto(t, "busy")
      <3>1. PICK k \in q[h] : TakeFrom(h, k) /\ Goto(t, "busy")
        BY <2>2
      <3>2. Queued' = Queued - 1
        BY <1>1, <2>1, <3>1, QueuedMoves
      <3>3. Hands' = Hands + 1 /\ Swaps' = Swaps
        BY <1>1, <2>1, <3>1, HandsMove DEF Counted
      <3>4. QED
        BY <1>1, <1>2, <2>1, <3>2, <3>3 DEF SizeSum, Total, Aside
    <2>3. CASE Goto(t, "use") /\ q' = q
      <3>1. Hands' = Hands /\ Swaps' = Swaps
        BY <1>1, <2>1, <2>3, HandsMove DEF Counted
      <3>2. QED
        BY <1>2, <2>1, <2>3, <3>1 DEF SizeSum, Total, Queued, Aside
    <2>4. QED
      BY <1>5, <2>2, <2>3 DEF Second
  <1>6. ASSUME NEW t \in Thread, Busy(t)
        PROVE  Agree
    <2>1. PICK l \in {"another", "uncount"} : Goto(t, l)
      BY <1>6 DEF Busy
    <2>2. pc[t] = "busy" /\ UNCHANGED <<size, q, lost, kept, cleared>>
      BY <1>6 DEF Busy, pool, collector
    <2>3. Hands' = Hands /\ Swaps' = Swaps
      BY <1>1, <2>1, <2>2, HandsMove DEF Counted
    <2>4. QED
      BY <1>2, <2>2, <2>3 DEF SizeSum, Total, Queued, Aside
  <1>7. ASSUME NEW t \in Thread, Another(t)
        PROVE  Agree
    <2>1. /\ pc[t] = "another" /\ UNCHANGED <<size, lost, kept, cleared>>
          /\ idx[t] \in Halves /\ q[idx[t]] \subseteq Client
      BY <1>1, <1>7 DEF Another, collector, TypeOK
    <2>2. CASE \E k \in q[idx[t]] : TakeFrom(idx[t], k) /\ Goto(t, "swap")
      <3>1. PICK k \in q[idx[t]] : TakeFrom(idx[t], k) /\ Goto(t, "swap")
        BY <2>2
      <3>2. Queued' = Queued - 1
        BY <1>1, <2>1, <3>1, QueuedMoves
      <3>3. Hands' = Hands /\ Swaps' = Swaps + 1
        BY <1>1, <2>1, <3>1, HandsMove DEF Counted
      <3>4. QED
        BY <1>1, <1>2, <2>1, <3>2, <3>3 DEF SizeSum, Total, Aside
    <2>3. CASE Goto(t, "uncount") /\ q' = q
      <3>1. Hands' = Hands /\ Swaps' = Swaps
        BY <1>1, <2>1, <2>3, HandsMove DEF Counted
      <3>2. QED
        BY <1>2, <2>1, <2>3, <3>1 DEF SizeSum, Total, Queued, Aside
    <2>4. QED
      BY <1>7, <2>2, <2>3 DEF Another
  <1>8. ASSUME NEW t \in Thread, Swap(t)
        PROVE  Agree
    <2>1. /\ pc[t] = "swap" /\ Goto(t, "uncount")
          /\ UNCHANGED <<size, kept, cleared>> /\ idx[t] \in Halves
          /\ PutBack(idx[t], Loser(t))
      BY <1>1, <1>8 DEF Swap, collector, TypeOK
    <2>2. Loser(t) \in Client /\ Loser(t) \notin q[idx[t]]
      BY <1>1, <2>1 DEF IInv, LocalInv, PlaceInv, Holding, Loser, Halves
    <2>3. Hands' = Hands /\ Swaps' = Swaps - 1
      BY <1>1, <2>1, HandsMove DEF Counted
    <2>4. CASE AddTo(idx[t], Loser(t)) /\ lost' = lost
      <3>1. Queued' = Queued + 1
        BY <1>1, <2>1, <2>2, <2>4, QueuedMoves
      <3>2. QED
        BY <1>1, <1>2, <2>1, <2>3, <2>4, <3>1 DEF SizeSum, Total, Aside
    <2>5. CASE q' = q /\ lost' = lost + 1
      BY <1>1, <1>2, <2>1, <2>3, <2>5 DEF SizeSum, Total, Queued, Aside
    <2>6. QED
      BY <2>1, <2>4, <2>5 DEF PutBack
  <1>9. ASSUME NEW t \in Thread, Uncount(t) \/ Undo(t)
        PROVE  Agree
    <2>1. /\ pc[t] \in {"uncount", "undo"} /\ idx[t] \in Halves
          /\ Add(idx[t], -1) /\ UNCHANGED <<q, lost, kept, cleared>>
      BY <1>1, <1>9 DEF Uncount, Undo, TakeBack, collector, TypeOK
    <2>2. PICK l \in {"use", "idle"} : Goto(t, l)
      BY <1>9 DEF Uncount, Undo
    <2>3. Hands' = Hands - 1 /\ Swaps' = Swaps
      BY <1>1, <2>1, <2>2, HandsMove DEF Counted
    <2>4. Total' = Total + (-1)
      BY <1>1, <2>1, <2>3 DEF Total, Queued, Aside
    <2>5. QED
      BY <1>1, <2>1, <2>4, SizeMoves, BothMove
  <1>10. ASSUME NEW t \in Thread, Use(t)
         PROVE  Agree
    <2>1. PICK l \in {"count", "idle"} : Goto(t, l)
      BY <1>10 DEF Use
    <2>2. pc[t] = "use" /\ UNCHANGED <<size, q, lost, kept, cleared>>
      BY <1>10 DEF Use, collector
    <2>3. Hands' = Hands /\ Swaps' = Swaps
      BY <1>1, <2>1, <2>2, HandsMove DEF Counted
    <2>4. QED
      BY <1>2, <2>2, <2>3 DEF SizeSum, Total, Queued, Aside
  <1>11. ASSUME NEW t \in Thread, Count(t)
         PROVE  Agree
    <2>1. /\ pc[t] = "count" /\ idx[t] \in Halves /\ Goto(t, "push")
          /\ Add(idx[t], 1) /\ UNCHANGED <<q, lost, kept, cleared>>
      BY <1>1, <1>11 DEF Count, collector, TypeOK
    <2>2. Hands' = Hands + 1 /\ Swaps' = Swaps
      BY <1>1, <2>1, HandsMove DEF Counted
    <2>3. Total' = Total + 1
      BY <1>1, <2>1, <2>2 DEF Total, Queued, Aside
    <2>4. QED
      BY <1>1, <2>1, <2>3, SizeMoves, BothMove
  <1>12. ASSUME NEW t \in Thread, Push(t)
         PROVE  Agree
    <2>1. /\ pc[t] = "push" /\ UNCHANGED <<size, lost, kept, cleared>>
          /\ idx[t] \in Halves /\ cli[t] \in Client /\ cli[t] \notin q[idx[t]]
      BY <1>1, <1>12 DEF Push, collector, TypeOK, IInv, LocalInv, PlaceInv,
                         Holding, Halves
    <2>2. CASE AddTo(idx[t], cli[t]) /\ Goto(t, "start")
      <3>1. Queued' = Queued + 1
        BY <1>1, <2>1, <2>2, QueuedMoves
      <3>2. Hands' = Hands - 1 /\ Swaps' = Swaps
        BY <1>1, <2>1, <2>2, HandsMove DEF Counted
      <3>3. QED
        BY <1>1, <1>2, <2>1, <3>1, <3>2 DEF SizeSum, Total, Aside
    <2>3. CASE Goto(t, "undo") /\ q' = q
      <3>1. Hands' = Hands /\ Swaps' = Swaps
        BY <1>1, <2>1, <2>3, HandsMove DEF Counted
      <3>2. QED
        BY <1>2, <2>1, <2>3, <3>1 DEF SizeSum, Total, Queued, Aside
    <2>4. QED
      BY <1>12, <2>2, <2>3 DEF Push
  <1>13. ASSUME NEW t \in Thread, Start(t)
         PROVE  Agree
    <2>1. /\ pc[t] = "start" /\ Goto(t, "idle")
          /\ UNCHANGED <<size, q, lost, kept, cleared>>
      BY <1>13 DEF Start
    <2>2. Hands' = Hands /\ Swaps' = Swaps
      BY <1>1, <2>1, HandsMove DEF Counted
    <2>3. QED
      BY <1>2, <2>1, <2>2 DEF SizeSum, Total, Queued, Aside
  <1>14. CASE UNCHANGED <<size, q, pc, lost, kept, cleared>>
    BY <1>2, <1>14 DEF SizeSum, Total, Queued, Hands, Swaps, Aside, At
  <1>15. ASSUME NEW k \in Client, Take(k)
         PROVE  Agree
    <2>1. /\ k \in q[old] /\ old \in Halves /\ TakeFrom(old, k)
          /\ k \notin kept /\ IsFiniteSet(kept)
          /\ UNCHANGED <<size, pc, lost>>
      BY <1>1, <1>15, TotalTyped DEF Take, thread, TypeOK, IInv, PlaceInv,
                                     Halves
    <2>2. Queued' = Queued - 1
      BY <1>1, <2>1, QueuedMoves
    <2>3. Hands' = Hands /\ Swaps' = Swaps
      BY <2>1 DEF Hands, Swaps, At
    <2>4. CASE kept' = kept \cup {k} /\ cleared' = cleared
      <3>1. Aside' = Aside + 1
        BY <2>1, <2>4, FS_AddElement DEF Aside
      <3>2. QED
        BY <1>1, <1>2, <2>1, <2>2, <2>3, <2>4, <3>1 DEF SizeSum, Total
    <2>5. CASE kept' = kept /\ cleared' = cleared + 1
      BY <1>1, <1>2, <2>1, <2>2, <2>3, <2>5 DEF SizeSum, Total, Aside
    <2>6. QED
      BY <1>15, <2>4, <2>5 DEF Take
  <1>16. ASSUME NEW k \in Client, Back(k)
         PROVE  Agree
    <2>1. /\ k \in kept /\ kept' = kept \ {k} /\ PutBack(old, k)
          /\ old \in Halves /\ k \notin q[old] /\ IsFiniteSet(kept)
          /\ UNCHANGED <<size, pc, cleared>>
      BY <1>1, <1>16, TotalTyped DEF Back, thread, TypeOK, IInv, PlaceInv,
                                     Halves
    <2>2. Aside' = Aside - 1
      BY <2>1, FS_RemoveElement DEF Aside
    <2>3. Hands' = Hands /\ Swaps' = Swaps
      BY <2>1 DEF Hands, Swaps, At
    <2>4. CASE AddTo(old, k) /\ lost' = lost
      <3>1. Queued' = Queued + 1
        BY <1>1, <2>1, <2>4, QueuedMoves
      <3>2. QED
        BY <1>1, <1>2, <2>1, <2>2, <2>3, <2>4, <3>1 DEF SizeSum, Total
    <2>5. CASE q' = q /\ lost' = lost + 1
      BY <1>1, <1>2, <2>1, <2>2, <2>3, <2>5 DEF SizeSum, Total, Queued
    <2>6. QED
      BY <2>1, <2>4, <2>5 DEF PutBack
  <1>17. CASE Subtract
    <2>1. /\ Add(sel, -cleared) /\ cleared' = 0 /\ sel \in Halves
          /\ UNCHANGED <<q, pc, lost, kept>>
      BY <1>1, <1>17 DEF Subtract, thread, TypeOK
    <2>2. -cleared \in Int /\ Total' = Total + (-cleared)
      BY <1>1, <2>1 DEF Total, Queued, Hands, Swaps, Aside, At
    <2>3. QED
      BY <1>1, <2>1, <2>2, SizeMoves, BothMove
  <1>18. CASE ClearBegin
    <2>1. /\ cleared = 0 /\ cleared' = 0
          /\ UNCHANGED <<size, q, pc, lost, kept>>
      BY <1>18 DEF ClearBegin, pool, thread, IInv, LocalInv
    <2>2. QED
      BY <1>14, <2>1
  <1>19. CASE destroyed'
    BY <1>19
  <1>20. QED
    BY <1>3, <1>4, <1>5, <1>6, <1>7, <1>8, <1>9, <1>10, <1>11, <1>12, <1>13,
       <1>14, <1>15, <1>16, <1>17, <1>18, <1>19
    DEF Next, TryDequeue, Enqueue, Collector, ClearOld, Respond, Reselect,
        Wake, TakeEnd, Destroy, pool, thread, collector

\* A pool that is gone does not come back.
LEMMA StaysDestroyed ==
  ASSUME [Next]_vars, destroyed
  PROVE  destroyed'
  <1>1. ASSUME NEW t \in Thread, TryDequeue(t)
        PROVE  destroyed' = destroyed
    BY <1>1, Zenon DEF TryDequeue, Select, First, Second, Busy, Another, Swap,
                       Uncount, pool
  <1>2. ASSUME NEW t \in Thread, Use(t) \/ Enqueue(t)
        PROVE  destroyed' = destroyed
    BY <1>2, Zenon DEF Use, Enqueue, Count, Push, Undo, Start
  <1>3. ASSUME Collector
        PROVE  destroyed' = destroyed
    BY <1>3, Zenon DEF Collector, ClearOld, Reselect, Wake, ClearBegin,
                       TakeEnd, Subtract, Take, Back, pool
  <1>4. QED
    BY <1>1, <1>2, <1>3, Zenon DEF Next, Respond, Destroy, vars, pool

\* For finitely many threads and clients, size() counts the free clients: it
\* is off only by the clients in transit and by those a failed allocation
\* lost, modulo the size of size_t, although clear_old() subtracts from the
\* counter of the other half.
THEOREM SizeIsExact ==
  ASSUME IsFiniteSet(Thread), IsFiniteSet(Client)
  PROVE  Spec => []SizeCounts
  <1> DEFINE Match == destroyed \/ SizeSum % SizeSpace = Total % SizeSpace
  <1>1. Init => Match
    <2> SUFFICES ASSUME Init PROVE SizeSum = 0 /\ Total = 0
      BY Zenon
    <2>1. q[0] = {} /\ q[1] = {} /\ kept = {} /\ cleared = 0 /\ lost = 0
          /\ size[0] = 0 /\ size[1] = 0
      BY DEF Init, Halves
    <2>2. At(Counted) = {} /\ At({"swap"}) = {}
      BY DEF Init, At, Counted
    <2>3. Queued = 0 /\ Hands = 0 /\ Swaps = 0 /\ Aside = 0
      BY <2>1, <2>2, FS_EmptySet DEF Queued, Hands, Swaps, Aside
    <2>4. QED
      BY <2>1, <2>3 DEF SizeSum, Total
  <1>2. IInv /\ IInv' /\ Match /\ [Next]_vars => Match'
    <2> SUFFICES ASSUME IInv, IInv', Match, [Next]_vars
                 PROVE  Match'
      OBVIOUS
    <2>1. CASE destroyed
      BY <2>1, StaysDestroyed
    <2>2. CASE UNCHANGED vars
      BY <2>2
      DEF vars, pool, thread, collector, SizeSum, Total, Queued, Hands, Swaps,
          Aside, At
    <2>3. CASE ~destroyed /\ Next
      BY <2>3, CountStep DEF IInv
    <2>4. QED
      BY <2>1, <2>2, <2>3
  <1>3. IInv /\ Match => SizeCounts
    <2> SUFFICES ASSUME IInv, SizeSum % SizeSpace = Total % SizeSpace
                 PROVE  SizeCounts
      BY DEF SizeCounts
    <2>1. Hands = Cardinality({t \in Thread :
                     pc[t] \in {"busy", "another", "swap", "uncount", "push",
                                "undo"}})
      BY DEF Hands, At, Counted
    <2>2. Swaps = Cardinality({t \in Thread : pc[t] = "swap"})
      <3>1. At({"swap"}) = {t \in Thread : pc[t] = "swap"}
        BY DEF At
      <3>2. QED
        BY <3>1 DEF Swaps
    <2>3. InTransit = Hands + Swaps + Aside + cleared
      BY <2>1, <2>2, Zenon DEF InTransit, Aside
    <2>4. /\ Queued \in Nat /\ Hands \in Nat /\ Swaps \in Nat
          /\ Aside \in Nat /\ cleared \in Nat /\ lost \in Nat
      BY TotalTyped DEF IInv
    <2>5. Total = Cardinality(q[0]) + Cardinality(q[1]) + InTransit + lost
      BY <2>3, <2>4 DEF Total, Queued
    <2>6. QED
      BY <2>5, Zenon DEF SizeCounts, SizeSum
  <1> HIDE DEF Match
  <1>4. QED
    BY <1>1, <1>2, <1>3, Invariant, PTL DEF Spec

=============================================================================
