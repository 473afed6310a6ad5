-------------------------- MODULE RpcServerProofs --------------------------
(***************************************************************************)
(* Theorems about module RpcServer, for any number of acceptors,           *)
(* io_contexts, connections and threads that call stop(): every variable   *)
(* keeps its type, the sweep of stop() forgets no connection, and the      *)
(* server keeps the promises of module ServerLifecycle.                    *)
(***************************************************************************)
EXTENDS RpcServer, TLAPS

(* The phases of stop(). *)
InStop(t) == tpc[t] \notin {"idle", "done"}
Closing == {"close", "direct", "load", "await"}
Draining == {"pool", "work", "unrun", "promise", "poll", "join"}
PastClose == {"sweep"} \cup Draining

\* The acceptor is closed, and no accept is pending or has come back with a
\* connection: this acceptor will never bring another one.
Shut(a) == ~open[a] /\ apc[a] \notin {"accepting", "got"}

\* start_mtx_: one thread at a time is inside stop(), and only while the
\* server is started.
LockInv ==
    /\ \A t \in Stopper : InStop(t) => flag = "started"
    /\ \A t, u \in Stopper : InStop(t) /\ InStop(u) => t = u
    /\ \A t \in Stopper : tpc[t] = "idle" => ta[t] = 1
    /\ \A t \in Stopper : tpc[t] \in Closing => ta[t] \in Acceptor
    /\ \A t \in Stopper : tpc[t] = "poll" => ta[t] \in 0..Contexts

\* How far the loop of start() over the acceptors has come.
StartInv ==
    /\ flag = "init" => spc = "idle"
    /\ spc \in {"idle", "refused"}
       => \A a \in Acceptor : ~accept_started[a] /\ ~open[a]
    /\ spc = "idle" => sa = 1
    /\ spc = "store" => \A a \in Acceptor : a >= sa => ~accept_started[a]
    /\ spc = "dispatch" => /\ accept_started[sa] /\ apc[sa] = "none"
                           /\ \A a \in Acceptor : a > sa => ~accept_started[a]
    /\ \A a \in Acceptor : ~accept_started[a] => apc[a] = "none"

\* acceptor_close_waiter_ is set by a loop that has ended, on a closed
\* acceptor.
WaiterInv ==
    \A a \in Acceptor : /\ apc[a] = "exited" => ~open[a]
                        /\ waiter[a] > 0 => apc[a] = "exited"

\* What stop() has closed stays closed, also for a start() that is still
\* beginning to accept.
CloseInv ==
    /\ \A t \in Stopper :
         tpc[t] = "load" /\ ~accept_started[ta[t]] => ~open[ta[t]]
    /\ \A t \in Stopper, a \in Acceptor :
         tpc[t] \in Closing /\ a < ta[t] => Shut(a)
    /\ \A t \in Stopper, a \in Acceptor : tpc[t] \in PastClose => Shut(a)
    /\ flag = "stop" \/ ~work => \A a \in Acceptor : Shut(a)

\* Every connection between its accept and its end is in one hand: that of
\* an accept loop, or that of conns_, or that of a queued async_close().
ConnInv ==
    /\ \A a \in Acceptor :
         apc[a] = "got" => got[a] \in Conn /\ cst[got[a]] = "accepted"
    /\ \A a, b \in Acceptor :
         apc[a] = "got" /\ apc[b] = "got" /\ got[a] = got[b] => a = b
    /\ \A k \in Conn :
         cst[k] = "accepted" => \E a \in Acceptor : apc[a] = "got" /\ got[a] = k
    /\ \A k \in Conn : cst[k] = "open" => k \in conns \cup closing
    /\ \A k \in closing : cst[k] \in {"open", "closed"}
    /\ \A t \in Stopper : tpc[t] \in Draining => conns = {}

\* An io_context that is over has no connection left, and gets none; the
\* io_contexts that stop() polls never had one.
PoolInv ==
    /\ flag = "init" => work /\ thd = "none" /\ ~has_run_or_stop
    /\ ~has_run_or_stop => /\ \A c \in Ctx : ctx[c] = "idle"
                           /\ \A k \in Conn : cst[k] # "open"
    /\ promise => thd = "over" /\ \A c \in Ctx : ctx[c] = "over"
    /\ \A c \in Ctx : ctx[c] = "over" =>
         /\ \A a \in Acceptor : Shut(a)
         /\ \A k \in Conn : kctx[k] = c => cst[k] # "open"
    /\ \A t \in Stopper : tpc[t] \in Draining \ {"pool"} => has_run_or_stop
    /\ \A t \in Stopper : tpc[t] \in {"unrun", "poll", "join"}
         => \A k \in Conn : cst[k] # "open"

IInv ==
    /\ TypeOK /\ LockInv /\ StartInv /\ WaiterInv /\ CloseInv /\ ConnInv
    /\ PoolInv

---------------------------------------------------------------------------
(* Each part of the invariant is preserved. *)

\* start_mtx_ is taken by one stop() at a time, and given back when the
\* server is stopped: no step lets a second thread in.
LEMMA LockStep == IInv /\ [Next]_vars => LockInv'
  <1> SUFFICES ASSUME IInv, [Next]_vars PROVE LockInv'
    OBVIOUS
  <1> USE ConstantsAssumption DEF IInv, LockInv, InStop, Closing, Acceptor,
       TypeOK
  <1>1. CASE AsyncStart
    BY <1>1 DEF AsyncStart, Locked, stopVars
  <1>2. ASSUME NEW t \in Stopper, StopBegin(t)
        PROVE  LockInv'
    <2>1. \A u \in Stopper : /\ tpc[u] \in {"idle", "done"}
                             /\ u # t => tpc'[u] = tpc[u]
                             /\ ta'[u] = ta[u]
      BY <1>2 DEF StopBegin, GotoStop, Locked
    <2>2. CASE tpc'[t] = "done"
      BY <2>1, <2>2
    <2>3. CASE tpc'[t] = "close" /\ ta'[t] = 1 /\ flag' = "started"
      BY <2>1, <2>3
    <2>4. QED
      BY <2>2, <2>3, <1>2 DEF StopBegin, GotoStop, Locked
  <1>3. ASSUME NEW t \in Stopper, CloseNow(t)
        PROVE  LockInv'
    <2>1. /\ flag' = flag
          /\ \A u \in Stopper : u # t => tpc'[u] = tpc[u] /\ ta'[u] = ta[u]
      BY <1>3 DEF CloseNow, GotoStop
    <2>2. tpc'[t] \in {"load", "direct"} /\ ta'[t] = ta[t] /\ ta[t] \in Acceptor
      BY <1>3 DEF CloseNow, GotoStop
    <2>3. \A u \in Stopper : InStop(u) => u = t
      BY <1>3 DEF CloseNow, GotoStop
    <2>4. QED
      BY <2>1, <2>2, <2>3, <1>3 DEF CloseNow, GotoStop
  <1>4. ASSUME NEW t \in Stopper, CloseDirect(t)
        PROVE  LockInv'
    BY <1>4 DEF CloseDirect, GotoStop
  <1>5. ASSUME NEW t \in Stopper, CloseWait(t)
        PROVE  LockInv'
    <2>1. /\ flag' = flag
          /\ \A u \in Stopper : u # t => tpc'[u] = tpc[u] /\ ta'[u] = ta[u]
      BY <1>5 DEF CloseWait, Awaits, GotoStop
    <2>2. \/ tpc'[t] \in Closing /\ ta'[t] \in Acceptor
          \/ tpc'[t] = "sweep"
      BY <1>5 DEF CloseWait, Awaits, GotoStop
    <2>3. \A u \in Stopper : InStop(u) => u = t
      BY <1>5 DEF CloseWait, Awaits, GotoStop
    <2>4. QED
      BY <2>1, <2>2, <2>3, <1>5 DEF CloseWait, Awaits, GotoStop
  <1>6. ASSUME NEW t \in Stopper, Sweep(t)
        PROVE  LockInv'
    BY <1>6 DEF Sweep, GotoStop
  <1>7. ASSUME NEW t \in Stopper, PoolStop(t)
        PROVE  LockInv'
    BY <1>7 DEF PoolStop, GotoStop
  <1>8. ASSUME NEW t \in Stopper, WorkClear(t)
        PROVE  LockInv'
    BY <1>8 DEF WorkClear, GotoStop
  <1>9. ASSUME NEW t \in Stopper, Poll(t)
        PROVE  LockInv'
    <2>1. /\ flag' = flag
          /\ \A u \in Stopper : u # t => tpc'[u] = tpc[u] /\ ta'[u] = ta[u]
      BY <1>9 DEF Poll, GotoStop
    <2>2. tpc'[t] = "join" \/ (tpc'[t] = "poll" /\ ta'[t] \in 0..Contexts)
      BY <1>9 DEF Poll, GotoStop
    <2>3. \A u \in Stopper : InStop(u) => u = t
      BY <1>9 DEF Poll, GotoStop
    <2>4. QED
      BY <2>1, <2>2, <2>3, <1>9 DEF Poll, GotoStop
  <1>10. ASSUME NEW t \in Stopper, StopEnd(t)
        PROVE  LockInv'
    <2>1. /\ flag' \in {flag, "stop"}
          /\ \A u \in Stopper : u # t => tpc'[u] = tpc[u] /\ ta'[u] = ta[u]
      BY <1>10 DEF StopEnd, GotoStop
    <2>2. (tpc'[t] = "join" /\ flag' = flag) \/ tpc'[t] = "done"
      BY <1>10 DEF StopEnd, GotoStop
    <2>3. \A u \in Stopper : InStop(u) => u = t
      BY <1>10 DEF StopEnd, GotoStop
    <2>4. QED
      BY <2>1, <2>2, <2>3, <1>10 DEF StopEnd, GotoStop
  <1>11. CASE UNCHANGED <<flag, tpc, ta>>
    BY <1>11
  <1>12. QED
    BY <1>1, <1>2, <1>3, <1>4, <1>5, <1>6, <1>7, <1>8, <1>9, <1>10, <1>11
    DEF Next, Start, Stop, Accept, vars, StoreStarted, Dispatch, StartReturn,
         Run, RunEnd, CtxOver, AcceptFirst, Register, Refuse, AcceptEnd,
         RunClose, Arrive, AsyncClose, ConnEnd, AcceptNext, stopVars

\* The loop of start() marks an acceptor as started before it dispatches its
\* accept loop, and takes the acceptors in order, whatever stop() does.
LEMMA StartStep == IInv /\ [Next]_vars => StartInv'
  <1> SUFFICES ASSUME IInv, [Next]_vars PROVE StartInv'
    OBVIOUS
  <1> USE ConstantsAssumption DEF IInv, StartInv, LockInv, InStop, Acceptor,
       TypeOK
  <1>1. CASE AsyncStart
    BY <1>1 DEF AsyncStart, Locked
  <1>2. CASE StoreStarted
    BY <1>2 DEF StoreStarted
  <1>3. CASE Dispatch
    BY <1>3 DEF Dispatch
  <1>4. CASE StartReturn
    BY <1>4 DEF StartReturn, accVars
  <1>5. ASSUME NEW t \in Stopper, StopBegin(t)
        PROVE  StartInv'
    BY <1>5 DEF StopBegin, GotoStop, Locked, startVars, accVars
  <1>6. ASSUME NEW t \in Stopper, CloseDirect(t)
        PROVE  StartInv'
    BY <1>6 DEF CloseDirect, GotoStop, startVars
  <1>7. ASSUME NEW t \in Stopper, StopEnd(t)
        PROVE  StartInv'
    BY <1>7 DEF StopEnd, GotoStop, startVars, accVars
  <1>8. ASSUME NEW a \in Acceptor, AcceptFirst(a)
        PROVE  StartInv'
    BY <1>8 DEF AcceptFirst, Runs, startVars
  <1>9. ASSUME NEW a \in Acceptor, Register(a)
        PROVE  StartInv'
    BY <1>9 DEF Register, AcceptNext, Runs, startVars
  <1>10. ASSUME NEW a \in Acceptor, Refuse(a)
        PROVE  StartInv'
    BY <1>10 DEF Refuse, AcceptNext, Runs, startVars
  <1>11. ASSUME NEW a \in Acceptor, AcceptEnd(a)
        PROVE  StartInv'
    BY <1>11 DEF AcceptEnd, Ended, AfterEnd, Runs, startVars
  <1>12. ASSUME NEW a \in Acceptor, RunClose(a)
        PROVE  StartInv'
    BY <1>12 DEF RunClose, Runs, startVars
  <1>13. ASSUME NEW a \in Acceptor, NEW k \in Conn, Arrive(a, k)
        PROVE  StartInv'
    BY <1>13 DEF Arrive, Runs, startVars
  <1>14. CASE UNCHANGED <<flag, spc, sa, accept_started, open, apc>>
    BY <1>14
  <1>15. QED
    BY <1>1, <1>2, <1>3, <1>4, <1>5, <1>6, <1>7, <1>8, <1>9, <1>10, <1>11,
       <1>12, <1>13, <1>14
    DEF Next, Start, Stop, Accept, vars, Run, RunEnd, CloseNow, CloseWait,
         Sweep, PoolStop, WorkClear, Poll, CtxOver, AsyncClose, ConnEnd,
         AcceptNext, startVars, accVars

\* An accept loop that has told acceptor_close_waiter_ does not go on, and
\* its acceptor is not opened again.
LEMMA WaiterStep == IInv /\ [Next]_vars => WaiterInv'
  <1> SUFFICES ASSUME IInv, [Next]_vars PROVE WaiterInv'
    OBVIOUS
  <1> USE ConstantsAssumption DEF IInv, WaiterInv, StartInv, Acceptor, TypeOK
  <1>1. CASE AsyncStart
    BY <1>1 DEF AsyncStart, Locked
  <1>2. CASE Dispatch
    BY <1>2 DEF Dispatch
  <1>3. ASSUME NEW t \in Stopper, CloseDirect(t)
        PROVE  WaiterInv'
    BY <1>3 DEF CloseDirect, GotoStop
  <1>4. ASSUME NEW a \in Acceptor, AcceptFirst(a)
        PROVE  WaiterInv'
    BY <1>4 DEF AcceptFirst, Runs
  <1>5. ASSUME NEW a \in Acceptor, Register(a)
        PROVE  WaiterInv'
    BY <1>5 DEF Register, AcceptNext, Runs
  <1>6. ASSUME NEW a \in Acceptor, Refuse(a)
        PROVE  WaiterInv'
    BY <1>6 DEF Refuse, AcceptNext, Runs
  <1>7. ASSUME NEW a \in Acceptor, AcceptEnd(a)
        PROVE  WaiterInv'
    BY <1>7 DEF AcceptEnd, Ended, AfterEnd, Runs
  <1>8. ASSUME NEW a \in Acceptor, RunClose(a)
        PROVE  WaiterInv'
    BY <1>8 DEF RunClose, Runs
  <1>9. ASSUME NEW a \in Acceptor, NEW k \in Conn, Arrive(a, k)
        PROVE  WaiterInv'
    BY <1>9 DEF Arrive, Runs
  <1>10. CASE UNCHANGED <<apc, open, waiter>>
    BY <1>10
  <1>11. QED
    BY <1>1, <1>2, <1>3, <1>4, <1>5, <1>6, <1>7, <1>8, <1>9, <1>10 DEF Next,
         Start, Stop, Accept, vars, StoreStarted, StartReturn, Run, RunEnd,
         StopBegin, CloseNow, CloseWait, Sweep, PoolStop, WorkClear, Poll,
         StopEnd, CtxOver, AsyncClose, ConnEnd, AcceptNext, accVars

\* No step opens what stop() has closed, and stop() passes an acceptor only
\* when it is shut: start() may still be about to store accept_started_.
LEMMA CloseStep == IInv /\ [Next]_vars => CloseInv'
  <1> SUFFICES ASSUME IInv, [Next]_vars PROVE CloseInv'
    OBVIOUS
  <1> USE ConstantsAssumption DEF IInv, CloseInv, StartInv, LockInv, WaiterInv,
       PoolInv, Acceptor, TypeOK, Closing, Draining, PastClose, Shut, InStop
  <1>1. CASE AsyncStart
    <2>1. \A t \in Stopper : tpc[t] \in {"idle", "done"} /\ tpc'[t] = tpc[t]
      BY <1>1 DEF AsyncStart, Locked, stopVars
    <2>2. \A a \in Acceptor : apc'[a] = "none" /\ apc' = apc /\ Shut(a)
      BY <1>1 DEF AsyncStart, Locked, stopVars
    <2>3. CASE flag' = "started" /\ work' = work /\ flag = "init"
      BY <2>1, <2>2, <2>3
    <2>4. CASE open' = open /\ work' = work
      BY <2>1, <2>2, <2>4
    <2>5. QED
      BY <2>3, <2>4, <1>1 DEF AsyncStart, Locked, stopVars
  <1>2. CASE StoreStarted
    BY <1>2 DEF StoreStarted, stopVars
  <1>3. CASE Dispatch
    BY <1>3 DEF Dispatch, stopVars, poolVars
  <1>4. ASSUME NEW t \in Stopper, StopBegin(t)
        PROVE  CloseInv'
    BY <1>4 DEF StopBegin, GotoStop, Locked, accVars, poolVars
  <1>5. ASSUME NEW t \in Stopper, CloseNow(t)
        PROVE  CloseInv'
    BY <1>5 DEF CloseNow, GotoStop, poolVars
  <1>6. ASSUME NEW t \in Stopper, CloseDirect(t)
        PROVE  CloseInv'
    BY <1>6 DEF CloseDirect, GotoStop, poolVars
  <1>7. ASSUME NEW t \in Stopper, CloseWait(t)
        PROVE  CloseInv'
    <2>1. /\ UNCHANGED <<flag, open, accept_started, apc, work>>
          /\ \A u \in Stopper : u # t => tpc'[u] = tpc[u] /\ ta'[u] = ta[u]
      BY <1>7 DEF CloseWait, Awaits, GotoStop, accVars, poolVars
    <2>2. CASE tpc'[t] = "await" /\ ta' = ta /\ tpc[t] = "load"
      BY <2>1, <2>2
    <2>3. CASE \/ tpc'[t] = "close" /\ ta'[t] = ta[t] + 1
               \/ tpc'[t] = "sweep" /\ ta[t] = Acceptors
      <3>1. Shut(ta[t]) /\ ta[t] \in Acceptor /\ tpc[t] \in Closing
        BY <1>7, <2>3 DEF CloseWait, Awaits, GotoStop, accVars, poolVars
      <3>2. \A a \in Acceptor : a <= ta[t] => Shut(a)
        BY <3>1
      <3>3. \A a \in Acceptor : (a < ta'[t] \/ tpc'[t] = "sweep") => Shut(a)'
        BY <2>1, <2>3, <3>1, <3>2
      <3>4. \A u \in Stopper : u = t \/ ~InStop(u)
        BY <3>1
      <3>5. \A u \in Stopper : u # t => tpc'[u] \in {"idle", "done"}
        BY <2>1, <3>4
      <3>6. QED
        BY <2>1, <2>3, <3>3, <3>5
    <2>4. QED
      BY <2>2, <2>3, <1>7 DEF CloseWait, Awaits, GotoStop, accVars, poolVars
  <1>8. ASSUME NEW t \in Stopper, Sweep(t)
        PROVE  CloseInv'
    BY <1>8 DEF Sweep, GotoStop, accVars, poolVars
  <1>9. ASSUME NEW t \in Stopper, PoolStop(t)
        PROVE  CloseInv'
    BY <1>9 DEF PoolStop, GotoStop, accVars
  <1>10. ASSUME NEW t \in Stopper, WorkClear(t)
        PROVE  CloseInv'
    BY <1>10 DEF WorkClear, GotoStop, accVars
  <1>11. ASSUME NEW t \in Stopper, Poll(t)
        PROVE  CloseInv'
    <2>1. /\ UNCHANGED <<flag, open, accept_started, apc, work>>
          /\ \A u \in Stopper : u # t => tpc'[u] = tpc[u] /\ ta'[u] = ta[u]
          /\ tpc'[t] \in {"poll", "join"} /\ tpc[t] = "poll"
      BY <1>11 DEF Poll, GotoStop, accVars
    <2>2. QED
      BY <2>1
  <1>12. ASSUME NEW t \in Stopper, StopEnd(t)
        PROVE  CloseInv'
    BY <1>12 DEF StopEnd, GotoStop, accVars, poolVars
  <1>13. ASSUME NEW a \in Acceptor, AcceptFirst(a)
        PROVE  CloseInv'
    BY <1>13 DEF AcceptFirst, Runs, stopVars, poolVars
  <1>14. ASSUME NEW a \in Acceptor, Register(a)
        PROVE  CloseInv'
    BY <1>14 DEF Register, AcceptNext, Runs, stopVars
  <1>15. ASSUME NEW a \in Acceptor, Refuse(a)
        PROVE  CloseInv'
    BY <1>15 DEF Refuse, AcceptNext, Runs, stopVars
  <1>16. ASSUME NEW a \in Acceptor, AcceptEnd(a)
        PROVE  CloseInv'
    BY <1>16 DEF AcceptEnd, Ended, AfterEnd, Runs, stopVars, poolVars
  <1>17. ASSUME NEW a \in Acceptor, RunClose(a)
        PROVE  CloseInv'
    BY <1>17 DEF RunClose, Runs, stopVars, poolVars
  <1>18. ASSUME NEW a \in Acceptor, NEW k \in Conn, Arrive(a, k)
        PROVE  CloseInv'
    BY <1>18 DEF Arrive, Runs, stopVars, poolVars
  <1>19. CASE UNCHANGED <<tpc, ta, accept_started, open, apc, flag, work>>
    BY <1>19
  <1>20. QED
    BY <1>1, <1>2, <1>3, <1>4, <1>5, <1>6, <1>7, <1>8, <1>9, <1>10, <1>11,
       <1>12, <1>13, <1>14, <1>15, <1>16, <1>17, <1>18, <1>19
    DEF Next, Start, Stop, Accept, vars, StartReturn, Run, RunEnd, CtxOver,
         AsyncClose, ConnEnd, AcceptNext, stopVars, accVars, poolVars

\* No step loses a connection on its way from accept to its end.
LEMMA ConnStep == IInv /\ [Next]_vars => ConnInv'
  <1> SUFFICES ASSUME IInv, [Next]_vars PROVE ConnInv'
    OBVIOUS
  <1> USE NoConnAssumption DEF IInv, ConnInv, CloseInv, TypeOK, Closing,
       Draining, PastClose, Shut, InStop
  <1>1. CASE Dispatch
    BY <1>1 DEF Dispatch, connVars, stopVars, StartInv
  <1>2. ASSUME NEW t \in Stopper, StopBegin(t)
        PROVE  ConnInv'
    BY <1>2 DEF StopBegin, GotoStop, Locked, connVars, accVars
  <1>3. ASSUME NEW t \in Stopper, CloseNow(t)
        PROVE  ConnInv'
    BY <1>3 DEF CloseNow, GotoStop, connVars
  <1>4. ASSUME NEW t \in Stopper, CloseDirect(t)
        PROVE  ConnInv'
    BY <1>4 DEF CloseDirect, GotoStop, connVars
  <1>5. ASSUME NEW t \in Stopper, CloseWait(t)
        PROVE  ConnInv'
    BY <1>5 DEF CloseWait, Awaits, GotoStop, connVars, accVars
  <1>6. ASSUME NEW t \in Stopper, Sweep(t)
        PROVE  ConnInv'
    BY <1>6 DEF Sweep, GotoStop, accVars
  <1>7. ASSUME NEW t \in Stopper, PoolStop(t)
        PROVE  ConnInv'
    BY <1>7 DEF PoolStop, GotoStop, connVars, accVars
  <1>8. ASSUME NEW t \in Stopper, WorkClear(t)
        PROVE  ConnInv'
    BY <1>8 DEF WorkClear, GotoStop, connVars, accVars
  <1>9. ASSUME NEW t \in Stopper, Poll(t)
        PROVE  ConnInv'
    BY <1>9 DEF Poll, GotoStop, connVars, accVars
  <1>10. ASSUME NEW t \in Stopper, StopEnd(t)
        PROVE  ConnInv'
    BY <1>10 DEF StopEnd, GotoStop, connVars, accVars
  <1>11. ASSUME NEW a \in Acceptor, AcceptFirst(a)
        PROVE  ConnInv'
    BY <1>11 DEF AcceptFirst, Runs, connVars, stopVars
  <1>12. ASSUME NEW a \in Acceptor, Register(a)
        PROVE  ConnInv'
    BY <1>12 DEF Register, AcceptNext, Runs, stopVars
  <1>13. ASSUME NEW a \in Acceptor, Refuse(a)
        PROVE  ConnInv'
    BY <1>13, SMTT(30) DEF Refuse, AcceptNext, Runs, stopVars
  <1>14. ASSUME NEW a \in Acceptor, AcceptEnd(a)
        PROVE  ConnInv'
    BY <1>14 DEF AcceptEnd, Ended, AfterEnd, Runs, connVars, stopVars
  <1>15. ASSUME NEW a \in Acceptor, NEW k \in Conn, Arrive(a, k)
        PROVE  ConnInv'
    BY <1>15 DEF Arrive, Runs, stopVars
  <1>16. ASSUME NEW k \in Conn, AsyncClose(k)
        PROVE  ConnInv'
    BY <1>16 DEF AsyncClose, Runs, stopVars, accVars
  <1>17. ASSUME NEW k \in Conn, ConnEnd(k)
        PROVE  ConnInv'
    BY <1>17 DEF ConnEnd, Runs, stopVars, accVars
  <1>18. CASE UNCHANGED <<apc, got, cst, conns, closing, tpc>>
    BY <1>18
  <1>19. QED
    BY <1>1, <1>2, <1>3, <1>4, <1>5, <1>6, <1>7, <1>8, <1>9, <1>10, <1>11,
       <1>12, <1>13, <1>14, <1>15, <1>16, <1>17, <1>18
    DEF Next, Start, Stop, Accept, vars, AsyncStart, StoreStarted, StartReturn,
         Run, RunEnd, CtxOver, RunClose, AcceptNext, connVars, stopVars,
         accVars

\* No connection reaches an io_context that is over.
LEMMA PoolStep == IInv /\ [Next]_vars => PoolInv'
  <1> SUFFICES ASSUME IInv, [Next]_vars PROVE PoolInv'
    OBVIOUS
  <1> USE DEF IInv, PoolInv, ConnInv, CloseInv, StartInv, LockInv, TypeOK,
       Closing, Draining, PastClose, Shut, InStop
  <1>1. CASE AsyncStart
    BY <1>1 DEF AsyncStart, Locked, connVars, stopVars
  <1>2. CASE Dispatch
    BY <1>2 DEF Dispatch, connVars, stopVars, poolVars
  <1>3. CASE Run
    BY <1>3 DEF Run, connVars, stopVars, accVars
  <1>4. CASE RunEnd
    BY <1>4 DEF RunEnd, connVars, stopVars, accVars
  <1>5. ASSUME NEW t \in Stopper, StopBegin(t)
        PROVE  PoolInv'
    BY <1>5 DEF StopBegin, GotoStop, Locked, connVars, accVars, poolVars
  <1>6. ASSUME NEW t \in Stopper, CloseNow(t)
        PROVE  PoolInv'
    BY <1>6 DEF CloseNow, GotoStop, connVars, poolVars
  <1>7. ASSUME NEW t \in Stopper, CloseDirect(t)
        PROVE  PoolInv'
    BY <1>7 DEF CloseDirect, GotoStop, connVars, poolVars
  <1>8. ASSUME NEW t \in Stopper, CloseWait(t)
        PROVE  PoolInv'
    BY <1>8 DEF CloseWait, Awaits, GotoStop, connVars, accVars, poolVars
  <1>9. ASSUME NEW t \in Stopper, Sweep(t)
        PROVE  PoolInv'
    BY <1>9 DEF Sweep, GotoStop, accVars, poolVars
  <1>10. ASSUME NEW t \in Stopper, PoolStop(t)
        PROVE  PoolInv'
    BY <1>10 DEF PoolStop, GotoStop, connVars, accVars
  <1>11. ASSUME NEW t \in Stopper, WorkClear(t)
        PROVE  PoolInv'
    BY <1>11 DEF WorkClear, GotoStop, connVars, accVars
  <1>12. ASSUME NEW t \in Stopper, Poll(t)
        PROVE  PoolInv'
    <2>1. /\ UNCHANGED <<flag, work, thd, has_run_or_stop, cst, promise, apc,
                         open, kctx>>
          /\ \A u \in Stopper : u # t => tpc'[u] = tpc[u]
          /\ tpc'[t] \in {"poll", "join"}
      BY <1>12 DEF Poll, GotoStop, connVars, accVars
    <2>2. /\ \A k \in Conn : cst[k] # "open"
          /\ \A a \in Acceptor : Shut(a)
          /\ has_run_or_stop /\ flag = "started"
      BY <1>12 DEF Poll, GotoStop, connVars, accVars
    <2>3. ctx' # ctx => ~promise
      BY <1>12, ConstantsAssumption DEF Poll, GotoStop, connVars, accVars, Ctx
    <2>4. QED
      BY <2>1, <2>2, <2>3
  <1>13. ASSUME NEW t \in Stopper, StopEnd(t)
        PROVE  PoolInv'
    BY <1>13 DEF StopEnd, GotoStop, connVars, accVars, poolVars
  <1>14. ASSUME NEW c \in Ctx, CtxOver(c)
        PROVE  PoolInv'
    BY <1>14 DEF CtxOver, Drained, Outstanding, Ready, connVars, stopVars,
         accVars
  <1>15. ASSUME NEW a \in Acceptor, AcceptFirst(a)
        PROVE  PoolInv'
    BY <1>15 DEF AcceptFirst, Runs, connVars, stopVars, poolVars
  <1>16. ASSUME NEW a \in Acceptor, Register(a)
        PROVE  PoolInv'
    BY <1>16 DEF Register, AcceptNext, Runs, stopVars
  <1>17. ASSUME NEW a \in Acceptor, Refuse(a)
        PROVE  PoolInv'
    BY <1>17 DEF Refuse, AcceptNext, Runs, stopVars
  <1>18. ASSUME NEW a \in Acceptor, AcceptEnd(a)
        PROVE  PoolInv'
    BY <1>18 DEF AcceptEnd, Ended, AfterEnd, Runs, connVars, stopVars, poolVars
  <1>19. ASSUME NEW a \in Acceptor, RunClose(a)
        PROVE  PoolInv'
    BY <1>19 DEF RunClose, Runs, connVars, stopVars, poolVars
  <1>20. ASSUME NEW a \in Acceptor, NEW k \in Conn, Arrive(a, k)
        PROVE  PoolInv'
    BY <1>20 DEF Arrive, Runs, stopVars, poolVars
  <1>21. ASSUME NEW k \in Conn, AsyncClose(k)
        PROVE  PoolInv'
    BY <1>21 DEF AsyncClose, Runs, stopVars, accVars, poolVars
  <1>22. ASSUME NEW k \in Conn, ConnEnd(k)
        PROVE  PoolInv'
    BY <1>22 DEF ConnEnd, Runs, stopVars, accVars, poolVars
  <1>23. CASE UNCHANGED <<flag, work, thd, has_run_or_stop, ctx, cst,
                            promise, apc, open, kctx, tpc>>
    BY <1>23
  <1>24. QED
    BY <1>1, <1>2, <1>3, <1>4, <1>5, <1>6, <1>7, <1>8, <1>9, <1>10, <1>11,
       <1>12, <1>13, <1>14, <1>15, <1>16, <1>17, <1>18, <1>19, <1>20, <1>21,
       <1>22, <1>23
    DEF Next, Start, Stop, Accept, vars, StoreStarted, StartReturn, AcceptNext,
         connVars, stopVars, accVars, poolVars

\* get_executor() returns one of the io_contexts of the pool.
LEMMA ExecutorInPool ==
  ASSUME NEW n \in Nat, next_ctx \in Ctx
  PROVE  Executor(n) \in Ctx
  BY ConstantsAssumption DEF Executor, Ctx

\* Every step keeps the types: acceptor_close_waiter_ is set at most once
\* because AcceptEnd starts from a loop that has not ended.
LEMMA TypeStep == IInv /\ [Next]_vars => TypeOK'
  <1> SUFFICES ASSUME IInv, [Next]_vars PROVE TypeOK'
    OBVIOUS
  <1> USE DEF IInv, TypeOK
  <1>1. CASE AsyncStart
    <2>1. \A n \in Acceptor : n \in Nat /\ n - 1 \in Nat
      BY ConstantsAssumption DEF Acceptor
    <2>2. Acceptors \in Nat
      BY ConstantsAssumption
    <2>3. \A n \in Acceptor : Executor(n) \in Ctx /\ Executor(n - 1) \in Ctx
      BY <2>1, ExecutorInPool
    <2>4. Executor(Acceptors) \in Ctx
      BY <2>2, ExecutorInPool
    <2>5. QED
      BY <1>1, <2>3, <2>4, ZenonT(40) DEF AsyncStart, Locked, connVars, stopVars
  <1>2. CASE StoreStarted
    <2>1. Executor(0) \in Ctx /\ Executor(1) \in Ctx
      BY ExecutorInPool
    <2>2. QED
      BY <1>2, <2>1 DEF StoreStarted, connVars, stopVars
  <1>3. CASE Dispatch
    <2>1. sa < Acceptors => sa + 1 \in Acceptor
      BY ConstantsAssumption DEF Acceptor
    <2>2. QED
      BY <1>3, <2>1 DEF Dispatch, connVars, stopVars, poolVars
  <1>4. CASE StartReturn
    BY <1>4 DEF StartReturn, connVars, stopVars, accVars, poolVars
  <1>5. CASE Run
    BY <1>5 DEF Run, connVars, startVars, stopVars, accVars
  <1>6. CASE RunEnd
    BY <1>6 DEF RunEnd, connVars, startVars, stopVars, accVars
  <1>7. ASSUME NEW t \in Stopper, StopBegin(t)
        PROVE  TypeOK'
    BY <1>7 DEF StopBegin, GotoStop, Locked, connVars, startVars, accVars,
         poolVars
  <1>8. ASSUME NEW t \in Stopper, CloseNow(t)
        PROVE  TypeOK'
    BY <1>8, ZenonT(40) DEF CloseNow, GotoStop, connVars, startVars, poolVars
  <1>9. ASSUME NEW t \in Stopper, CloseDirect(t)
        PROVE  TypeOK'
    BY <1>9 DEF CloseDirect, GotoStop, connVars, startVars, poolVars
  <1>10. ASSUME NEW t \in Stopper, CloseWait(t)
        PROVE  TypeOK'
    <2>1. ta[t] < Acceptors => ta[t] + 1 \in 0..Acceptors + Contexts
      BY ConstantsAssumption
    <2>2. QED
      BY <1>10, <2>1 DEF CloseWait, Awaits, GotoStop, connVars, startVars,
           accVars, poolVars
  <1>11. ASSUME NEW t \in Stopper, Sweep(t)
        PROVE  TypeOK'
    BY <1>11 DEF Sweep, GotoStop, startVars, accVars, poolVars
  <1>12. ASSUME NEW t \in Stopper, PoolStop(t)
        PROVE  TypeOK'
    BY <1>12 DEF PoolStop, GotoStop, connVars, startVars, accVars
  <1>13. ASSUME NEW t \in Stopper, WorkClear(t)
        PROVE  TypeOK'
    <2>1. 0 \in 0..Acceptors + Contexts
      BY ConstantsAssumption
    <2>2. QED
      BY <1>13, <2>1 DEF WorkClear, GotoStop, connVars, startVars, accVars
  <1>14. ASSUME NEW t \in Stopper, Poll(t)
        PROVE  TypeOK'
    <2>1. ta[t] < Contexts => ta[t] + 1 \in 0..Acceptors + Contexts
      BY ConstantsAssumption
    <2>2. QED
      BY <1>14, <2>1 DEF Poll, GotoStop, connVars, startVars, accVars
  <1>15. ASSUME NEW t \in Stopper, StopEnd(t)
        PROVE  TypeOK'
    BY <1>15 DEF StopEnd, GotoStop, connVars, startVars, accVars, poolVars
  <1>16. ASSUME NEW c \in Ctx, CtxOver(c)
        PROVE  TypeOK'
    BY <1>16 DEF CtxOver, Drained, Outstanding, Ready, connVars, startVars,
         stopVars, accVars
  <1>17. ASSUME NEW a \in Acceptor, AcceptFirst(a)
        PROVE  TypeOK'
    BY <1>17 DEF AcceptFirst, Runs, connVars, startVars, stopVars, poolVars
  <1>18. ASSUME NEW a \in Acceptor, Register(a)
        PROVE  TypeOK'
    <2>1. Executor(0) \in Ctx /\ Executor(1) \in Ctx
      BY ExecutorInPool
    <2>2. got[a] \in Conn
      BY <1>18 DEF Register, AcceptNext, Runs, startVars, stopVars, ConnInv
    <2>3. QED
      BY <1>18, <2>1, <2>2 DEF Register, AcceptNext, Runs, startVars, stopVars
  <1>19. ASSUME NEW a \in Acceptor, Refuse(a)
        PROVE  TypeOK'
    <2>1. Executor(0) \in Ctx /\ Executor(1) \in Ctx
      BY ExecutorInPool
    <2>2. apc[a] = "got" => got[a] \in Conn
      BY <1>19 DEF Refuse, AcceptNext, Runs, startVars, stopVars, ConnInv
    <2>3. QED
      BY <1>19, <2>1, <2>2 DEF Refuse, AcceptNext, Runs, startVars, stopVars
  <1>20. ASSUME NEW a \in Acceptor, AcceptEnd(a)
        PROVE  TypeOK'
    <2>1. waiter[a] = 0
      BY <1>20 DEF AcceptEnd, Ended, AfterEnd, Runs, connVars, startVars,
           stopVars, poolVars, WaiterInv
    <2>2. QED
      BY <1>20, <2>1 DEF AcceptEnd, Ended, AfterEnd, Runs, connVars, startVars,
           stopVars, poolVars
  <1>21. ASSUME NEW a \in Acceptor, RunClose(a)
        PROVE  TypeOK'
    BY <1>21 DEF RunClose, Runs, connVars, startVars, stopVars, poolVars
  <1>22. ASSUME NEW a \in Acceptor, NEW k \in Conn, Arrive(a, k)
        PROVE  TypeOK'
    BY <1>22 DEF Arrive, Runs, startVars, stopVars, poolVars
  <1>23. ASSUME NEW k \in Conn, AsyncClose(k)
        PROVE  TypeOK'
    BY <1>23 DEF AsyncClose, Runs, startVars, stopVars, accVars, poolVars
  <1>24. ASSUME NEW k \in Conn, ConnEnd(k)
        PROVE  TypeOK'
    BY <1>24 DEF ConnEnd, Runs, startVars, stopVars, accVars, poolVars
  <1>25. CASE UNCHANGED vars
    BY <1>25 DEF vars, connVars, startVars, stopVars, accVars, poolVars
  <1>26. QED
    BY <1>1, <1>2, <1>3, <1>4, <1>5, <1>6, <1>7, <1>8, <1>9, <1>10, <1>11,
       <1>12, <1>13, <1>14, <1>15, <1>16, <1>17, <1>18, <1>19, <1>20, <1>21,
       <1>22, <1>23, <1>24, <1>25
    DEF Next, Start, Stop, Accept, vars, AcceptNext, connVars, startVars,
         stopVars, accVars, poolVars

\* The inductive invariant: what SweptAll and the refinement need to know of
\* the lock, of start(), of the acceptors and of the io_contexts.
THEOREM Invariant == Spec => []IInv
  <1>1. Init => IInv
    <2> SUFFICES ASSUME Init PROVE IInv
      OBVIOUS
    <2>1. 1 \in Acceptor /\ 0 \in Ctx /\ 1 \in 0..Acceptors + Contexts
      BY ConstantsAssumption DEF Acceptor, Ctx
    <2>2. TypeOK
      <3>1. /\ cst \in [Conn -> {"none", "accepted", "refused", "open",
                                 "closed"}]
            /\ kctx \in [Conn -> Ctx]
            /\ ta \in [Stopper -> 0..Acceptors + Contexts]
            /\ waiter \in [Acceptor -> 0..1]
        BY <2>1 DEF Init
      <3>2. QED
        BY <2>1, <3>1 DEF Init, TypeOK
    <2>3. LockInv /\ StartInv /\ WaiterInv
      BY <2>1 DEF Init, LockInv, StartInv, WaiterInv, InStop, Closing
    <2>4. CloseInv /\ ConnInv /\ PoolInv
      BY DEF Init, CloseInv, ConnInv, PoolInv, Shut, Closing, Draining,
           PastClose
    <2>5. QED
      BY <2>2, <2>3, <2>4 DEF IInv
  <1>2. IInv /\ [Next]_vars => IInv'
    BY TypeStep, LockStep, StartStep, WaiterStep, CloseStep, ConnStep, PoolStep
    DEF IInv
  <1>3. QED
    BY <1>1, <1>2, PTL DEF Spec

\* Every variable of the server keeps its type, and acceptor_close_waiter_ is
\* never set twice.
THEOREM TypeCorrect == Spec => []TypeOK
  BY Invariant, PTL DEF IInv

\* stop() forgets no connection: once conns_ is swept every open connection
\* has been told to close, and no accept loop holds a new one.
THEOREM SweepForgetsNothing == Spec => []SweptAll
  <1>1. IInv => SweptAll
    BY DEF IInv, ConnInv, CloseInv, SweptAll, Shut, Draining, PastClose
  <1>2. QED
    BY <1>1, Invariant, PTL

\* A step of the server is a step of ServerLifecycle or changes nothing that
\* it speaks of.
LEMMA StepRefines == IInv /\ [Next]_vars => [Lifecycle!Next]_(Lifecycle!vars)
  <1> SUFFICES ASSUME IInv, [Next]_vars
               PROVE  [Lifecycle!Next]_(Lifecycle!vars)
    OBVIOUS
  <1> USE DEF Lifecycle!Next, Lifecycle!vars
  <1>1. CASE AsyncStart
    BY <1>1 DEF AsyncStart, connVars, Lifecycle!Start, Lifecycle!Abandon
  <1>2. ASSUME NEW t \in Stopper, StopBegin(t)
        PROVE  [Lifecycle!Next]_(Lifecycle!vars)
    BY <1>2 DEF StopBegin, connVars, Lifecycle!Abandon
  <1>3. ASSUME NEW t \in Stopper, StopEnd(t)
        PROVE  [Lifecycle!Next]_(Lifecycle!vars)
    BY <1>3 DEF StopEnd, connVars, Lifecycle!Stop, IInv, LockInv, PoolInv,
         InStop
  <1>4. ASSUME NEW a \in Acceptor, Register(a)
        PROVE  [Lifecycle!Next]_(Lifecycle!vars)
    BY <1>4 DEF Register, Lifecycle!Serve, IInv, TypeOK, ConnInv, CloseInv,
         StartInv, Shut
  <1>5. ASSUME NEW a \in Acceptor, Refuse(a)
        PROVE  [Lifecycle!Next]_(Lifecycle!vars)
    BY <1>5 DEF Refuse, IInv, TypeOK, ConnInv
  <1>6. ASSUME NEW a \in Acceptor, NEW k \in Conn, Arrive(a, k)
        PROVE  [Lifecycle!Next]_(Lifecycle!vars)
    BY <1>6 DEF Arrive, IInv, TypeOK
  <1>7. ASSUME NEW k \in Conn, AsyncClose(k)
        PROVE  [Lifecycle!Next]_(Lifecycle!vars)
    BY <1>7 DEF AsyncClose, Lifecycle!Leave, IInv, TypeOK, ConnInv
  <1>8. ASSUME NEW k \in Conn, ConnEnd(k)
        PROVE  [Lifecycle!Next]_(Lifecycle!vars)
    BY <1>8 DEF ConnEnd, Lifecycle!Leave, IInv, TypeOK
  <1>9. CASE UNCHANGED <<flag, cst>>
    BY <1>9
  <1>10. QED
    BY <1>1, <1>2, <1>3, <1>4, <1>5, <1>6, <1>7, <1>8, <1>9
    DEF Next, Start, Stop, Accept, vars, StoreStarted, Dispatch, StartReturn,
         Run, RunEnd, CloseNow, CloseDirect, CloseWait, Sweep, PoolStop,
         WorkClear, Poll, CtxOver, AcceptFirst, AcceptEnd, RunClose, connVars

\* The server implements ServerLifecycle: it serves a connection at most once
\* and only between start() and stop(), and when stop() says "stop" none is
\* left.
THEOREM KeepsLifecycle == Spec => ImplementsLifecycle
  <1>1. Init => Lifecycle!Init
    BY DEF Init, Lifecycle!Init
  <1>2. QED
    BY <1>1, StepRefines, Invariant, PTL DEF Spec, ImplementsLifecycle,
         Lifecycle!Spec

=============================================================================
