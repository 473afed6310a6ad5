------------------------------- MODULE AsyncIo -------------------------------
(***************************************************************************)
(* async_io() (include/ylt/coro_io/coro_io.hpp): a coroutine waits for an  *)
(* operation of an I/O object and may be told to stop by a cancellation    *)
(* signal.                                                                 *)
(*                                                                         *)
(* Three threads meet: the one that starts the operation and goes on after *)
(* the coroutine is already suspended (or even resumed), the one that      *)
(* emits the signal, and the one that completes the operation and resumes  *)
(* the coroutine.  They share one flag.  Who finds the flag raised by the  *)
(* other cancels the operation; the coroutine waits for a cancel that has  *)
(* begun, because the object may be gone when it has returned.             *)
(*                                                                         *)
(* The signal and its slot (async_simple) and the operation (asio) are     *)
(* modelled from their use: emplace() fails after the signal, a handler    *)
(* runs at most once, and cancel() only reaches an operation under way.    *)
(***************************************************************************)
EXTENDS Naturals

\* no_, could_, start_ and finish_cancel_flag.
Flags == {"no", "could", "start", "finish"}

VARIABLES
    flag,     \* *lock
    slot,     \* "none": no slot; "open", "set": with a handler; "clear"
    signal,   \* Terminate was emitted
    op,       \* the operation: "new", "pending", "canceled", "done"
    spc,      \* where the starting thread is
    hpc,      \* where the signal handler is
    cpc       \* where the coroutine is

ioVars == <<flag, slot, signal, op, spc, hpc, cpc>>

\* hasCanceled: the slot did not take the handler.
IoInit ==
    /\ flag = "no" /\ slot \in {"none", "open"} /\ signal = FALSE /\ op = "new"
    /\ spc = "emplace" /\ hpc = "off" /\ cpc = "suspended"

---------------------------------------------------------------------------
(* The thread that starts the operation.                                   *)

\* Without a slot only the operation itself resumes the coroutine.
NoSlot ==
    /\ spc = "emplace" /\ slot = "none" /\ op' = "pending" /\ spc' = "end"
    /\ UNCHANGED <<flag, slot, signal, hpc, cpc>>

\* slot->emplace; when the signal was there first the result is
\* operation_canceled, dispatched to the executor.
Emplace ==
    /\ spc = "emplace" /\ slot = "open"
    /\ \/ ~signal /\ slot' = "set" /\ spc' = "io" /\ UNCHANGED op
       \/ signal /\ op' = "canceled" /\ spc' = "end" /\ UNCHANGED slot
    /\ UNCHANGED <<flag, signal, hpc, cpc>>

\* io_func
StartIo ==
    /\ spc = "io" /\ op' = "pending" /\ spc' = "exchange"
    /\ UNCHANGED <<flag, slot, signal, hpc, cpc>>

\* Mutant: the flag is raised, but not looked at.
OnlyRaise(label) == flag' = "could" /\ label' = "end"

\* compare_exchange_strong(no, could), and what follows when it fails.
Raise(label) ==
    \/ flag = "no" /\ flag' = "could" /\ label' = "end"
    \/ flag = "could" /\ UNCHANGED flag /\ label' = "start"
    \/ flag \in {"start", "finish"} /\ UNCHANGED flag /\ label' = "end"

\* compare_exchange_strong(could, start)
Claim(label) ==
    \/ flag = "could" /\ flag' = "start" /\ label' = "cancel"
    \/ flag # "could" /\ UNCHANGED flag /\ label' = "end"

\* detail::cancel(obj): an operation under way is completed with an error.
Cancel == op' = IF op = "pending" THEN "canceled" ELSE op

\* One step of the exchange of flags and of the cancel it may lead to: the
\* same code in the starting thread and in the handler.
CancelStep(label) ==
    \/ label = "exchange" /\ Raise(label) /\ UNCHANGED op
    \/ label = "start" /\ Claim(label) /\ UNCHANGED op
    \/ label = "cancel" /\ Cancel /\ label' = "store" /\ UNCHANGED flag
    \/ label = "store" /\ flag' = "finish" /\ label' = "end" /\ UNCHANGED op

Starter == CancelStep(spc) /\ UNCHANGED <<slot, signal, hpc, cpc>>

---------------------------------------------------------------------------
(* The signal and its handler.                                             *)

Emit ==
    /\ slot # "none" /\ ~signal /\ signal' = TRUE
    /\ hpc' = IF slot = "set" THEN "exchange" ELSE hpc
    /\ UNCHANGED <<flag, slot, op, spc, cpc>>

Handler == CancelStep(hpc) /\ UNCHANGED <<slot, signal, spc, cpc>>

---------------------------------------------------------------------------
(* The completion of the operation and the coroutine after it.             *)

\* The operation ends by itself or was canceled.  Its callback clears the
\* slot and sets the value ...
Complete ==
    /\ op \in {"pending", "canceled"} /\ op' = "done"
    /\ slot' = IF slot = "set" THEN "clear" ELSE slot
    /\ cpc' = IF slot = "set" THEN "last" ELSE "returned"
    /\ UNCHANGED <<flag, signal, spc, hpc>>

\* Mutant: the coroutine does not wait.
NoWait == cpc' = "returned"

\* The flag is start_cancel_flag.
AwaitCancel == cpc' = "wait"

\* ... and resumes the coroutine, which closes the flag.
Close ==
    /\ cpc = "last"
    /\ \/ flag \in {"no", "could"} /\ flag' = "finish" /\ cpc' = "returned"
       \/ flag = "start" /\ AwaitCancel /\ UNCHANGED flag
       \/ flag = "finish" /\ cpc' = "returned" /\ UNCHANGED flag
    /\ UNCHANGED <<slot, signal, op, spc, hpc>>

\* The loop over post() ends.
WaitOver ==
    /\ cpc = "wait" /\ flag # "start" /\ cpc' = "returned"
    /\ UNCHANGED <<flag, slot, signal, op, spc, hpc>>

Start == NoSlot \/ Emplace \/ StartIo
Coroutine == Close \/ WaitOver
IoNext == Start \/ Starter \/ Emit \/ Handler \/ Complete \/ Coroutine

IoSpec == IoInit /\ [][IoNext]_ioVars

\* The threads run on and a canceled operation completes.  An operation that
\* is not canceled may stay pending forever.
Progress ==
    Start \/ Starter \/ Handler \/ (op = "canceled" /\ Complete) \/ Coroutine

IoFairSpec == IoSpec /\ WF_ioVars(Progress)

---------------------------------------------------------------------------
(* Properties.                                                             *)

\* "wait cancel finish to make sure io object's life-time": no thread touches
\* the object after async_io has returned to its owner.
ObjectAlive ==
    cpc = "returned" => spc # "cancel" /\ hpc # "cancel"

\* A signal ends the wait, however the three threads interleave and even if
\* the operation would never end.
SignalReturns == signal ~> cpc = "returned"

==============================================================================
