------------------------------ MODULE Appender ------------------------------
(***************************************************************************)
(* The asynchronous log of easylog (include/ylt/easylog/appender.hpp).     *)
(*                                                                         *)
(* Threads put records into a queue and notify; one thread takes them out, *)
(* one per turn of its loop, writes them to a file and rolls the files     *)
(* when the current one is too large.  stop() raises a flag under the      *)
(* mutex of the condition variable, notifies and joins.  A notify finds    *)
(* only a thread that is already blocked.                                  *)
(*                                                                         *)
(* A record is <<thread, number>>.  moodycamel::ConcurrentQueue keeps the  *)
(* order of each producer and no other: a queue per producer.  A file is   *)
(* the sequence of its records and its size is their number; the byte      *)
(* order mark is smaller than any limit.                                   *)
(***************************************************************************)
EXTENDS Naturals, SequencesExt

CONSTANTS
    Logger,     \* the threads that log
    Records,    \* how many records each of them writes
    MaxSize,    \* max_file_size
    MaxFiles    \* max_files

\* max_files is a size_t; 0 switches the rolling off.
ASSUME AppenderAssumption == MaxFiles \in Nat

VARIABLES
    queued,     \* queue_: a sequence for each producer
    lpc,        \* where a thread that logs is
    sent,       \* the records it has enqueued
    files,      \* files[1] is filename_, files[2] filename.1, ...
    written,    \* all records written so far
    stop,       \* stop_
    mtx,        \* who holds que_mtx_: "none", "writer", "stop"
    wpc,        \* where the writing thread is
    notified,   \* its wait has been notified
    stopper,    \* where the thread that calls stop() is
    due         \* the records enqueued before stop() was called

appenderVars == <<queued, lpc, sent, files, written, stop, mtx, wpc, notified,
                  stopper, due>>

AppenderInit ==
    /\ queued = [l \in Logger |-> <<>>] /\ lpc = [l \in Logger |-> "idle"]
    /\ sent = [l \in Logger |-> 0] /\ files = <<<<>>>> /\ written = <<>>
    /\ stop = FALSE /\ mtx = "none" /\ wpc = "top" /\ notified = FALSE
    /\ stopper = "idle" /\ due = {}

Empty == \A l \in Logger : queued[l] = <<>>

---------------------------------------------------------------------------
(* write()                                                                 *)

\* queue_.enqueue()
Enqueue(l) ==
    /\ lpc[l] = "idle" /\ sent[l] < Records
    /\ sent' = [sent EXCEPT ![l] = @ + 1]
    /\ queued' = [queued EXCEPT ![l] = Append(@, <<l, sent[l] + 1>>)]
    /\ lpc' = [lpc EXCEPT ![l] = "notify"]
    /\ UNCHANGED <<files, written, stop, mtx, wpc, notified, stopper, due>>

\* cnd_.notify_one(), without the mutex.
Notify(l) ==
    /\ lpc[l] = "notify" /\ lpc' = [lpc EXCEPT ![l] = "idle"]
    /\ notified' = (notified \/ wpc = "blocked")
    /\ UNCHANGED <<queued, sent, files, written, stop, mtx, wpc, stopper, due>>

---------------------------------------------------------------------------
(* The files.                                                              *)

\* Mutant: off by one, file max_files is removed.
KeepOneMore(fs) == <<<<>>>> \o SubSeq(fs, 1, Min({MaxFiles, Len(fs)}))

\* roll_log_files(): the last file is removed, the others are renamed to the
\* next number, and a new one is opened.
Rolled(fs) == <<<<>>>> \o SubSeq(fs, 1, Min({MaxFiles - 1, Len(fs)}))

\* The check before a record is taken, or, when the queue is drained, before it
\* is written.
Checked ==
    IF MaxFiles > 0 /\ Len(files[1]) > MaxSize THEN Rolled(files) ELSE files

\* write_record()
Write(r) ==
    /\ files' = [Checked EXCEPT ![1] = Append(@, r)]
    /\ written' = Append(written, r)

\* try_dequeue() and write_record()
WriteOne ==
    \E l \in Logger :
        /\ queued[l] # <<>> /\ queued' = [queued EXCEPT ![l] = Tail(@)]
        /\ Write(Head(queued[l]))

---------------------------------------------------------------------------
(* The writing thread.                                                     *)

\* while (!stop_)
Top ==
    /\ wpc = "top" /\ wpc' = IF stop THEN "over" ELSE "take"
    /\ UNCHANGED <<queued, lpc, sent, files, written, stop, mtx, notified,
                   stopper, due>>

Take ==
    /\ wpc = "take" /\ wpc' = "look"
    /\ \/ WriteOne
       \/ Empty /\ files' = Checked /\ UNCHANGED <<queued, written>>
    /\ UNCHANGED <<lpc, sent, stop, mtx, notified, stopper, due>>

\* if (queue_.size_approx() == 0)
Look ==
    /\ wpc = "look" /\ wpc' = IF Empty THEN "lock" ELSE "stopped"
    /\ UNCHANGED <<queued, lpc, sent, files, written, stop, mtx, notified,
                   stopper, due>>

Lock ==
    /\ wpc = "lock" /\ mtx = "none" /\ mtx' = "writer" /\ wpc' = "predicate"
    /\ UNCHANGED <<queued, lpc, sent, files, written, stop, notified, stopper,
                   due>>

\* The predicate of the wait; between a false one and the wait itself the
\* mutex is held.
Predicate ==
    /\ wpc = "predicate"
    /\ \/ (~Empty \/ stop) /\ wpc' = "stopped" /\ mtx' = "none"
       \/ Empty /\ ~stop /\ wpc' = "wait" /\ UNCHANGED mtx
    /\ UNCHANGED <<queued, lpc, sent, files, written, stop, notified, stopper,
                   due>>

Wait ==
    /\ wpc = "wait" /\ wpc' = "blocked" /\ mtx' = "none" /\ notified' = FALSE
    /\ UNCHANGED <<queued, lpc, sent, files, written, stop, stopper, due>>

Woken ==
    /\ wpc = "blocked" /\ notified /\ mtx = "none"
    /\ mtx' = "writer" /\ wpc' = "predicate" /\ notified' = FALSE
    /\ UNCHANGED <<queued, lpc, sent, files, written, stop, stopper, due>>

\* if (stop_), then the rest of the queue is written.
Stopped ==
    /\ wpc = "stopped" /\ wpc' = IF stop /\ ~Empty THEN "drain" ELSE "top"
    /\ UNCHANGED <<queued, lpc, sent, files, written, stop, mtx, notified,
                   stopper, due>>

Drain ==
    /\ wpc = "drain"
    /\ \/ WriteOne /\ UNCHANGED wpc
       \/ Empty /\ wpc' = "top" /\ UNCHANGED <<queued, files, written>>
    /\ UNCHANGED <<lpc, sent, stop, mtx, notified, stopper, due>>

Writer ==
    \/ Top \/ Take \/ Look \/ Lock \/ Predicate \/ Wait \/ Woken \/ Stopped
    \/ Drain

---------------------------------------------------------------------------
(* stop()                                                                  *)

Sent == {<<l, n>> : l \in Logger, n \in 1..Records}
Enqueued == {r \in Sent : r[2] <= sent[r[1]]}

StopCall ==
    /\ stopper = "idle" /\ stopper' = "set" /\ due' = Enqueued
    /\ UNCHANGED <<queued, lpc, sent, files, written, stop, mtx, wpc, notified>>

\* Mutant: the flag is raised without the mutex.
NoGuard == TRUE

\* lock_guard(que_mtx_)
Guard == mtx = "none"

\* stop_ = true and notify_one(), under the mutex.
SetStop ==
    /\ stopper = "set" /\ Guard /\ stop' = TRUE
    /\ notified' = (notified \/ wpc = "blocked") /\ stopper' = "join"
    /\ UNCHANGED <<queued, lpc, sent, files, written, mtx, wpc, due>>

Join ==
    /\ stopper = "join" /\ wpc = "over" /\ stopper' = "returned"
    /\ UNCHANGED <<queued, lpc, sent, files, written, stop, mtx, wpc, notified,
                   due>>

Stop == SetStop \/ Join

AppenderNext ==
    \/ \E l \in Logger : Enqueue(l) \/ Notify(l)
    \/ Writer \/ StopCall \/ Stop

AppenderSpec == AppenderInit /\ [][AppenderNext]_appenderVars

\* The threads run on.
AppenderFairSpec ==
    AppenderSpec /\ WF_appenderVars(Writer) /\ WF_appenderVars(Stop)

---------------------------------------------------------------------------
(* Properties.                                                             *)

\* The log: the files from the oldest to the current one.
Log == FlattenSeq(Reverse(files))

\* The files, read from the highest number to the lowest, hold the newest
\* records in the order in which they were written, and at most max_files
\* files exist: rolling drops the oldest ones and nothing else.
NewestKept ==
    /\ IsSuffix(Log, written)
    /\ MaxFiles > 0 => Len(files) <= MaxFiles
    /\ Len(Log) < Len(written) => Len(files) = MaxFiles

\* stop() returns: its notification is not lost, although those of write() may
\* be.
StopReturns == stopper = "join" ~> stopper = "returned"

\* What the test async_file checks: after stop_async_log() the records logged
\* before it are in the log.
AllWritten == stopper = "returned" => due \subseteq ToSet(written)

=============================================================================
