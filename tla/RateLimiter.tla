----------------------------- MODULE RateLimiter -----------------------------
(***************************************************************************)
(* The bursty rate limiter (include/ylt/coro_io/rate_limiter.hpp).         *)
(*                                                                         *)
(* acquire(n) is granted at the time the next ticket is free and pushes    *)
(* that time on by what n permits cost; time that passed unused is stored  *)
(* as permits, for a second at most.  A spin lock makes acquire() and      *)
(* set_rate() atomic; sleeping comes after it and has no effect here.      *)
(*                                                                         *)
(* Permits are counted by the time they cost at the rate they were stored  *)
(* at: set_rate() scales stored_permits_ by the ratio of the rates, which  *)
(* leaves that time as it is.  The clock and the intervals, which are      *)
(* doubles in the code, have Ticks ticks per millisecond; the code cuts    *)
(* what it adds to a time to whole milliseconds.                           *)
(***************************************************************************)
EXTENDS Naturals, FiniteSetsExt

CONSTANTS
    Ticks,      \* ticks of the clock in a millisecond
    Intervals,  \* ticks between two permits, for the rates in use
    Burst,      \* max_burst_seconds_ in ticks
    MaxPermits, \* bound on what one call acquires
    MaxTime     \* bound on the clock, and on what is granted

ASSUME LimiterAssumption ==
    /\ Ticks \in Nat \ {0} /\ Intervals \subseteq Nat \ {0} /\ Burst \in Nat
    /\ MaxPermits \in Nat /\ MaxTime \in Nat

VARIABLES
    now,        \* the steady clock
    next_free,  \* next_free_ticket_micros_
    stored,     \* stored_permits_, by what they cost
    interval,   \* stable_internal_micros_
    granted,    \* what all permits granted so far cost
    cuts        \* how many prices were not whole milliseconds

limiterVars == <<now, next_free, stored, interval, granted, cuts>>

LimiterInit ==
    /\ now = 0 /\ next_free = 0 /\ stored = 0 /\ interval \in Intervals
    /\ granted = 0 /\ cuts = 0

\* duration_cast<milliseconds>
Whole(t) == (t \div Ticks) * Ticks

\* Mutant: the time that was turned into permits is not taken off.
KeepTicket(t) == next_free

\* next_free_ticket_micros_ = now_micros
Resynced(t) == t

\* resync(): a ticket that is free already becomes stored permits.
TicketAt == IF now > next_free THEN Resynced(now) ELSE next_free
StoredAt ==
    IF now > next_free
    THEN Min({Burst, stored + Whole(now - next_free)}) ELSE stored

\* acquire(): reserve_earliest_available() under the lock.
Acquire(n) ==
    LET cost == n * interval
        spend == Min({cost, StoredAt})
        price == cost - spend
    IN  /\ next_free' = TicketAt + Whole(price)
        /\ stored' = StoredAt - spend
        /\ granted' = granted + cost
        /\ cuts' = cuts + (IF Whole(price) = price THEN 0 ELSE 1)
        /\ UNCHANGED <<now, interval>>

\* set_rate()
SetRate(i) ==
    /\ interval' = i /\ next_free' = TicketAt /\ stored' = StoredAt
    /\ UNCHANGED <<now, granted, cuts>>

Tick ==
    /\ now < MaxTime /\ now' = now + 1
    /\ UNCHANGED <<next_free, stored, interval, granted, cuts>>

LimiterNext ==
    \/ \E n \in 1..MaxPermits : granted <= MaxTime /\ Acquire(n)
    \/ \E i \in Intervals : SetRate(i)
    \/ Tick

LimiterSpec == LimiterInit /\ [][LimiterNext]_limiterVars

---------------------------------------------------------------------------
(* Properties.                                                             *)

\* Time is not sold twice: what was granted and what is stored never cost more
\* than the time up to the next free ticket and, for every price that had to be
\* cut, less than a millisecond.  So in the long run a rate whose prices are
\* whole milliseconds is kept, and any other is exceeded by no more than the
\* cuts, whatever bursts and changes of rate happen.
RateKept == granted + stored <= next_free + cuts * (Ticks - 1)

==============================================================================
