--------------------------- MODULE ThreadLocalValue ---------------------------
(***************************************************************************)
(* The value of a counter or a gauge                                       *)
(* (include/ylt/metric/thread_local_value.hpp): several duplicates, each   *)
(* allocated by the first thread that needs it.  A thread adds to its own  *)
(* duplicate, value() adds them up and update() exchanges them one by one; *)
(* nothing is locked.  A step is one access to shared memory.              *)
(***************************************************************************)
EXTENDS Integers, FiniteSets, Functions

CONSTANTS
    Thread,     \* the threads, by their round index: 0, 1, ...
    Slots,      \* dupli_count
    Values,     \* what update() may set; reset() sets 0
    MaxOps,     \* bound on the operations of a thread
    Null        \* nullptr

ASSUME ValueAssumption ==
    /\ Thread \subseteq Nat /\ IsFiniteSet(Thread) /\ Slots \in Nat \ {0}
    /\ Values \subseteq Int /\ Null \notin Int

Slot == 0..Slots - 1

VARIABLES
    duplicates, \* duplicates_: a number, or Null before the allocation
    vpc,        \* where a thread is
    arg,        \* the argument of its operation
    at,         \* the duplicate it is at
    val,        \* its sum so far
    ops,        \* the operations it has begun
    added,      \* all that inc(), dec() and update() have put in
    returned,   \* all that update() has given back
    low         \* what was stored when value() began; Null if it shrank since

valueVars == <<duplicates, vpc, arg, at, val, ops, added, returned, low>>

ValueInit ==
    /\ duplicates = [s \in Slot |-> Null] /\ vpc = [t \in Thread |-> "idle"]
    /\ arg = [t \in Thread |-> 0] /\ at = [t \in Thread |-> 0]
    /\ val = [t \in Thread |-> 0] /\ ops = [t \in Thread |-> 0]
    /\ added = 0 /\ returned = 0 /\ low = [t \in Thread |-> Null]

ValueGoto(t, label) == vpc' = [vpc EXCEPT ![t] = label]
Stored == SumFunctionOnSet(duplicates, {s \in Slot : duplicates[s] # Null})

\* get_round_index()
RoundIndex(t) == t % Slots

BeginOp(t, label, v, s) ==
    /\ vpc[t] = "idle" /\ ops[t] < MaxOps /\ ops' = [ops EXCEPT ![t] = @ + 1]
    /\ ValueGoto(t, label)
    /\ arg' = [arg EXCEPT ![t] = v] /\ at' = [at EXCEPT ![t] = s]
    /\ UNCHANGED <<duplicates, val, added, returned>>

\* inc() and dec() work on the duplicate of the thread, update() begins with
\* the first one.
Add(t) ==
    \E v \in {1, -1} : BeginOp(t, "find add", v, RoundIndex(t)) /\ UNCHANGED low
Update(t) == \E v \in Values : BeginOp(t, "find first", v, 0) /\ UNCHANGED low
Value(t) == BeginOp(t, "read", 0, 0) /\ low' = [low EXCEPT ![t] = Stored]

\* get_value(): is it there?
Find(t) ==
    /\ vpc[t] \in {"find add", "find first"}
    /\ ValueGoto(t,
         CASE duplicates[at[t]] # Null /\ vpc[t] = "find add" -> "add"
           [] duplicates[at[t]] # Null /\ vpc[t] = "find first" -> "first"
           [] duplicates[at[t]] = Null /\ vpc[t] = "find add" -> "new add"
           [] OTHER -> "new first")
    /\ UNCHANGED <<duplicates, arg, at, val, ops, added, returned, low>>

\* Mutant: the pointer is stored, not exchanged.
Install(s) == duplicates' = [duplicates EXCEPT ![s] = 0]

\* compare_exchange_strong(nullptr, ptr): only the first allocation stays.
ExchangePointer(s) ==
    duplicates' = [duplicates EXCEPT ![s] = IF @ = Null THEN 0 ELSE @]

Allocate(t) ==
    /\ vpc[t] \in {"new add", "new first"} /\ ExchangePointer(at[t])
    /\ ValueGoto(t, IF vpc[t] = "new add" THEN "add" ELSE "first")
    /\ UNCHANGED <<arg, at, val, ops, added, returned, low>>

\* A reader may have missed what is gone now.
Shrunk == low' = [t \in Thread |-> Null]

\* fetch_add, fetch_sub
FetchAdd(t) ==
    /\ vpc[t] = "add" /\ ValueGoto(t, "idle")
    /\ duplicates' = [duplicates EXCEPT ![at[t]] = @ + arg[t]]
    /\ added' = added + arg[t]
    /\ IF arg[t] < 0 THEN Shrunk ELSE UNCHANGED low
    /\ UNCHANGED <<arg, at, val, ops, returned>>

\* get_value(0).exchange(value)
ExchangeFirst(t) ==
    /\ vpc[t] = "first" /\ ValueGoto(t, "rest") /\ at' = [at EXCEPT ![t] = 1]
    /\ val' = [val EXCEPT ![t] = duplicates[0]]
    /\ duplicates' = [duplicates EXCEPT ![0] = arg[t]]
    /\ added' = added + arg[t] /\ Shrunk
    /\ UNCHANGED <<arg, ops, returned>>

\* The others are exchanged with 0.
ExchangeRest(t) ==
    /\ vpc[t] = "rest" /\ at[t] < Slots /\ at' = [at EXCEPT ![t] = @ + 1]
    /\ \/ /\ duplicates[at[t]] # Null
          /\ val' = [val EXCEPT ![t] = @ + duplicates[at[t]]]
          /\ duplicates' = [duplicates EXCEPT ![at[t]] = 0]
       \/ duplicates[at[t]] = Null /\ UNCHANGED <<val, duplicates>>
    /\ Shrunk /\ UNCHANGED <<vpc, arg, ops, added, returned>>

UpdateEnd(t) ==
    /\ vpc[t] = "rest" /\ at[t] = Slots /\ ValueGoto(t, "idle")
    /\ returned' = returned + val[t] /\ val' = [val EXCEPT ![t] = 0]
    /\ UNCHANGED <<duplicates, arg, at, ops, added, low>>

\* Mutant: the first duplicate is left out.
SkipFirst(t) == IF at[t] = 0 THEN 0 ELSE duplicates[at[t]]

Read(t) == duplicates[at[t]]

\* value(): t.load()->load()
AddUp(t) ==
    /\ vpc[t] = "read" /\ at[t] < Slots /\ at' = [at EXCEPT ![t] = @ + 1]
    /\ val' = [val EXCEPT ![t] =
                 IF duplicates[at[t]] = Null THEN @ ELSE @ + Read(t)]
    /\ UNCHANGED <<duplicates, vpc, arg, ops, added, returned, low>>

ValueEnd(t) ==
    /\ vpc[t] = "read" /\ at[t] = Slots /\ ValueGoto(t, "idle")
    /\ val' = [val EXCEPT ![t] = 0] /\ low' = [low EXCEPT ![t] = Null]
    /\ UNCHANGED <<duplicates, arg, at, ops, added, returned>>

ValueNext ==
    \E t \in Thread :
        \/ Add(t) \/ Update(t) \/ Value(t) \/ Find(t) \/ Allocate(t)
        \/ FetchAdd(t) \/ ExchangeFirst(t) \/ ExchangeRest(t) \/ UpdateEnd(t)
        \/ AddUp(t) \/ ValueEnd(t)

ValueSpec == ValueInit /\ [][ValueNext]_valueVars

---------------------------------------------------------------------------
(* Properties.                                                             *)

Updating == {t \in Thread : vpc[t] = "rest"}

\* Nothing is counted twice or lost, whoever allocates a duplicate and however
\* updates and additions interleave: what was put in is stored, has been
\* returned, or is about to be.
Conserved == added = Stored + returned + SumFunctionOnSet(val, Updating)

\* value() is not a snapshot, but while nothing is taken out it lies between
\* what was stored when it began and what is stored when it returns.
ReadBetween ==
    \A t \in Thread :
        vpc[t] = "read" /\ at[t] = Slots /\ low[t] # Null =>
            low[t] <= val[t] /\ val[t] <= Stored

===============================================================================
