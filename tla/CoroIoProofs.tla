---------------------------- MODULE CoroIoProofs ----------------------------
(***************************************************************************)
(* Theorems about three components of coro_io that share nothing but their *)
(* directory: async_io(), the rate limiter and the ring of circle_buffer.  *)
(***************************************************************************)
EXTENDS AsyncIo, RateLimiter, CircleBuffer, SequenceTheorems, TLAPS

---------------------------------------------------------------------------
(***************************************************************************)
(* The cancellation handshake of async_io() never touches an object its    *)
(* owner has back.                                                         *)
(*                                                                         *)
(* The invariant says who owns the flag: it is start_cancel_flag exactly   *)
(* while one thread is between its claim and its store, and the coroutine  *)
(* returns only when the flag can no longer be claimed, or when nobody     *)
(* else takes part.                                                        *)
(***************************************************************************)
Busy == {"cancel", "store"}

IoTypes ==
    /\ flag \in Flags /\ slot \in {"none", "open", "set", "clear"}
    /\ signal \in BOOLEAN /\ op \in {"new", "pending", "canceled", "done"}
    /\ spc \in {"emplace", "io", "exchange", "start", "cancel", "store", "end"}
    /\ hpc \in {"off", "exchange", "start", "cancel", "store", "end"}
    /\ cpc \in {"suspended", "last", "wait", "returned"}

\* The flag is start_cancel_flag while exactly one thread cancels.
OneCancels ==
    /\ flag = "start" => spc \in Busy \/ hpc \in Busy
    /\ spc \in Busy => flag = "start" /\ hpc \notin Busy
    /\ hpc \in Busy => flag = "start" /\ spc \notin Busy

\* Before the handler is in the slot, or without one, there is no exchange.
Apart ==
    /\ slot \in {"none", "open"} => hpc = "off" /\ spc \in {"emplace", "end"}
    /\ slot = "open" /\ spc = "end" => signal
    /\ spc = "emplace" => slot \in {"none", "open"}
    /\ ~signal => hpc = "off"
    /\ spc \in {"emplace", "io"} => op = "new"
    /\ slot = "clear" => op = "done"

\* What the flag is when the coroutine waits or has returned.
Closed ==
    /\ cpc = "wait" => flag \in {"start", "finish"}
    /\ cpc = "returned" =>
        \/ flag = "finish"
        \/ slot \in {"none", "open"} /\ spc = "end" /\ hpc = "off"

IoInv == IoTypes /\ OneCancels /\ Apart /\ Closed

LEMMA IoInvInit == IoInit => IoInv
  BY DEF IoInit, IoInv, IoTypes, OneCancels, Apart, Closed, Flags, Busy

\* One step per action; the exchange of flags is the same in both threads.
LEMMA IoInvStep == IoInv /\ [IoNext]_ioVars => IoInv'
<1> SUFFICES ASSUME IoInv, [IoNext]_ioVars PROVE IoInv'
  OBVIOUS
<1> USE DEF IoInv, IoTypes, OneCancels, Apart, Closed, Flags, Busy
<1>1. CASE NoSlot
  BY <1>1 DEF NoSlot
<1>2. CASE Emplace
  BY <1>2 DEF Emplace
<1>3. CASE StartIo
  BY <1>3 DEF StartIo
<1>4. CASE Starter
  BY <1>4 DEF Starter, CancelStep, Raise, Claim, Cancel
<1>5. CASE Emit
  BY <1>5 DEF Emit
<1>6. CASE Handler
  BY <1>6 DEF Handler, CancelStep, Raise, Claim, Cancel
<1>7. CASE Complete
  BY <1>7 DEF Complete
<1>8. CASE Close
  BY <1>8 DEF Close, AwaitCancel
<1>9. CASE WaitOver
  BY <1>9 DEF WaitOver
<1>10. CASE UNCHANGED ioVars
  BY <1>10 DEF ioVars
<1>11. QED
  BY <1>1, <1>2, <1>3, <1>4, <1>5, <1>6, <1>7, <1>8, <1>9, <1>10
     DEF IoNext, Start, Coroutine

\* detail::cancel(obj) of the signal handler or of the starting thread never
\* runs once async_io() has returned to the owner of the object.
THEOREM CancelBeforeReturn == IoSpec => []ObjectAlive
<1>1. IoInv => ObjectAlive
  BY DEF IoInv, OneCancels, Closed, ObjectAlive, Busy
<1>2. QED
  BY <1>1, IoInvInit, IoInvStep, PTL DEF IoSpec

---------------------------------------------------------------------------
(***************************************************************************)
(* The rate limiter sells no time twice, for every clock, burst and set of *)
(* rates, but for less than a millisecond per price that is cut.           *)
(*                                                                         *)
(* resync() cuts as well, in favour of the limiter: it stores no more than *)
(* the ticket moves on by.  acquire() cuts the price of what it cannot     *)
(* take from the store, in favour of the caller.  If all intervals and the *)
(* burst are whole milliseconds, so are all prices, and nothing is cut.    *)
(***************************************************************************)
\* What has been cut off all prices is at most this.
Slack == cuts * (Ticks - 1)

LimiterType ==
    /\ now \in Nat /\ next_free \in Nat /\ stored \in Nat /\ granted \in Nat
    /\ cuts \in Nat /\ interval \in Intervals

LimiterInv == LimiterType /\ RateKept

\* A whole number of milliseconds.
IsWhole(t) == \E k \in Nat : t = k * Ticks

---------------------------------------------------------------------------

\* The smaller of two numbers.
LEMMA MinOfTwo ==
  ASSUME NEW a \in Nat, NEW b \in Nat
  PROVE  Min({a, b}) = IF a <= b THEN a ELSE b
  <1>1. PICK m \in {a, b} : \A y \in {a, b} : m <= y
    OBVIOUS
  <1>2. /\ Min({a, b}) \in {a, b}
        /\ \A y \in {a, b} : Min({a, b}) <= y
    BY <1>1 DEF Min
  <1>3. QED
    BY <1>2

\* Cutting to whole milliseconds leaves a whole number of them, and never
\* more than there was; less than a millisecond is lost.
LEMMA WholeCuts ==
  ASSUME Ticks \in Nat \ {0}, NEW t \in Nat
  PROVE  /\ Whole(t) \in Nat /\ IsWhole(Whole(t))
         /\ Whole(t) <= t /\ t <= Whole(t) + Ticks - 1
  <1>1. t \div Ticks \in Nat
    OBVIOUS
  <1>2. t = (t \div Ticks) * Ticks + (t % Ticks)
    BY Z3
  <1>3. t % Ticks \in 0..Ticks - 1
    OBVIOUS
  <1>4. (t \div Ticks) * Ticks \in Nat
    BY <1>1
  <1>5. Whole(t) \in Nat /\ IsWhole(Whole(t))
    BY <1>1, <1>4 DEF Whole, IsWhole
  <1>6. Whole(t) <= t /\ t <= Whole(t) + Ticks - 1
    BY <1>2, <1>3, <1>4 DEF Whole
  <1>7. QED
    BY <1>5, <1>6

\* A number between -T and T that is a multiple of T is 0.
LEMMA SmallMultiple ==
  ASSUME NEW S \in Nat \ {0}, NEW k \in Nat, NEW d \in Nat,
         NEW r \in 0..S - 1, k * S = d * S + r
  PROVE  k = d
  <1>1. CASE k > d
    <2>1. (k - d) * S = k * S - d * S
      OBVIOUS
    <2>2. (k - d) * S >= S
      BY <1>1
    <2>3. k * S \in Int /\ d * S \in Int
      OBVIOUS
    <2>4. QED
      BY <2>1, <2>2, <2>3
  <1>2. CASE k < d
    <2>1. (d - k) * S = d * S - k * S
      OBVIOUS
    <2>2. (d - k) * S >= S
      BY <1>2
    <2>3. k * S \in Int /\ d * S \in Int
      OBVIOUS
    <2>4. QED
      BY <2>1, <2>2, <2>3
  <1>3. QED
    BY <1>1, <1>2

\* Whole milliseconds are left as they are.
LEMMA WholeKeeps ==
  ASSUME Ticks \in Nat \ {0}, NEW t \in Nat, IsWhole(t)
  PROVE  Whole(t) = t
  <1>1. PICK k \in Nat : t = k * Ticks
    BY DEF IsWhole
  <1>2. t = (t \div Ticks) * Ticks + (t % Ticks)
    BY Z3
  <1>3. t \div Ticks \in Nat /\ t % Ticks \in 0..Ticks - 1
    OBVIOUS
  <1>4. k = t \div Ticks
    <2> DEFINE d == t \div Ticks
               r == t % Ticks
    <2>1. d \in Nat /\ r \in 0..Ticks - 1 /\ k * Ticks = d * Ticks + r
      BY <1>1, <1>2, <1>3
    <2> HIDE DEF d, r
    <2>2. k = d
      BY <2>1, SmallMultiple
    <2>3. QED
      BY <2>2 DEF d
  <1>5. QED
    BY <1>1, <1>4 DEF Whole

\* Sums and differences of whole milliseconds are whole.
LEMMA WholeSums ==
  ASSUME Ticks \in Nat \ {0}, NEW s \in Nat, NEW t \in Nat,
         IsWhole(s), IsWhole(t)
  PROVE  IsWhole(s + t) /\ (t <= s => IsWhole(s - t))
  <1>1. PICK k \in Nat : s = k * Ticks
    BY DEF IsWhole
  <1>2. PICK l \in Nat : t = l * Ticks
    BY DEF IsWhole
  <1>3. IsWhole(s + t)
    <2>1. s + t = (k + l) * Ticks
      BY <1>1, <1>2
    <2>2. k + l \in Nat
      OBVIOUS
    <2>3. QED
      BY <2>1, <2>2 DEF IsWhole
  <1>4. ASSUME t <= s
        PROVE  IsWhole(s - t)
    <2>1. s - t = (k - l) * Ticks
      BY <1>1, <1>2
    <2>2. CASE l <= k
      <3>1. k - l \in Nat
        BY <2>2
      <3>2. QED
        BY <2>1, <3>1 DEF IsWhole
    <2>3. CASE k < l
      <3>1. (l - k) * Ticks >= Ticks
        BY <2>3
      <3>2. (l - k) * Ticks = t - s
        BY <1>1, <1>2
      <3>3. QED
        BY <1>4, <3>1, <3>2
    <2>4. QED
      BY <2>2, <2>3
  <1>5. QED
    BY <1>3, <1>4

\* resync() turns no more time into permits than the ticket moves on by.
LEMMA Resync ==
  ASSUME LimiterInv
  PROVE  /\ TicketAt \in Nat /\ StoredAt \in Nat /\ Slack \in Nat
         /\ granted + StoredAt <= TicketAt + Slack
  <1>1. Slack \in Nat
    BY LimiterAssumption DEF Slack, LimiterInv, LimiterType
  <1>2. granted + stored <= next_free + Slack
    BY DEF LimiterInv, RateKept, Slack
  <1>3. CASE now > next_free
    <2> DEFINE gap == now - next_free
               sum == stored + Whole(gap)
    <2>1. gap \in Nat
      BY <1>3 DEF LimiterInv, LimiterType
    <2>2. Whole(gap) \in Nat /\ Whole(gap) <= gap
      BY <2>1, WholeCuts, LimiterAssumption
    <2>3. sum \in Nat
      BY <2>2 DEF LimiterInv, LimiterType
    <2>4. StoredAt = IF Burst <= sum THEN Burst ELSE sum
      <3>1. StoredAt = Min({Burst, sum})
        BY <1>3 DEF StoredAt
      <3> HIDE DEF sum
      <3>2. QED
        BY <2>3, <3>1, MinOfTwo, LimiterAssumption
    <2>5. TicketAt = now
      BY <1>3 DEF TicketAt, Resynced
    <2>6. StoredAt \in Nat /\ StoredAt <= sum
      <3> HIDE DEF sum
      <3>1. QED
        BY <2>3, <2>4, LimiterAssumption
    <2>7. granted + StoredAt <= now + Slack
      <3>1. granted + stored + gap <= now + Slack
        BY <1>1, <1>2, <1>3 DEF LimiterInv, LimiterType
      <3> HIDE DEF gap
      <3>2. QED
        BY <1>1, <2>1, <2>2, <2>6, <3>1 DEF LimiterInv, LimiterType
    <2>8. QED
      BY <1>1, <2>5, <2>6, <2>7 DEF LimiterInv, LimiterType
  <1>4. CASE ~(now > next_free)
    BY <1>1, <1>2, <1>4 DEF TicketAt, StoredAt, LimiterInv, LimiterType
  <1>5. QED
    BY <1>3, <1>4

\* What acquire() takes from the store, and what it charges for the rest.
LEMMA Prices ==
  ASSUME LimiterInv, NEW n \in 1..MaxPermits,
         NEW cost, cost = n * interval,
         NEW spend, spend = Min({cost, StoredAt})
  PROVE  /\ cost \in Nat /\ spend \in Nat
         /\ cost - spend \in Nat /\ StoredAt - spend \in Nat
         /\ spend = IF cost <= StoredAt THEN cost ELSE StoredAt
  <1>1. cost \in Nat
    <2>1. n \in Nat /\ interval \in Nat
      BY LimiterAssumption DEF LimiterInv, LimiterType
    <2>2. QED
      BY <2>1
  <1>2. StoredAt \in Nat
    BY Resync
  <1>3. spend = IF cost <= StoredAt THEN cost ELSE StoredAt
    BY <1>1, <1>2, MinOfTwo
  <1>4. QED
    BY <1>1, <1>2, <1>3

\* acquire() moves the ticket on by all that it does not take from the store,
\* or by less than a millisecond less.
LEMMA AcquireStep ==
  ASSUME LimiterInv, NEW n \in 1..MaxPermits, Acquire(n)
  PROVE  LimiterInv'
  <1> DEFINE cost == n * interval
             spend == Min({cost, StoredAt})
             price == cost - spend
             whole == Whole(price)
  <1>1. /\ next_free' = TicketAt + whole /\ stored' = StoredAt - spend
        /\ granted' = granted + cost /\ UNCHANGED <<now, interval>>
        /\ cuts' = cuts + (IF whole = price THEN 0 ELSE 1)
    BY DEF Acquire
  <1>2. /\ cost \in Nat /\ spend \in Nat
        /\ price \in Nat /\ StoredAt - spend \in Nat
    BY Prices
  <1>3. whole \in Nat /\ whole <= price /\ price <= whole + Ticks - 1
    BY <1>2, WholeCuts, LimiterAssumption
  <1>4. /\ TicketAt \in Nat /\ StoredAt \in Nat /\ Slack \in Nat
        /\ granted + StoredAt <= TicketAt + Slack
    BY Resync
  <1>5. price = cost - spend
    OBVIOUS
  <1> HIDE DEF cost, spend, price, whole
  <1>6. LimiterType'
    BY <1>1, <1>2, <1>3, <1>4 DEF LimiterInv, LimiterType
  <1>7. granted' + stored' <= next_free' + Slack'
    <2>1. granted' + stored' <= TicketAt + Slack + price
      BY <1>1, <1>2, <1>4, <1>5 DEF LimiterInv, LimiterType
    <2>2. CASE whole = price
      <3>1. cuts' = cuts
        BY <1>1, <2>2 DEF LimiterInv, LimiterType
      <3>2. Slack' = Slack
        BY <3>1 DEF Slack
      <3>3. QED
        BY <1>1, <1>3, <1>4, <2>1, <2>2, <3>2
    <2>3. CASE whole # price
      <3>1. Slack' = Slack + (Ticks - 1)
        <4>1. cuts' = cuts + 1 /\ cuts \in Nat /\ Ticks \in Nat
          BY <1>1, <2>3, LimiterAssumption DEF LimiterInv, LimiterType
        <4>2. (cuts + 1) * (Ticks - 1) = cuts * (Ticks - 1) + (Ticks - 1)
          BY <4>1
        <4>3. QED
          BY <4>1, <4>2 DEF Slack
      <3>2. QED
        BY <1>1, <1>2, <1>3, <1>4, <2>1, <3>1, <1>6, LimiterAssumption
        DEF LimiterInv, LimiterType
    <2>4. QED
      BY <2>2, <2>3
  <1>8. QED
    BY <1>6, <1>7 DEF LimiterInv, RateKept, Slack

\* The invariant of the limiter.
LEMMA LimiterInvariant == LimiterSpec => []LimiterInv
  <1>1. LimiterInit => LimiterInv
    BY LimiterAssumption DEF LimiterInit, LimiterInv, LimiterType, RateKept
  <1>2. LimiterInv /\ [LimiterNext]_limiterVars => LimiterInv'
    <2> SUFFICES ASSUME LimiterInv, [LimiterNext]_limiterVars PROVE LimiterInv'
      OBVIOUS
    <2>1. ASSUME NEW i \in Intervals, SetRate(i)
          PROVE  LimiterInv'
      BY <2>1, Resync DEF SetRate, LimiterInv, LimiterType, RateKept, Slack
    <2>2. CASE Tick \/ UNCHANGED limiterVars
      BY <2>2 DEF Tick, limiterVars, LimiterInv, LimiterType, RateKept
    <2>3. QED
      BY <2>1, <2>2, AcquireStep DEF LimiterNext
  <1>3. QED
    BY <1>1, <1>2, PTL DEF LimiterSpec

\* Time is not sold twice: what was granted and what is stored never cost more
\* than the time up to the next free ticket and less than a millisecond for
\* every price that was cut, for every clock, burst and set of rates, fractions
\* of a millisecond included, and any sequence of acquire() and set_rate().
THEOREM RateIsKept == LimiterSpec => []RateKept
  BY LimiterInvariant, PTL DEF LimiterInv

\* The store is whole milliseconds and nothing was cut.
WholeInv == IsWhole(stored) /\ cuts = 0

\* If the intervals and the burst are whole milliseconds resync() stores whole
\* milliseconds.
LEMMA WholeResync ==
  ASSUME LimiterInv, WholeInv, IsWhole(Burst)
  PROVE  IsWhole(StoredAt)
  <1>1. CASE now > next_free
    <2> DEFINE w == Whole(now - next_free)
               sum == stored + w
    <2>1. now - next_free \in Nat
      BY <1>1 DEF LimiterInv, LimiterType
    <2>2. w \in Nat /\ IsWhole(w)
      BY <2>1, WholeCuts, LimiterAssumption
    <2>3. StoredAt = Min({Burst, sum})
      BY <1>1 DEF StoredAt
    <2> HIDE DEF w
    <2>4. sum \in Nat /\ IsWhole(sum)
      BY <2>2, WholeSums, LimiterAssumption DEF LimiterInv, LimiterType, WholeInv
    <2> HIDE DEF sum
    <2>5. QED
      BY <2>3, <2>4, MinOfTwo, LimiterAssumption
  <1>2. CASE ~(now > next_free)
    BY <1>2 DEF StoredAt, WholeInv
  <1>3. QED
    BY <1>1, <1>2

\* acquire() then cuts nothing.
LEMMA WholeAcquire ==
  ASSUME LimiterInv, WholeInv, IsWhole(Burst),
         \A i \in Intervals : IsWhole(i),
         NEW n \in 1..MaxPermits, Acquire(n)
  PROVE  WholeInv'
  <1> DEFINE cost == n * interval
             spend == Min({cost, StoredAt})
             price == cost - spend
  <1>1. /\ stored' = StoredAt - spend
        /\ cuts' = cuts + (IF Whole(price) = price THEN 0 ELSE 1)
    BY DEF Acquire
  <1>2. /\ cost \in Nat /\ spend \in Nat
        /\ price \in Nat /\ StoredAt - spend \in Nat
        /\ spend = IF cost <= StoredAt THEN cost ELSE StoredAt
    BY Prices
  <1>3. IsWhole(cost)
    <2>1. PICK k \in Nat : interval = k * Ticks
      BY DEF IsWhole, LimiterInv, LimiterType
    <2>2. n * k \in Nat /\ n * interval = (n * k) * Ticks
      BY <2>1, LimiterAssumption
    <2>3. QED
      BY <2>2 DEF IsWhole
  <1>4. StoredAt \in Nat /\ IsWhole(StoredAt)
    BY Resync, WholeResync
  <1>5. price = cost - spend
    OBVIOUS
  <1> HIDE DEF cost, spend, price
  <1>6. IsWhole(spend) /\ spend <= cost /\ spend <= StoredAt
    BY <1>2, <1>3, <1>4
  <1>7. IsWhole(price) /\ IsWhole(StoredAt - spend)
    BY <1>2, <1>3, <1>4, <1>5, <1>6, WholeSums, LimiterAssumption
  <1>8. Whole(price) = price
    BY <1>2, <1>7, WholeKeeps, LimiterAssumption
  <1>9. QED
    BY <1>1, <1>7, <1>8 DEF WholeInv, IsWhole

\* With rates whose interval is a whole number of milliseconds no time is sold
\* twice at all: nothing is ever cut off a price.
THEOREM WholeRatesExact ==
  ASSUME IsWhole(Burst), \A i \in Intervals : IsWhole(i)
  PROVE  LimiterSpec => [](granted + stored <= next_free)
  <1>1. LimiterInit => WholeInv
    <2>1. 0 = 0 * Ticks
      BY LimiterAssumption
    <2>2. QED
      BY <2>1 DEF LimiterInit, WholeInv, IsWhole
  <1>2. LimiterInv /\ WholeInv /\ [LimiterNext]_limiterVars => WholeInv'
    <2> SUFFICES ASSUME LimiterInv, WholeInv, [LimiterNext]_limiterVars
                 PROVE  WholeInv'
      OBVIOUS
    <2>1. ASSUME NEW i \in Intervals, SetRate(i)
          PROVE  WholeInv'
      BY <2>1, WholeResync DEF SetRate, WholeInv, IsWhole
    <2>2. CASE Tick \/ UNCHANGED limiterVars
      BY <2>2 DEF Tick, limiterVars, WholeInv, IsWhole
    <2>3. QED
      BY <2>1, <2>2, WholeAcquire DEF LimiterNext
  <1>3. LimiterInv /\ WholeInv => granted + stored <= next_free
    BY LimiterAssumption DEF LimiterInv, LimiterType, WholeInv, RateKept
  <1>4. QED
    BY <1>1, <1>2, <1>3, LimiterInvariant, PTL DEF LimiterSpec

---------------------------------------------------------------------------
(***************************************************************************)
(* The ring of circle_buffer.hpp implements a bounded queue, for every     *)
(* capacity.                                                               *)
(*                                                                         *)
(* The invariant is only the type of the ring. The argument is about its   *)
(* places: the n-th element is at Place(n), the last one at end_, and as   *)
(* long as there are no more elements than places no two of them share     *)
(* one; the flag is needed at the two ends only, where a full ring and an  *)
(* empty one have the same indices.                                        *)
(***************************************************************************)
RingValue == Elem \cup {"none"}

RingType ==
    /\ queue \in [0..Capacity - 1 -> RingValue]
    /\ front \in 0..Capacity - 1 /\ end \in 0..Capacity - 1
    /\ may_empty \in BOOLEAN

\* Where the n-th element from the front is.
Place(n) ==
    IF front + n < Capacity THEN front + n ELSE front + n - Capacity

\* The content is a sequence with the elements at their places.
Placed ==
    /\ Content \in Seq(RingValue) /\ Len(Content) = Size
    /\ \A n \in 1..Size : Content[n] = queue[Place(n)]
    /\ \A n \in 1..Capacity : Place(n) \in 0..Capacity - 1

\* What the ring says, and that a queue with its content would say the same.
Said == [size |-> Size, empty |-> IsEmpty, full |-> Full,
         ends |-> IF IsEmpty THEN <<>> ELSE <<Oldest, Back>>]
Agrees == Said = Queue!Answers(Content)

---------------------------------------------------------------------------

\* An index that runs past the end by less than a round starts again.
LEMMA WrapAround ==
  ASSUME Capacity \in Nat \ {0}, NEW i \in 0..Capacity - 1,
         NEW n \in 0..Capacity
  PROVE  (i + n) % Capacity
           = IF i + n < Capacity THEN i + n ELSE i + n - Capacity
  <1> DEFINE d == (i + n) \div Capacity
             r == (i + n) % Capacity
  <1>1. i + n \in Nat /\ i + n < 2 * Capacity
    OBVIOUS
  <1>2. i + n = d * Capacity + r
    BY Z3
  <1>3. d \in Nat /\ r \in 0..Capacity - 1
    BY <1>1
  <1> HIDE DEF d, r
  <1>4. CASE d = 0
    BY <1>1, <1>2, <1>3, <1>4 DEF r
  <1>5. CASE d = 1
    BY <1>1, <1>2, <1>3, <1>5 DEF r
  <1>6. CASE d >= 2
    <2>1. d * Capacity >= 2 * Capacity
      BY <1>3, <1>6
    <2>2. d * Capacity \in Nat
      BY <1>3
    <2>3. QED
      BY <1>1, <1>2, <1>3, <2>1, <2>2
  <1>7. QED
    BY <1>3, <1>4, <1>5, <1>6

\* What size(), empty() and full() say fits together, and the last element
\* is at end_.
LEMMA SizeFacts ==
  ASSUME Capacity \in Nat \ {0}, RingType
  PROVE  /\ Size \in 0..Capacity /\ (Size = 0 <=> IsEmpty)
         /\ (Size = Capacity <=> Full) /\ Place(Size) = end
  <1>1. CASE front > end
    BY <1>1 DEF RingType, Size, IsEmpty, Full, Place
  <1>2. CASE front < end
    BY <1>2 DEF RingType, Size, IsEmpty, Full, Place
  <1>3. CASE front = end /\ may_empty
    BY <1>3 DEF RingType, Size, IsEmpty, Full, Place
  <1>4. CASE front = end /\ ~may_empty
    BY <1>4 DEF RingType, Size, IsEmpty, Full, Place
  <1>5. QED
    BY <1>1, <1>2, <1>3, <1>4 DEF RingType

\* The elements of the ring, by their places.
LEMMA ContentFacts ==
  ASSUME Capacity \in Nat \ {0}
  PROVE  RingType => Placed
  <1> SUFFICES ASSUME RingType PROVE Placed
    OBVIOUS
  <1>1. Size \in 0..Capacity
    BY SizeFacts
  <1>2. \A n \in 1..Capacity : /\ Place(n) \in 0..Capacity - 1
                               /\ (front + n) % Capacity = Place(n)
    <2> SUFFICES ASSUME NEW n \in 1..Capacity
                 PROVE  /\ Place(n) \in 0..Capacity - 1
                        /\ (front + n) % Capacity = Place(n)
      OBVIOUS
    <2>1. front \in 0..Capacity - 1 /\ n \in 0..Capacity
      BY DEF RingType
    <2>2. (front + n) % Capacity = Place(n)
      BY <2>1, WrapAround DEF Place
    <2>3. Place(n) \in 0..Capacity - 1
      BY <2>1 DEF Place
    <2>4. QED
      BY <2>2, <2>3
  <1>3. \A n \in 1..Size : Content[n] = queue[Place(n)]
    BY <1>1, <1>2 DEF Content
  <1>4. Content \in [1..Size -> RingValue]
    BY <1>1, <1>2 DEF Content, RingType
  <1>5. Content \in Seq(RingValue) /\ Len(Content) = Size
    BY <1>1, <1>4
  <1>6. QED
    BY <1>2, <1>3, <1>5 DEF Placed

\* The answers of the ring are those of a queue with its content.
LEMMA AnswersAgree ==
  ASSUME Capacity \in Nat \ {0}
  PROVE  RingType => Agrees
  <1> SUFFICES ASSUME RingType PROVE Agrees
    OBVIOUS
  <1>1. /\ Size \in 0..Capacity /\ (Size = 0 <=> IsEmpty)
        /\ (Size = Capacity <=> Full) /\ Place(Size) = end
    BY SizeFacts
  <1>2. /\ Content \in Seq(RingValue) /\ Len(Content) = Size
        /\ \A n \in 1..Size : Content[n] = queue[Place(n)]
    BY ContentFacts DEF Placed
  <1>3. Content = <<>> <=> IsEmpty
    BY <1>1, <1>2, EmptySeq
  <1>4. ASSUME ~IsEmpty
        PROVE  Oldest = Head(Content) /\ Back = Content[Len(Content)]
    <2>1. Size \in 1..Capacity
      BY <1>1, <1>4
    <2>2. Content[Size] = queue[end]
      BY <1>1, <1>2, <2>1
    <2>3. (front + 1) % Capacity = Place(1)
      BY WrapAround DEF RingType, Place
    <2>4. Content[1] = Oldest
      BY <1>2, <2>1, <2>3 DEF Oldest
    <2>5. Head(Content) = Content[1]
      BY <1>2, <1>3, <1>4
    <2>6. QED
      BY <1>2, <2>2, <2>4, <2>5 DEF Back
  <1>5. /\ Size = Len(Content) /\ IsEmpty = (Content = <<>>)
        /\ Full = (Len(Content) = Capacity)
    BY <1>1, <1>2, <1>3 DEF IsEmpty, Full
  <1>6. QED
    BY <1>3, <1>4, <1>5, Zenon DEF Agrees, Said, Queue!Answers

\* push() appends.
LEMMA PushAppends ==
  ASSUME Capacity \in Nat \ {0}, RingType, RingType', NEW e \in Elem, Push(e)
  PROVE  Len(Content) < Capacity /\ Content' = Append(Content, e)
  <1>1. /\ Size \in 0..Capacity /\ Size # Capacity /\ Place(Size) = end
    BY SizeFacts DEF Push
  <1>2. end' = Place(Size + 1) /\ front' = front
    <2>1. (end + 1) % Capacity
            = IF end + 1 < Capacity THEN end + 1 ELSE end + 1 - Capacity
      BY WrapAround DEF RingType
    <2>2. QED
      BY <1>1, <2>1 DEF Push, Place, RingType
  <1>3. Size' = Size + 1
    <2>1. may_empty' = FALSE
      BY DEF Push
    <2>2. CASE end + 1 < Capacity
      <3>1. end' = end + 1
        BY <1>1, <1>2, <2>2 DEF Place, RingType
      <3>2. QED
        <4>1. CASE end < front
          BY <1>2, <2>1, <3>1, <4>1 DEF Size, IsEmpty, RingType
        <4>2. CASE end = front
          <5>1. Size = 0 /\ Size' = end' - front'
            BY <1>1, <1>2, <3>1, <4>2 DEF Size, RingType
          <5>2. QED
            BY <1>2, <3>1, <4>2, <5>1 DEF RingType
        <4>3. CASE end > front
          BY <1>2, <3>1, <4>3 DEF Size, RingType
        <4>4. QED
          BY <4>1, <4>2, <4>3 DEF RingType
    <2>3. CASE end + 1 = Capacity
      <3>1. end' = 0
        BY <1>1, <1>2, <2>3 DEF Place, RingType
      <3>2. QED
        BY <1>1, <1>2, <2>1, <2>3, <3>1
        DEF Push, Size, IsEmpty, Full, RingType
    <2>4. QED
      BY <2>2, <2>3 DEF RingType
  <1>4. /\ Content \in Seq(RingValue) /\ Len(Content) = Size
        /\ \A n \in 1..Size : Content[n] = queue[Place(n)]
        /\ \A n \in 1..Capacity : Place(n) \in 0..Capacity - 1
    BY ContentFacts DEF Placed
  <1>5. /\ Content' \in Seq(RingValue) /\ Len(Content') = Size'
        /\ \A n \in 1..Size' : Content'[n] = queue'[Place(n)]
    <2>1. /\ Content' \in Seq(RingValue) /\ Len(Content') = Size'
          /\ \A n \in 1..Size' : Content'[n] = queue'[Place(n)']
      <3>1. Placed'
        BY ContentFacts, PTL
      <3>2. QED
        BY <3>1 DEF Placed
    <2>2. \A n : Place(n)' = Place(n)
      BY <1>2 DEF Place
    <2>3. QED
      BY <2>1, <2>2
  <1>6. \A n \in 1..Size : Place(n) # Place(Size + 1)
    BY <1>1 DEF Place, RingType
  <1>7. \A n \in 1..Size : Content'[n] = Content[n]
    BY <1>1, <1>2, <1>3, <1>4, <1>5, <1>6 DEF Push, RingType
  <1>8. Content'[Size + 1] = e
    BY <1>1, <1>2, <1>3, <1>4, <1>5 DEF Push, RingType
  <1> DEFINE a == Append(Content, e)
  <1>9. /\ a \in Seq(RingValue) /\ Len(a) = Size + 1 /\ a[Size + 1] = e
        /\ \A n \in 1..Size : a[n] = Content[n]
    BY <1>4 DEF RingValue
  <1> HIDE DEF a
  <1>10. \A n \in 1..Len(Content') : Content'[n] = a[n]
    BY <1>1, <1>3, <1>5, <1>7, <1>8, <1>9
  <1>11. Content' = a
    BY <1>3, <1>5, <1>9, <1>10, SeqEqual
  <1>12. QED
    BY <1>1, <1>4, <1>11 DEF a

\* pop() removes the head and returns it.
LEMMA PopRemoves ==
  ASSUME Capacity \in Nat \ {0}, RingType, RingType', Pop
  PROVE  /\ Content # <<>> /\ Content' = Tail(Content)
         /\ popped' = Head(Content)
  <1>1. Size \in 1..Capacity
    BY SizeFacts DEF Pop
  <1>2. front' = Place(1) /\ end' = end /\ queue' = queue
    BY WrapAround DEF Pop, Place, RingType
  <1>3. Size' = Size - 1
    <2>1. ~IsEmpty /\ may_empty' = TRUE
      BY DEF Pop
    <2>2. CASE front + 1 < Capacity
      <3>1. front' = front + 1
        BY <1>2, <2>2 DEF Place, RingType
      <3>2. QED
        BY <1>2, <2>1, <2>2, <3>1 DEF Size, IsEmpty, RingType
    <2>3. CASE front + 1 = Capacity
      <3>1. front' = 0
        BY <1>2, <2>3 DEF Place, RingType
      <3>2. QED
        BY <1>2, <2>1, <2>3, <3>1 DEF Size, IsEmpty, RingType
    <2>4. QED
      BY <2>2, <2>3 DEF RingType
  <1>4. /\ Content \in Seq(RingValue) /\ Len(Content) = Size
        /\ \A n \in 1..Size : Content[n] = queue[Place(n)]
    BY ContentFacts DEF Placed
  <1>5. /\ Content' \in Seq(RingValue) /\ Len(Content') = Size'
        /\ \A n \in 1..Size' : Content'[n] = queue'[Place(n)']
    <2>1. Placed'
      BY ContentFacts, PTL
    <2>2. QED
      BY <2>1 DEF Placed
  <1>6. \A n \in 1..Size - 1 : Place(n)' = Place(n + 1)
    BY <1>1, <1>2 DEF Place, RingType
  <1>7. Content # <<>>
    BY <1>1, <1>4, EmptySeq
  <1>8. popped' = Head(Content)
    <2>1. Head(Content) = Content[1]
      BY <1>4, <1>7
    <2>2. QED
      BY <1>1, <1>2, <1>4, <2>1 DEF Pop
  <1>9. /\ Tail(Content) \in Seq(RingValue) /\ Len(Tail(Content)) = Size - 1
        /\ \A n \in 1..Size - 1 : Tail(Content)[n] = Content[n + 1]
    BY <1>4, <1>7, HeadTailProperties
  <1>10. \A n \in 1..Size - 1 : Content'[n] = Content[n + 1]
    BY <1>1, <1>2, <1>3, <1>4, <1>5, <1>6
  <1>11. Content' = Tail(Content)
    BY <1>3, <1>5, <1>9, <1>10, SeqEqual
  <1>12. QED
    BY <1>7, <1>8, <1>11

\* The ring keeps its types: the indices stay inside it.
LEMMA RingTyped ==
  ASSUME Capacity \in Nat \ {0}
  PROVE  RingSpec => []RingType
  <1>1. RingInit => RingType
    BY DEF RingInit, RingType, RingValue
  <1>2. RingType /\ [RingNext]_ringVars => RingType'
    <2> SUFFICES ASSUME RingType, [RingNext]_ringVars PROVE RingType'
      OBVIOUS
    <2>1. ASSUME NEW e \in Elem, Push(e)
          PROVE  RingType'
      <3>1. (end + 1) % Capacity \in 0..Capacity - 1
        BY DEF RingType
      <3>2. QED
        BY <2>1, <3>1 DEF Push, RingType, RingValue
    <2>2. CASE Pop
      <3>1. (front + 1) % Capacity \in 0..Capacity - 1
        BY DEF RingType
      <3>2. QED
        BY <2>2, <3>1 DEF Pop, RingType
    <2>3. QED
      BY <2>1, <2>2 DEF RingNext, ringVars, RingType
  <1>3. QED
    BY <1>1, <1>2, PTL DEF RingSpec

\* The ring implements a bounded queue step by step, for every capacity:
\* push() appends, pop() removes and returns the head, and size(), empty(),
\* full(), front() and back() always answer as that queue would.
THEOREM RingIsQueue == RingSpec => ImplementsQueue
  <1> USE CapacityAssumption
  <1>1. RingInit => Queue!Init
    <2> SUFFICES ASSUME RingInit PROVE Queue!Init
      OBVIOUS
    <2>1. RingType
      BY DEF RingInit, RingType, RingValue
    <2>2. Content = <<>>
      <3>1. Size = 0
        BY DEF RingInit, Size, IsEmpty
      <3>2. Content \in Seq(RingValue) /\ Len(Content) = 0
        BY <2>1, <3>1, ContentFacts DEF Placed
      <3>3. QED
        BY <3>2, EmptySeq
    <2>3. Said = Queue!Answers(<<>>)
      BY <2>1, <2>2, AnswersAgree, Zenon DEF Agrees
    <2>4. QED
      BY <2>2, <2>3 DEF RingInit, Queue!Init, Said
  <1>2. RingType /\ RingType' /\ [RingNext]_ringVars
          => [Queue!Next]_<<Content, popped, Said>>
    <2> SUFFICES ASSUME RingType, RingType', [RingNext]_ringVars
                 PROVE  [Queue!Next]_<<Content, popped, Said>>
      OBVIOUS
    <2>1. Agrees'
      BY AnswersAgree, PTL
    <2>2. ASSUME NEW e \in Elem, Push(e)
          PROVE  Queue!Push(e)
      BY <2>2, PushAppends, Zenon DEF Queue!Push, Push
    <2>3. ASSUME Pop
          PROVE  Queue!Pop
      BY <2>3, PopRemoves, Zenon DEF Queue!Pop
    <2>4. CASE UNCHANGED ringVars
      <3>1. UNCHANGED <<Content, popped, Said>>
        BY <2>4 DEF ringVars, Content, Size, IsEmpty, Full, Oldest, Back, Said
      <3>2. QED
        BY <3>1
    <2>5. QED
      BY <2>1, <2>2, <2>3, <2>4, Zenon DEF RingNext, Queue!Next, Agrees, Said
  <1>3. QED
    BY <1>1, <1>2, RingTyped, PTL DEF RingSpec, ImplementsQueue, Queue!Spec, Said

=============================================================================
