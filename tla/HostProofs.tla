----------------------------- MODULE HostProofs -----------------------------
(***************************************************************************)
(* Theorems about how a client finds a host that answers: the cache of     *)
(* resolved endpoints and the load balancer.                               *)
(***************************************************************************)
EXTENDS DnsCache, LoadBalancer, FiniteSetTheorems, WellFoundedInduction, TLAPS

---------------------------------------------------------------------------
(***************************************************************************)
(* The cache gets rid of an address the host no longer has.                *)
(*                                                                         *)
(* The invariant follows a call through its attempts. Only a caller that   *)
(* connected before the host moved can put the old address back, and the   *)
(* exchange on the time point elects one caller per value: once somebody   *)
(* has been elected since the call read it, no such store is elected any   *)
(* more (Spent). A call that is not excused finds nobody storing when it   *)
(* tries again (Clean). From then on every store is a good one, and        *)
(* whoever is elected makes one or loses the mutex to somebody who does    *)
(* (Leaving): after the second failure the cache is good when the call     *)
(* reads it.                                                               *)
(***************************************************************************)
\* What the cache may hold without harm.
Good == {addr, NoAddr}
Storing == {"lock", "store", "unlock"}

DnsType ==
    /\ addr \in Nat /\ timepoint \in Nat /\ mutex \in BOOLEAN
    /\ dpc \in [Connector -> {"idle", "load", "load_tp", "resolve", "connect",
                              "exchange", "lock", "store", "unlock", "refused"}]
    /\ local \in [Connector -> Nat] /\ cached \in [Connector -> BOOLEAN]
    /\ old_tp \in [Connector -> Nat] /\ fails \in [Connector -> Nat]
    /\ excused \in [Connector -> BOOLEAN] /\ eps \in Nat

\* The mutex has one holder.
OneStores ==
    /\ mutex => \E d \in Connector : dpc[d] \in {"store", "unlock"}
    /\ \A d \in Connector : dpc[d] \in {"store", "unlock"} => mutex
    /\ \A d, e \in Connector :
        dpc[d] \in {"store", "unlock"} /\ dpc[e] \in {"store", "unlock"} => d = e

\* d is about to store an address the host no longer has.
Stale(d) == ~cached[d] /\ local[d] \notin Good

\* No such store can be elected any more.
Spent ==
    \A d \in Connector :
        dpc[d] = "exchange" /\ Stale(d) => old_tp[d] # timepoint

\* None can be made any more.
Clean ==
    /\ Spent
    /\ \A d \in Connector : dpc[d] \in {"lock", "store"} => ~Stale(d)
    /\ \A d \in Connector : dpc[d] = "unlock" => eps \in Good

\* The cache is rid of the address, or will be as soon as nobody is storing.
Leaving ==
    \/ eps \in Good
    \/ \E d \in Connector : dpc[d] = "store"
    \/ ~mutex /\ \E d \in Connector : dpc[d] = "lock"

\* The failed attempts of a call before the one it is at.
Failed(c) ==
    IF cached[c] /\ dpc[c] \in {"exchange"} \cup Storing
    THEN fails[c] - 1 ELSE fails[c]

\* Someone has been elected since the call read the time point, perhaps it.
Beaten(c) ==
    \/ dpc[c] \in Storing
    \/ dpc[c] \in {"resolve", "connect", "exchange"} /\ timepoint # old_tp[c]

\* The third attempt of a call does not fail, and before it none is refused.
Local(c) ==
    /\ dpc[c] # "refused" /\ fails[c] <= 2 /\ Failed(c) \in Nat
    /\ dpc[c] = "connect" /\ ~cached[c] => local[c] = addr
    /\ Failed(c) = 2 /\ dpc[c] = "load_tp" => local[c] \in Good
    /\ Failed(c) = 2 /\ dpc[c] = "connect" => local[c] = addr

\* What a failed attempt has achieved for the next ones.
Progressing(c) ==
    /\ Failed(c) >= 1 \/ Beaten(c) => Spent
    /\ Failed(c) >= 1 /\ dpc[c] # "load" => Clean
    /\ Failed(c) >= 2 \/ (Failed(c) >= 1 /\ Beaten(c)) => Leaving
    /\ Failed(c) >= 2 => Clean

PerCall == \A c \in Connector : ~excused[c] => Local(c) /\ Progressing(c)

DnsInvariant == DnsType /\ OneStores /\ PerCall

---------------------------------------------------------------------------

Below == {p \in Nat \X Nat : p[1] < p[2]}

\* A set of natural numbers has a least element.
LEMMA LeastNatural ==
  ASSUME NEW T \in SUBSET Nat, T # {}
  PROVE  \E m \in T : \A n \in T : m <= n
  <1>1. IsWellFoundedOn(Below, Nat)
    BY NatLessThanWellFounded DEF OpToRel, Below
  <1>2. PICK x \in T : \A y \in T : ~(<<y, x>> \in Below)
    <2> HIDE DEF Below
    <2> QED
      BY <1>1, WFMin
  <1>3. \A y \in T : ~(y < x)
    BY <1>2 DEF Below
  <1>4. QED
    BY <1>3

\* There is a time point nobody holds.
LEMMA NowIsNew ==
  ASSUME DnsType
  PROVE  /\ Now \in Nat /\ Now # timepoint
         /\ \A d \in Connector : Now # old_tp[d]
  <1> DEFINE held == {old_tp[c] : c \in Connector}
             N == Cardinality(Connector)
             free == (0..N + 1) \ ({timepoint} \cup held)
  <1>1. N \in Nat
    BY DnsAssumption, FS_CardinalityType
  <1>2. old_tp \in Surjection(Connector, held)
    BY DEF DnsType, Surjection
  <1>3. IsFiniteSet(held) /\ Cardinality(held) <= N
    BY <1>2, DnsAssumption, FS_Surjection
  <1>4. /\ IsFiniteSet(held \cup {timepoint})
        /\ Cardinality(held \cup {timepoint}) <= N + 1
    <2> HIDE DEF held
    <2>1. Cardinality(held) \in Nat
      BY <1>3, FS_CardinalityType
    <2>2. /\ IsFiniteSet(held \cup {timepoint})
          /\ Cardinality(held \cup {timepoint}) =
               IF timepoint \in held THEN Cardinality(held)
               ELSE Cardinality(held) + 1
      BY <1>3, FS_AddElement
    <2> HIDE DEF N
    <2>3. QED
      BY <1>1, <1>3, <2>1, <2>2
  <1>5. Cardinality(0..N + 1) = N + 2
    BY <1>1, FS_Interval
  <1>6. free # {}
    <2> SUFFICES ASSUME free = {} PROVE FALSE
      OBVIOUS
    <2>1. 0..N + 1 \in SUBSET (held \cup {timepoint})
      OBVIOUS
    <2>2. N + 2 <= Cardinality(held \cup {timepoint})
      <3> HIDE DEF held, N
      <3>1. Cardinality(0..N + 1) <= Cardinality(held \cup {timepoint})
        BY <1>4, <2>1, FS_Subset
      <3>2. QED
        BY <1>5, <3>1
    <2>3. Cardinality(held \cup {timepoint}) \in Nat
      BY <1>4, FS_CardinalityType
    <2>4. QED
      BY <1>1, <1>4, <2>2, <2>3
  <1>7. free \in SUBSET Nat
    BY <1>1
  <1>8. \E m \in free : \A n \in free : m <= n
    BY <1>6, <1>7, LeastNatural
  <1>9. Min(free) \in free
    <2> HIDE DEF free
    <2>1. QED
      BY <1>8 DEF Min
  <1>10. Now = Min(free)
    BY DEF Now
  <1>11. QED
    BY <1>7, <1>9, <1>10

\* Where an attempt ends.
Ending(ok, n) ==
    IF ok THEN "idle" ELSE IF n <= ConnectRetry THEN "load" ELSE "refused"

LEMMA DoneEnds ==
  ASSUME NEW c \in Connector, NEW ok \in BOOLEAN, NEW n \in Nat, Done(c, ok, n)
  PROVE  dpc' = [dpc EXCEPT ![c] = Ending(ok, n)]
  BY DEF Done, DnsGoto, Ending

\* What an attempt that is over leaves.
Over(c, label) ==
    /\ label \in {"idle", "load", "refused"}
    /\ dpc' = [dpc EXCEPT ![c] = label]
    /\ local' = [local EXCEPT ![c] = NoAddr]
    /\ cached' = [cached EXCEPT ![c] = FALSE]
    /\ old_tp' = [old_tp EXCEPT ![c] = 0]

LEMMA UpdatedEnds ==
  ASSUME DnsType, NEW c \in Connector, Updated(c)
  PROVE  Over(c, Ending(~cached[c], fails[c]))
  <1>1. cached[c] \in BOOLEAN /\ fails[c] \in Nat
    BY DEF DnsType
  <1>2. Done(c, ~cached[c], fails[c])
    BY DEF Updated
  <1>3. dpc' = [dpc EXCEPT ![c] = Ending(~cached[c], fails[c])]
    BY <1>1, <1>2, DoneEnds
  <1>4. QED
    BY <1>2, <1>3 DEF Done, Over, Ending

\* What connect() leads to.
LEMMA ConnectEnds ==
  ASSUME DnsType, NEW c \in Connector, Connect(c)
  PROVE  LET ok == local[c] = addr
             n == fails[c] + (IF ok THEN 0 ELSE 1)
         IN  /\ dpc[c] = "connect" /\ fails' = [fails EXCEPT ![c] = n]
             /\ \/ /\ ok <=> ~cached[c]
                   /\ dpc' = [dpc EXCEPT ![c] = "exchange"]
                   /\ UNCHANGED <<local, cached, old_tp>>
                \/ (ok <=> cached[c]) /\ Over(c, Ending(ok, n))
             /\ UNCHANGED <<addr, eps, timepoint, mutex, excused>>
  <1> DEFINE ok == local[c] = addr
             n == fails[c] + (IF ok THEN 0 ELSE 1)
  <1>1. ok \in BOOLEAN /\ n \in Nat /\ cached[c] \in BOOLEAN
    BY DEF DnsType
  <1>2. /\ dpc[c] = "connect" /\ fails' = [fails EXCEPT ![c] = n]
        /\ \/ MustUpdate(c, ok) /\ DnsGoto(c, "exchange")
              /\ UNCHANGED <<local, cached, old_tp>>
           \/ ~MustUpdate(c, ok) /\ Done(c, ok, n)
        /\ UNCHANGED <<addr, eps, timepoint, mutex, excused>>
    BY DEF Connect
  <1>3. ASSUME Done(c, ok, n) PROVE Over(c, Ending(ok, n))
    <2>1. dpc' = [dpc EXCEPT ![c] = Ending(ok, n)]
      BY <1>1, <1>3, DoneEnds
    <2>2. QED
      BY <1>3, <2>1 DEF Done, Over, Ending
  <1>4. MustUpdate(c, ok) <=> (ok <=> ~cached[c])
    BY <1>1 DEF MustUpdate
  <1> HIDE DEF n
  <1>5. QED
    BY <1>1, <1>2, <1>3, <1>4, Zenon DEF DnsGoto, n

\* A step leaves the other calls where they are.
LEMMA OthersStay ==
  ASSUME DnsType, NEW d \in Connector, Reconnect(d)
  PROVE  /\ addr' = addr
         /\ \A c \in Connector \ {d} :
                /\ dpc'[c] = dpc[c] /\ local'[c] = local[c]
                /\ cached'[c] = cached[c] /\ old_tp'[c] = old_tp[c]
                /\ fails'[c] = fails[c] /\ excused'[c] = excused[c]
  <1>1. CASE Begin(d) \/ LoadEps(d) \/ LoadTimepoint(d) \/ Resolve(d) \/ Store(d)
    BY <1>1 DEF Begin, LoadEps, LoadTimepoint, Resolve, Store, DnsGoto, DnsType
  <1>2. CASE Connect(d)
    BY <1>2, ConnectEnds DEF Over, DnsType
  <1>3. CASE ExchangeTimepoint(d)
    BY <1>3, UpdatedEnds DEF ExchangeTimepoint, DnsGoto, Over, DnsType
  <1>4. CASE TryLock(d)
    BY <1>4, UpdatedEnds DEF TryLock, DnsGoto, Over, DnsType
  <1>5. CASE Unlock(d)
    BY <1>5, UpdatedEnds DEF Unlock, DnsGoto, Over, DnsType
  <1>6. QED
    BY <1>1, <1>2, <1>3, <1>4, <1>5 DEF Reconnect

LEMMA TypeStep ==
  ASSUME DnsType, NEW d \in Connector, Reconnect(d)
  PROVE  DnsType'
  <1> DEFINE Labels == {"idle", "load", "load_tp", "resolve", "connect",
                        "exchange", "lock", "store", "unlock", "refused"}
  <1>0. NoAddr \in Nat
    BY DnsAssumption DEF NoAddr
  <1>1. ASSUME NEW label, Over(d, label)
        PROVE  /\ dpc' \in [Connector -> Labels]
               /\ cached' \in [Connector -> BOOLEAN]
               /\ local' \in [Connector -> Nat] /\ old_tp' \in [Connector -> Nat]
    BY <1>0, <1>1 DEF Over, DnsType
  <1>2. CASE Begin(d)
    BY <1>2 DEF Begin, DnsGoto, DnsType
  <1>3. CASE LoadEps(d)
    BY <1>3 DEF LoadEps, DnsGoto, DnsType
  <1>4. CASE LoadTimepoint(d)
    <2>1. dpc' \in [Connector -> Labels]
      BY <1>4 DEF LoadTimepoint, DnsGoto, DnsType
    <2>2. local' \in [Connector -> Nat] /\ old_tp' \in [Connector -> Nat]
      BY <1>0, <1>4 DEF LoadTimepoint, DnsType
    <2>3. cached' \in [Connector -> BOOLEAN]
      BY <1>4 DEF LoadTimepoint, DnsType
    <2>4. QED
      BY <1>4, <2>1, <2>2, <2>3 DEF LoadTimepoint, DnsType
  <1>5. CASE Resolve(d)
    BY <1>5 DEF Resolve, DnsGoto, DnsType
  <1>6. CASE Store(d)
    BY <1>0, <1>6 DEF Store, NewEps, DnsGoto, DnsType
  <1>7. CASE Connect(d)
    BY <1>1, <1>7, ConnectEnds DEF DnsType
  <1>8. CASE ExchangeTimepoint(d)
    BY <1>1, <1>8, NowIsNew, UpdatedEnds DEF ExchangeTimepoint, DnsGoto, DnsType
  <1>9. CASE TryLock(d)
    BY <1>1, <1>9, UpdatedEnds DEF TryLock, DnsGoto, DnsType
  <1>10. CASE Unlock(d)
    BY <1>1, <1>10, UpdatedEnds DEF Unlock, DnsType
  <1>11. QED
    BY <1>2, <1>3, <1>4, <1>5, <1>6, <1>7, <1>8, <1>9, <1>10 DEF Reconnect

LEMMA HolderStep ==
  ASSUME DnsType, OneStores, NEW d \in Connector, Reconnect(d)
  PROVE  OneStores'
  <1>1. CASE Begin(d) \/ LoadEps(d) \/ LoadTimepoint(d) \/ Resolve(d) \/ Store(d)
    BY <1>1
       DEF Begin, LoadEps, LoadTimepoint, Resolve, Store, DnsGoto, DnsType,
           OneStores
  <1>2. CASE Connect(d)
    BY <1>2, ConnectEnds DEF Over, DnsType, OneStores
  <1>3. CASE ExchangeTimepoint(d)
    BY <1>3, UpdatedEnds DEF ExchangeTimepoint, DnsGoto, Over, DnsType, OneStores
  <1>4. CASE TryLock(d)
    BY <1>4, UpdatedEnds DEF TryLock, DnsGoto, Over, DnsType, OneStores
  <1>5. CASE Unlock(d)
    BY <1>5, UpdatedEnds DEF Unlock, DnsGoto, Over, DnsType, OneStores
  <1>6. QED
    BY <1>1, <1>2, <1>3, <1>4, <1>5 DEF Reconnect

\* While the host keeps its address, no store of an old one is elected again
\* once none could be.
LEMMA SpentStays ==
  ASSUME DnsType, NEW d \in Connector, Reconnect(d)
  PROVE  /\ Spent => Spent'
         /\ timepoint' # timepoint => Spent'
  <1>1. CASE Begin(d) \/ LoadEps(d) \/ LoadTimepoint(d) \/ Resolve(d) \/ Store(d)
    BY <1>1 DEF Begin, LoadEps, LoadTimepoint, Resolve, Store, DnsGoto, DnsType,
                Spent, Stale, Good
  <1>2. CASE Connect(d)
    BY <1>2, ConnectEnds DEF Over, DnsType, Spent, Stale, Good
  <1>3. CASE ExchangeTimepoint(d)
    <2>1. CASE timepoint = old_tp[d]
      BY <1>3, <2>1, NowIsNew
         DEF ExchangeTimepoint, DnsGoto, DnsType, Spent, Stale, Good
    <2>2. CASE timepoint # old_tp[d]
      BY <1>3, <2>2, UpdatedEnds
         DEF ExchangeTimepoint, Over, DnsType, Spent, Stale, Good
    <2>3. QED
      BY <2>1, <2>2
  <1>4. CASE TryLock(d)
    BY <1>4, UpdatedEnds DEF TryLock, DnsGoto, Over, DnsType, Spent, Stale, Good
  <1>5. CASE Unlock(d)
    BY <1>5, UpdatedEnds DEF Unlock, DnsGoto, Over, DnsType, Spent, Stale, Good
  <1>6. QED
    BY <1>1, <1>2, <1>3, <1>4, <1>5 DEF Reconnect

\* ... and none is made again once none was under way.
LEMMA CleanStays ==
  ASSUME DnsType, OneStores, NEW d \in Connector, Reconnect(d), Clean
  PROVE  Clean'
  <1>0. Spent /\ Spent'
    BY SpentStays DEF Clean
  <1>1. CASE Begin(d) \/ LoadEps(d) \/ LoadTimepoint(d) \/ Resolve(d)
    BY <1>0, <1>1 DEF Begin, LoadEps, LoadTimepoint, Resolve, DnsGoto, DnsType,
                      Clean, Stale, Good
  <1>2. CASE Store(d)
    BY <1>0, <1>2 DEF Store, NewEps, DnsGoto, DnsType, Clean, Stale, Good
  <1>3. CASE Connect(d)
    BY <1>0, <1>3, ConnectEnds DEF Over, DnsType, Clean, Stale, Good
  <1>4. CASE ExchangeTimepoint(d)
    <2>1. CASE timepoint = old_tp[d]
      BY <1>0, <1>4, <2>1
         DEF ExchangeTimepoint, DnsGoto, DnsType, Spent, Clean, Stale, Good
    <2>2. CASE timepoint # old_tp[d]
      BY <1>0, <1>4, <2>2, UpdatedEnds
         DEF ExchangeTimepoint, Over, DnsType, Clean, Stale, Good
    <2>3. QED
      BY <2>1, <2>2
  <1>5. CASE TryLock(d)
    BY <1>0, <1>5, UpdatedEnds
       DEF TryLock, DnsGoto, Over, DnsType, Clean, Stale, Good
  <1>6. CASE Unlock(d)
    BY <1>0, <1>6, UpdatedEnds
       DEF Unlock, DnsGoto, Over, DnsType, Clean, Stale, Good
  <1>7. QED
    BY <1>1, <1>2, <1>3, <1>4, <1>5, <1>6 DEF Reconnect

\* From then on an elected store, or one that keeps it from the mutex, rids
\* the cache of the old address.
LEMMA LeavingStays ==
  ASSUME DnsType, OneStores, NEW d \in Connector, Reconnect(d), Clean
  PROVE  /\ Leaving => Leaving'
         /\ timepoint' # timepoint => Leaving'
  <1>1. CASE Begin(d) \/ LoadEps(d) \/ LoadTimepoint(d) \/ Resolve(d)
    BY <1>1 DEF Begin, LoadEps, LoadTimepoint, Resolve, DnsGoto, DnsType,
                Leaving, Good
  <1>2. CASE Store(d)
    BY <1>2 DEF Store, NewEps, DnsGoto, DnsType, Clean, Stale, Leaving, Good
  <1>3. CASE Connect(d)
    BY <1>3, ConnectEnds DEF Over, DnsType, Leaving, Good
  <1>4. CASE ExchangeTimepoint(d)
    <2>1. CASE timepoint = old_tp[d]
      <3>1. dpc'[d] = "lock" /\ mutex' = mutex /\ eps' = eps /\ addr' = addr
        BY <1>4, <2>1 DEF ExchangeTimepoint, DnsGoto, DnsType
      <3>2. CASE mutex
        <4>1. PICK e \in Connector : dpc[e] \in {"store", "unlock"}
          BY <3>2 DEF OneStores
        <4>2. e # d /\ dpc'[e] = dpc[e]
          BY <1>4, <4>1, OthersStay DEF ExchangeTimepoint
        <4>3. QED
          BY <3>1, <4>1, <4>2 DEF Clean, Leaving, Good
      <3>3. CASE ~mutex
        BY <3>1, <3>3 DEF Leaving, Good
      <3>4. QED
        BY <3>2, <3>3
    <2>2. CASE timepoint # old_tp[d]
      BY <1>4, <2>2, UpdatedEnds
         DEF ExchangeTimepoint, Over, DnsType, Leaving, Good
    <2>3. QED
      BY <2>1, <2>2
  <1>5. CASE TryLock(d)
    <2>1. CASE mutex
      <3>1. UNCHANGED <<addr, eps, timepoint, mutex>>
        BY <1>5, <2>1 DEF TryLock
      <3>2. \A e \in Connector : dpc[e] = "store" => dpc'[e] = "store"
        BY <1>5, OthersStay DEF TryLock
      <3>3. QED
        BY <2>1, <3>1, <3>2 DEF Leaving, Good
    <2>2. CASE ~mutex
      <3>1. dpc'[d] = "store" /\ timepoint' = timepoint
        BY <1>5, <2>2 DEF TryLock, DnsGoto, DnsType
      <3>2. QED
        BY <3>1 DEF Leaving
    <2>3. QED
      BY <2>1, <2>2
  <1>6. CASE Unlock(d)
    <2>1. UNCHANGED <<addr, eps, timepoint>> /\ eps \in Good
      BY <1>6 DEF Unlock, Clean
    <2>2. QED
      BY <2>1 DEF Leaving, Good
  <1>7. QED
    BY <1>1, <1>2, <1>3, <1>4, <1>5, <1>6 DEF Reconnect

Fine(c) == Local(c) /\ Progressing(c)

\* The end of an attempt that was to update the cache.
LEMMA AttemptEnds ==
  ASSUME DnsInvariant, NEW c \in Connector, Reconnect(c), Fine(c), Beaten(c),
         dpc[c] \in {"exchange"} \cup Storing, Updated(c), UNCHANGED fails
  PROVE  Fine(c)'
  <1>0. DnsType /\ OneStores /\ fails[c] \in Nat /\ cached[c] \in BOOLEAN
    BY DEF DnsInvariant, DnsType
  <1>1. Over(c, Ending(~cached[c], fails[c]))
    BY <1>0, UpdatedEnds
  <1>2. fails[c] <= ConnectRetry
    BY <1>0, DnsAssumption DEF Fine, Local
  <1>3. /\ ~cached'[c] /\ dpc'[c] = (IF ~cached[c] THEN "idle" ELSE "load")
        /\ fails'[c] = fails[c]
    BY <1>0, <1>1, <1>2 DEF Over, Ending, DnsType
  <1>4. Failed(c)' = fails[c] /\ ~Beaten(c)'
    BY <1>3 DEF Failed, Beaten, Storing
  <1>5. Spent /\ Spent'
    BY <1>0, SpentStays DEF Fine, Progressing
  <1>6. Failed(c) = IF cached[c] THEN fails[c] - 1 ELSE fails[c]
    BY DEF Failed
  <1>7. Local(c)'
    BY <1>0, <1>3, <1>4 DEF Fine, Local
  <1>8. fails[c] >= 1 /\ ~cached[c] => Clean'
    BY <1>0, <1>6, CleanStays DEF Fine, Progressing, Storing
  <1>9. fails[c] >= 2 => Clean' /\ Leaving'
    BY <1>0, <1>6, CleanStays, LeavingStays DEF Fine, Progressing, Storing
  <1>10. QED
    BY <1>0, <1>3, <1>4, <1>5, <1>7, <1>8, <1>9 DEF Fine, Progressing

\* The steps of other calls.
LEMMA OtherCall ==
  ASSUME DnsInvariant, NEW d \in Connector, Reconnect(d),
         NEW c \in Connector, c # d, Fine(c)
  PROVE  Fine(c)'
  <1>0. DnsType /\ OneStores
    BY DEF DnsInvariant
  <1>1. /\ addr' = addr /\ dpc'[c] = dpc[c] /\ local'[c] = local[c]
        /\ cached'[c] = cached[c] /\ old_tp'[c] = old_tp[c]
        /\ fails'[c] = fails[c]
    BY <1>0, OthersStay
  <1>2. Failed(c)' = Failed(c)
    BY <1>1 DEF Failed
  <1>3. Local(c)'
    BY <1>1, <1>2 DEF Fine, Local, Good
  <1>4. Beaten(c)' => Beaten(c) \/ timepoint' # timepoint
    BY <1>1 DEF Beaten
  <1>5. Beaten(c)' => dpc[c] # "load"
    BY <1>1 DEF Beaten, Storing
  <1>6. QED
    BY <1>0, <1>1, <1>2, <1>3, <1>4, <1>5, SpentStays, CleanStays, LeavingStays
       DEF Fine, Progressing

\* The steps of the call itself.
LEMMA OwnCall ==
  ASSUME DnsInvariant, NEW c \in Connector, Reconnect(c), ~excused'[c],
         ~excused[c] => Fine(c)
  PROVE  Fine(c)'
  <1>0. DnsType /\ OneStores /\ DnsType'
    BY TypeStep DEF DnsInvariant
  <1>1. CASE Begin(c)
    <2>1. fails'[c] = 0 /\ dpc'[c] = "load"
      BY <1>0, <1>1 DEF Begin, DnsGoto, DnsType
    <2>2. Failed(c)' = 0 /\ ~Beaten(c)'
      BY <2>1 DEF Failed, Beaten, Storing
    <2>3. QED
      BY <2>1, <2>2 DEF Fine, Local, Progressing
  <1>2. CASE LoadEps(c)
    <2>1. /\ dpc[c] = "load" /\ dpc'[c] = "load_tp" /\ local'[c] = eps
          /\ (fails[c] > 0 => ~SomeoneStores) /\ fails' = fails /\ eps' = eps /\ addr' = addr
          /\ timepoint' = timepoint /\ ~excused[c]
      BY <1>0, <1>2 DEF LoadEps, DnsGoto, DnsType
    <2>2. Failed(c)' = fails[c] /\ Failed(c) = fails[c] /\ ~Beaten(c)'
      BY <2>1 DEF Failed, Beaten, Storing
    <2>3. Fine(c)
      BY <2>1
    <2>4. fails[c] >= 1 => Clean
      BY <1>0, <2>1, <2>2, <2>3
         DEF Fine, Progressing, Clean, SomeoneStores, DnsType
    <2>5. fails[c] >= 2 => Leaving /\ eps \in Good
      BY <1>0, <2>1, <2>2, <2>3
         DEF Fine, Progressing, Leaving, SomeoneStores, DnsType
    <2>6. Local(c)'
      BY <1>0, <2>1, <2>2, <2>3, <2>5 DEF Fine, Local, Good
    <2>7. fails[c] >= 1 => Clean' /\ Spent'
      BY <1>0, <2>4, CleanStays DEF Clean
    <2>8. fails[c] >= 2 => Leaving'
      BY <1>0, <2>4, <2>5, LeavingStays DEF DnsType
    <2>9. QED
      BY <1>0, <2>2, <2>6, <2>7, <2>8 DEF Fine, Progressing, DnsType
  <1>3. CASE LoadTimepoint(c)
    <2>1. /\ dpc[c] = "load_tp" /\ dpc'[c] \in {"connect", "resolve"}
          /\ dpc'[c] = "connect" =>
                local'[c] = local[c] /\ local[c] # NoAddr /\ cached'[c]
          /\ old_tp'[c] = timepoint /\ timepoint' = timepoint /\ fails' = fails
          /\ addr' = addr /\ ~excused[c]
      BY <1>0, <1>3 DEF LoadTimepoint, DnsGoto, DnsType
    <2>2. Failed(c)' = fails[c] /\ Failed(c) = fails[c] /\ ~Beaten(c)'
      BY <2>1 DEF Failed, Beaten, Storing
    <2>3. Fine(c)
      BY <2>1
    <2>4. Local(c)'
      BY <1>0, <2>1, <2>2, <2>3 DEF Fine, Local, Good
    <2>5. QED
      BY <1>0, <2>1, <2>2, <2>3, <2>4, SpentStays, CleanStays, LeavingStays
         DEF Fine, Progressing
  <1>4. CASE Resolve(c)
    <2>1. /\ dpc[c] = "resolve" /\ dpc'[c] = "connect" /\ local'[c] = addr
          /\ old_tp' = old_tp /\ timepoint' = timepoint /\ fails' = fails
          /\ addr' = addr /\ ~excused[c]
      BY <1>0, <1>4 DEF Resolve, DnsGoto, DnsType
    <2>2. Failed(c)' = fails[c] /\ Failed(c) = fails[c]
      BY <2>1 DEF Failed, Storing
    <2>3. Beaten(c)' => Beaten(c)
      BY <2>1 DEF Beaten, Storing
    <2>4. Fine(c)
      BY <2>1
    <2>5. Local(c)'
      BY <1>0, <2>1, <2>2, <2>4 DEF Fine, Local, Good
    <2>6. QED
      BY <1>0, <2>1, <2>2, <2>3, <2>4, <2>5, SpentStays, CleanStays, LeavingStays
         DEF Fine, Progressing
  <1>5. CASE Connect(c)
    <2>1. /\ dpc[c] = "connect" /\ addr' = addr /\ timepoint' = timepoint
          /\ ~excused[c]
      BY <1>0, <1>5, ConnectEnds
    <2>2. Fine(c)
      BY <2>1
    <2>3. Failed(c) = fails[c]
      BY <2>1 DEF Failed, Storing
    <2>4. fails[c] \in 0..2 /\ (~cached[c] \/ fails[c] = 2 => local[c] = addr)
      BY <1>0, <2>1, <2>2, <2>3 DEF Fine, Local, DnsType
    <2>5. /\ dpc'[c] \in {"exchange", "idle"} /\ fails'[c] <= 2
          /\ dpc'[c] = "exchange" => old_tp' = old_tp
          /\ fails'[c] = fails[c]
               + (IF dpc'[c] = "exchange" /\ cached'[c] THEN 1 ELSE 0)
      <3>1. CASE local[c] = addr
        BY <1>0, <1>5, <2>4, <3>1, ConnectEnds DEF Over, Ending, DnsType
      <3>2. CASE local[c] # addr
        BY <1>0, <1>5, <2>4, <3>2, ConnectEnds DEF Over, Ending, DnsType
      <3>3. QED
        BY <3>1, <3>2
    <2>6. Failed(c)' = fails[c]
      BY <1>0, <2>4, <2>5 DEF Failed, Storing
    <2>7. Beaten(c)' => Beaten(c)
      BY <2>1, <2>5 DEF Beaten, Storing
    <2>8. Local(c)'
      BY <2>4, <2>5, <2>6 DEF Local
    <2>9. QED
      BY <1>0, <2>1, <2>2, <2>3, <2>6, <2>7, <2>8, SpentStays, CleanStays,
         LeavingStays DEF Fine, Progressing
  <1>6. ASSUME dpc[c] \in {"exchange"} \cup Storing, dpc'[c] \in Storing,
               UNCHANGED <<cached, fails, addr>>, ~excused[c],
               Beaten(c) \/ timepoint' # timepoint
        PROVE  Fine(c)'
    <2>1. Fine(c)
      BY <1>6
    <2>2. Failed(c)' = Failed(c)
      BY <1>6 DEF Failed, Storing
    <2>3. Local(c)'
      BY <1>6, <2>1, <2>2 DEF Fine, Local, Storing
    <2>4. QED
      BY <1>0, <1>6, <2>1, <2>2, <2>3, SpentStays, CleanStays, LeavingStays
         DEF Fine, Progressing, Storing
  <1>7. CASE ExchangeTimepoint(c)
    <2>1. dpc[c] = "exchange" /\ ~excused[c] /\ UNCHANGED fails
      BY <1>7 DEF ExchangeTimepoint
    <2>2. CASE timepoint = old_tp[c]
      <3>1. /\ dpc'[c] = "lock" /\ timepoint' # timepoint
            /\ UNCHANGED <<cached, addr>>
        BY <1>0, <1>7, <2>2, NowIsNew DEF ExchangeTimepoint, DnsGoto, DnsType
      <3>2. QED
        BY <1>6, <2>1, <3>1 DEF Storing
    <2>3. CASE timepoint # old_tp[c]
      <3>1. Updated(c) /\ Beaten(c) /\ Fine(c)
        BY <1>7, <2>1, <2>3 DEF ExchangeTimepoint, Beaten
      <3>2. QED
        BY <2>1, <3>1, AttemptEnds
    <2>4. QED
      BY <2>2, <2>3
  <1>8. CASE TryLock(c)
    <2>1. dpc[c] = "lock" /\ ~excused[c] /\ UNCHANGED fails /\ Beaten(c)
      BY <1>8 DEF TryLock, Beaten, Storing
    <2>2. CASE ~mutex
      <3>1. dpc'[c] = "store" /\ UNCHANGED <<cached, addr>>
        BY <1>0, <1>8, <2>2 DEF TryLock, DnsGoto, DnsType
      <3>2. QED
        BY <1>6, <2>1, <3>1 DEF Storing
    <2>3. CASE mutex
      <3>1. Updated(c) /\ Fine(c)
        BY <1>8, <2>1, <2>3 DEF TryLock
      <3>2. QED
        BY <2>1, <3>1, AttemptEnds DEF Storing
    <2>4. QED
      BY <2>2, <2>3
  <1>9. CASE Store(c)
    <2>1. /\ dpc[c] = "store" /\ ~excused[c] /\ UNCHANGED <<fails, cached, addr>>
          /\ Beaten(c) /\ dpc'[c] = "unlock"
      BY <1>0, <1>9 DEF Store, DnsGoto, DnsType, Beaten, Storing
    <2>2. QED
      BY <1>6, <2>1 DEF Storing
  <1>10. CASE Unlock(c)
    <2>1. /\ dpc[c] = "unlock" /\ ~excused[c] /\ UNCHANGED fails /\ Beaten(c)
          /\ Updated(c) /\ Fine(c)
      BY <1>10 DEF Unlock, Beaten, Storing
    <2>2. QED
      BY <2>1, AttemptEnds DEF Storing
  <1>11. QED
    BY <1>1, <1>2, <1>3, <1>4, <1>5, <1>7, <1>8, <1>9, <1>10 DEF Reconnect

\* The invariant is inductive.
LEMMA DnsStep == DnsInvariant /\ [DnsNext]_dnsVars => DnsInvariant'
  <1> SUFFICES ASSUME DnsInvariant, [DnsNext]_dnsVars PROVE DnsInvariant'
    OBVIOUS
  <1>1. ASSUME NEW d \in Connector, Reconnect(d)
        PROVE  DnsInvariant'
    <2>1. DnsType' /\ OneStores'
      BY <1>1, TypeStep, HolderStep DEF DnsInvariant
    <2>2. ASSUME NEW c \in Connector, ~excused'[c]
          PROVE  Fine(c)'
      <3>1. CASE c = d
        BY <1>1, <2>2, <3>1, OwnCall DEF DnsInvariant, PerCall, Fine
      <3>2. CASE c # d
        <4>1. excused'[c] = excused[c]
          BY <1>1, <3>2, OthersStay DEF DnsInvariant
        <4>2. Fine(c)
          BY <2>2, <4>1 DEF DnsInvariant, PerCall, Fine
        <4>3. QED
          BY <1>1, <3>2, <4>2, OtherCall
      <3>3. QED
        BY <3>1, <3>2
    <2>3. QED
      BY <2>1, <2>2 DEF DnsInvariant, PerCall, Fine
  <1>2. CASE Move
    BY <1>2, DnsAssumption DEF Move, DnsInvariant, DnsType, OneStores, PerCall
  <1>3. CASE UNCHANGED dnsVars
    BY <1>3 DEF dnsVars, DnsInvariant, DnsType, OneStores, PerCall, Local,
                Progressing, Failed, Beaten, Spent, Clean, Leaving, Stale, Good
  <1>4. QED
    BY <1>1, <1>2, <1>3 DEF DnsNext

\* A call of reconnect() that began after the host got its address, and whose
\* retries read the cache while nobody was storing, is never refused, with any
\* number of callers and any interleaving of their loads, exchanges, tryLocks
\* and stores, if it retries at least twice: the first failure spends the
\* stores of old addresses that were still possible, the second one empties
\* the cache.
THEOREM StaleCacheForgotten == DnsSpec => []RetriesSuffice
  <1>1. DnsInit => DnsInvariant
    <2> SUFFICES ASSUME DnsInit PROVE DnsInvariant
      OBVIOUS
    <2>0. NoAddr \in Nat
      BY DnsAssumption DEF NoAddr
    <2>1. DnsType
      BY <2>0 DEF DnsInit, DnsType
    <2>2. OneStores
      BY DEF DnsInit, OneStores
    <2>3. PerCall
      BY DEF DnsInit, PerCall, Local, Progressing, Failed, Beaten, Storing
    <2>4. QED
      BY <2>1, <2>2, <2>3 DEF DnsInvariant
  <1>2. DnsInvariant => RetriesSuffice
    BY DEF DnsInvariant, DnsType, PerCall, Local, RetriesSuffice
  <1>3. QED
    BY <1>1, <1>2, DnsStep, PTL DEF DnsSpec

---------------------------------------------------------------------------
(***************************************************************************)
(* The round-robin balancer finds a host that is alive.                    *)
(*                                                                         *)
(* The invariant says that all the values a call that is alone has drawn   *)
(* stand for dead hosts, where the counter may have wrapped in between,    *)
(* perhaps at a number that is not a multiple of size(). Of 2 * size() + 1 *)
(* values in a row at least size() are on one side of the wrap, and size() *)
(* numbers in a row stand for every host.                                  *)
(***************************************************************************)
\* The types of the round-robin balancer.
RrType ==
    /\ lba = "RR" /\ alive \subseteq Host /\ index \in 0..IndexSpace - 1
    /\ bpc \in [Caller -> {"idle", "draw", "check", "send"}]
    /\ target \in [Caller -> Host] /\ cnt \in [Caller -> 0..2 * HostCount]
    /\ alone \in [Caller -> BOOLEAN]

\* The last n values the counter had, before and after it wrapped.
Recent(n) ==
    {j \in Nat : index - n <= j /\ j < index}
    \cup {j \in Nat : /\ index < n
                      /\ IndexSpace - (n - index) <= j /\ j < IndexSpace}

Dead(j) == j % HostCount \notin alive

\* A call that is alone has found every host it drew dead, but the last one.
AllDrawnDead ==
    \A c \in Caller : alone[c] =>
        /\ bpc[c] = "draw" => \A j \in Recent(cnt[c]) : Dead(j)
        /\ bpc[c] \in {"check", "send"} =>
             \A j \in Recent(cnt[c] + 1) : Dead(j) \/ j % HostCount = target[c]
        /\ bpc[c] = "send" => target[c] \in alive \/ cnt[c] = 2 * HostCount

BalancerInv == RrType /\ AllDrawnDead

\* A number and its remainder.
LEMMA Remainder ==
  ASSUME NEW h \in Host, NEW q \in Nat
  PROVE  (HostCount * q + h) % HostCount = h
  <1> DEFINE n == HostCount * q + h
             k == n \div HostCount
             r == n % HostCount
  <1>0. HostCount \in Nat /\ HostCount > 0 /\ h \in Nat /\ h < HostCount
    BY BalancerAssumption DEF Host
  <1>1. HostCount * q \in Nat
    BY <1>0
  <1>2. n \in Nat
    BY <1>0, <1>1
  <1>3. k \in Nat /\ r \in Nat /\ r < HostCount
    BY <1>0, <1>2
  <1>4. n = HostCount * k + r
    BY <1>0, <1>2, Z3
  <1>5. HostCount * (q - k) = r - h
    <2>1. HostCount * (q - k) = HostCount * q - HostCount * k
      BY <1>0, <1>3, Z3
    <2>2. HostCount * k \in Nat
      BY <1>0, <1>3
    <2>3. QED
      BY <2>1, <2>2, <1>4, <1>3, <1>0, <1>1
  <1>6. q = k
    <2> DEFINE d == q - k
    <2>0. d \in Int
      BY <1>3
    <2>1. d >= 1 => HostCount * d >= HostCount
      BY <2>0, <1>0, Z3
    <2>2. d <= -1 => HostCount * d <= -HostCount
      BY <2>0, <1>0, Z3
    <2>3. d = 0
      <3> HIDE DEF d
      <3>1. HostCount * d = r - h
        BY <1>5 DEF d
      <3>2. HostCount * d < HostCount /\ HostCount * d > -HostCount
        BY <3>1, <1>0, <1>3
      <3>3. HostCount * d \in Int
        BY <2>0, <1>0
      <3>4. QED
        BY <2>0, <2>1, <2>2, <3>2, <3>3, <1>0
    <2>4. QED
      BY <2>3, <1>3
  <1>7. QED
    <2>1. HostCount * 0 = 0
      BY <1>0
    <2>2. r - h = 0
      BY <1>5, <1>6, <2>1, <1>3
    <2>3. QED
      BY <2>2, <1>3, <1>0

\* As many numbers in a row as there are hosts stand for every host.
LEMMA EveryHost ==
  ASSUME NEW a \in Nat, NEW h \in Host
  PROVE  \E j \in a..(a + HostCount - 1) : j % HostCount = h
  <1> DEFINE q == a \div HostCount
             r == a % HostCount
  <1>0. HostCount \in Nat /\ HostCount > 0 /\ h \in Nat /\ h < HostCount
    BY BalancerAssumption DEF Host
  <1>1. q \in Nat /\ r \in Nat /\ r < HostCount /\ q + 1 \in Nat
    BY <1>0
  <1>2. a = HostCount * q + r
    BY <1>0, Z3
  <1>3. HostCount * (q + 1) = HostCount * q + HostCount
    BY <1>0, <1>1, Z3
  <1>4. HostCount * q \in Nat
    BY <1>0, <1>1
  <1>5. CASE h >= r
    <2>1. HostCount * q + h \in a..(a + HostCount - 1)
      BY <1>0, <1>1, <1>2, <1>4, <1>5
    <2>2. QED
      BY <1>1, <2>1, Remainder
  <1>6. CASE h < r
    <2>1. HostCount * (q + 1) + h \in a..(a + HostCount - 1)
      BY <1>0, <1>1, <1>2, <1>3, <1>4, <1>6
    <2>2. QED
      BY <1>1, <2>1, Remainder
  <1>7. QED
    BY <1>0, <1>1, <1>5, <1>6

\* A draw adds the counter to the recent values, also when it wraps.
LEMMA DrawAdds ==
  ASSUME BalancerInv, NEW c \in Caller, Draw(c), NEW n \in Nat
  PROVE  /\ index' \in 0..IndexSpace - 1
         /\ Recent(n + 1)' \subseteq Recent(n) \cup {index}
  <1>1. index \in Nat /\ index < IndexSpace /\ IndexSpace \in Nat
    BY BalancerAssumption DEF BalancerInv, RrType
  <1>2. CASE index + 1 < IndexSpace
    <2>1. index' = index + 1
      BY <1>1, <1>2 DEF Draw
    <2>2. QED
      BY <1>1, <1>2, <2>1 DEF Recent
  <1>3. CASE index + 1 = IndexSpace
    <2>1. index' = 0
      BY <1>1, <1>3 DEF Draw
    <2>2. QED
      BY <1>1, <1>3, <2>1 DEF Recent
  <1>4. QED
    BY <1>1, <1>2, <1>3

\* The invariant is inductive.
LEMMA BalancerStep ==
  BalancerInv /\ [BalancerNext]_balancerVars => BalancerInv'
  <1> SUFFICES ASSUME BalancerInv, [BalancerNext]_balancerVars
               PROVE  BalancerInv'
    OBVIOUS
  <1>0. HostCount \in Nat /\ HostCount > 0
    BY BalancerAssumption
  <1>1. ASSUME NEW c \in Caller, SendRequest(c)
        PROVE  BalancerInv'
    <2>1. RrType'
      BY <1>1, <1>0 DEF SendRequest, LbGoto, BalancerInv, RrType, wrr
    <2>2. \A j \in Recent(0) : FALSE
      BY DEF BalancerInv, RrType, Recent
    <2>3. AllDrawnDead'
      BY <1>1, <2>2 DEF SendRequest, LbGoto, BalancerInv, RrType, AllDrawnDead,
                        Recent, Dead
    <2>4. QED
      BY <2>1, <2>3 DEF BalancerInv
  <1>2. ASSUME NEW c \in Caller, Draw(c)
        PROVE  BalancerInv'
    <2>1. index % HostCount \in Host
      BY <1>0 DEF BalancerInv, RrType, Host
    <2>2. RrType'
      <3>1. index' \in 0..IndexSpace - 1
        BY <1>2, DrawAdds
      <3>2. QED
        BY <1>2, <2>1, <3>1 DEF Draw, LbGoto, BalancerInv, RrType
    <2>3. ASSUME NEW d \in Caller, alone'[d]
          PROVE  /\ bpc'[d] = "check" /\ d = c /\ alone[c]
                 /\ target'[d] = index % HostCount /\ cnt'[d] = cnt[d]
      BY <1>2, <2>3 DEF Draw, LbGoto, BalancerInv, RrType
    <2>4. ASSUME alone[c], NEW j \in Recent(cnt[c] + 1)'
          PROVE  Dead(j)' \/ j % HostCount = target'[c]
      <3>1. cnt[c] \in Nat /\ cnt' = cnt /\ alive' = alive
        BY <1>2, <1>0 DEF Draw, BalancerInv, RrType
      <3>2. j \in Recent(cnt[c]) \cup {index}
        BY <1>2, <3>1, DrawAdds, <2>4 DEF Recent
      <3>3. target'[c] = index % HostCount
        BY <1>2 DEF Draw, BalancerInv, RrType
      <3>4. bpc[c] = "draw"
        BY <1>2 DEF Draw
      <3>5. QED
        BY <2>4, <3>1, <3>2, <3>3, <3>4 DEF BalancerInv, AllDrawnDead, Dead
    <2>5. AllDrawnDead'
      <3> SUFFICES ASSUME NEW d \in Caller, alone'[d]
                   PROVE  \A j \in Recent(cnt[d] + 1)' :
                            Dead(j)' \/ j % HostCount = target'[d]
        BY <2>3 DEF AllDrawnDead
      <3>1. QED
        BY <2>3, <2>4
    <2>6. QED
      BY <2>2, <2>5 DEF BalancerInv
  <1>3. ASSUME NEW c \in Caller, Walk(c)
        PROVE  FALSE
    BY <1>3 DEF Walk, BalancerInv, RrType
  <1>4. ASSUME NEW c \in Caller, CheckAlive(c)
        PROVE  BalancerInv'
    <2>1. RrType'
      BY <1>4, <1>0 DEF CheckAlive, TryAgain, LbGoto, BalancerInv, RrType, rr
    <2>2. AllDrawnDead'
      <3> SUFFICES ASSUME NEW d \in Caller, alone'[d]
                   PROVE  (/\ bpc[d] = "draw" => \A j \in Recent(cnt[d]) : Dead(j)
                           /\ bpc[d] \in {"check", "send"} =>
                                \A j \in Recent(cnt[d] + 1) :
                                    Dead(j) \/ j % HostCount = target[d]
                           /\ bpc[d] = "send" =>
                                target[d] \in alive \/ cnt[d] = 2 * HostCount)'
        BY DEF AllDrawnDead
      <3>1. index' = index /\ alive' = alive /\ alone' = alone /\ target' = target
        BY <1>4 DEF CheckAlive, rr
      <3>2. CASE d = c
        <4>1. cnt[c] \in 0..2 * HostCount /\ bpc[c] = "check"
          BY <1>4 DEF CheckAlive, BalancerInv, RrType
        <4>2. CASE target[c] \notin alive /\ TryAgain(cnt[c])
          <5>1. bpc'[c] = "draw" /\ cnt'[c] = cnt[c] + 1
            BY <1>4, <4>2 DEF CheckAlive, LbGoto, BalancerInv, RrType
          <5>2. QED
            BY <3>1, <3>2, <4>1, <4>2, <5>1
               DEF BalancerInv, AllDrawnDead, Recent, Dead
        <4>3. CASE ~(target[c] \notin alive /\ TryAgain(cnt[c]))
          <5>1. bpc'[c] = "send" /\ cnt' = cnt
            BY <1>4, <4>3 DEF CheckAlive, LbGoto, BalancerInv, RrType
          <5>2. target[c] \in alive \/ cnt[c] = 2 * HostCount
            BY <4>1, <4>3, <1>0 DEF TryAgain
          <5>3. QED
            BY <3>1, <3>2, <4>1, <5>1, <5>2
               DEF BalancerInv, AllDrawnDead, Recent, Dead
        <4>4. QED
          BY <4>2, <4>3
      <3>3. CASE d # c
        <4>1. bpc'[d] = bpc[d] /\ cnt'[d] = cnt[d]
          BY <1>4, <3>3 DEF CheckAlive, LbGoto, BalancerInv, RrType
        <4>2. QED
          BY <3>1, <4>1 DEF BalancerInv, AllDrawnDead, Recent, Dead
      <3>4. QED
        BY <3>2, <3>3
    <2>3. QED
      BY <2>1, <2>2 DEF BalancerInv
  <1>5. ASSUME NEW c \in Caller, Send(c)
        PROVE  BalancerInv'
    <2>1. 0 \in Host
      BY <1>0 DEF Host
    <2>2. RrType'
      BY <1>5, <1>0, <2>1 DEF Send, LbGoto, BalancerInv, RrType
    <2>3. AllDrawnDead'
      BY <1>5 DEF Send, LbGoto, BalancerInv, RrType, AllDrawnDead, Recent, Dead
    <2>4. QED
      BY <2>2, <2>3 DEF BalancerInv
  <1>6. CASE UNCHANGED balancerVars
    BY <1>6 DEF balancerVars, BalancerInv, RrType, AllDrawnDead, Recent, Dead
  <1>7. QED
    BY <1>1, <1>2, <1>3, <1>4, <1>5, <1>6 DEF BalancerNext

\* An alone call that gives up has seen every host dead: the last size() values
\* of the counter before it wrapped, or since, stand for all of them.
LEMMA GivesUp ==
  ASSUME BalancerInv, NEW c \in Caller, bpc[c] = "send", alone[c],
         target[c] \notin alive
  PROVE  alive = {}
  <1>0. /\ HostCount \in Nat /\ HostCount > 0 /\ index \in Nat
        /\ IndexSpace \in Nat /\ IndexSpace >= HostCount
    BY BalancerAssumption DEF BalancerInv, RrType
  <1>1. cnt[c] = 2 * HostCount
    BY DEF BalancerInv, AllDrawnDead
  <1>2. \A j \in Recent(2 * HostCount + 1) : Dead(j)
    BY <1>1 DEF BalancerInv, AllDrawnDead, Dead
  <1>3. PICK a \in Nat : \A j \in a..(a + HostCount - 1) : Dead(j)
    <2>1. CASE index >= HostCount
      <3>1. \A j \in (index - HostCount)..(index - HostCount + HostCount - 1) :
                j \in Recent(2 * HostCount + 1)
        BY <1>0, <2>1 DEF Recent
      <3>2. index - HostCount \in Nat
        BY <1>0, <2>1
      <3>3. QED
        BY <1>2, <3>1, <3>2
    <2>2. CASE index < HostCount
      <3>1. \A j \in (IndexSpace - HostCount)
                       ..(IndexSpace - HostCount + HostCount - 1) :
                j \in Recent(2 * HostCount + 1)
        BY <1>0, <2>2 DEF Recent
      <3>2. IndexSpace - HostCount \in Nat
        BY <1>0
      <3>3. QED
        BY <1>2, <3>1, <3>2
    <2>3. QED
      BY <1>0, <2>1, <2>2
  <1>4. \A h \in Host : h \notin alive
    BY <1>3, EveryHost DEF Dead
  <1>5. QED
    BY <1>4 DEF BalancerInv, RrType

\* 2 * size() + 1 draws of the round-robin worker are enough to find a host that
\* is alive, for every number of hosts and every width of the counter, wherever
\* it wraps, if no other call draws in between.
THEOREM AliveHostFound == BalancerSpec => []AliveFound
  <1> DEFINE Inv == lba \in {"RR", "WRR"} /\ (lba = "RR" => BalancerInv)
  <1>1. BalancerInit => Inv
    <2> SUFFICES ASSUME BalancerInit, lba = "RR" PROVE BalancerInv
      BY DEF BalancerInit
    <2>1. RrType
      BY BalancerAssumption DEF BalancerInit, RrType, Host
    <2>2. AllDrawnDead
      BY DEF BalancerInit, AllDrawnDead
    <2>3. QED
      BY <2>1, <2>2 DEF BalancerInv
  <1>2. Inv /\ [BalancerNext]_balancerVars => Inv'
    <2>1. [BalancerNext]_balancerVars => lba' = lba
      BY DEF BalancerNext, balancerVars, SendRequest, Draw, Walk, CheckAlive, Send
    <2>2. QED
      BY <2>1, BalancerStep
  <1>3. Inv => AliveFound
    BY GivesUp DEF AliveFound
  <1>4. QED
    BY <1>1, <1>2, <1>3, PTL DEF BalancerSpec

=============================================================================
