---------------------------- MODULE LoadBalancer ----------------------------
(***************************************************************************)
(* The load balancer of coro_io (include/ylt/coro_io/load_balancer.hpp).   *)
(*                                                                         *)
(* send_request() asks its worker for a host until it gets one that is     *)
(* alive, at most 2 * size() + 1 times.  The round-robin worker draws from *)
(* a shared counter; the weighted one walks the hosts again and again with *)
(* a falling threshold.  The counter is atomic; the weighted walk has no   *)
(* protection, so it is modelled for one call at a time.                   *)
(***************************************************************************)
EXTENDS Integers, FiniteSetsExt, Functions

CONSTANTS
    Caller,     \* the calls of send_request
    HostCount,  \* size(), more than one host
    IndexSpace, \* values of uint32_t, 2^32 in the code
    Weights     \* the weights the balancer may be created with

Host == 0..HostCount - 1

\* A weight is a share; the code does not look for negative ones.
ASSUME BalancerAssumption ==
    /\ HostCount \in Nat \ {0} /\ IndexSpace \in Nat /\ IndexSpace >= HostCount
    /\ Weights \subseteq [Host -> Nat]

VARIABLES
    lba,            \* "RR" or "WRR"
    alive,          \* the hosts whose pool is alive
    index,          \* RRLoadbalancer::index
    weights,        \* weights_
    wrr_current,    \* wrr_current_
    weight_current, \* weight_current_
    bpc,            \* where a call is
    target,         \* the host it got last
    cnt,            \* cnt
    alone,          \* no other call drew since it began
    got             \* how often the walk chose each host in this cycle

rr == <<index, alone>>
wrr == <<wrr_current, weight_current, got>>
balancerVars == <<lba, alive, index, weights, wrr_current, weight_current, bpc,
                  target, cnt, alone, got>>

BalancerInit ==
    /\ lba \in {"RR", "WRR"} /\ index = 0
    /\ alive \in IF lba = "RR" THEN SUBSET Host ELSE {Host, {}}
    /\ weights \in IF lba = "WRR" THEN Weights ELSE {[h \in Host |-> 0]}
    /\ wrr_current = -1 /\ weight_current = 0
    /\ bpc = [c \in Caller |-> "idle"] /\ target = [c \in Caller |-> 0]
    /\ cnt = [c \in Caller |-> 0] /\ alone = [c \in Caller |-> FALSE]
    /\ got = [h \in Host |-> 0]

LbGoto(c, label) == bpc' = [bpc EXCEPT ![c] = label]

Divides(d, n) == \E q \in 0..n : d * q = n
Gcd(a, b) ==
    IF a = 0 \/ b = 0 THEN a + b
    ELSE Max({d \in 1..a : Divides(d, a) /\ Divides(d, b)})

\* get_max_weight_gcd(), get_max_weight()
MaxGcd == FoldFunction(Gcd, weights[0], weights)
MaxOf == Max(Range(weights))

---------------------------------------------------------------------------

SendRequest(c) ==
    /\ bpc[c] = "idle" /\ (lba = "WRR" => \A d \in Caller : bpc[d] = "idle")
    /\ LbGoto(c, IF lba = "RR" THEN "draw" ELSE "walk")
    /\ cnt' = [cnt EXCEPT ![c] = 0] /\ alone' = [alone EXCEPT ![c] = TRUE]
    /\ UNCHANGED <<lba, alive, index, weights, wrr, target>>

\* index->fetch_add(1) and the host it stands for.
Draw(c) ==
    /\ bpc[c] = "draw" /\ LbGoto(c, "check")
    /\ target' = [target EXCEPT ![c] = index % HostCount]
    /\ index' = (index + 1) % IndexSpace
    /\ alone' = [d \in Caller |-> alone[d] /\ d = c]
    /\ UNCHANGED <<lba, alive, weights, wrr, cnt>>

\* Mutant: the threshold falls by one.
FallByOne == weight_current - 1

\* weight_current_ - max_gcd_
Fallen == weight_current - MaxGcd

\* The threshold when the walk is at host n.
Threshold(n) ==
    IF n # 0 THEN weight_current ELSE IF Fallen <= 0 THEN MaxOf ELSE Fallen

\* A cycle is as many choices as the weights, without their common divisor,
\* add up to.
CycleOver == SumFunction(got) * MaxGcd = SumFunction(weights)

Chosen(c, n) ==
    /\ target' = [target EXCEPT ![c] = n] /\ LbGoto(c, "check")
    /\ got' = [h \in Host |-> (IF CycleOver THEN 0 ELSE got[h])
                              + (IF h = n THEN 1 ELSE 0)]

\* A turn of the loop in select_host_with_weight_round_robin().  The result -1
\* for weights that are all zero stands for host 0, where the walk is then.
Walk(c) ==
    /\ bpc[c] = "walk"
    /\ LET n == (wrr_current + 1) % HostCount
           w == Threshold(n)
       IN  /\ wrr_current' = n /\ weight_current' = w
           /\ \/ weights[n] >= w /\ Chosen(c, n)
              \/ weights[n] < w /\ UNCHANGED <<bpc, target, got>>
    /\ UNCHANGED <<lba, alive, rr, weights, cnt>>

\* Mutant: ++cnt <= size()
OneRound(n) == n + 1 <= HostCount

\* ++cnt <= size() * 2
TryAgain(n) == n + 1 <= HostCount * 2

\* while (!client_pool->is_alive() && ...)
CheckAlive(c) ==
    /\ bpc[c] = "check"
    /\ \/ /\ target[c] \notin alive /\ TryAgain(cnt[c])
          /\ LbGoto(c, IF lba = "RR" THEN "draw" ELSE "walk")
          /\ cnt' = [cnt EXCEPT ![c] = @ + 1]
       \/ /\ target[c] \in alive \/ ~TryAgain(cnt[c])
          /\ LbGoto(c, "send") /\ UNCHANGED cnt
    /\ UNCHANGED <<lba, alive, rr, weights, wrr, target>>

\* client_pool->send_request(); the call is over, or another one begins.
Send(c) ==
    /\ bpc[c] = "send" /\ LbGoto(c, "idle")
    /\ target' = [target EXCEPT ![c] = 0] /\ cnt' = [cnt EXCEPT ![c] = 0]
    /\ alone' = [alone EXCEPT ![c] = FALSE]
    /\ UNCHANGED <<lba, alive, index, weights, wrr>>

BalancerNext ==
    \E c \in Caller :
        SendRequest(c) \/ Draw(c) \/ Walk(c) \/ CheckAlive(c) \/ Send(c)

BalancerSpec == BalancerInit /\ [][BalancerNext]_balancerVars

---------------------------------------------------------------------------
(* Properties.                                                             *)

\* A call of the round-robin balancer that no other call comes between is sent
\* to a host that is alive if there is one, even when the counter wraps at a
\* number that is not a multiple of size(): that is what two rounds are for.
AliveFound ==
    \A c \in Caller :
        bpc[c] = "send" /\ lba = "RR" /\ alone[c] /\ alive # {} =>
            target[c] \in alive

\* The weighted balancer gives every host its share of each cycle, whatever
\* the weights are.
SharesKept ==
    lba = "WRR" /\ MaxGcd > 0 /\ CycleOver =>
        \A h \in Host : got[h] * MaxGcd = weights[h]

=============================================================================
