---------------------------- MODULE MCComponents ----------------------------
(***************************************************************************)
(* The smaller components in one run of TLC.  They do not interact here:   *)
(* the initial state chooses one, the others stay in their initial states. *)
(* The collector of the queue has a module and runs of its own and is      *)
(* instantiated for its liveness; the others are extended.                 *)
(***************************************************************************)
EXTENDS ClientPool, AsyncIo, DnsCache, LoadBalancer, CircleBuffer, RateLimiter,
        ThreadLocalValue, Appender

CONSTANTS c1, c2, k1, k2

VARIABLES
    part,       \* the component that runs
    q, size, sel, pending, started, gone, qfails, lost, qpc, idx, qcli, cli2,
    qcnt, colpc, old, kept, taken, cleared, fresh                 \* ClientQueue

queueVars == <<q, size, sel, pending, started, gone, qfails, lost, qpc, idx,
               qcli, cli2, qcnt, colpc, old, kept, taken, cleared, fresh>>
all == <<part, vars, queueVars, ioVars, dnsVars, balancerVars, ringVars,
         limiterVars, valueVars, appenderVars>>

Halves == INSTANCE ClientQueue WITH
    Thread <- {"t1"}, Client <- {"k1", "k2"}, Own <- {"k1"}, SizeSpace <- 4,
    ReuseAt <- 1, MaxPending <- 1, MaxClear <- 2, MaxFail <- 0,
    destroyed <- gone, fails <- qfails, pc <- qpc, cli <- qcli, cnt <- qcnt,
    cpc <- colpc

\* Equal weights, a common divisor, a host without weight, no weight at all.
SomeWeights ==
    {[h \in 0..2 |-> w[h + 1]] :
        w \in {<<1, 1, 1>>, <<4, 2, 0>>, <<2, 4, 4>>, <<1, 2, 3>>, <<0, 0, 0>>}}

Parts == {"pool", "queue", "io", "dns", "balancer", "ring", "limiter", "counter",
          "log"}

\* One initial state is enough for a component that does not run.
PartsInit ==
    /\ part \in Parts
    /\ Init /\ Halves!Init /\ IoInit /\ DnsInit /\ BalancerInit /\ RingInit
    /\ LimiterInit /\ ValueInit /\ AppenderInit
    /\ part # "pool" => host = "up"
    /\ part # "io" => slot = "open"
    /\ part # "balancer" =>
        lba = "RR" /\ alive = {} /\ weights = [h \in 0..2 |-> 0]
    /\ part # "limiter" => interval = 3

Others(p) ==
    /\ UNCHANGED part
    /\ p # "pool" => UNCHANGED vars
    /\ p # "queue" => UNCHANGED queueVars
    /\ p # "io" => UNCHANGED ioVars
    /\ p # "dns" => UNCHANGED dnsVars
    /\ p # "balancer" => UNCHANGED balancerVars
    /\ p # "ring" => UNCHANGED ringVars
    /\ p # "limiter" => UNCHANGED limiterVars
    /\ p # "counter" => UNCHANGED valueVars
    /\ p # "log" => UNCHANGED appenderVars

PartsNext ==
    \/ part = "pool" /\ Next /\ Others("pool")
    \/ part = "queue" /\ Halves!Next /\ Others("queue")
    \/ part = "io" /\ IoNext /\ Others("io")
    \/ part = "dns" /\ DnsNext /\ Others("dns")
    \/ part = "balancer" /\ BalancerNext /\ Others("balancer")
    \/ part = "ring" /\ RingNext /\ Others("ring")
    \/ part = "limiter" /\ LimiterNext /\ Others("limiter")
    \/ part = "counter" /\ ValueNext /\ Others("counter")
    \/ part = "log" /\ AppenderNext /\ Others("log")

\* The fairness conditions of the components, each for when it runs.
PartsSpec ==
    /\ PartsInit /\ [][PartsNext]_all
    /\ \A c \in Call :
        /\ WF_vars(part = "pool" /\ GetShort(c))
        /\ WF_vars(part = "pool" /\ (ConnectOk(c) \/ ConnectFail(c)))
        /\ WF_vars(part = "pool" /\ AliveDetect(c))
        /\ SF_vars(part = "pool" /\ DetectOk(c))
        /\ WF_vars(part = "pool" /\ CollectFreeClient(c))
    /\ WF_queueVars(part = "queue" /\ Halves!ThreadStep("t1"))
    /\ WF_queueVars(part = "queue" /\ Halves!Collector)
    /\ \A k \in {"k1", "k2"} : WF_queueVars(part = "queue" /\ Halves!Respond(k))
    /\ WF_ioVars(part = "io" /\ Progress)
    /\ \A c \in {"c1", "c2"} : WF_dnsVars(part = "dns" /\ Reconnect(c))
    /\ WF_appenderVars(part = "log" /\ Writer)
    /\ WF_appenderVars(part = "log" /\ Stop)

---------------------------------------------------------------------------
(* The property of the instance; the others are those of the modules.      *)

\* An idle client does not stay in client_queue forever, if fewer clients than
\* a round of clear_old() takes have the executor of the collector.
IdleCollected == Halves!IdleCollected

=============================================================================
