----------------------------- MODULE ClusterSims -----------------------------
(***************************************************************************)
(* The cloud-native, reliability and network labs: a pod and its probes,   *)
(* the scheduling of pods on a node, the traffic of an ingress, the burn   *)
(* rate of an error budget, the versions of HTTP.  Each is a simulator of  *)
(* its own; what it draws at random is chosen step by step.                *)
(***************************************************************************)
EXTENDS Integers, Functions, SequencesExt, FiniteSetsExt

CONSTANTS StartupDelays, MaxPodTicks,
          NodeCpu, NodeMemory, MaxPods,
          NumEndpoints, NumClientIps, NumIngressNodes, MaxIngressRequests,
          SloTargets, SloWindow, MaxSloRequests,
          Latencies, SlowLatency, LossPenalty, MaxHttpRequests

\* A window, a list of endpoints and one of latencies are not empty, and the third request is
\* not faster than the others may be.
ASSUME ClusterAssumption ==
  /\ StartupDelays \subseteq Nat /\ MaxPodTicks \in Nat /\ NodeCpu \in Nat /\ NodeMemory \in Nat
  /\ NumEndpoints \in Nat \ {0} /\ NumClientIps \in Nat /\ NumIngressNodes \in Nat
  /\ SloTargets \subseteq Nat /\ SloWindow \in Nat \ {0}
  /\ Latencies \subseteq Nat /\ Latencies # {} /\ LossPenalty \in Nat
  /\ SlowLatency \in Nat /\ \A l \in Latencies : l <= SlowLatency

VARIABLES pod, podTicks, startupDelay, failAt,
          nodePods,                                 \* Node.pods
          counts, routedTo, podsOn, succeeded, blackholed,
          sloTarget,                                \* 1 / (1 - slo), 0 for a slo of 100%
          sloTotal, sloErrors, sloHistory, requestLog,
          latencies
podVars == <<pod, podTicks, startupDelay, failAt>>
ingressVars == <<counts, routedTo, podsOn, succeeded, blackholed>>
sloVars == <<sloTarget, sloTotal, sloErrors, sloHistory, requestLog>>
clusterVars == <<podVars, nodePods, ingressVars, sloVars, latencies>>
----------------------------------------------------------------------------
(* pod_sim.py: run() ticks every half second, the unit of time here. *)

PodInit ==
  /\ pod = [phase |-> "Pending", healthy |-> TRUE, ready |-> FALSE, started |-> 0, restarts |-> 0]
  /\ podTicks = 0
  /\ startupDelay \in StartupDelays /\ failAt \in 0..MaxPodTicks    \* MaxPodTicks: None

StartupProbe == podTicks - pod.started >= startupDelay

AfterTick(p) ==
  CASE p.phase = "Pending" -> IF StartupProbe THEN [p EXCEPT !.phase = "Running"] ELSE p
    [] p.phase = "Running" /\ p.healthy -> [p EXCEPT !.ready = p.healthy]
    [] OTHER -> [p EXCEPT !.phase = "Pending", !.started = podTicks, !.ready = FALSE, !.restarts = @ + 1]

PodTick ==
  /\ podTicks < MaxPodTicks
  /\ pod' = AfterTick([pod EXCEPT !.healthy = @ /\ podTicks # failAt])
  /\ podTicks' = podTicks + 1
  /\ UNCHANGED <<startupDelay, failAt>>

\* A pod is ready only when it runs, was healthy at its last tick and had its startup delay; only
\* an unhealthy pod is restarted, and not before the delay of its last start is over.
ProbesAreKept ==
  /\ pod.ready => /\ pod.phase = "Running" /\ pod.healthy
                  /\ podTicks - pod.started >= startupDelay + 2
  /\ pod.restarts > 0 => podTicks > failAt /\ pod.restarts <= podTicks \div (startupDelay + 1)
----------------------------------------------------------------------------
(* resource_sim.py *)

PodSpecs == {p \in [cpu_request : 1..2, cpu_limit : 1..2, cpu_usage : 1..2, mem_request : {1, 2}, mem_limit : {1, 2},
                    mem_usage : {1, 2}, oom_killed : {FALSE}, throttled : {FALSE}] :
               p.cpu_request <= p.cpu_limit /\ p.mem_request <= p.mem_limit}

SumOf(pods, field) == SumFunction([i \in DOMAIN pods |-> pods[i][field]])
CpuUsed(pods) == SumOf(pods, "cpu_usage")

CanSchedule(p) ==
  /\ SumOf(nodePods, "cpu_request") + p.cpu_request <= NodeCpu
  /\ SumOf(nodePods, "mem_request") + p.mem_request <= NodeMemory

SchedulePod(p) == Len(nodePods) < MaxPods /\ CanSchedule(p) /\ nodePods' = Append(nodePods, p)

RunTick ==
  nodePods' = [i \in DOMAIN nodePods |->
                 LET p == nodePods[i]
                 IN  [p EXCEPT !.throttled = p.cpu_usage > p.cpu_limit \/ CpuUsed(nodePods) > NodeCpu,
                               !.oom_killed = @ \/ p.mem_usage > p.mem_limit]]

\* The requests on a node never exceed it, so that pods that keep within their requests are never
\* throttled, whoever else runs there, and never killed for their memory.
RequestsAreGuaranteed ==
  /\ SumOf(nodePods, "cpu_request") <= NodeCpu
  /\ SumOf(nodePods, "mem_request") <= NodeMemory
  /\ (\A i \in DOMAIN nodePods : nodePods[i].cpu_usage <= nodePods[i].cpu_request) =>
       \A i \in DOMAIN nodePods : ~nodePods[i].throttled
  /\ \A i \in DOMAIN nodePods : nodePods[i].mem_usage <= nodePods[i].mem_request => ~nodePods[i].oom_killed
----------------------------------------------------------------------------
(* service_lb.py, local_policy.py, dns_ndots.py *)

Endpoint == 0..NumEndpoints - 1
ClientIp == 0..NumClientIps - 1
IngressNode == 1..NumIngressNodes
Hashed(client) == client % NumEndpoints
Plus(f, x) == [f EXCEPT ![x] = @ + 1]

IngressInit ==
  /\ counts = [mode \in {"iptables", "ipvs"} |-> [e \in Endpoint |-> 0]]
  /\ routedTo = [c \in ClientIp |-> {}]
  /\ podsOn = [n \in IngressNode |-> 0] /\ succeeded = 0 /\ blackholed = 0

IptablesRandom ==
  /\ SumFunction(counts.iptables) < MaxIngressRequests
  /\ \E e \in Endpoint : counts' = [counts EXCEPT !.iptables = Plus(@, e)]
  /\ UNCHANGED <<routedTo, podsOn, succeeded, blackholed>>

IpvsSh ==
  /\ SumFunction(counts.ipvs) < MaxIngressRequests
  /\ \E c \in ClientIp : /\ counts' = [counts EXCEPT !.ipvs = Plus(@, Hashed(c))]
                         /\ routedTo' = [routedTo EXCEPT ![c] = @ \cup {Hashed(c)}]
  /\ UNCHANGED <<podsOn, succeeded, blackholed>>

\* The pods are placed before the first request.
PlacePod ==
  /\ SumFunction(podsOn) < MaxPods /\ succeeded + blackholed = 0
  /\ \E n \in IngressNode : podsOn' = Plus(podsOn, n)
  /\ UNCHANGED <<counts, routedTo, succeeded, blackholed>>

RouteLocally ==
  /\ succeeded + blackholed < MaxIngressRequests
  /\ \E n \in IngressNode :
       IF podsOn[n] > 0 THEN succeeded' = succeeded + 1 /\ UNCHANGED blackholed
                        ELSE blackholed' = blackholed + 1 /\ UNCHANGED succeeded
  /\ UNCHANGED <<counts, routedTo, podsOn>>

\* The names a pod asks for: 0 is the name as it is, n the name under the n-th search domain.
Lookups(dots, ndots) == IF dots >= ndots THEN <<0>> ELSE <<1, 2, 3, 0>>

\* A client address stays with one endpoint and every endpoint has its share of the addresses;
\* traffic is lost only on a node without a pod; a name is asked for as it is, after the search
\* domains, and a dot more never costs a query more.
TrafficIsRouted ==
  /\ \A c \in ClientIp : Cardinality(routedTo[c]) <= 1
  /\ \A e, f \in Endpoint : Cardinality({c \in ClientIp : Hashed(c) = e})
                            <= Cardinality({c \in ClientIp : Hashed(c) = f}) + 1
  /\ \A e \in Endpoint : counts.ipvs[e] > 0 <=> \E c \in ClientIp : e \in routedTo[c]
  /\ blackholed > 0 => \E n \in IngressNode : podsOn[n] = 0
  /\ succeeded > 0 => \E n \in IngressNode : podsOn[n] > 0
  /\ \A dots, ndots \in 0..5 : /\ Last(Lookups(dots, ndots)) = 0 /\ IsInjective(Lookups(dots, ndots))
                               /\ Len(Lookups(dots + 1, ndots)) <= Len(Lookups(dots, ndots))
----------------------------------------------------------------------------
(* slo_lab/burn_rate.py and the error budget lab: a rate is <<numerator, denominator>>. *)

SloInit ==
  /\ sloTarget \in SloTargets
  /\ sloTotal = 0 /\ sloErrors = 0 /\ sloHistory = <<>> /\ requestLog = <<>>

ErrorsIn(log) == Cardinality({i \in DOMAIN log : ~log[i]})
Bit(b) == IF b THEN 1 ELSE 0

RecordRequest(success) ==
  /\ Len(requestLog) < MaxSloRequests
  /\ requestLog' = Append(requestLog, success)
  /\ LET history == Append(sloHistory, success)
         full == Len(history) > SloWindow
     IN  /\ sloHistory' = IF full THEN Tail(history) ELSE history
         /\ sloErrors' = sloErrors + Bit(~success) - Bit(full /\ ~Head(history))
         /\ sloTotal' = sloTotal + 1 - Bit(full)
  /\ UNCHANGED sloTarget

Infinite == <<1, 0>>
SimulatorBurnRate ==
  IF sloTarget = 0 \/ sloTotal = 0 THEN <<0, 1>> ELSE <<sloErrors * sloTarget, sloTotal>>
BurnRate(errors, total) ==
  IF sloTarget = 0 THEN Infinite ELSE IF total = 0 THEN <<0, 1>> ELSE <<errors * sloTarget, total>>
WindowBurnRates(log, size) ==
  [i \in 1..Len(log) - size + 1 |-> BurnRate(ErrorsIn(SubSeq(log, i, i + size - 1)), size)]

AtLeast(rate, n) == rate[1] >= n * rate[2]
Status == IF AtLeast(SimulatorBurnRate, 100) THEN 4 ELSE IF AtLeast(SimulatorBurnRate, 10) THEN 3
          ELSE IF AtLeast(SimulatorBurnRate, 2) THEN 2 ELSE 1

\* What is left of the budget of a log, as a part of it.
Remaining(errors, total) == <<total - errors * sloTarget, total>>
More(ratio, tenths) == 10 * ratio[1] > tenths * ratio[2]
Decide(ratio) == IF More(ratio, 5) THEN 1 ELSE IF More(ratio, 3) THEN 2 ELSE IF More(ratio, 1) THEN 3 ELSE 4

\* Both burn rates measure the same: the running counters are those of the window, and with a
\* full window they give the rate of the log's last window.  A burn rate above 1 over the whole
\* log is an exhausted budget, which the release gate blocks, and more errors never open the gate.
BurnRatesAgree ==
  LET total == Len(requestLog)
      rate == BurnRate(ErrorsIn(requestLog), total)
      windows == WindowBurnRates(requestLog, SloWindow)
  IN  /\ sloTotal = Len(sloHistory) /\ sloErrors = ErrorsIn(sloHistory)
      /\ Len(sloHistory) = Min({total, SloWindow})
      /\ sloHistory = SubSeq(requestLog, total - Len(sloHistory) + 1, total)
      /\ sloTarget # 0 /\ total >= SloWindow =>
           Last(windows)[1] * SimulatorBurnRate[2] = Last(windows)[2] * SimulatorBurnRate[1]
      /\ sloErrors = 0 => Status = 1
      /\ sloTarget # 0 /\ total > 0 =>
           /\ rate[1] > rate[2] <=> Remaining(ErrorsIn(requestLog), total)[1] < 0
           /\ rate[1] > rate[2] => Decide(Remaining(ErrorsIn(requestLog), total)) = 4
           /\ \A e \in 0..total - 1 : Decide(Remaining(e, total)) <= Decide(Remaining(e + 1, total))
----------------------------------------------------------------------------
(* http_simulator.py: the third request is the slow one. *)

DrawLatency ==
  /\ Len(latencies) < MaxHttpRequests
  /\ IF Len(latencies) = 2 THEN latencies' = Append(latencies, SlowLatency)
     ELSE \E l \in Latencies : latencies' = Append(latencies, l)

Http11 == SumFunction(latencies)
Http2(lost) == Max(ToSet(latencies)) + (IF lost THEN LossPenalty ELSE 0)
Http3 == Max(ToSet(latencies))

\* Multiplexed streams take as long as the slowest of them, in whatever order they are drawn; one
\* connection at a time takes longer by all the others, one loss costs HTTP/2 the same once.
SlowestDecides ==
  Len(latencies) > 2 => /\ Http3 = SlowLatency /\ Http2(TRUE) = Http3 + LossPenalty /\ Http2(FALSE) = Http3
                        /\ Http11 >= Http3 + (Len(latencies) - 1) * Min(Latencies)
----------------------------------------------------------------------------
ClusterInit == PodInit /\ nodePods = <<>> /\ IngressInit /\ SloInit /\ latencies = <<>>

ClusterNext(which) ==
  \/ which = "pod" /\ PodTick /\ UNCHANGED <<nodePods, ingressVars, sloVars, latencies>>
  \/ /\ which = "node" /\ ((\E p \in PodSpecs : SchedulePod(p)) \/ RunTick)
     /\ UNCHANGED <<podVars, ingressVars, sloVars, latencies>>
  \/ which = "balancer" /\ (IptablesRandom \/ IpvsSh) /\ UNCHANGED <<podVars, nodePods, sloVars, latencies>>
  \/ which = "local_policy" /\ (PlacePod \/ RouteLocally) /\ UNCHANGED <<podVars, nodePods, sloVars, latencies>>
  \/ which = "slo" /\ (\E s \in BOOLEAN : RecordRequest(s)) /\ UNCHANGED <<podVars, nodePods, ingressVars, latencies>>
  \/ which = "http" /\ DrawLatency /\ UNCHANGED <<podVars, nodePods, ingressVars, sloVars>>

ClusterLabsAreRight ==
  ProbesAreKept /\ RequestsAreGuaranteed /\ TrafficIsRouted /\ BurnRatesAgree /\ SlowestDecides
=============================================================================
