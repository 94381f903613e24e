---------------------------- MODULE PerfReports ----------------------------
(***************************************************************************)
(* The calculations of the performance labs, each from an input chosen at  *)
(* the start: the latency budget of a chain of components, one turn of     *)
(* its loop per step; the nodes a load needs; the percentiles of a report. *)
(* Ratios are kept as integers by scaling.  The tracer of requests follows *)
(* one request from event to event.                                        *)
(***************************************************************************)
EXTENDS Integers, Functions, SequencesExt, FiniteSetsExt

CONSTANTS MaxComponents, MaxLatency, QpsInputs, SafetyPercents, MaxRecords

ASSUME ReportsAssumption ==
  /\ MaxComponents \in Nat /\ MaxLatency \in Nat \ {0} /\ MaxRecords \in Nat
  /\ QpsInputs \subseteq Nat /\ SafetyPercents \subseteq Nat \ {0}

VARIABLES components, nextComponent, results, totalP99,       \* the budget, its loop
          budget,                                 \* and its report
          plan,                                   \* an input of the capacity calculator
          nodes,
          records,                                \* the records of a load test
          report
perfVars == <<components, nextComponent, results, totalP99, budget, plan, nodes, records, report>>

NotYet == -1
\* No report: actual_rho is a division by zero.
NoReport == -2
Component == [p99 : 1..MaxLatency, parallel : BOOLEAN]

\* cpu_ms, memory_mb of a request; cpu_cores, memory_gb of a node.
Profiles == {<<5, 20>>, <<20, 50>>, <<50, 100>>, <<100, 200>>, <<500, 1024>>}
NodeSpecs == {<<2, 4>>, <<4, 8>>, <<8, 16>>, <<16, 32>>, <<8, 64>>}
Plans == [profile : Profiles, node : NodeSpecs, peak : QpsInputs, safety : SafetyPercents]

\* Latency, and the time the request left after the moment it was due (before: negative).
Record == [latency : 1..MaxLatency, late : -1..1]
----------------------------------------------------------------------------
\* max(0, comp - prev): the component before, not the slowest of its group.
Added(c, prev) == IF c.p99 > prev.p99 THEN c.p99 - prev.p99 ELSE 0

AddComponent ==
  /\ nextComponent <= Len(components)
  /\ LET c == components[nextComponent]
         added == IF c.parallel /\ nextComponent > 1 THEN Added(c, components[nextComponent - 1]) ELSE c.p99
     IN  /\ results' = Append(results, added)
         /\ totalP99' = totalP99 + added
  /\ nextComponent' = nextComponent + 1
  /\ UNCHANGED <<components, budget, plan, nodes, records, report>>

Rounded(a, b) == (2 * a + b) \div (2 * b)
\* Parts of the total, in tenths of a percent: what each component adds, and what half of it saves.
Share(n) == Rounded(1000 * results[n], totalP99)
Improvement(n) == Rounded(500 * results[n], totalP99)
Bottlenecks == {n \in DOMAIN results : Share(n) > 200}
\* The stable sort of the recommendations, and the first three.
SortedBefore(m, n) == Improvement(m) > Improvement(n) \/ (Improvement(m) = Improvement(n) /\ m < n)
TopThree == {n \in DOMAIN results : Cardinality({m \in DOMAIN results : SortedBefore(m, n)}) < 3}

FinishBudget ==
  /\ nextComponent > Len(components) /\ components # <<>> /\ budget = <<>>
  /\ budget' = [bottlenecks |-> Bottlenecks, top |-> TopThree]
  /\ UNCHANGED <<components, nextComponent, results, totalP99, plan, nodes, records, report>>

CeilDiv(a, b) == (a + b - 1) \div b

\* Requests per second of one node as a fraction; 1.2 stands for hyperthreading.
CpuLimit(p) == [num |-> p.node[1] * 1200, den |-> p.profile[1]]
MemoryLimit(p) == [num |-> p.node[2] * 1024, den |-> p.profile[2]]
Lesser(a, b) == IF a.num * b.den <= b.num * a.den THEN a ELSE b

Capacity(p) == Lesser(CpuLimit(p), MemoryLimit(p))
NodesFor(p) == CeilDiv(p.peak * 100 * Capacity(p).den, Capacity(p).num * p.safety)

CalculateCapacity ==
  /\ nodes = NotYet
  /\ nodes' = IF plan.peak = 0 THEN NoReport ELSE NodesFor(plan)
  /\ UNCHANGED <<components, nextComponent, results, totalP99, budget, plan, records, report>>

\* actual_rho as a fraction; the delay is finite below 0.999.
Rho(p) == [num |-> p.peak * Capacity(p).den, den |-> NodesFor(p) * Capacity(p).num]
DelayIsFinite(p) == 1000 * Rho(p).num < 999 * Rho(p).den
HourlyCents(p) == NodesFor(p) * (IF p.node = <<8, 64>> THEN 150 ELSE (5 * p.node[1]) \div 2)
\* What compare_nodes tabulates, from small to xl.
Sizes == << <<2, 4>>, <<4, 8>>, <<8, 16>>, <<16, 32>> >>
Compared(p) == [n \in 1..4 |-> HourlyCents([p EXCEPT !.node = Sizes[n]])]

\* The percentile at p permille of sorted data, times 1000.
Percentile(data, p) ==
  LET k == (Len(data) - 1) * p
      f == k \div 1000
  IN  IF f + 1 < Len(data)
      THEN data[f + 1] * (1000 * (f + 1) - k) + data[f + 2] * (k - 1000 * f)
      ELSE 1000 * data[f + 1]

\* The n-th smallest of what a function yields, and all of them in order.
Smallest(f, n) ==
  LET within(k) == {m \in DOMAIN f : f[m] <= f[k]}
  IN  Min({f[k] : k \in {j \in DOMAIN f : Cardinality(within(j)) >= n}})
Sorted(f) == [n \in 1..Cardinality(DOMAIN f) |-> Smallest(f, n)]
Ranks == <<500, 900, 990, 999>>
Corrected(r) == r.latency + IF r.late > 0 THEN r.late ELSE 0

BuildReport ==
  /\ report = <<>>
  /\ LET raw == Sorted([n \in DOMAIN records |-> records[n].latency])
         corrected == Sorted([n \in DOMAIN records |-> Corrected(records[n])])
     IN  report' = [raw |-> [n \in 1..4 |-> Percentile(raw, Ranks[n])],
                    min |-> 1000 * raw[1], max |-> 1000 * raw[Len(raw)],
                    correctedP99 |-> Percentile(corrected, 990)]
  /\ UNCHANGED <<components, nextComponent, results, totalP99, budget, plan, nodes, records>>

SomePlan == [profile |-> <<5, 20>>, node |-> <<2, 4>>, peak |-> 1, safety |-> 70]
SomeRecords == <<[latency |-> 1, late |-> 0]>>

PerfInit ==
  /\ nextComponent = 1 /\ results = <<>> /\ totalP99 = 0 /\ budget = <<>> /\ nodes = NotYet /\ report = <<>>
  /\ \/ components \in BoundedSeq(Component, MaxComponents) /\ plan = SomePlan /\ records = SomeRecords
     \/ components = <<>> /\ plan \in Plans /\ records = SomeRecords
     \/ components = <<>> /\ plan = SomePlan /\ records \in BoundedSeq(Record, MaxRecords) \ {<<>>}

PerfNext == AddComponent \/ FinishBudget \/ CalculateCapacity \/ BuildReport
----------------------------------------------------------------------------
(***************************************************************************)
(* trace_request.py: the events of one request after the other, and the    *)
(* report.  What aiohttp does is external: a connection, with a name to    *)
(* resolve or not, perhaps a redirect to another one, parts of the body,   *)
(* an error at any time.  Each event comes some time after the one before. *)
(***************************************************************************)

CONSTANTS MaxSamples,
          MaxTraceTime   \* bounds the time of a request

ASSUME SamplesAssumption == MaxSamples \in Nat \ {0} /\ MaxTraceTime \in Nat

VARIABLES tracing,       \* where the request is
          traceNow,      \* since total_start
          timings, redirected,
          samples, summary
traceVars == <<tracing, traceNow, timings, redirected, samples, summary>>

TraceInit == tracing = "new" /\ traceNow = 0 /\ timings = <<>> /\ redirected = FALSE /\ samples = <<>> /\ summary = <<>>

NoTime == -1
Elapses == traceNow' \in traceNow..MaxTraceTime
Marked(event, time) == [e \in DOMAIN timings \cup {event} |-> IF e = event THEN time ELSE timings[e]]
On(event, from, to) ==
  /\ tracing \in from /\ tracing' = to
  /\ timings' = Marked(event, traceNow')
  /\ UNCHANGED <<redirected, samples, summary>>

\* on_chunk keeps the first one.
OnChunk ==
  /\ tracing \in {"waiting", "reading"} /\ tracing' = "reading"
  /\ timings' = IF "ttfb" \in DOMAIN timings THEN timings ELSE Marked("ttfb", traceNow')
  /\ UNCHANGED <<redirected, samples, summary>>

\* The body of an answer that redirects is not read.
OnRedirect ==
  /\ tracing = "waiting" /\ ~redirected /\ redirected' = TRUE
  /\ \/ tracing' = "new" /\ UNCHANGED timings
     \/ timings' = Marked("reused", traceNow') /\ UNCHANGED tracing
  /\ UNCHANGED <<samples, summary>>

NonNegative(t) == IF t > 0 THEN t ELSE 0
DiffMs(start, end) ==
  IF {start, end} \subseteq DOMAIN timings THEN NonNegative(timings[end] - timings[start]) ELSE NoTime

Failed(total) == [ok |-> FALSE, total |-> total, dns |-> NoTime, connect |-> NoTime, ttfb |-> NoTime, receive |-> NoTime]
Measured(total) ==
  LET reused == "reused" \in DOMAIN timings
  IN  [ok |-> TRUE, total |-> total, dns |-> DiffMs("dns_start", "dns_end"),
       connect |-> IF reused THEN 0 ELSE DiffMs("tcp_start", "tcp_end"),
       ttfb |-> DiffMs(IF reused THEN "dns_end" ELSE "tcp_end", "ttfb"),
       receive |-> IF "ttfb" \in DOMAIN timings THEN NonNegative(total - timings["ttfb"]) ELSE NoTime]

\* The body is read or an exception was raised; the next sample has a session of its own.
EndSample ==
  /\ \/ tracing \in {"waiting", "reading"} /\ samples' = Append(samples, Measured(traceNow))
     \/ tracing # "ended" /\ samples' = Append(samples, Failed(traceNow))
  /\ tracing' = IF Len(samples') < MaxSamples THEN "new" ELSE "ended"
  /\ traceNow' = 0 /\ timings' = <<>> /\ redirected' = FALSE
  /\ UNCHANGED summary

\* The times of a part, of the samples that have it.
Having(part) == {n \in DOMAIN samples : samples[n].ok /\ samples[n][part] # NoTime}
Values(part) == [n \in Having(part) |-> samples[n][part]]
Stats(vals) ==
  LET data == Sorted(vals)
  IN  IF DOMAIN vals = {} THEN <<>>
      ELSE [p |-> [n \in 1..3 |-> Percentile(data, Ranks[n])], n |-> Len(data), sum |-> SumFunction(vals),
            min |-> 1000 * data[1], max |-> 1000 * data[Len(data)]]

Parts == {"dns", "connect", "ttfb", "receive", "total"}
BuildSummary ==
  /\ tracing = "ended" /\ summary = <<>>
  /\ summary' = [success |-> Cardinality({n \in DOMAIN samples : samples[n].ok}),
                 errors |-> Cardinality({n \in DOMAIN samples : ~samples[n].ok}),
                 parts |-> [part \in Parts |-> Stats(Values(part))]]
  /\ UNCHANGED <<tracing, traceNow, timings, redirected, samples>>

\* What print_report calls the bottleneck, from means over different numbers of samples.
MeanShare(part) == LET s == summary.parts[part]  t == summary.parts["total"]
                   IN  IF s = <<>> THEN 0 ELSE Rounded(1000 * s.sum * t.n, t.sum * s.n)

TraceEvent ==
  \/ On("tcp_start", {"new"}, "connecting") \/ On("dns_start", {"connecting"}, "resolving")
  \/ On("dns_end", {"resolving"}, "resolved") \/ On("tcp_end", {"connecting", "resolved"}, "waiting")
  \/ OnChunk \/ OnRedirect
TraceNext == EndSample \/ BuildSummary \/ (Elapses /\ TraceEvent)
----------------------------------------------------------------------------
\* A component runs beside the one before it, so a group is a serial component and the
\* parallel ones after it; what the documentation promises is the sum of the groups' maxima.
Firsts == {n \in DOMAIN components : n = 1 \/ ~components[n].parallel}
Group(n) == {m \in DOMAIN components : n <= m /\ \A x \in (n + 1)..m : components[x].parallel}
Documented == SumFunction([n \in Firsts |-> Max({components[m].p99 : m \in Group(n)})])

\* A budget is never below the documented total.  What the components add is the total, fewer
\* than five of them are bottlenecks, and no component left out of the top three would have saved
\* more than one that is in, but for the tenth of a percent that the report rounds to.
BudgetIsConservative ==
  /\ nextComponent > Len(components) => totalP99 >= Documented
  /\ budget # <<>> =>
       /\ SumFunction(results) = totalP99 /\ Cardinality(budget.bottlenecks) < 5
       /\ \A n \in budget.top, m \in DOMAIN results \ budget.top : 500 * (results[m] - results[n]) <= totalP99

\* The nodes are the least number that carries the peak within the safety margin of CPU and of
\* memory, so that the queue is finite with any margin.  Larger nodes never cost less: they only
\* round up coarser.
Carries(n) == \A limit \in {CpuLimit(plan), MemoryLimit(plan)} :
                plan.peak * 100 * limit.den <= n * limit.num * plan.safety
JustEnoughNodes ==
  nodes > 0 =>
    /\ Carries(nodes) /\ ~Carries(nodes - 1)
    /\ plan.safety < 99 => DelayIsFinite(plan)
    /\ \A n \in 1..3 : Compared(plan)[n] <= Compared(plan)[n + 1]

\* Percentiles rise with the rank between minimum and maximum, and the correction for coordinated
\* omission only raises the tail, though the two lists are sorted apart.
PercentilesOrdered ==
  report # <<>> =>
    /\ report.min <= report.raw[1] /\ report.raw[4] <= report.max
    /\ \A n \in 1..3 : report.raw[n] <= report.raw[n + 1]
    /\ report.raw[3] <= report.correctedP99

\* The parts of a sample never exceed it, wherever a redirect went; without one, resolving the name
\* is a part of connecting, so the report's parts must not all be added.
PartsFit(x) ==
  LET length(t) == IF t = NoTime THEN 0 ELSE t
  IN  /\ length(x.connect) + length(x.ttfb) + length(x.receive) <= x.total
      /\ x.ttfb # NoTime => x.receive # NoTime

\* The report counts every sample once, its means lie between its extremes, and the share of the
\* time to the first byte is one, provided that no answer came without a body.
TraceAddsUp ==
  /\ \A n \in DOMAIN samples : samples[n].ok => PartsFit(samples[n])
  /\ summary # <<>> =>
       /\ summary.success + summary.errors = MaxSamples
       /\ \A part \in Parts : LET s == summary.parts[part] IN
            s # <<>> => /\ s.min <= s.p[1] /\ s.p[1] <= s.p[2] /\ s.p[2] <= s.p[3] /\ s.p[3] <= s.max
                        /\ s.min * s.n <= 1000 * s.sum /\ 1000 * s.sum <= s.max * s.n
       /\ (Cardinality(Having("ttfb")) = summary.success /\ summary.success > 0 /\ summary.parts["total"].sum > 0)
            => MeanShare("ttfb") <= 1000
ReportsAreSound == BudgetIsConservative /\ JustEnoughNodes /\ PercentilesOrdered /\ TraceAddsUp
=============================================================================
