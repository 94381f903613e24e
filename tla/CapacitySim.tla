---------------------------- MODULE CapacitySim ----------------------------
(***************************************************************************)
(* The discrete-event simulation of capacity_simulator.py.  One step is    *)
(* one turn of its loop: the earliest event, the two areas, the arrival or *)
(* the departure.  Random times are any member of a small set; which of    *)
(* two events of one time the heap gives first is not determined here.     *)
(***************************************************************************)
EXTENDS Integers, Functions, SequencesExt, FiniteSetsExt

CONSTANTS Servers,
          MaxQueueSize,      \* 0: no limit
          SimDuration, Gaps, ServiceTimes

\* Times do not run backwards, and there are no fewer than no servers.
ASSUME SimAssumption ==
  /\ Servers \in Nat /\ MaxQueueSize \in Nat
  /\ SimDuration \in Nat /\ Gaps \subseteq Nat /\ ServiceTimes \subseteq Nat

VARIABLES events, simNow, queue, busyServers,
          arrivalTime, startTime, departureTime,   \* job -> time, once known
          droppedJobs, areaQueue, areaSystem
simVars == <<events, simNow, queue, busyServers, arrivalTime, startTime, departureTime,
             droppedJobs, areaQueue, areaSystem>>

At(f, job, t) == [j \in DOMAIN f \cup {job} |-> IF j = job THEN t ELSE f[j]]
NextJobId == Cardinality(DOMAIN arrivalTime) + 1

SimInit ==
  /\ \E gap \in Gaps : events = {[time |-> gap, type |-> "arrival", job |-> 0]}
  /\ simNow = 0 /\ queue = <<>> /\ busyServers = 0
  /\ arrivalTime = <<>> /\ startTime = <<>> /\ departureTime = <<>>
  /\ droppedJobs = {} /\ areaQueue = 0 /\ areaSystem = 0

Earliest == {e \in events : \A x \in events : e.time <= x.time}

WaitingOnly == Len(queue)
InSystem == Len(queue) + busyServers
Areas(e) ==
  /\ simNow' = e.time
  /\ areaQueue' = areaQueue + Len(queue) * (e.time - simNow)
  /\ areaSystem' = areaSystem + InSystem * (e.time - simNow)

\* The arrival's successor, unless it falls behind the end.
NextArrival(now, job) ==
  {IF now + gap < SimDuration THEN {[time |-> now + gap, type |-> "arrival", job |-> job]} ELSE {}
     : gap \in Gaps}

Departures(now, job) == {{[time |-> now + s, type |-> "departure", job |-> job]} : s \in ServiceTimes}

Arrive(e) ==
  LET job == NextJobId
  IN  /\ e.type = "arrival"
      /\ arrivalTime' = At(arrivalTime, job, e.time)
      /\ \E next \in NextArrival(e.time, job) :
           \/ /\ busyServers < Servers
              /\ busyServers' = busyServers + 1
              /\ startTime' = At(startTime, job, e.time)
              /\ \E d \in Departures(e.time, job) : events' = (events \ {e}) \cup d \cup next
              /\ UNCHANGED <<queue, droppedJobs>>
           \/ /\ busyServers >= Servers
              /\ events' = (events \ {e}) \cup next
              /\ IF MaxQueueSize = 0 \/ Len(queue) < MaxQueueSize
                 THEN queue' = Append(queue, job) /\ UNCHANGED droppedJobs
                 ELSE droppedJobs' = droppedJobs \cup {job} /\ UNCHANGED queue
              /\ UNCHANGED <<busyServers, startTime>>
      /\ UNCHANGED departureTime

Depart(e) ==
  /\ e.type = "departure"
  /\ departureTime' = At(departureTime, e.job, e.time)
  /\ \/ /\ queue # <<>>
        /\ startTime' = At(startTime, Head(queue), e.time)
        /\ \E d \in Departures(e.time, Head(queue)) : events' = (events \ {e}) \cup d
        /\ queue' = Tail(queue)
        /\ UNCHANGED busyServers
     \/ /\ queue = <<>>
        /\ busyServers' = busyServers - 1
        /\ events' = events \ {e}
        /\ UNCHANGED <<queue, startTime>>
  /\ UNCHANGED <<arrivalTime, droppedJobs>>

SimNext ==
  /\ simNow < SimDuration
  /\ \E e \in Earliest : Areas(e) /\ (Arrive(e) \/ Depart(e))
----------------------------------------------------------------------------
(* The result of a run, in sums where the code divides by the number of jobs or the duration. *)

Completed == DOMAIN departureTime
WaitTime == [j \in Completed |-> startTime[j] - arrivalTime[j]]
SystemTime == [j \in Completed |-> departureTime[j] - arrivalTime[j]]
ServiceTime == [j \in Completed |-> departureTime[j] - startTime[j]]
Total(times) == SumFunction(times)
\* sorted(times)[int(0.99 * n)], the least time that more than that many are within.
P99(times) ==
  LET within(j) == {m \in DOMAIN times : times[m] <= times[j]}
      rank == (Cardinality(DOMAIN times) * 99) \div 100 + 1
  IN  Min({times[j] : j \in {k \in DOMAIN times : Cardinality(within(k)) >= rank}})

\* theoretical_mm1, as fractions: the queue's length over `den`, the times over `den` too.
Theory(lambda, mu, servers) ==
  LET all == servers * mu
  IN  IF lambda >= all THEN [valid |-> FALSE]
      ELSE [valid |-> TRUE, finite |-> servers = 1 \/ 10 * lambda < 9 * all,
            Lq |-> lambda * lambda, Wq |-> lambda, W |-> lambda + servers * (all - lambda),
            den |-> all * (all - lambda)]
----------------------------------------------------------------------------
InService == DOMAIN startTime \ DOMAIN departureTime
TimeIn(S, from, to) == SumFunction([j \in S |-> to[j] - from[j]])
TimeSince(S, from) == SumFunction([j \in S |-> simNow - from[j]])
Queued == {queue[i] : i \in DOMAIN queue}

\* Little's law on every path: the areas under the queue and under the system are the times
\* the jobs have spent in them so far, those still there and those gone, dropped jobs nothing.
LittlesLaw ==
  /\ areaQueue = TimeIn(DOMAIN startTime, arrivalTime, startTime) + TimeSince(Queued, arrivalTime)
  /\ areaSystem = TimeIn(DOMAIN departureTime, arrivalTime, departureTime)
                  + TimeSince(Queued \cup InService, arrivalTime)

\* No server idles while a job waits, jobs are served in the order they came, and every job
\* is in exactly one place.
FirstComeFirstServedQueue ==
  /\ queue # <<>> => busyServers = Servers
  /\ busyServers = Cardinality(InService)
  /\ \A i, j \in DOMAIN startTime : i < j => startTime[i] <= startTime[j]
  /\ DOMAIN arrivalTime = DOMAIN startTime \cup Queued \cup droppedJobs
  /\ Cardinality(DOMAIN arrivalTime) = Cardinality(DOMAIN startTime) + Len(queue) + Cardinality(droppedJobs)

\* The result adds up: a job's time is its wait and its service, the servers were not busier than
\* the clock allows, and the slowest percentile of the waits is within that of the whole times,
\* which up to a hundred jobs is the slowest of them.
\* The theory obeys Little's law: for one server, L = rho / (1 - rho).
ResultAddsUp ==
  /\ Completed # {} =>
       /\ Total(SystemTime) = Total(WaitTime) + Total(ServiceTime)
       /\ Total(ServiceTime) <= Servers * simNow
       /\ P99(WaitTime) <= P99(SystemTime)
       /\ Cardinality(Completed) <= 100 => \A j \in Completed : SystemTime[j] <= P99(SystemTime)
  /\ \A lambda, mu \in 1..4 :
       LET theory == Theory(lambda, mu, 1)
       IN  /\ theory.valid <=> lambda < mu
           /\ theory.valid => lambda * theory.W * (mu - lambda) = lambda * theory.den
=============================================================================
