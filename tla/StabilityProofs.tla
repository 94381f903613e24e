-------------------------- MODULE StabilityProofs --------------------------
(***************************************************************************)
(* Proofs about Stability for any finite set of calls, any threshold and   *)
(* any number of attempts.                                                 *)
(***************************************************************************)
EXTENDS Stability, FiniteSetTheorems, TLAPS

\* A call that waits for its backoff has an attempt left.
AttemptsLeft ==
    \A c \in Calls : /\ pc[c] = "idle" => attempt[c] = 0
                     /\ pc[c] = "backoff" => attempt[c] < MaxAttempts

Inv1 == TypeOK /\ AttemptsLeft /\ HalfOpenHasItsProbe
IInv == Inv1 /\ ProbesBounded /\ BreakerSeesFinalResults

\* One of the final results of a call reaches the breaker.
Reports(c, p) ==
    /\ pc[c] = "attempt"
    /\ pc' = [pc EXCEPT ![c] = p]
    /\ UNCHANGED <<now, attempt>>
    /\ \/ p = "ok" /\ OnSuccess(c)
       \/ p = "failed" /\ OnFailure(c)

FastFail(c) == FastFailOpen(c) \/ FastFailHalfOpen(c)

\* A call that is turned away leaves the breaker as it is: only a half-open
\* breaker has a probe in progress, so it does not become half-open here.
LEMMA FastFailFacts ==
    ASSUME Inv1, NEW c \in Calls, FastFail(c)
    PROVE  /\ UNCHANGED <<breaker, now, attempt, history>>
           /\ pc[c] = "idle" /\ pc' = [pc EXCEPT ![c] = "rejected"]
<1>1. CASE FastFailOpen(c)
  BY <1>1 DEF FastFailOpen, breaker, history
<1>2. CASE FastFailHalfOpen(c)
  <2>1. state = "half-open"
    BY <1>2 DEF FastFailHalfOpen, Inv1, HalfOpenHasItsProbe
  <2> QED BY <1>2, <2>1 DEF FastFailHalfOpen, EnterHalfOpen, breaker, history
<1> QED BY <1>1, <1>2 DEF FastFail

\* The actions of Next in the groups the proofs need.
LEMMA NextCases ==
    ASSUME Next
    PROVE  \/ Tick
           \/ \E c \in Calls : \/ FastFail(c) \/ AdmitClosed(c) \/ AdmitProbe(c) \/ Retry(c)
                               \/ pc[c] = "attempt" /\ BackOff(c) /\ UNCHANGED <<now, attempt>>
                               \/ Reports(c, "ok") \/ Reports(c, "failed")
BY DEF Next, FastFail, AttemptSucceeds, AttemptRejects, AttemptTimesOut, GiveUp, Reports

\* The breaker is closed, nothing runs.
LEMMA InitIInv == Init => IInv
<1> SUFFICES ASSUME Init PROVE IInv
  OBVIOUS
<1>1. Inv1
  <2>1. TypeOK
    <3>1. attempt \in [Calls -> 0..MaxAttempts]
      BY StabilityAssumption DEF StabilityAssumption, Init
    <3>2. pc \in [Calls -> {"idle", "attempt", "backoff", "ok", "failed", "rejected"}]
      BY DEF Init
    <3>3. lastFailureTime \in 0..now /\ now \in Nat /\ failures \in Nat /\ intrusions \in Nat
      BY DEF Init
    <3> QED BY <3>1, <3>2, <3>3 DEF Init, TypeOK
  <2>2. AttemptsLeft
    BY DEF Init, AttemptsLeft
  <2>3. HalfOpenHasItsProbe
    BY DEF Init, HalfOpenHasItsProbe
  <2> QED BY <2>1, <2>2, <2>3 DEF Inv1
<1>2. ProbesBounded
  BY FS_EmptySet DEF Init, ProbesBounded
<1>3. {c \in Calls : pc[c] = "failed"} = {}
  BY DEF Init
<1>4. BreakerSeesFinalResults
  BY <1>3, FS_EmptySet, StabilityAssumption DEF StabilityAssumption, Init, BreakerSeesFinalResults
<1> QED BY <1>1, <1>2, <1>4 DEF IInv

\* Whoever reports, a breaker that is half-open afterwards was not before.
LEMMA ReportFacts ==
    ASSUME Inv1, NEW c \in Calls, NEW p \in {"ok", "failed"}, Reports(c, p)
    PROVE  /\ state' # "half-open" /\ halfOpenInProgress' = FALSE
           /\ state' \in {"closed", "open"} /\ failures' \in Nat
           /\ lastFailureTime' \in 0..now
           /\ failures' <= failures + 1 /\ (p = "ok" => failures' = 0)
           /\ state' = "closed" => failures' < FailureThreshold \/ failures' = 0
           /\ probes' = probes \ {c}
           /\ intrusions' = IF state = "half-open" /\ c # current THEN intrusions + 1 ELSE intrusions
<1> USE StabilityAssumption DEF StabilityAssumption
<1>1. CASE p = "ok"
  <2>1. OnSuccess(c)
    BY <1>1 DEF Reports
  <2>2. halfOpenInProgress' = FALSE
    BY <2>1 DEF OnSuccess, Inv1, TypeOK, HalfOpenHasItsProbe
  <2>3. failures \in Nat /\ lastFailureTime \in 0..now
    BY DEF Inv1, TypeOK
  <2> QED BY <2>1, <2>2, <2>3 DEF OnSuccess, Observe
<1>2. CASE p = "failed"
  <2>1. OnFailure(c) /\ now \in Nat /\ failures \in Nat
    BY <1>2 DEF Reports, Inv1, TypeOK
  <2>2. CASE state = "half-open"
    BY <1>2, <2>1, <2>2 DEF OnFailure, Observe
  <2>3. CASE state # "half-open"
    BY <1>2, <2>1, <2>3 DEF OnFailure, Observe, Inv1, TypeOK, HalfOpenHasItsProbe
  <2> QED BY <2>2, <2>3
<1> QED BY <1>1, <1>2

\* The types, the attempts and the probe of a half-open breaker.
LEMMA NextInv1 == Inv1 /\ [Next]_vars => Inv1'
<1> SUFFICES ASSUME Inv1, [Next]_vars PROVE Inv1'
  OBVIOUS
<1> USE StabilityAssumption DEF StabilityAssumption
<1>1. CASE Tick
  BY <1>1 DEF Tick, breaker, history, Inv1, TypeOK, AttemptsLeft, HalfOpenHasItsProbe, InFlight
<1>2. ASSUME NEW c \in Calls, FastFail(c) PROVE Inv1'
  <2>1. UNCHANGED <<breaker, now, attempt, history>> /\ pc[c] = "idle" /\ pc' = [pc EXCEPT ![c] = "rejected"]
    BY <1>2, FastFailFacts
  <2> QED BY <2>1 DEF breaker, history, Inv1, TypeOK, AttemptsLeft, HalfOpenHasItsProbe, InFlight
<1>3. ASSUME NEW c \in Calls, AdmitClosed(c) PROVE Inv1'
  BY <1>3 DEF AdmitClosed, StartAttempt, breaker, history, Inv1, TypeOK, AttemptsLeft,
              HalfOpenHasItsProbe, InFlight
<1>4. ASSUME NEW c \in Calls, AdmitProbe(c) PROVE Inv1'
  <2>1. TypeOK'
    BY <1>4 DEF AdmitProbe, EnterHalfOpen, StartAttempt, Inv1, TypeOK, AttemptsLeft
  <2>2. AttemptsLeft' /\ HalfOpenHasItsProbe'
    BY <1>4 DEF AdmitProbe, EnterHalfOpen, StartAttempt, Inv1, TypeOK, AttemptsLeft, HalfOpenHasItsProbe, InFlight
  <2> QED BY <2>1, <2>2 DEF Inv1
<1>5. ASSUME NEW c \in Calls, Retry(c) PROVE Inv1'
  BY <1>5 DEF Retry, StartAttempt, breaker, history, Inv1, TypeOK, AttemptsLeft,
              HalfOpenHasItsProbe, InFlight
<1>6. ASSUME NEW c \in Calls, pc[c] = "attempt", BackOff(c), UNCHANGED <<now, attempt>> PROVE Inv1'
  BY <1>6 DEF BackOff, breaker, history, Inv1, TypeOK, AttemptsLeft, HalfOpenHasItsProbe, InFlight
<1>7. ASSUME NEW c \in Calls, NEW p \in {"ok", "failed"}, Reports(c, p) PROVE Inv1'
  <2>1. current' \in Calls \cup {NoCall}
    BY <1>7 DEF Reports, OnSuccess, OnFailure, Observe, Inv1, TypeOK
  <2>2. TypeOK'
    <3>1. now' = now /\ attempt' = attempt /\ pc' = [pc EXCEPT ![c] = p]
      BY <1>7 DEF Reports
    <3>2. pc' \in [Calls -> {"idle", "attempt", "backoff", "ok", "failed", "rejected"}]
      BY <3>1 DEF Inv1, TypeOK
    <3>3. probes \subseteq Calls /\ intrusions \in Nat
      BY DEF Inv1, TypeOK
    <3>4. probes' \subseteq Calls
      BY <1>7, <3>3, ReportFacts
    <3>5. intrusions' = intrusions \/ intrusions' = intrusions + 1
      BY <1>7, ReportFacts, Zenon
    <3>6. /\ state' \in {"closed", "open"} /\ halfOpenInProgress' \in BOOLEAN
          /\ failures' \in Nat /\ lastFailureTime' \in 0..now
      BY <1>7, ReportFacts
    <3> QED BY <2>1, <3>1, <3>2, <3>3, <3>6, <3>4, <3>5 DEF Inv1, TypeOK
  <2>3. AttemptsLeft'
    BY <1>7 DEF Reports, Inv1, TypeOK, AttemptsLeft
  <2>4. HalfOpenHasItsProbe'
    BY <1>7, ReportFacts DEF HalfOpenHasItsProbe
  <2> QED BY <2>2, <2>3, <2>4 DEF Inv1
<1>8. CASE UNCHANGED vars
  BY <1>8 DEF vars, Inv1, TypeOK, AttemptsLeft, HalfOpenHasItsProbe, InFlight
<1> QED BY <1>1, <1>2, <1>3, <1>4, <1>5, <1>6, <1>7, <1>8, NextCases

\* The half-open breaker's own probe is one of the probes, so a result that is
\* taken for it either ends it or is counted as an intrusion.
LEMMA NextProbesBounded ==
    ASSUME IInv, [Next]_vars
    PROVE  ProbesBounded'
<1> USE DEF IInv
<1>1. /\ IsFiniteSet(probes) /\ Cardinality(probes) \in Nat
      /\ intrusions \in Nat /\ Cardinality(probes) <= intrusions + (IF state = "half-open" THEN 1 ELSE 0)
  <2>1. IsFiniteSet(probes)
    BY StabilityAssumption, FS_Subset DEF StabilityAssumption, Inv1, TypeOK
  <2> QED BY <2>1, FS_CardinalityType DEF Inv1, TypeOK, ProbesBounded
<1>2. ASSUME NEW c \in Calls, AdmitProbe(c) PROVE ProbesBounded'
  <2>1. state = "open" /\ state' = "half-open" /\ probes' = probes \cup {c} /\ intrusions' = intrusions
    BY <1>2 DEF AdmitProbe, EnterHalfOpen, Inv1, HalfOpenHasItsProbe
  <2>2. Cardinality(probes') \in Nat /\ Cardinality(probes') <= Cardinality(probes) + 1
    <3>1. \/ Cardinality(probes \cup {c}) = Cardinality(probes)
          \/ Cardinality(probes \cup {c}) = Cardinality(probes) + 1
      BY <1>1, FS_AddElement, Zenon
    <3> QED BY <1>1, <2>1, <3>1
  <2> QED BY <1>1, <2>1, <2>2 DEF ProbesBounded
<1>3. ASSUME NEW c \in Calls, NEW p \in {"ok", "failed"}, Reports(c, p) PROVE ProbesBounded'
  <2>1. /\ state' # "half-open" /\ probes' = probes \ {c}
        /\ intrusions' = IF state = "half-open" /\ c # current THEN intrusions + 1 ELSE intrusions
    BY <1>3, ReportFacts
  <2>2. /\ Cardinality(probes') \in Nat
        /\ Cardinality(probes') = IF c \in probes THEN Cardinality(probes) - 1 ELSE Cardinality(probes)
    BY <1>1, <2>1, FS_RemoveElement, FS_CardinalityType
  <2>3. CASE state = "half-open" /\ c = current
    <3>1. c \in probes
      BY <2>3 DEF Inv1, HalfOpenHasItsProbe
    <3> QED BY <1>1, <2>1, <2>2, <2>3, <3>1 DEF ProbesBounded
  <2>4. CASE state = "half-open" /\ c # current
    BY <1>1, <2>1, <2>2, <2>4 DEF ProbesBounded
  <2>5. CASE state # "half-open"
    BY <1>1, <2>1, <2>2, <2>5 DEF ProbesBounded
  <2> QED BY <2>3, <2>4, <2>5
<1>4. UNCHANGED <<state, probes, intrusions>> => ProbesBounded'
  BY DEF ProbesBounded
<1>5. Tick \/ UNCHANGED vars => UNCHANGED <<state, probes, intrusions>>
  BY DEF Tick, vars, breaker, history
<1>6. ASSUME NEW c \in Calls,
             \/ FastFail(c) \/ AdmitClosed(c) \/ Retry(c)
             \/ pc[c] = "attempt" /\ BackOff(c) /\ UNCHANGED <<now, attempt>>
      PROVE  UNCHANGED <<state, probes, intrusions>>
  BY <1>6, FastFailFacts DEF AdmitClosed, Retry, BackOff, breaker, history
<1> QED BY <1>2, <1>3, <1>4, <1>5, <1>6, NextCases

\* Each failure the breaker counts is that of another call that gave up.
LEMMA NextFinalResults ==
    ASSUME IInv, [Next]_vars
    PROVE  BreakerSeesFinalResults'
<1> USE DEF IInv
<1> DEFINE Failed == {c \in Calls : pc[c] = "failed"}
<1>1. IsFiniteSet(Failed) /\ Cardinality(Failed) \in Nat
  BY StabilityAssumption, FS_Subset, FS_CardinalityType DEF StabilityAssumption
<1>2. failures \in Nat /\ failures <= Cardinality(Failed) /\ (state = "closed" => failures < FailureThreshold)
  BY DEF Inv1, TypeOK, BreakerSeesFinalResults
<1>3. ASSUME NEW c \in Calls, pc[c] # "failed", NEW p, p # "failed", pc' = [pc EXCEPT ![c] = p]
      PROVE  Failed' = Failed
  BY <1>3 DEF Inv1, TypeOK
<1>4. ASSUME NEW c \in Calls, Reports(c, "failed") PROVE BreakerSeesFinalResults'
  <2>1. Failed' = Failed \cup {c} /\ c \notin Failed
    BY <1>4 DEF Reports, Inv1, TypeOK
  <2>2. Cardinality(Failed') = Cardinality(Failed) + 1
    BY <1>1, <2>1, FS_AddElement
  <2>3. /\ failures' \in Nat /\ failures' <= failures + 1
        /\ state' = "closed" => failures' < FailureThreshold \/ failures' = 0
    BY <1>4, ReportFacts
  <2> QED BY <1>1, <1>2, <2>2, <2>3, StabilityAssumption DEF StabilityAssumption, BreakerSeesFinalResults
<1>5. ASSUME NEW c \in Calls, Reports(c, "ok") PROVE BreakerSeesFinalResults'
  <2>1. Failed' = Failed
    BY <1>3, <1>5 DEF Reports
  <2>2. failures' = 0
    BY <1>5, ReportFacts
  <2> QED BY <1>1, <2>1, <2>2, StabilityAssumption DEF StabilityAssumption, BreakerSeesFinalResults
<1>6. ASSUME NEW c \in Calls, AdmitProbe(c) PROVE BreakerSeesFinalResults'
  <2>1. pc[c] = "idle" /\ pc' = [pc EXCEPT ![c] = "attempt"]
    BY <1>6 DEF AdmitProbe, StartAttempt
  <2>2. Failed' = Failed
    BY <1>3, <2>1
  <2>3. state' = "half-open" /\ (failures' = 0 \/ failures' = failures)
    BY <1>6 DEF AdmitProbe, EnterHalfOpen
  <2> QED BY <1>1, <1>2, <2>2, <2>3 DEF BreakerSeesFinalResults
<1>7. Failed' = Failed /\ UNCHANGED <<state, failures>> => BreakerSeesFinalResults'
  BY DEF BreakerSeesFinalResults
<1>8. Tick \/ UNCHANGED vars => Failed' = Failed /\ UNCHANGED <<state, failures>>
  BY DEF Tick, vars, breaker
<1>9. ASSUME NEW c \in Calls,
             \/ FastFail(c) \/ AdmitClosed(c) \/ Retry(c)
             \/ pc[c] = "attempt" /\ BackOff(c) /\ UNCHANGED <<now, attempt>>
      PROVE  Failed' = Failed /\ UNCHANGED <<state, failures>>
  <2>1. /\ UNCHANGED <<state, failures>> /\ pc[c] # "failed"
        /\ \E p \in {"rejected", "attempt", "backoff"} : pc' = [pc EXCEPT ![c] = p]
    BY <1>9, FastFailFacts DEF AdmitClosed, Retry, BackOff, StartAttempt, breaker
  <2> QED BY <1>3, <2>1
<1> QED BY <1>4, <1>5, <1>6, <1>7, <1>8, <1>9, NextCases

\* The invariant is inductive.
LEMMA NextIInv == IInv /\ [Next]_vars => IInv'
BY NextInv1, NextProbesBounded, NextFinalResults DEF IInv
-----------------------------------------------------------------------------
\* IInv holds in every reachable state.
THEOREM Invariance == Spec => []IInv
BY InitIInv, NextIInv, PTL DEF Spec

\* The types hold in every reachable state.
THEOREM TypeCorrect == Spec => []TypeOK
<1>1. IInv => TypeOK
  BY DEF IInv, Inv1
<1> QED BY <1>1, Invariance, PTL

\* However many calls finish late and in whatever order, a half-open breaker
\* has a probe in flight that will move it on.
THEOREM NeverStuckHalfOpen == Spec => []HalfOpenHasItsProbe
<1>1. IInv => HalfOpenHasItsProbe
  BY DEF IInv, Inv1
<1> QED BY <1>1, Invariance, PTL

\* Probes beyond the first are paid for by results mistaken for the probe's.
THEOREM ProbesAccountedFor == Spec => []ProbesBounded
<1>1. IInv => ProbesBounded
  BY DEF IInv
<1> QED BY <1>1, Invariance, PTL

\* The breaker counts final results, once per call, and opens in time.
THEOREM FinalResultsOnly == Spec => []BreakerSeesFinalResults
<1>1. IInv => BreakerSeesFinalResults
  BY DEF IInv
<1> QED BY <1>1, Invariance, PTL

\* The breaker keeps its books whatever the calls, retries and timeouts do, for any number of calls.
THEOREM SafeHolds == Spec => []Safe
<1>1. TypeOK /\ HalfOpenHasItsProbe /\ ProbesBounded /\ BreakerSeesFinalResults => Safe
  BY DEF Safe
<1> QED BY <1>1, TypeCorrect, NeverStuckHalfOpen, ProbesAccountedFor, FinalResultsOnly, PTL
=============================================================================
