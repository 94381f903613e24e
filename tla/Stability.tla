----------------------------- MODULE Stability -----------------------------
(***************************************************************************)
(* engineering/backend/reliability/stability-patterns/impl.ts:             *)
(* withStability = CircuitBreaker.execute(withRetry(withTimeout(fn))).     *)
(*                                                                         *)
(* Several calls share one breaker.  execute runs without interruption up  *)
(* to the first attempt, and again from the settling of the last attempt   *)
(* through onSuccess or onFailure.                                         *)
(***************************************************************************)
EXTENDS Integers, FiniteSets

CONSTANTS
    Calls,              \* calls of withStability on one breaker
    FailureThreshold,   \* options.failureThreshold
    ResetTimeout,       \* options.resetTimeoutMs
    MaxAttempts,        \* retry.maxAttempts
    MaxTime,            \* bound: the clock stops here
    NoCall

ASSUME StabilityAssumption ==
    /\ FailureThreshold \in Nat \ {0}
    /\ MaxAttempts \in Nat \ {0}
    /\ ResetTimeout \in Nat /\ MaxTime \in Nat
    /\ NoCall \notin Calls
    /\ IsFiniteSet(Calls)

VARIABLES
    now,                \* Date.now()
    state,              \* CircuitBreaker.state
    failures,
    lastFailureTime,
    halfOpenInProgress,
    pc,                 \* where each call is
    attempt,            \* the attempt a call has reached in withRetry
    probes,             \* history: calls admitted half-open and still in flight
    current,            \* history: the call the half-open state waits for
    intrusions          \* history: results of other calls taken as the probe's

vars == <<now, state, failures, lastFailureTime, halfOpenInProgress,
          pc, attempt, probes, current, intrusions>>
breaker == <<state, failures, lastFailureTime, halfOpenInProgress>>
history == <<probes, current, intrusions>>

Init ==
    /\ now = 0
    /\ state = "closed" /\ failures = 0 /\ lastFailureTime = 0
    /\ halfOpenInProgress = FALSE
    /\ pc = [c \in Calls |-> "idle"]
    /\ attempt = [c \in Calls |-> 0]
    /\ probes = {} /\ current = NoCall /\ intrusions = 0

Tick == now < MaxTime /\ now' = now + 1
        /\ UNCHANGED <<breaker, pc, attempt, history>>

-----------------------------------------------------------------------------
(* CircuitBreaker.execute, up to `await fn()`                              *)

ResetDue == now - lastFailureTime >= ResetTimeout

FastFailOpen(c) ==
    /\ pc[c] = "idle"
    /\ state = "open" /\ ~ResetDue
    /\ pc' = [pc EXCEPT ![c] = "rejected"]
    /\ UNCHANGED <<now, breaker, attempt, history>>

\* An open breaker is half-open, with its failures reset, once a call finds
\* the reset timeout over, before anyone asks for a probe in progress.
EnterHalfOpen ==
    /\ state = "half-open" \/ (state = "open" /\ ResetDue)
    /\ state' = "half-open"
    /\ failures' = IF state = "open" THEN 0 ELSE failures

FastFailHalfOpen(c) ==
    /\ pc[c] = "idle"
    /\ EnterHalfOpen
    /\ halfOpenInProgress
    /\ pc' = [pc EXCEPT ![c] = "rejected"]
    /\ UNCHANGED <<now, lastFailureTime, halfOpenInProgress, attempt, history>>

StartAttempt(c) ==
    /\ pc' = [pc EXCEPT ![c] = "attempt"]
    /\ attempt' = [attempt EXCEPT ![c] = @ + 1]

AdmitClosed(c) ==
    /\ pc[c] = "idle"
    /\ state = "closed"
    /\ StartAttempt(c)
    /\ UNCHANGED <<now, breaker, history>>

\* Mutant: halfOpenInProgress is not consulted.
AdmitProbeUnguarded(c) ==
    /\ pc[c] = "idle"
    /\ EnterHalfOpen
    /\ halfOpenInProgress' = TRUE
    /\ StartAttempt(c)
    /\ probes' = probes \cup {c} /\ current' = c
    /\ UNCHANGED <<now, lastFailureTime, intrusions>>

\* The call goes on as the probe.
AdmitProbe(c) ==
    /\ pc[c] = "idle"
    /\ EnterHalfOpen
    /\ ~halfOpenInProgress
    /\ halfOpenInProgress' = TRUE
    /\ StartAttempt(c)
    /\ probes' = probes \cup {c} /\ current' = c
    /\ UNCHANGED <<now, lastFailureTime, intrusions>>

-----------------------------------------------------------------------------
(* onSuccess and onFailure: neither asks which state its call was admitted *)
(* in.                                                                     *)

\* The history variables when the result of c reaches the breaker.
Observe(c) ==
    /\ probes' = probes \ {c}
    /\ intrusions' = IF state = "half-open" /\ c # current THEN intrusions + 1 ELSE intrusions
    /\ current' = IF state' = "half-open" THEN current ELSE NoCall

OnSuccess(c) ==
    /\ halfOpenInProgress' = IF state = "half-open" THEN FALSE ELSE halfOpenInProgress
    /\ state' = "closed"
    /\ failures' = 0
    /\ UNCHANGED lastFailureTime
    /\ Observe(c)

OnFailure(c) ==
    /\ lastFailureTime' = now
    /\ IF state = "half-open"
       THEN state' = "open" /\ halfOpenInProgress' = FALSE /\ UNCHANGED failures
       ELSE /\ failures' = failures + 1
            /\ state' = IF failures' >= FailureThreshold THEN "open" ELSE state
            /\ UNCHANGED halfOpenInProgress
    /\ Observe(c)

-----------------------------------------------------------------------------
(* withRetry around withTimeout.  A timed-out fn is not cancelled, but      *)
(* nobody looks at its result any more.                                    *)

AttemptSucceeds(c) ==
    /\ pc[c] = "attempt"
    /\ pc' = [pc EXCEPT ![c] = "ok"]
    /\ OnSuccess(c)
    /\ UNCHANGED <<now, attempt>>

\* An attempt that may be retried waits for its backoff.
BackOff(c) ==
    /\ attempt[c] < MaxAttempts
    /\ pc' = [pc EXCEPT ![c] = "backoff"]
    /\ UNCHANGED <<breaker, history>>

\* The last attempt, or an error that is not retryable: execute rethrows.
GiveUp(c) ==
    /\ pc' = [pc EXCEPT ![c] = "failed"]
    /\ OnFailure(c)

\* retryable(err) is the caller's: either answer is possible before the last.
AttemptRejects(c) ==
    /\ pc[c] = "attempt"
    /\ BackOff(c) \/ GiveUp(c)
    /\ UNCHANGED <<now, attempt>>

AttemptTimesOut(c) ==
    /\ pc[c] = "attempt"
    /\ BackOff(c) \/ GiveUp(c)
    /\ UNCHANGED <<now, attempt>>

\* Mutant: the attempt counter is not advanced.
RetryUncounted(c) ==
    /\ pc[c] = "backoff"
    /\ pc' = [pc EXCEPT ![c] = "attempt"]
    /\ UNCHANGED <<now, breaker, attempt, history>>

\* sleep(backoff(attempt)) is over.
Retry(c) ==
    /\ pc[c] = "backoff"
    /\ StartAttempt(c)
    /\ UNCHANGED <<now, breaker, history>>

Next ==
    \/ Tick
    \/ \E c \in Calls :
        \/ FastFailOpen(c) \/ FastFailHalfOpen(c) \/ AdmitClosed(c) \/ AdmitProbe(c)
        \/ AttemptSucceeds(c) \/ AttemptRejects(c) \/ AttemptTimesOut(c)
        \/ Retry(c)

\* The attempt's timer and the backoff's fire; fn itself may hang for ever.
Fairness == \A c \in Calls : WF_vars(AttemptTimesOut(c)) /\ WF_vars(Retry(c))

Spec == Init /\ [][Next]_vars
FairSpec == Spec /\ Fairness

-----------------------------------------------------------------------------
(* Properties                                                              *)

InFlight(c) == pc[c] \in {"attempt", "backoff"}

TypeOK ==
    /\ now \in Nat
    /\ state \in {"closed", "open", "half-open"}
    /\ failures \in Nat
    /\ lastFailureTime \in 0..now
    /\ halfOpenInProgress \in BOOLEAN
    /\ pc \in [Calls -> {"idle", "attempt", "backoff", "ok", "failed", "rejected"}]
    /\ attempt \in [Calls -> 0..MaxAttempts]
    /\ probes \subseteq Calls
    /\ current \in Calls \cup {NoCall}
    /\ intrusions \in Nat

\* The breaker cannot be stuck half-open, refusing everyone: while it is
\* half-open the probe it waits for is in flight, whatever stale calls do.
HalfOpenHasItsProbe ==
    /\ halfOpenInProgress <=> state = "half-open"
    /\ state = "half-open" => current \in probes /\ InFlight(current)

\* Probes in flight beyond the one the breaker waits for are each the result
\* of a call the breaker mistook for the probe.
ProbesBounded ==
    Cardinality(probes) <= intrusions + (IF state = "half-open" THEN 1 ELSE 0)

\* The breaker counts one failure per call, after its retries, and a closed
\* breaker is always below its threshold.
BreakerSeesFinalResults ==
    /\ failures <= Cardinality({c \in Calls : pc[c] = "failed"})
    /\ state = "closed" => failures < FailureThreshold

\* Every admitted call returns, even if fn never answers.
AdmittedCallReturns == \A c \in Calls : InFlight(c) ~> ~InFlight(c)

\* The breaker is never stuck half-open, accounts for every probe, and counts final results only.
Safe == TypeOK /\ HalfOpenHasItsProbe /\ ProbesBounded /\ BreakerSeesFinalResults
=============================================================================
