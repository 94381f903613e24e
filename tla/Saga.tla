-------------------------------- MODULE Saga --------------------------------
(***************************************************************************)
(* engineering/backend/data-consistency/saga-pattern/impl.ts:              *)
(* SagaOrchestrator.execute, executeStep/withTimeout and compensate.       *)
(*                                                                         *)
(* Steps are 1..N in the order given to the builder, with distinct names.  *)
(* What a step does to its service is external: effect says whether the    *)
(* service holds it.  A step that loses the race against its timer is not  *)
(* cancelled and may still take effect, at any later time.                 *)
(***************************************************************************)
EXTENDS Integers

CONSTANTS
    N,              \* number of steps
    MaxCompensationRetries,     \* options.maxRetries, of a compensation
    TimeoutMs       \* options.timeoutMs; 0 turns the timer off

ASSUME SagaAssumption == N \in Nat \ {0} /\ MaxCompensationRetries \in Nat /\ TimeoutMs \in Nat

Steps == 1..N

VARIABLES
    status,         \* SagaOrchestrator.status
    pc,             \* where execute is
    at,             \* the step being executed, or compensated
    completed,      \* completedStepNames
    compensated,    \* compensatedStepNames
    retries,        \* of the compensation under way
    effect,         \* at the services: did the step take effect
    late,           \* timed-out steps that may still take effect
    timedOut,       \* history: steps that lost their race
    gaveUp          \* history: steps whose compensation ran out of retries

sagaVars == <<status, pc, at, completed, compensated, retries, effect, late, timedOut, gaveUp>>
bookkeeping == <<compensated, retries, gaveUp>>

SagaInit ==
    /\ status = "running" /\ pc = "execute" /\ at = 1
    /\ completed = {} /\ compensated = {} /\ retries = 0
    /\ effect = [s \in Steps |-> "none"]
    /\ late = {} /\ timedOut = {} /\ gaveUp = {}

-----------------------------------------------------------------------------
(* execute                                                                 *)

\* The step in progress resolves and is recorded as completed.
StepDone ==
    /\ pc = "execute" /\ at <= N
    /\ effect' = [effect EXCEPT ![at] = "applied"]
    /\ completed' = completed \cup {at}
    /\ at' = at + 1
    /\ UNCHANGED <<status, pc, late, timedOut, bookkeeping>>

\* compensate() begins: the completed steps, last first.
StartCompensation ==
    /\ status' = "compensating"
    /\ pc' = "compensate"
    /\ at' = at - 1
    /\ retries' = 0
    /\ UNCHANGED <<completed, compensated, gaveUp>>

\* The step rejects, having had no effect.
StepRejects ==
    /\ pc = "execute" /\ at <= N
    /\ StartCompensation
    /\ UNCHANGED <<effect, late, timedOut>>

\* Promise.race is won by the timer.
StepTimesOut ==
    /\ pc = "execute" /\ at <= N /\ TimeoutMs > 0
    /\ StartCompensation
    /\ late' = late \cup {at} /\ timedOut' = timedOut \cup {at}
    /\ UNCHANGED effect

Complete ==
    /\ pc = "execute" /\ at > N
    /\ status' = "completed" /\ pc' = "done"
    /\ UNCHANGED <<at, completed, effect, late, timedOut, bookkeeping>>

-----------------------------------------------------------------------------
(* compensate: each completed step in reverse, 1 + maxRetries tries each   *)

NextCompensation == at' = at - 1 /\ retries' = 0

\* Mutant: compensation walks over the steps in the order they were executed.
CompensateForwards ==
    \E s \in completed \ (compensated \cup gaveUp) :
        /\ pc = "compensate" /\ at > 0
        /\ \A t \in completed \ (compensated \cup gaveUp) : s <= t
        /\ effect' = [effect EXCEPT ![s] = "undone"]
        /\ compensated' = compensated \cup {s}
        /\ NextCompensation
        /\ UNCHANGED <<status, pc, completed, late, timedOut, gaveUp>>

CompensateDone ==
    /\ pc = "compensate" /\ at > 0
    /\ effect' = [effect EXCEPT ![at] = "undone"]
    /\ compensated' = compensated \cup {at}
    /\ NextCompensation
    /\ UNCHANGED <<status, pc, completed, late, timedOut, gaveUp>>

\* Mutant: the retry counter starts again instead of running out.
CompensateRetriesForever ==
    /\ pc = "compensate" /\ at > 0
    /\ retries' = IF retries < MaxCompensationRetries THEN retries + 1 ELSE 0
    /\ UNCHANGED <<status, pc, at, completed, compensated, effect, late, timedOut, gaveUp>>

\* Mutant: the first compensation that fails for good ends the rollback.
CompensateStops ==
    /\ pc = "compensate" /\ at > 0
    /\ IF retries < MaxCompensationRetries
       THEN retries' = retries + 1 /\ UNCHANGED <<at, gaveUp>>
       ELSE at' = 0 /\ retries' = 0 /\ gaveUp' = gaveUp \cup {at}
    /\ UNCHANGED <<status, pc, completed, compensated, effect, late, timedOut>>

\* A failed try is repeated; after the last one the next step is compensated.
CompensateRejects ==
    /\ pc = "compensate" /\ at > 0
    /\ IF retries < MaxCompensationRetries
       THEN retries' = retries + 1 /\ UNCHANGED <<at, gaveUp>>
       ELSE NextCompensation /\ gaveUp' = gaveUp \cup {at}
    /\ UNCHANGED <<status, pc, completed, compensated, effect, late, timedOut>>

Fail ==
    /\ pc = "compensate" /\ at = 0
    /\ status' = "failed" /\ pc' = "done"
    /\ UNCHANGED <<at, completed, effect, late, timedOut, bookkeeping>>

\* A step nobody waits for any more takes effect after all, or never will.
LateEffect(s) ==
    /\ s \in late
    /\ late' = late \ {s}
    /\ \E applied \in BOOLEAN : effect' = IF applied THEN [effect EXCEPT ![s] = "applied"] ELSE effect
    /\ UNCHANGED <<status, pc, at, completed, timedOut, bookkeeping>>

SagaNext ==
    \/ StepDone \/ StepRejects \/ StepTimesOut \/ Complete
    \/ CompensateDone \/ CompensateRejects \/ Fail
    \/ \E s \in Steps : LateEffect(s)

\* The timer of a step fires and a compensation settles, one way or the
\* other.  Nothing is assumed of the steps: one that hangs is timed out.
SagaFairness ==
    /\ WF_sagaVars(StepTimesOut) /\ WF_sagaVars(Complete)
    /\ WF_sagaVars(CompensateDone \/ CompensateRejects) /\ WF_sagaVars(Fail)

SagaSpec == SagaInit /\ [][SagaNext]_sagaVars
FairSagaSpec == SagaSpec /\ SagaFairness

-----------------------------------------------------------------------------
(* Properties                                                              *)

SagaTypeOK ==
    /\ status \in {"running", "completed", "compensating", "failed"}
    /\ pc \in {"execute", "compensate", "done"}
    /\ at \in 0..(N + 1)
    /\ completed \in SUBSET Steps /\ compensated \in SUBSET Steps
    /\ retries \in 0..MaxCompensationRetries
    /\ effect \in [Steps -> {"none", "applied", "undone"}]
    /\ late \in SUBSET Steps /\ timedOut \in SUBSET Steps /\ gaveUp \in SUBSET Steps

\* A failed saga leaves no effect behind, except of a step that timed out and
\* of one whose compensation failed maxRetries + 1 times: a compensation that
\* fails for good does not keep the others from running.
FailedMeansUndone ==
    status = "failed" => \A s \in Steps : effect[s] = "applied" => s \in gaveUp \cup timedOut

\* A completed saga has every step's effect, none of them still to come.
CompletedMeansApplied ==
    status = "completed" => late = {} /\ \A s \in Steps : effect[s] = "applied"

\* A step is undone only when no later step it may depend on stands, but for
\* those the saga could not undo.
UndoneInReverse ==
    [][\A s \in Steps : effect[s] = "applied" /\ effect'[s] = "undone" =>
        \A t \in (s + 1)..N : effect[t] # "applied" \/ t \in gaveUp \cup timedOut]_sagaVars

\* The saga ends although steps may hang and compensations may keep failing.
SagaEnds == <>(pc = "done")

\* All or nothing, up to what the saga reports as given up and what took effect late.
SagaIsSafe == SagaTypeOK /\ FailedMeansUndone /\ CompletedMeansApplied
=============================================================================
