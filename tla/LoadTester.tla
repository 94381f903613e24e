----------------------------- MODULE LoadTester -----------------------------
(***************************************************************************)
(* run_loadtest and its workers on one asyncio loop: a list of stages, the *)
(* workers of the stage, the stop event it sets when its time is up, the   *)
(* gather that waits for the requests in flight.  Without --stages there   *)
(* is one stage whose event the signal handler sets too.  The interval of  *)
(* an open worker is one unit of the clock.  Statuses and sizes are left   *)
(* out; the target may answer, fail or stay silent until the timeout.      *)
(***************************************************************************)
EXTENDS Integers, FiniteSets

CONSTANTS Workers, NumStages, StageTime, RequestTimeout,
          MaxLag,      \* the 5 of `sleep_time < -interval * 5`
          MaxTestTime  \* bounds the clock; no test lasts that long

ASSUME WorkersAssumption == IsFiniteSet(Workers)

VARIABLES model, staged, testNow, stage, stageStart, phase, stopSet, signalled,
          at, slot, sentAt, intended,      \* per worker
          sent, skipped, stageRecords, allRecords
testVars == <<model, staged, testNow, stage, stageStart, phase, stopSet, signalled, at, slot, sentAt, intended,
              sent, skipped, stageRecords, allRecords>>

workerVars == <<at, slot, sentAt, intended, sent, skipped, stageRecords>>

Started == [w \in Workers |-> "loop"]

TestInit ==
  /\ model \in {"open", "closed"} /\ staged \in BOOLEAN
  /\ testNow = 0 /\ stage = 1 /\ stageStart = 0 /\ phase = "running"
  /\ stopSet = FALSE /\ signalled = FALSE
  /\ at = Started
  /\ slot = [w \in Workers |-> 0]
  /\ sentAt = [w \in Workers |-> 0] /\ intended = [w \in Workers |-> 0]
  /\ sent = 0 /\ skipped = 0 /\ stageRecords = 0 /\ allRecords = 0

IntendedStart(w) == stageStart + slot[w]

\* The head of the worker's loop.
Leave(w) ==
  /\ at[w] = "loop" /\ stopSet
  /\ at' = [at EXCEPT ![w] = "left"]
  /\ UNCHANGED <<slot, sentAt, intended, sent, skipped, stageRecords>>

Send(w) ==
  /\ at' = [at EXCEPT ![w] = "request"]
  /\ sentAt' = [sentAt EXCEPT ![w] = testNow]
  /\ intended' = [intended EXCEPT ![w] = IF model = "open" THEN IntendedStart(w) ELSE testNow]
  /\ sent' = sent + 1
  /\ UNCHANGED <<slot, skipped, stageRecords>>

SendClosed(w) == at[w] = "loop" /\ ~stopSet /\ model = "closed" /\ Send(w)

TooLate(w) == testNow - IntendedStart(w) > MaxLag
SendOpen(w) ==
  /\ model = "open"
  /\ \/ at[w] = "loop" /\ ~stopSet /\ IntendedStart(w) <= testNow /\ ~TooLate(w)
     \/ at[w] = "sleeping" /\ IntendedStart(w) <= testNow
  /\ Send(w)

SleepUntilSlot(w) ==
  /\ model = "open" /\ at[w] = "loop" /\ ~stopSet /\ IntendedStart(w) > testNow
  /\ at' = [at EXCEPT ![w] = "sleeping"]
  /\ UNCHANGED <<slot, sentAt, intended, sent, skipped, stageRecords>>

SkipSlot(w) ==
  /\ model = "open" /\ at[w] = "loop" /\ ~stopSet /\ TooLate(w)
  /\ slot' = [slot EXCEPT ![w] = @ + 1]
  /\ skipped' = skipped + 1
  /\ UNCHANGED <<at, sentAt, intended, sent, stageRecords>>

\* The response, the timeout or another exception: one record each way.
WaitsForever(w) == FALSE
TimedOut(w) == testNow >= sentAt[w] + RequestTimeout
Recorded(w) ==
  /\ at' = [at EXCEPT ![w] = "loop"]
  /\ stageRecords' = stageRecords + 1
  /\ slot' = [slot EXCEPT ![w] = IF model = "open" THEN @ + 1 ELSE @]
  /\ UNCHANGED <<sentAt, intended, sent, skipped>>
Answer(w) == at[w] = "request" /\ testNow > sentAt[w] /\ Recorded(w)
Timeout(w) == at[w] = "request" /\ TimedOut(w) /\ Recorded(w)

WorkerStep(w) ==
  /\ \/ Leave(w) \/ SendClosed(w) \/ SendOpen(w) \/ SleepUntilSlot(w) \/ SkipSlot(w) \/ Timeout(w)
  /\ UNCHANGED <<model, staged, testNow, stage, stageStart, phase, stopSet, signalled, allRecords>>

TargetAnswers(w) ==
  /\ Answer(w)
  /\ UNCHANGED <<model, staged, testNow, stage, stageStart, phase, stopSet, signalled, allRecords>>

\* SIGINT: without stages it is the workers' event, with stages only the head of the loop
\* over the stages looks at it.
Signal ==
  /\ ~signalled /\ phase # "reported"
  /\ signalled' = TRUE
  /\ stopSet' = (stopSet \/ ~staged)
  /\ UNCHANGED <<model, staged, testNow, stage, stageStart, phase, workerVars, allRecords>>

StageOver == testNow >= stageStart + StageTime
\* asyncio.sleep(duration) is over; a signal does not cut it short.
StopStage ==
  /\ phase = "running" /\ StageOver
  /\ stopSet' = TRUE /\ phase' = "gathering"
  /\ UNCHANGED <<model, staged, testNow, stage, stageStart, signalled, workerVars, allRecords>>

Gathered == \A w \in Workers : at[w] = "left"
CollectStage ==
  /\ phase = "gathering" /\ Gathered
  /\ allRecords' = allRecords + stageRecords
  /\ stageRecords' = 0
  /\ IF staged /\ stage < NumStages /\ ~signalled
     THEN /\ stage' = stage + 1 /\ stageStart' = testNow /\ phase' = "running" /\ stopSet' = FALSE
          /\ at' = Started /\ slot' = [w \in Workers |-> 0]
     ELSE /\ phase' = "reported"
          /\ UNCHANGED <<stage, stageStart, stopSet, at, slot>>
  /\ UNCHANGED <<model, staged, testNow, signalled, sentAt, intended, sent, skipped>>

\* Time passes while the event loop has nothing to run: its own work takes none.
Ready(w) == \/ at[w] = "loop"
            \/ at[w] = "sleeping" /\ IntendedStart(w) <= testNow
            \/ at[w] = "request" /\ TimedOut(w)
TestTick ==
  /\ testNow < MaxTestTime /\ phase # "reported"
  /\ \A w \in Workers : ~Ready(w)
  /\ phase = "running" => ~StageOver
  /\ ~(phase = "gathering" /\ Gathered)
  /\ testNow' = testNow + 1
  /\ UNCHANGED <<model, staged, stage, stageStart, phase, stopSet, signalled, workerVars, allRecords>>

TestNext == \/ \E w \in Workers : WorkerStep(w) \/ TargetAnswers(w)
            \/ Signal \/ StopStage \/ CollectStage \/ TestTick
----------------------------------------------------------------------------
\* The report counts every request that was sent exactly once, those in flight when the stage
\* ended too, over any number of stages and however each request ended.
ReportIsComplete == phase = "reported" => allRecords = sent
=============================================================================
