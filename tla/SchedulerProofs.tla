--------------------------- MODULE SchedulerProofs ---------------------------
(***************************************************************************)
(* Safety of the scheduler for any tasks, ids, delays, intervals, channel  *)
(* capacity and number of cancellations.                                   *)
(***************************************************************************)
EXTENDS Scheduler, TLAPS

\* A mapped task is mapped under its own id.
KeyedById == \A i \in Ids : byId[i] # NoTask => Id[byId[i]] = i

\* What is over is nowhere any more.
OverIsOver == \A t \in over : t \notin Waiting \cup heap /\ ~Active(t)

\* A task begins one run at most with a cancelled context, and does not
\* survive it: the context is asked again before the task would be re-added.
LateOnce ==
    \A t \in Tasks : lateRuns[t] # 0 =>
        /\ lateRuns[t] = 1 /\ t \in canceled
        /\ routine[t] = "running" \/ t \in over

\* A task gets anywhere only through an accepted call, and after that it is
\* somewhere, over, or cancelled.
Accounted ==
    \A t \in Tasks :
        IF caller[t] = "accepted"
        THEN Active(t) \/ t \in Waiting \cup heap \cup over \cup canceled
        ELSE ~Active(t) /\ t \notin Waiting \cup heap \cup over

\* Once the loop is done the heap is frozen, all of it cancelled.
DoneMeansCancelled == loop = "done" => heap \subseteq canceled

ReturnedMeansQuiet ==
    stopper = "returned" => loop = "done" /\ \A t \in Tasks : ~Active(t)

IInv ==
    /\ TypeOK
    /\ OnePlacePerTask
    /\ KeyedById
    /\ OverIsOver
    /\ LateOnce
    /\ Accounted
    /\ DoneMeansCancelled
    /\ ReturnedMeansQuiet

-----------------------------------------------------------------------------
(* The channel addCh                                                       *)

\* What append does to the set of waiting tasks.
LEMMA Appended ==
    ASSUME TypeOK, NoRepeats, NEW t \in Tasks, t \notin Waiting,
           HasRoom(addCh), addCh' = Append(addCh, t)
    PROVE  /\ Waiting' = Waiting \cup {t}
           /\ NoRepeats'
           /\ addCh' \in Seq(Tasks) /\ Len(addCh') <= Buffer
  <1>1. addCh \in Seq(Tasks) /\ Len(addCh) \in Nat
    BY DEF TypeOK
  <1>2. addCh' \in Seq(Tasks) /\ Len(addCh') = Len(addCh) + 1
    BY <1>1
  <1>3. /\ \A j \in 1..Len(addCh) : addCh'[j] = addCh[j]
        /\ addCh'[Len(addCh) + 1] = t
    BY <1>1
  <1>4. Waiting' = Waiting \cup {t}
    BY <1>1, <1>2, <1>3 DEF Waiting
  <1>5. \A j \in 1..Len(addCh) : addCh[j] # t
    BY DEF Waiting
  <1>6. NoRepeats'
    BY <1>1, <1>2, <1>3, <1>5 DEF NoRepeats
  <1> QED
    BY <1>1, <1>2, <1>4, <1>6, SchedulerAssumption DEF HasRoom

\* What a receive does to it.
LEMMA Received ==
    ASSUME TypeOK, NoRepeats, addCh # <<>>, addCh' = Tail(addCh)
    PROVE  /\ Head(addCh) \in Tasks /\ Head(addCh) \in Waiting
           /\ Waiting' = Waiting \ {Head(addCh)}
           /\ NoRepeats'
           /\ addCh' \in Seq(Tasks) /\ Len(addCh') <= Buffer
  <1>1. addCh \in Seq(Tasks) /\ Len(addCh) \in Nat /\ Len(addCh) >= 1
    BY DEF TypeOK
  <1>2. addCh' \in Seq(Tasks) /\ Len(addCh') = Len(addCh) - 1
    BY <1>1
  <1>3. /\ \A j \in 1..Len(addCh') : addCh'[j] = addCh[j + 1]
        /\ Head(addCh) = addCh[1]
    BY <1>1, <1>2
  <1>4. Head(addCh) \in Tasks /\ Head(addCh) \in Waiting
    BY <1>1, <1>3 DEF Waiting
  <1>5. Waiting' = Waiting \ {Head(addCh)}
    <2>1. ASSUME NEW u \in Waiting' PROVE u \in Waiting \ {Head(addCh)}
      BY <2>1, <1>1, <1>2, <1>3 DEF Waiting, NoRepeats
    <2>2. ASSUME NEW u \in Waiting \ {Head(addCh)} PROVE u \in Waiting'
      <3>1. PICK j \in 1..Len(addCh) : addCh[j] = u
        BY DEF Waiting
      <3>2. j # 1 /\ j - 1 \in 1..Len(addCh')
        BY <3>1, <1>1, <1>2, <1>3
      <3>3. addCh'[j - 1] = u
        BY <3>1, <3>2, <1>3
      <3> QED
        BY <3>2, <3>3 DEF Waiting
    <2> QED
      BY <2>1, <2>2
  <1>6. NoRepeats'
    BY <1>1, <1>2, <1>3 DEF NoRepeats
  <1> QED
    BY <1>1, <1>2, <1>4, <1>5, <1>6, SchedulerAssumption DEF TypeOK

\* An untouched channel keeps its tasks.
LEMMA Untouched ==
    ASSUME NoRepeats, addCh' = addCh
    PROVE  Waiting' = Waiting /\ NoRepeats'
  BY DEF Waiting, NoRepeats

-----------------------------------------------------------------------------
(* The inductive invariant                                                 *)

USE DEF Active

LEMMA InitIInv == Init => IInv
  <1> SUFFICES ASSUME Init PROVE IInv
    OBVIOUS
  <1> USE SchedulerAssumption DEF Init
  <1>1. Waiting = {} /\ NoRepeats
    BY DEF Waiting, NoRepeats
  <1>2. TypeOK
    BY DEF TypeOK
  <1>3. OnePlacePerTask /\ KeyedById
    BY <1>1 DEF OnePlacePerTask, KeyedById
  <1>4. OverIsOver /\ LateOnce /\ Accounted
    BY <1>1 DEF OverIsOver, LateOnce, Accounted
  <1>5. DoneMeansCancelled /\ ReturnedMeansQuiet
    BY DEF DoneMeansCancelled, ReturnedMeansQuiet
  <1> QED
    BY <1>2, <1>3, <1>4, <1>5 DEF IInv

\* Types are kept by every step.
LEMMA StepTypeOK ==
    ASSUME IInv, [Next]_vars
    PROVE  TypeOK'
  <1> USE SchedulerAssumption DEF IInv, TypeOK
  <1> USE DEF control, channels, table, history, vars
  <1>1. CASE Tick
    BY <1>1 DEF Tick
  <1>2. ASSUME NEW t \in Tasks, ScheduleCall(t) PROVE TypeOK'
    BY <1>2 DEF ScheduleCall
  <1>3. ASSUME NEW t \in Tasks, ScheduleSends(t) PROVE TypeOK'
    BY <1>3 DEF ScheduleSends, HasRoom
  <1>4. ASSUME NEW t \in Tasks, ScheduleRefused(t) PROVE TypeOK'
    BY <1>4 DEF ScheduleRefused
  <1>5. ASSUME NEW t \in Tasks, CallCancelFunc(t) PROVE TypeOK'
    BY <1>5 DEF CallCancelFunc
  <1>6. ASSUME NEW i \in Ids, Cancel(i) PROVE TypeOK'
    BY <1>6 DEF Cancel, HasRoom
  <1>7. CASE LoopAdds
    <2>1. Head(addCh) \in Tasks /\ addCh' \in Seq(Tasks) /\ Len(addCh') <= Buffer
      BY <1>7, Received DEF LoopAdds, OnePlacePerTask
    <2>2. byId[Id[Head(addCh)]] \in Tasks \cup {NoTask}
      BY <2>1
    <2> QED
      BY <1>7, <2>1, <2>2 DEF LoopAdds
  <1>8. CASE LoopCancels
    <2>1. Head(cancelCh) \in Ids /\ cancelCh' \in Seq(Ids) /\ Len(cancelCh') <= Buffer
      BY <1>8 DEF LoopCancels
    <2>2. byId[Head(cancelCh)] \in Tasks \cup {NoTask}
      BY <2>1
    <2> QED
      BY <1>8, <2>1, <2>2 DEF LoopCancels
  <1>9. ASSUME NEW t \in Tasks, LoopFires(t) PROVE TypeOK'
    BY <1>9, SMTT(30) DEF LoopFires
  <1>10. CASE LoopStops
    BY <1>10 DEF LoopStops, Mapped
  <1>11. ASSUME NEW t \in Tasks, FnReturns(t) PROVE TypeOK'
    <2>1. CASE Interval[t] > 0 /\ t \notin canceled
      <3>1. next' = [next EXCEPT ![t] = now + Interval[t]] /\ now + Interval[t] \in Nat
        BY <1>11, <2>1 DEF FnReturns
      <3>2. routine' = [routine EXCEPT ![t] = "again"] /\ over' = over
        BY <1>11, <2>1 DEF FnReturns
      <3> QED
        BY <1>11, <3>1, <3>2 DEF FnReturns
    <2>2. CASE ~(Interval[t] > 0 /\ t \notin canceled)
      <3>1. next' = next /\ over' = over \cup {t}
        BY <1>11, <2>2 DEF FnReturns
      <3>2. routine' = [routine EXCEPT ![t] = "off"]
        BY <1>11, <2>2 DEF FnReturns
      <3> QED
        BY <1>11, <3>1, <3>2 DEF FnReturns
    <2> QED
      BY <2>1, <2>2
  <1>12. ASSUME NEW t \in Tasks, FnPanics(t) PROVE TypeOK'
    BY <1>12 DEF FnPanics
  <1>13. ASSUME NEW t \in Tasks, AddsAgain(t) PROVE TypeOK'
    BY <1>13 DEF AddsAgain, HasRoom
  <1>14. ASSUME NEW t \in Tasks, GivesUp(t) PROVE TypeOK'
    BY <1>14 DEF GivesUp
  <1>15. CASE StopCloses
    BY <1>15 DEF StopCloses
  <1>16. CASE StopReturns
    BY <1>16 DEF StopReturns
  <1>17. CASE UNCHANGED vars
    BY <1>17
  <1> QED
    BY <1>1, <1>2, <1>3, <1>4, <1>5, <1>6, <1>7, <1>8, <1>9, <1>10, <1>11, <1>12,
       <1>13, <1>14, <1>15, <1>16, <1>17 DEF Next, LoopStep, Routine

\* The part of the invariant that relates the channel, the heap, the
\* goroutines and the history.
Placement ==
    /\ OnePlacePerTask /\ KeyedById /\ OverIsOver /\ LateOnce
    /\ Accounted /\ DoneMeansCancelled /\ ReturnedMeansQuiet

LEMMA StepPlacement ==
    ASSUME IInv, [Next]_vars
    PROVE  Placement'
  <1> USE SchedulerAssumption DEF IInv, TypeOK, Placement
  <1> USE DEF control, channels, table, history, vars
  <1> USE DEF OnePlacePerTask, KeyedById, OverIsOver, LateOnce, Accounted,
              DoneMeansCancelled, ReturnedMeansQuiet
  <1>1. CASE Tick
    BY <1>1, Untouched DEF Tick
  <1>2. ASSUME NEW t \in Tasks, ScheduleCall(t) PROVE Placement'
    BY <1>2, Untouched DEF ScheduleCall
  <1>3. ASSUME NEW t \in Tasks, ScheduleSends(t) PROVE Placement'
    <2> USE DEF ScheduleSends
    <2>0. t \notin Waiting \cup heap \cup over /\ routine[t] = "off" /\ caller'[t] = "accepted"
      BY <1>3
    <2>1. /\ Waiting' = Waiting \cup {t} /\ NoRepeats' /\ ScheduleSends(t)
          /\ t \notin Waiting \cup heap \cup over /\ routine[t] = "off"
      BY <1>3, <2>0, Appended
    <2>11. OnePlacePerTask'
      BY <2>1
    <2>12. KeyedById'
      BY <2>1
    <2>13. OverIsOver'
      BY <2>1
    <2>14. LateOnce'
      BY <2>1
    <2>15. Accounted'
      BY <2>1
    <2>16. DoneMeansCancelled' /\ ReturnedMeansQuiet'
      BY <2>1
    <2> QED
      BY <2>11, <2>12, <2>13, <2>14, <2>15, <2>16
  <1>4. ASSUME NEW t \in Tasks, ScheduleRefused(t) PROVE Placement'
    BY <1>4, Untouched DEF ScheduleRefused
  <1>5. ASSUME NEW t \in Tasks, CallCancelFunc(t) PROVE Placement'
    BY <1>5, Untouched DEF CallCancelFunc
  <1>6. ASSUME NEW i \in Ids, Cancel(i) PROVE Placement'
    BY <1>6, Untouched DEF Cancel
  <1>7. CASE LoopAdds
    <2> USE DEF LoopAdds
    <2>0. PICK t \in Tasks : t = Head(addCh)
      BY <1>7, Received
    <2>01. PICK old \in SUBSET Tasks : old = {byId[Id[t]]} \ {NoTask}
      <3>1. byId[Id[t]] \in Tasks \cup {NoTask}
        OBVIOUS
      <3>2. {byId[Id[t]]} \ {NoTask} \in SUBSET Tasks
        BY <3>1
      <3> QED
        BY <3>2
    <2>02. /\ heap' = (heap \ old) \cup {t}
           /\ byId' = [byId EXCEPT ![Id[t]] = t]
           /\ canceled' = canceled \cup old /\ over' = over \cup old
           /\ UNCHANGED <<caller, routine, lateRuns, loop, stopper>>
      BY <1>7, <2>0, <2>01
    <2>03. old \subseteq heap /\ \A u \in Tasks : u \in old <=> u \in heap /\ Id[u] = Id[t]
      BY <2>01
    <2>04. /\ Waiting' = Waiting \ {t} /\ NoRepeats' /\ t \in Waiting /\ loop = "select"
      BY <1>7, <2>0, Received
    <2> HIDE DEF LoopAdds
    <2>1. /\ heap' = (heap \ old) \cup {t}
          /\ byId' = [byId EXCEPT ![Id[t]] = t]
          /\ canceled' = canceled \cup old /\ over' = over \cup old
          /\ UNCHANGED <<caller, routine, lateRuns, loop, stopper>>
          /\ old \subseteq heap /\ \A u \in Tasks : u \in old <=> u \in heap /\ Id[u] = Id[t]
          /\ Waiting' = Waiting \ {t} /\ NoRepeats' /\ t \in Waiting /\ loop = "select"
      BY <2>02, <2>03, <2>04
    <2>11. OnePlacePerTask'
      BY <2>1
    <2>12. KeyedById'
      BY <2>1
    <2>13. OverIsOver'
      BY <2>1
    <2>14. LateOnce'
      BY <2>1
    <2>15. Accounted'
      BY <2>1
    <2>16. DoneMeansCancelled' /\ ReturnedMeansQuiet'
      BY <2>1
    <2> QED
      BY <2>11, <2>12, <2>13, <2>14, <2>15, <2>16
  <1>8. CASE LoopCancels
    BY <1>8, Untouched, SMTT(30) DEF LoopCancels
  <1>9. ASSUME NEW t \in Tasks, LoopFires(t) PROVE Placement'
    <2>0. t \in heap /\ addCh' = addCh /\ loop = "select"
      BY <1>9 DEF LoopFires, IsTop
    <2>01. t \notin Waiting \cup over /\ routine[t] = "off" /\ lateRuns[t] = 0 /\ caller[t] = "accepted"
      BY <2>0
    <2>02. \A u \in Tasks : u # t => lateRuns'[u] = lateRuns[u]
      BY <1>9 DEF LoopFires
    <2>03. lateRuns'[t] # 0 => lateRuns'[t] = 1 /\ t \in canceled
      BY <1>9, <2>01 DEF LoopFires
    <2>1. /\ heap' = heap \ {t} /\ byId' = [byId EXCEPT ![Id[t]] = NoTask]
          /\ routine' = [routine EXCEPT ![t] = "running"]
          /\ UNCHANGED <<caller, canceled, over, loop, stopper>>
          /\ Waiting' = Waiting /\ NoRepeats' /\ loop = "select"
          /\ t \in heap /\ t \notin Waiting \cup over /\ caller[t] = "accepted"
          /\ \A u \in Tasks : u # t => lateRuns'[u] = lateRuns[u]
          /\ lateRuns'[t] # 0 => lateRuns'[t] = 1 /\ t \in canceled
      BY <1>9, <2>0, <2>01, <2>02, <2>03, Untouched DEF LoopFires
    <2>11. OnePlacePerTask'
      BY <2>1
    <2>12. KeyedById'
      BY <2>1
    <2>13. OverIsOver'
      BY <2>1
    <2>14. LateOnce'
      BY <2>1
    <2>15. Accounted'
      BY <2>1
    <2>16. DoneMeansCancelled' /\ ReturnedMeansQuiet'
      BY <2>1
    <2> QED
      BY <2>11, <2>12, <2>13, <2>14, <2>15, <2>16
  <1>10. CASE LoopStops
    BY <1>10, Untouched DEF LoopStops, Mapped
  <1>11. ASSUME NEW t \in Tasks, FnReturns(t) PROVE Placement'
    BY <1>11, Untouched DEF FnReturns
  <1>12. ASSUME NEW t \in Tasks, FnPanics(t) PROVE Placement'
    BY <1>12, Untouched DEF FnPanics
  <1>13. ASSUME NEW t \in Tasks, AddsAgain(t) PROVE Placement'
    BY <1>13, Appended, SMTT(30) DEF AddsAgain
  <1>14. ASSUME NEW t \in Tasks, GivesUp(t) PROVE Placement'
    BY <1>14, Untouched DEF GivesUp
  <1>15. CASE StopCloses
    BY <1>15, Untouched DEF StopCloses
  <1>16. CASE StopReturns
    BY <1>16, Untouched DEF StopReturns
  <1>17. CASE UNCHANGED vars
    BY <1>17, Untouched
  <1> QED
    BY <1>1, <1>2, <1>3, <1>4, <1>5, <1>6, <1>7, <1>8, <1>9, <1>10, <1>11, <1>12,
       <1>13, <1>14, <1>15, <1>16, <1>17 DEF Next, LoopStep, Routine

LEMMA Invariance == Spec => []IInv
  <1>1. IInv /\ [Next]_vars => IInv'
    BY StepTypeOK, StepPlacement DEF IInv, Placement
  <1> QED
    BY InitIInv, <1>1, PTL DEF Spec

-----------------------------------------------------------------------------
(* Theorems                                                                *)

\* The state of the scheduler keeps its types in every behaviour, however
\* callers, the loop, the runs and Stop interleave.
THEOREM TypeCorrect == Spec => []TypeOK
  BY Invariance, PTL DEF IInv

\* No task object is ever in two of addCh, heap and a goroutine, and heap and
\* map agree, although runs add themselves again and ids are taken over.
THEOREM OnePlace == Spec => []OnePlacePerTask
  BY Invariance, PTL DEF IInv

\* What the loop takes out to cancel it stays out, and a cancel function lets
\* at most one more run begin.
THEOREM CancellationHolds == Spec => []CancelIsHeeded
  <1>1. IInv => CancelIsHeeded
    <2>1. IInv => \A t \in Tasks : lateRuns[t] <= 1
      <3> SUFFICES ASSUME IInv, NEW t \in Tasks PROVE lateRuns[t] <= 1
        OBVIOUS
      <3>1. lateRuns[t] = 0 \/ lateRuns[t] = 1
        BY DEF IInv, LateOnce
      <3> QED
        BY <3>1
    <2> QED
      BY <2>1 DEF IInv, OverIsOver, CancelIsHeeded
  <1> QED
    BY Invariance, <1>1, PTL

\* Nothing runs after Stop, and only what the loop never received is left
\* with an open context.
THEOREM StopSettles == Spec => []StopSettlesTasks
  <1>1. IInv => StopSettlesTasks
    BY DEF IInv, Accounted, DoneMeansCancelled, ReturnedMeansQuiet, StopSettlesTasks
  <1> QED
    BY Invariance, <1>1, PTL

\* Places, cancellations and Stop fit together, for any number of tasks and ids.
THEOREM SafeHolds == Spec => []Safe
<1>1. TypeOK /\ OnePlacePerTask /\ CancelIsHeeded /\ StopSettlesTasks => Safe
  BY DEF Safe
<1> QED BY <1>1, TypeCorrect, OnePlace, CancellationHolds, StopSettles, PTL
=============================================================================
