------------------------- MODULE ConsistencyProofs --------------------------
(***************************************************************************)
(* Proofs about the two patterns that keep data consistent across          *)
(* services: the Outbox for any writes, any number of overlapping polls    *)
(* and any batch size, its safety and that it implements EventDelivery;    *)
(* and the Saga for any number of steps and any number of retries.         *)
(***************************************************************************)
EXTENDS Outbox, Saga, FiniteSetTheorems, TLAPS

\* A poll works on recorded events and counts as published what was accepted.
PollsHonest ==
    \A p \in Polls : poll[p].todo \subseteq inserted /\ poll[p].ok \subseteq accepted

\* Only recorded events are accepted, and only accepted ones have an effect.
NothingInvented ==
    /\ accepted \subseteq inserted
    /\ \A e \in Events : effects[e] > 0 => e \in accepted

\* The rows of a write are inserted after its business function resolved.
InsertedAfterBusiness ==
    \A w \in Writes : \A e \in Batch[w] \cap inserted : phase[w] \in {"insert", "done", "partial"}

IInv ==
    /\ TypeOK /\ PollsHonest /\ PublishedWasAccepted /\ NoEventLost
    /\ NothingInvented /\ InsertedAfterBusiness

\* Nothing is written, published or consumed yet.
LEMMA InitIInv == Init => IInv
<1> SUFFICES ASSUME Init PROVE IInv
  OBVIOUS
<1>1. TypeOK
  <2>1. IdlePoll \in PollStates
    BY DEF IdlePoll, PollStates
  <2>2. [createdAt |-> 0, pos |-> 0, publishedAt |-> Null, retryCount |-> 0] \in Rows
    BY DEF Rows, Null
  <2>3. row \in [Events -> Rows] /\ poll \in [Polls -> PollStates] /\ effects \in [Events -> 0..1]
    BY <2>1, <2>2 DEF Init
  <2> QED BY <2>3 DEF Init, TypeOK, WritePhases
<1>2. PollsHonest
  BY DEF Init, PollsHonest, IdlePoll
<1>3. PublishedWasAccepted
  BY DEF Init, PublishedWasAccepted, Null
<1> QED BY <1>1, <1>2, <1>3 DEF Init, IInv, NoEventLost, NothingInvented, InsertedAfterBusiness
-----------------------------------------------------------------------------
(* What the helpers of the actions return.                                 *)

\* slice of a sorted filter: some of the stored rows.
LEMMA FindUnpublishedStored == FindUnpublished \subseteq stored
BY DEF FindUnpublished, Earliest

\* The next state of a poll that moves on.
LEMMA MoveOnFacts ==
    ASSUME TypeOK, NEW p \in Polls, NEW e \in Events, NEW ok \in SUBSET Events, MoveOn(p, e, ok)
    PROVE  /\ poll' \in [Polls -> PollStates]
           /\ poll'[p].todo \subseteq poll[p].todo /\ poll'[p].ok = ok
           /\ \A q \in Polls : q # p => poll'[q] = poll[q]
<1>1. poll[p].todo \subseteq Events
  BY DEF TypeOK, PollStates
<1>2. [pc |-> "loop", todo |-> poll[p].todo \ {e}, ok |-> ok] \in PollStates
  BY <1>1 DEF PollStates
<1> QED BY <1>2 DEF MoveOn, TypeOK

\* The events a write touches are in no other write.
LEMMA BatchFacts == \A w \in Writes : Batch[w] \subseteq Events
BY OutboxAssumption DEF OutboxAssumption
-----------------------------------------------------------------------------
\* BeginWrite, BusinessDone and WriteRejects touch no record of the table.
LEMMA WriteKeeps ==
    ASSUME IInv, NEW w \in Writes, BeginWrite(w) \/ BusinessDone(w) \/ WriteRejects(w)
    PROVE  IInv'
<1>1. UNCHANGED <<now, inserted, stored, workerVars, poll, queueVars>>
  BY DEF BeginWrite, BusinessDone, WriteRejects
<1>2. /\ row' \in [Events -> Rows]
      /\ \A e \in Events : row'[e].publishedAt = row[e].publishedAt
  <2>1. CASE BeginWrite(w)
    <3>1. \A e \in Events : [row[e] EXCEPT !.createdAt = now] \in Rows
      BY DEF IInv, TypeOK, Rows
    <3>2. \A e \in Events : [row[e] EXCEPT !.createdAt = now].publishedAt = row[e].publishedAt
      BY DEF IInv, TypeOK, Rows
    <3> QED BY <2>1, <3>1, <3>2 DEF BeginWrite, IInv, TypeOK
  <2>2. CASE BusinessDone(w) \/ WriteRejects(w)
    BY <2>2 DEF BusinessDone, WriteRejects, IInv, TypeOK
  <2> QED BY <2>1, <2>2
<1>3. /\ phase' \in [Writes -> WritePhases]
      /\ \A v \in Writes : phase[v] \in {"insert", "done", "partial"} =>
            phase'[v] \in {"insert", "done", "partial"}
  BY DEF BeginWrite, BusinessDone, WriteRejects, IInv, TypeOK, WritePhases
<1>4. TypeOK'
  BY <1>1, <1>2, <1>3 DEF IInv, TypeOK, workerVars, queueVars
<1>5. PollsHonest' /\ NoEventLost' /\ NothingInvented'
  BY <1>1 DEF IInv, PollsHonest, NoEventLost, NothingInvented, queueVars
<1>6. PublishedWasAccepted'
  BY <1>1, <1>2 DEF IInv, PublishedWasAccepted, queueVars, Null
<1>7. InsertedAfterBusiness'
  BY <1>1, <1>3 DEF IInv, InsertedAfterBusiness
<1> QED BY <1>4, <1>5, <1>6, <1>7 DEF IInv

\* A row is inserted by a write whose business function has resolved.
LEMMA InsertKeeps == ASSUME IInv, NEW w \in Writes, Insert(w) PROVE IInv'
<1>1. PICK e \in Batch[w] \ inserted :
          /\ phase[w] = "insert"
          /\ inserted' = inserted \cup {e} /\ stored' = stored \cup {e}
          /\ row' = [row EXCEPT ![e].pos = Cardinality(inserted)]
          /\ phase' = IF Batch[w] \subseteq inserted' THEN [phase EXCEPT ![w] = "done"] ELSE phase
          /\ UNCHANGED <<now, workerVars, poll, queueVars>>
  BY DEF Insert
<1>2. e \in Events /\ \A v \in Writes : e \in Batch[v] => v = w
  BY OutboxAssumption DEF OutboxAssumption
<1>3. Cardinality(inserted) \in Nat
  BY OutboxAssumption, FS_Subset, FS_CardinalityType DEF OutboxAssumption, IInv, TypeOK
<1>4. row' \in [Events -> Rows] /\ \A f \in Events : row'[f].publishedAt = row[f].publishedAt
  BY <1>1, <1>2, <1>3 DEF IInv, TypeOK, Rows
<1>5. /\ phase' \in [Writes -> WritePhases] /\ phase'[w] \in {"insert", "done"}
      /\ \A v \in Writes : v # w => phase'[v] = phase[v]
  BY <1>1 DEF IInv, TypeOK, WritePhases
<1>6. TypeOK'
  BY <1>1, <1>2, <1>4, <1>5 DEF IInv, TypeOK, workerVars, queueVars
<1>7. PollsHonest' /\ NoEventLost' /\ NothingInvented'
  BY <1>1 DEF IInv, PollsHonest, NoEventLost, NothingInvented, queueVars
<1>8. PublishedWasAccepted'
  BY <1>1, <1>4 DEF IInv, PublishedWasAccepted, queueVars, Null
<1>9. InsertedAfterBusiness'
  BY <1>1, <1>2, <1>5 DEF IInv, InsertedAfterBusiness
<1> QED BY <1>6, <1>7, <1>8, <1>9 DEF IInv

\* What a poll reads is in the table; dead letters and publishing records only
\* move it on.
LEMMA PollReadKeeps ==
    ASSUME IInv, NEW p \in Polls, StartPoll(p) \/ SkipDeadLetter(p) \/ BeginPublish(p)
    PROVE  IInv'
<1>1. UNCHANGED <<now, writeVars, row, stored, workerVars, queueVars>>
  BY DEF StartPoll, SkipDeadLetter, BeginPublish
<1>2. /\ poll' \in [Polls -> PollStates]
      /\ poll'[p].todo \subseteq inserted /\ poll'[p].ok \subseteq accepted
      /\ \A q \in Polls : q # p => poll'[q] = poll[q]
  <2>1. CASE StartPoll(p)
    <3>1. FindUnpublished \subseteq inserted
      BY FindUnpublishedStored DEF IInv, TypeOK
    <3>2. [pc |-> "loop", todo |-> FindUnpublished, ok |-> {}] \in PollStates
      BY <3>1 DEF PollStates, IInv, TypeOK
    <3> QED BY <2>1, <3>1, <3>2 DEF StartPoll, IInv, TypeOK
  <2>2. CASE SkipDeadLetter(p)
    <3>1. PICK e \in Events : MoveOn(p, e, poll[p].ok)
      BY <2>2 DEF SkipDeadLetter
    <3>2. poll[p].ok \in SUBSET Events
      BY DEF IInv, TypeOK, PollStates
    <3>3. poll'[p].ok = poll[p].ok /\ poll'[p].todo \subseteq poll[p].todo
      BY <3>1, <3>2, MoveOnFacts DEF IInv
    <3>4. poll' \in [Polls -> PollStates] /\ \A q \in Polls : q # p => poll'[q] = poll[q]
      BY <3>1, <3>2, MoveOnFacts DEF IInv
    <3> QED BY <3>3, <3>4 DEF IInv, PollsHonest
  <2>3. CASE BeginPublish(p)
    <3>1. poll' = [poll EXCEPT ![p].pc = "publish"]
      BY <2>3 DEF BeginPublish
    <3>2. poll'[p].todo = poll[p].todo /\ poll'[p].ok = poll[p].ok
      BY <3>1 DEF IInv, TypeOK, PollStates
    <3>3. poll' \in [Polls -> PollStates] /\ \A q \in Polls : q # p => poll'[q] = poll[q]
      BY <3>1 DEF IInv, TypeOK, PollStates
    <3> QED BY <3>2, <3>3 DEF IInv, PollsHonest
  <2> QED BY <2>1, <2>2, <2>3
<1>3. TypeOK' /\ NoEventLost' /\ NothingInvented'
  BY <1>1, <1>2 DEF IInv, TypeOK, NoEventLost, NothingInvented, writeVars, workerVars, queueVars
<1>4. PollsHonest'
  BY <1>1, <1>2 DEF IInv, PollsHonest, writeVars, queueVars
<1>5. PublishedWasAccepted' /\ InsertedAfterBusiness'
  BY <1>1 DEF IInv, PublishedWasAccepted, InsertedAfterBusiness, writeVars, queueVars, Null
<1> QED BY <1>3, <1>4, <1>5 DEF IInv

\* An event that is being published is accepted, or not, and counted as
\* published only if it was.
LEMMA PublishKeeps ==
    ASSUME IInv, NEW p \in Polls, PublishResolves(p) \/ PublishRejects(p)
    PROVE  IInv'
<1>1. PICK e \in Events, ok \in SUBSET Events :
          /\ e \in poll[p].todo
          /\ MoveOn(p, e, ok)
          /\ accepted' = accepted \cup {e} \/ accepted' = accepted
          /\ ok \subseteq accepted'
          /\ \/ row' = row
             \/ row' = [row EXCEPT ![e].retryCount = @ + 1]
  <2>1. poll[p].ok \in SUBSET Events /\ poll[p].ok \subseteq accepted
    BY DEF IInv, TypeOK, PollStates, PollsHonest
  <2>2. CASE PublishResolves(p)
    <3>1. PICK e \in Events : /\ IsCurrent(p, e) /\ MoveOn(p, e, poll[p].ok \cup {e})
                              /\ accepted' = accepted \cup {e} /\ row' = row
      BY <2>2 DEF PublishResolves
    <3>2. poll[p].ok \cup {e} \in SUBSET Events /\ poll[p].ok \cup {e} \subseteq accepted'
      BY <2>1, <3>1
    <3> QED BY <3>1, <3>2 DEF IsCurrent
  <2>3. CASE PublishRejects(p)
    <3>1. PICK e \in Events, taken \in BOOLEAN :
              /\ IsCurrent(p, e) /\ MoveOn(p, e, poll[p].ok)
              /\ row' = IF e \in stored THEN [row EXCEPT ![e].retryCount = @ + 1] ELSE row
              /\ accepted' = IF taken THEN accepted \cup {e} ELSE accepted
      BY <2>3 DEF PublishRejects
    <3> QED BY <2>1, <3>1 DEF IsCurrent
  <2> QED BY <2>2, <2>3
<1>2. UNCHANGED <<now, writeVars, stored, workerVars, effects>>
  BY DEF PublishResolves, PublishRejects
<1>3. /\ poll' \in [Polls -> PollStates]
      /\ poll'[p].todo \subseteq poll[p].todo /\ poll'[p].ok = ok
      /\ \A q \in Polls : q # p => poll'[q] = poll[q]
  BY <1>1, MoveOnFacts DEF IInv
<1>4. e \in inserted /\ accepted \subseteq accepted'
  BY <1>1 DEF IInv, PollsHonest
<1>5. /\ row' \in [Events -> Rows]
      /\ \A f \in Events : row'[f].publishedAt = row[f].publishedAt
  BY <1>1 DEF IInv, TypeOK, Rows
<1>6. TypeOK'
  BY <1>1, <1>2, <1>3, <1>5 DEF IInv, TypeOK, writeVars, workerVars
<1>7. PollsHonest'
  BY <1>1, <1>2, <1>3, <1>4 DEF IInv, PollsHonest, writeVars
<1>8. NoEventLost' /\ NothingInvented'
  BY <1>1, <1>2, <1>4 DEF IInv, NoEventLost, NothingInvented, writeVars
<1>9. PublishedWasAccepted'
  BY <1>4, <1>5 DEF IInv, PublishedWasAccepted, Null
<1>10. InsertedAfterBusiness'
  BY <1>2 DEF IInv, InsertedAfterBusiness, writeVars
<1> QED BY <1>6, <1>7, <1>8, <1>9, <1>10 DEF IInv

\* markPublished marks what the queue accepted.
LEMMA FinishKeeps == ASSUME IInv, NEW p \in Polls, FinishPoll(p) PROVE IInv'
<1>1. UNCHANGED <<now, writeVars, stored, workerVars, queueVars>>
  BY DEF FinishPoll
<1>2. /\ row' \in [Events -> Rows]
      /\ \A e \in Events : row'[e].publishedAt = row[e].publishedAt \/ e \in accepted
  <2>1. \A e \in Events : [row[e] EXCEPT !.publishedAt = now] \in Rows
    BY DEF IInv, TypeOK, Rows
  <2>2. poll[p].ok \subseteq accepted
    BY DEF IInv, PollsHonest
  <2> QED BY <2>1, <2>2 DEF FinishPoll, IInv, TypeOK
<1>3. IdlePoll \in PollStates /\ IdlePoll.todo = {} /\ IdlePoll.ok = {}
  BY DEF IdlePoll, PollStates
<1>4. poll' = [poll EXCEPT ![p] = IdlePoll]
  BY DEF FinishPoll
<1>5. TypeOK'
  BY <1>1, <1>2, <1>3, <1>4 DEF IInv, TypeOK, writeVars, workerVars, queueVars
<1>6. PollsHonest'
  BY <1>1, <1>3, <1>4 DEF IInv, TypeOK, PollsHonest, writeVars, queueVars
<1>7. PublishedWasAccepted'
  BY <1>1, <1>2 DEF IInv, PublishedWasAccepted, queueVars, Null
<1>8. NoEventLost' /\ NothingInvented' /\ InsertedAfterBusiness'
  BY <1>1 DEF IInv, NoEventLost, NothingInvented, InsertedAfterBusiness, writeVars, queueVars
<1> QED BY <1>5, <1>6, <1>7, <1>8 DEF IInv

\* Starting, stopping and losing the worker leave the table and the queue alone.
LEMMA WorkerKeeps == ASSUME IInv, Start \/ Stop \/ Crash PROVE IInv'
<1>1. UNCHANGED <<now, writeVars, row, stored, queueVars>>
  BY DEF Start, Stop, Crash
<1>2. running' \in BOOLEAN /\ crashes' \in Nat
  <2>1. crashes' = crashes \/ crashes' = crashes + 1
    BY DEF Start, Stop, Crash
  <2>2. running' \in BOOLEAN
    BY DEF Start, Stop, Crash
  <2> QED BY <2>1, <2>2 DEF IInv, TypeOK
<1>3. poll' = poll \/ poll' = [q \in Polls |-> IdlePoll]
  BY DEF Start, Stop, Crash
<1>4. IdlePoll \in PollStates /\ IdlePoll.todo = {} /\ IdlePoll.ok = {}
  BY DEF IdlePoll, PollStates
<1>5. TypeOK'
  BY <1>1, <1>2, <1>3, <1>4 DEF IInv, TypeOK, writeVars, queueVars
<1>6. PollsHonest'
  BY <1>1, <1>3, <1>4 DEF IInv, PollsHonest, writeVars, queueVars
<1>7. PublishedWasAccepted' /\ NoEventLost' /\ NothingInvented' /\ InsertedAfterBusiness'
  BY <1>1 DEF IInv, PublishedWasAccepted, NoEventLost, NothingInvented, InsertedAfterBusiness,
              writeVars, queueVars, Null
<1> QED BY <1>5, <1>6, <1>7 DEF IInv

\* Cleanup removes rows that were published, and so accepted.
LEMMA CleanupKeeps == ASSUME IInv, Cleanup PROVE IInv'
<1>1. UNCHANGED <<now, writeVars, row, workerVars, poll, queueVars>> /\ stored' = stored \ Expired
  BY DEF Cleanup
<1>2. Expired \subseteq accepted
  BY DEF Expired, IInv, TypeOK, PublishedWasAccepted
<1>3. TypeOK' /\ NoEventLost'
  BY <1>1, <1>2 DEF IInv, TypeOK, NoEventLost, writeVars, workerVars, queueVars
<1>4. PollsHonest' /\ PublishedWasAccepted' /\ NothingInvented' /\ InsertedAfterBusiness'
  BY <1>1 DEF IInv, PollsHonest, PublishedWasAccepted, NothingInvented, InsertedAfterBusiness,
              writeVars, queueVars, Null
<1> QED BY <1>3, <1>4 DEF IInv

\* A delivery takes effect at most once.
LEMMA ConsumeKeeps == ASSUME IInv, NEW e \in Events, Consume(e) PROVE IInv'
<1>1. UNCHANGED <<now, writeVars, row, stored, workerVars, poll, accepted>> /\ e \in accepted
  BY DEF Consume
<1>2. /\ effects' \in [Events -> 0..1]
      /\ \A f \in Events : f # e => effects'[f] = effects[f]
  BY DEF Consume, IInv, TypeOK
<1>3. TypeOK' /\ NothingInvented'
  BY <1>1, <1>2 DEF IInv, TypeOK, NothingInvented, writeVars, workerVars
<1>4. PollsHonest' /\ PublishedWasAccepted' /\ NoEventLost' /\ InsertedAfterBusiness'
  BY <1>1 DEF IInv, PollsHonest, PublishedWasAccepted, NoEventLost, InsertedAfterBusiness,
              writeVars, Null
<1> QED BY <1>3, <1>4 DEF IInv

\* Neither time nor stuttering touches anything the invariant speaks of.
LEMMA ClockKeeps == ASSUME IInv, Tick \/ UNCHANGED vars PROVE IInv'
<1>1. UNCHANGED <<writeVars, row, stored, workerVars, poll, queueVars>> /\ now' \in Nat
  BY DEF Tick, vars, writeVars, workerVars, queueVars, IInv, TypeOK
<1> QED BY <1>1 DEF IInv, TypeOK, PollsHonest, PublishedWasAccepted, NoEventLost, NothingInvented,
                    InsertedAfterBusiness, writeVars, workerVars, queueVars, Null

\* The invariant is inductive.
LEMMA NextIInv == IInv /\ [Next]_vars => IInv'
BY WriteKeeps, InsertKeeps, PollReadKeeps, PublishKeeps, FinishKeeps, WorkerKeeps, CleanupKeeps,
   ConsumeKeeps, ClockKeeps DEF Next, PollStep
-----------------------------------------------------------------------------
\* IInv holds in every reachable state.
THEOREM Invariance == Spec => []IInv
BY InitIInv, NextIInv, PTL DEF Spec

\* The types hold in every reachable state.
THEOREM TypeCorrect == Spec => []TypeOK
<1>1. IInv => TypeOK
  BY DEF IInv
<1> QED BY <1>1, Invariance, PTL

\* A row marked published has reached the queue, with any number of polls.
THEOREM PublishedReachedQueue == Spec => []PublishedWasAccepted
<1>1. IInv => PublishedWasAccepted
  BY DEF IInv
<1> QED BY <1>1, Invariance, PTL

\* No crash, retry, dead letter or cleanup loses a recorded event.
THEOREM NothingIsLost == Spec => []NoEventLost
<1>1. IInv => NoEventLost
  BY DEF IInv
<1> QED BY <1>1, Invariance, PTL

\* The consumer acts only on events whose business function succeeded.
THEOREM NothingIsInvented == Spec => []NoPhantomEvent
<1>1. IInv => NoPhantomEvent
  <2> SUFFICES ASSUME IInv, NEW w \in Writes, NEW e \in Events, e \in Batch[w], effects[e] > 0
               PROVE  phase[w] \in {"insert", "done", "partial"}
    BY DEF NoPhantomEvent
  <2>1. e \in inserted
    BY DEF IInv, NothingInvented
  <2> QED BY <2>1 DEF IInv, InsertedAfterBusiness
<1> QED BY <1>1, Invariance, PTL

\* The outbox implements EventDelivery: an insert records, an accepted publish
\* sends, the first delivery takes effect, cleanup purges; all else stutters.
THEOREM Refinement == Spec => ImplementsDelivery
<1>1. Init => Delivery!Init
  BY DEF Init, Delivery!Init
<1>2. IInv /\ [Next]_vars => [Delivery!Next]_Delivery!vars
  <2> SUFFICES ASSUME IInv, [Next]_vars PROVE [Delivery!Next]_Delivery!vars
    OBVIOUS
  <2> DEFINE Stutter == UNCHANGED <<stored, inserted, accepted, effects>>
  <2>1. ASSUME NEW w \in Writes, Insert(w) PROVE Delivery!Next
    <3>1. PICK e \in Batch[w] \ inserted :
              /\ inserted' = inserted \cup {e} /\ stored' = stored \cup {e}
              /\ accepted' = accepted /\ effects' = effects
      BY <2>1 DEF Insert, queueVars
    <3>2. e \in Events /\ Delivery!Record(e)
      BY <3>1, BatchFacts DEF Delivery!Record
    <3> QED BY <3>2 DEF Delivery!Next
  <2>2. ASSUME NEW p \in Polls, PublishResolves(p) \/ PublishRejects(p)
        PROVE  Delivery!Next \/ Stutter
    <3>1. PICK e \in Events : /\ IsCurrent(p, e)
                              /\ accepted' = accepted \cup {e} \/ accepted' = accepted
      BY <2>2 DEF PublishResolves, PublishRejects
    <3>2. UNCHANGED <<stored, inserted, effects>> /\ e \in inserted
      BY <2>2, <3>1 DEF PublishResolves, PublishRejects, IsCurrent, IInv, PollsHonest, writeVars
    <3>3. CASE accepted' = accepted \cup {e}
      BY <3>2, <3>3 DEF Delivery!Next, Delivery!Send
    <3>4. CASE accepted' = accepted
      BY <3>2, <3>4
    <3> QED BY <3>1, <3>3, <3>4
  <2>3. ASSUME NEW e \in Events, Consume(e) PROVE Delivery!Next \/ Stutter
    <3>1. UNCHANGED <<stored, inserted, accepted>> /\ e \in accepted
      BY <2>3 DEF Consume, writeVars
    <3>2. CASE effects[e] = 0
      <4>1. effects' = [effects EXCEPT ![e] = 1]
        BY <2>3, <3>2 DEF Consume, IInv, TypeOK
      <4> QED BY <3>1, <3>2, <4>1 DEF Delivery!Next, Delivery!TakeEffect
    <3>3. CASE effects[e] # 0
      <4>1. effects' = effects
        BY <2>3, <3>3 DEF Consume, IInv, TypeOK
      <4> QED BY <3>1, <4>1
    <3> QED BY <3>2, <3>3
  <2>4. CASE Cleanup
    <3>1. Expired \subseteq stored /\ Expired \subseteq accepted
      BY DEF Expired, IInv, TypeOK, PublishedWasAccepted
    <3>2. stored' = stored \ Expired /\ UNCHANGED <<inserted, accepted, effects>>
      BY <2>4 DEF Cleanup, writeVars, queueVars
    <3>3. Delivery!Purge(Expired)
      BY <3>1, <3>2 DEF Delivery!Purge
    <3> QED BY <3>1, <3>3 DEF Delivery!Next
  <2>5. ASSUME Tick \/ Start \/ Stop \/ Crash \/ UNCHANGED vars PROVE Stutter
    BY <2>5 DEF Tick, Start, Stop, Crash, vars, writeVars, queueVars
  <2>6. ASSUME NEW w \in Writes, BeginWrite(w) \/ BusinessDone(w) \/ WriteRejects(w) PROVE Stutter
    BY <2>6 DEF BeginWrite, BusinessDone, WriteRejects, queueVars
  <2>7. ASSUME NEW p \in Polls, StartPoll(p) \/ SkipDeadLetter(p) \/ BeginPublish(p) \/ FinishPoll(p)
        PROVE  Stutter
    BY <2>7 DEF StartPoll, SkipDeadLetter, BeginPublish, FinishPoll, writeVars, queueVars
  <2>8. Stutter => UNCHANGED Delivery!vars
    BY DEF Delivery!vars
  <2> QED BY <2>1, <2>2, <2>3, <2>4, <2>5, <2>6, <2>7, <2>8 DEF Next, PollStep
<1> QED BY <1>1, <1>2, Invariance, PTL DEF Spec, ImplementsDelivery, Delivery!Spec

\* The table and the queue agree on every event in every state, for any number of events, polls,
\* retries and crashes.
THEOREM SafeHolds == Spec => []Safe
<1>1. TypeOK /\ PublishedWasAccepted /\ NoEventLost /\ NoPhantomEvent => Safe
  BY DEF Safe
<1> QED BY <1>1, TypeCorrect, PublishedReachedQueue, NothingIsLost, NothingIsInvented, PTL
-----------------------------------------------------------------------------
(* The retry budget: a publish in flight has passed the retry check, so it *)
(* is counted before it fails.                                             *)

Publishing(e) == {p \in Polls : poll[p].pc = "publish" /\ IsCurrent(p, e)}

CountedTries ==
    \A e \in Events : row[e].retryCount + Cardinality(Publishing(e)) < MaxRetries + Cardinality(Polls)

BInv == IInv /\ CountedTries

\* The polls that publish an event are some of the polls.
LEMMA PublishingFacts ==
    ASSUME NEW e
    PROVE  /\ IsFiniteSet(Publishing(e)) /\ IsFiniteSet(Polls) /\ Publishing(e) \subseteq Polls
           /\ Cardinality(Publishing(e)) \in Nat /\ Cardinality(Polls) \in Nat
           /\ Cardinality(Publishing(e)) <= Cardinality(Polls)
<1>1. Publishing(e) \in SUBSET Polls /\ IsFiniteSet(Polls)
  BY OutboxAssumption DEF OutboxAssumption, Publishing
<1> QED BY <1>1, FS_Subset, FS_CardinalityType

\* One event at a time is current in a poll.
LEMMA OneCurrent ==
    ASSUME TypeOK, NEW p \in Polls, NEW e \in Events, NEW f \in Events,
           IsCurrent(p, e), IsCurrent(p, f)
    PROVE  e = f
<1> SUFFICES ASSUME e # f PROVE FALSE
  OBVIOUS
<1>1. Before(e, f) /\ Before(f, e)
  BY DEF IsCurrent
<1>2. row[e] \in Rows /\ row[f] \in Rows
  BY DEF TypeOK
<1> QED BY <1>1, <1>2 DEF Before, Rows

\* The rows a poll works on keep their place in the order in every step.
LEMMA OrderKept ==
    ASSUME IInv, [Next]_vars
    PROVE  \A e, f \in inserted : Before(e, f)' <=> Before(e, f)
<1> SUFFICES ASSUME NEW e \in inserted PROVE row'[e].createdAt = row[e].createdAt /\ row'[e].pos = row[e].pos
  BY DEF Before
<1>1. e \in Events /\ row \in [Events -> Rows]
  BY DEF IInv, TypeOK
<1>2. ASSUME NEW w \in Writes, BeginWrite(w) PROVE row'[e] = row[e]
  BY <1>1, <1>2 DEF BeginWrite, IInv, InsertedAfterBusiness
<1>3. ASSUME NEW w \in Writes, Insert(w) PROVE row'[e] = row[e]
  BY <1>1, <1>3 DEF Insert
<1>4. ASSUME NEW w \in Writes, BusinessDone(w) \/ WriteRejects(w) PROVE row' = row
  BY <1>4 DEF BusinessDone, WriteRejects
<1>5. ASSUME NEW p \in Polls, StartPoll(p) \/ SkipDeadLetter(p) \/ BeginPublish(p) \/ PublishResolves(p)
      PROVE  row' = row
  BY <1>5 DEF StartPoll, SkipDeadLetter, BeginPublish, PublishResolves
<1>6. ASSUME NEW p \in Polls, PublishRejects(p)
      PROVE  row'[e].createdAt = row[e].createdAt /\ row'[e].pos = row[e].pos
  <2>1. PICK f \in Events : row' = IF f \in stored THEN [row EXCEPT ![f].retryCount = @ + 1] ELSE row
    BY <1>6 DEF PublishRejects
  <2> QED BY <1>1, <2>1 DEF Rows
<1>7. ASSUME NEW p \in Polls, FinishPoll(p)
      PROVE  row'[e].createdAt = row[e].createdAt /\ row'[e].pos = row[e].pos
  BY <1>1, <1>7 DEF FinishPoll, Rows
<1>8. ASSUME Tick \/ Start \/ Stop \/ Crash \/ Cleanup \/ (\E f \in Events : Consume(f)) \/ UNCHANGED vars
      PROVE  row' = row
  BY <1>8 DEF Tick, Start, Stop, Crash, Cleanup, Consume, vars
<1> QED BY <1>2, <1>3, <1>4, <1>5, <1>6, <1>7, <1>8 DEF Next, PollStep

\* A poll whose records stay the same has the same current record.
LEMMA CurrentKept ==
    ASSUME IInv, [Next]_vars, NEW p \in Polls, poll'[p].todo = poll[p].todo, NEW e
    PROVE  IsCurrent(p, e)' <=> IsCurrent(p, e)
BY OrderKept DEF IsCurrent, IInv, PollsHonest

\* Every step other than a publish that begins or fails keeps the counts.
LEMMA BudgetKept ==
    ASSUME BInv, [Next]_vars, NEW e \in Events, row'[e].retryCount = row[e].retryCount,
           \A p \in Polls : poll'[p].pc = "publish" =>
                poll[p].pc = "publish" /\ poll'[p].todo = poll[p].todo
    PROVE  row'[e].retryCount + Cardinality(Publishing(e)') < MaxRetries + Cardinality(Polls)
<1>1. Publishing(e)' \in SUBSET Publishing(e)
  BY CurrentKept DEF Publishing, BInv
<1>2. IsFiniteSet(Publishing(e)) /\ Cardinality(Publishing(e)) \in Nat
  BY PublishingFacts
<1>3. Cardinality(Publishing(e)') <= Cardinality(Publishing(e)) /\ Cardinality(Publishing(e)') \in Nat
  BY <1>1, <1>2, FS_Subset, FS_CardinalityType
<1>4. row[e].retryCount \in Nat /\ MaxRetries \in Nat /\ Cardinality(Polls) \in Nat
  BY PublishingFacts, OutboxAssumption DEF OutboxAssumption, BInv, IInv, TypeOK, Rows
<1>5. row[e].retryCount + Cardinality(Publishing(e)) < MaxRetries + Cardinality(Polls)
  BY DEF BInv, CountedTries
<1> QED BY <1>2, <1>3, <1>4, <1>5

\* A publish begins on a record that has a try left.
LEMMA BeginBudget ==
    ASSUME BInv, NEW p \in Polls, BeginPublish(p)
    PROVE  CountedTries'
<1>1. PICK e \in Events : /\ poll[p].pc = "loop" /\ IsCurrent(p, e) /\ ~Exhausted(e)
                          /\ poll' = [poll EXCEPT ![p].pc = "publish"]
                          /\ row' = row
  BY DEF BeginPublish
<1>2. [Next]_vars
  BY DEF Next, PollStep
<1>3. \A q \in Polls : poll'[q].todo = poll[q].todo /\ (q # p => poll'[q] = poll[q])
  BY <1>1 DEF BInv, IInv, TypeOK, PollStates
<1> SUFFICES ASSUME NEW f \in Events
             PROVE  row'[f].retryCount + Cardinality(Publishing(f)') < MaxRetries + Cardinality(Polls)
  BY DEF CountedTries
<1>4. row[f].retryCount \in Nat /\ MaxRetries \in Nat /\ Cardinality(Polls) \in Nat
  BY PublishingFacts, OutboxAssumption DEF OutboxAssumption, BInv, IInv, TypeOK, Rows
<1>5. CASE f = e
  <2>1. row[e].retryCount < MaxRetries
    BY <1>1, <1>4, <1>5 DEF Exhausted
  <2>2. Publishing(f)' \in SUBSET Polls
    BY DEF Publishing
  <2>3. Cardinality(Publishing(f)') \in Nat /\ Cardinality(Publishing(f)') <= Cardinality(Polls)
    BY <2>2, OutboxAssumption, FS_Subset, FS_CardinalityType DEF OutboxAssumption
  <2> QED BY <1>1, <1>4, <1>5, <2>1, <2>3
<1>6. CASE f # e
  <2>1. ~IsCurrent(p, f)
    BY <1>1, <1>6, OneCurrent DEF BInv, IInv
  <2>2. Publishing(f)' = Publishing(f)
    BY <1>1, <1>2, <1>3, <2>1, CurrentKept DEF Publishing, BInv
  <2> QED BY <1>1, <2>2 DEF BInv, CountedTries
<1> QED BY <1>5, <1>6

\* A publish that fails turns the try it was counted for into a retry.
LEMMA RejectBudget ==
    ASSUME BInv, NEW p \in Polls, PublishRejects(p)
    PROVE  CountedTries'
<1>1. PICK e \in Events : /\ poll[p].pc = "publish" /\ IsCurrent(p, e)
                          /\ MoveOn(p, e, poll[p].ok)
                          /\ row' = IF e \in stored THEN [row EXCEPT ![e].retryCount = @ + 1] ELSE row
  BY DEF PublishRejects
<1>2. [Next]_vars
  BY DEF Next, PollStep
<1>3. poll'[p].pc = "loop" /\ \A q \in Polls : q # p => poll'[q] = poll[q]
  BY <1>1 DEF MoveOn, BInv, IInv, TypeOK
<1> SUFFICES ASSUME NEW f \in Events
             PROVE  row'[f].retryCount + Cardinality(Publishing(f)') < MaxRetries + Cardinality(Polls)
  BY DEF CountedTries
<1>4. row[f].retryCount \in Nat /\ MaxRetries \in Nat /\ Cardinality(Polls) \in Nat
  BY PublishingFacts, OutboxAssumption DEF OutboxAssumption, BInv, IInv, TypeOK, Rows
<1>5. CASE f # e
  <2>1. row'[f].retryCount = row[f].retryCount
    BY <1>1, <1>5 DEF BInv, IInv, TypeOK, Rows
  <2> QED BY <1>2, <1>3, <2>1, BudgetKept
<1>6. CASE f = e
  <2>1. Publishing(e)' \in SUBSET (Publishing(e) \ {p})
    BY <1>2, <1>3, CurrentKept DEF Publishing, BInv
  <2>2. p \in Publishing(e) /\ IsFiniteSet(Publishing(e)) /\ Cardinality(Publishing(e)) \in Nat
    BY <1>1, PublishingFacts DEF Publishing
  <2>3. /\ IsFiniteSet(Publishing(e) \ {p})
        /\ Cardinality(Publishing(e) \ {p}) = Cardinality(Publishing(e)) - 1
    BY <2>2, FS_RemoveElement
  <2>4. /\ Cardinality(Publishing(e)') <= Cardinality(Publishing(e) \ {p})
        /\ Cardinality(Publishing(e)') \in Nat
    BY <2>1, <2>3, FS_Subset, FS_CardinalityType
  <2>5. row'[e].retryCount \in Nat /\ row'[e].retryCount <= row[e].retryCount + 1
    BY <1>1, <1>4, <1>6 DEF BInv, IInv, TypeOK, Rows
  <2>6. row[e].retryCount + Cardinality(Publishing(e)) < MaxRetries + Cardinality(Polls)
    BY DEF BInv, CountedTries
  <2> QED BY <1>4, <1>6, <2>2, <2>3, <2>4, <2>5, <2>6
<1> QED BY <1>5, <1>6

\* The counts hold after every step.
LEMMA NextBudget == BInv /\ [Next]_vars => CountedTries'
<1> SUFFICES ASSUME BInv, [Next]_vars,
                    ~ \E p \in Polls : BeginPublish(p) \/ PublishRejects(p),
                    NEW e \in Events
             PROVE  row'[e].retryCount + Cardinality(Publishing(e)') < MaxRetries + Cardinality(Polls)
  BY BeginBudget, RejectBudget DEF CountedTries
<1>1. row \in [Events -> Rows] /\ poll \in [Polls -> PollStates]
  BY DEF BInv, IInv, TypeOK
<1> DEFINE Quiet == /\ row'[e].retryCount = row[e].retryCount
                    /\ \A p \in Polls : poll'[p].pc = "publish" => poll'[p] = poll[p]
<1>2. ASSUME NEW w \in Writes, BeginWrite(w) PROVE Quiet
  BY <1>1, <1>2 DEF BeginWrite, Rows
<1>3. ASSUME NEW w \in Writes, Insert(w) PROVE Quiet
  BY <1>1, <1>3 DEF Insert, Rows
<1>4. ASSUME NEW w \in Writes, BusinessDone(w) \/ WriteRejects(w) PROVE Quiet
  BY <1>4 DEF BusinessDone, WriteRejects
<1>5. ASSUME NEW p \in Polls, StartPoll(p) \/ SkipDeadLetter(p) \/ PublishResolves(p) PROVE Quiet
  BY <1>1, <1>5 DEF StartPoll, SkipDeadLetter, PublishResolves, MoveOn
<1>6. ASSUME NEW p \in Polls, FinishPoll(p) PROVE Quiet
  BY <1>1, <1>6 DEF FinishPoll, IdlePoll, Rows
<1>7. ASSUME Tick \/ Start \/ Stop \/ Cleanup \/ (\E f \in Events : Consume(f)) \/ UNCHANGED vars
      PROVE  Quiet
  BY <1>7 DEF Tick, Start, Stop, Cleanup, Consume, vars
<1>8. ASSUME Crash PROVE Quiet
  BY <1>1, <1>8 DEF Crash, IdlePoll
<1>9. Quiet
  BY <1>2, <1>3, <1>4, <1>5, <1>6, <1>7, <1>8 DEF Next, PollStep
<1> QED BY <1>1, <1>9, BudgetKept DEF PollStates

\* A record is tried past maxRetries by at most one try per extra poll, for
\* any number of polls that overlap; without a poll nothing is tried.
THEOREM RetriesBounded == ASSUME Polls # {} PROVE Spec => []RetryBudget
<1>1. Init => CountedTries
  <2> SUFFICES ASSUME Init, NEW e \in Events
               PROVE  row[e].retryCount + Cardinality(Publishing(e)) < MaxRetries + Cardinality(Polls)
    BY DEF CountedTries
  <2>1. Publishing(e) = {}
    BY DEF Init, Publishing, IdlePoll
  <2>2. Cardinality(Publishing(e)) = 0 /\ Cardinality(Polls) \in Nat /\ Cardinality(Polls) # 0
    BY <2>1, PublishingFacts, FS_EmptySet
  <2>3. row[e].retryCount = 0 /\ MaxRetries \in Nat
    BY OutboxAssumption DEF Init, OutboxAssumption
  <2> QED BY <2>2, <2>3
<1>2. Init => BInv
  BY <1>1, InitIInv DEF BInv
<1>3. BInv /\ [Next]_vars => BInv'
  BY NextIInv, NextBudget DEF BInv
<1>4. BInv => RetryBudget
  <2> SUFFICES ASSUME BInv, NEW e \in Events
               PROVE  row[e].retryCount < MaxRetries + Cardinality(Polls)
    BY DEF RetryBudget
  <2>1. row[e].retryCount + Cardinality(Publishing(e)) < MaxRetries + Cardinality(Polls)
    BY DEF BInv, CountedTries
  <2>2. row[e].retryCount \in Nat /\ MaxRetries \in Nat
    BY OutboxAssumption DEF OutboxAssumption, BInv, IInv, TypeOK, Rows
  <2> QED BY <2>1, <2>2, PublishingFacts
<1> QED BY <1>2, <1>3, <1>4, PTL DEF Spec

-----------------------------------------------------------------------------
(* The saga.  None of its invariants is inductive by itself: what a failed *)
(* saga may leave behind depends on where execute and compensate stand, so *)
(* SagaInv says what holds in each of their phases.                        *)

\* While the steps are executed, exactly those before at have taken effect.
Executing ==
    /\ status = "running" /\ at \in 1..(N + 1)
    /\ late = {} /\ timedOut = {} /\ gaveUp = {}
    /\ \A s \in Steps : s < at <=> effect[s] = "applied"

LeftBehind(s) == s \in gaveUp \cup timedOut

\* While they are compensated, nothing past at stands but what is accounted for.
Compensating ==
    /\ status = "compensating" /\ at \in 0..N
    /\ \A s \in Steps : s > at /\ effect[s] = "applied" => LeftBehind(s)

Ended ==
    \/ status = "completed" /\ late = {} /\ \A s \in Steps : effect[s] = "applied"
    \/ status = "failed" /\ \A s \in Steps : effect[s] = "applied" => LeftBehind(s)

SagaInv ==
    /\ SagaTypeOK
    /\ late \subseteq timedOut
    /\ pc = "execute" => Executing
    /\ pc = "compensate" => Compensating
    /\ pc = "done" => Ended

\* The saga starts with nothing executed.
LEMMA SagaInvInitially == SagaInit => SagaInv
BY SagaAssumption DEF SagaAssumption, SagaInit, SagaInv, SagaTypeOK, Steps, Executing

\* Each step of execute, compensate and a late service keeps the invariant.
LEMMA SagaInvKept == SagaInv /\ [SagaNext]_sagaVars => SagaInv'
<1> SUFFICES ASSUME SagaInv, [SagaNext]_sagaVars PROVE SagaInv'
  OBVIOUS
<1> USE SagaAssumption DEF SagaAssumption, Steps
<1>1. CASE StepDone
  <2>1. SagaTypeOK'
    BY <1>1 DEF StepDone, SagaInv, SagaTypeOK, Executing, bookkeeping
  <2>2. Executing'
    BY <1>1 DEF StepDone, SagaInv, SagaTypeOK, Executing, bookkeeping
  <2> QED BY <1>1, <2>1, <2>2 DEF StepDone, SagaInv
<1>2. CASE StepRejects
  <2>1. SagaTypeOK'
    BY <1>2 DEF StepRejects, StartCompensation, SagaInv, SagaTypeOK, Executing
  <2>2. Compensating'
    BY <1>2 DEF StepRejects, StartCompensation, SagaInv, SagaTypeOK, Executing, Compensating
  <2> QED BY <1>2, <2>1, <2>2 DEF StepRejects, StartCompensation, SagaInv
<1>3. CASE StepTimesOut
  <2>1. SagaTypeOK'
    BY <1>3 DEF StepTimesOut, StartCompensation, SagaInv, SagaTypeOK, Executing
  <2>2. Compensating'
    BY <1>3 DEF StepTimesOut, StartCompensation, SagaInv, SagaTypeOK, Executing, Compensating
  <2> QED BY <1>3, <2>1, <2>2 DEF StepTimesOut, StartCompensation, SagaInv
<1>4. CASE Complete
  <2>1. SagaTypeOK' /\ Ended'
    BY <1>4 DEF Complete, SagaInv, SagaTypeOK, Executing, Ended, bookkeeping
  <2> QED BY <1>4, <2>1 DEF Complete, SagaInv
<1>5. CASE CompensateDone
  <2>1. SagaTypeOK'
    BY <1>5 DEF CompensateDone, NextCompensation, SagaInv, SagaTypeOK, Compensating
  <2>2. Compensating'
    BY <1>5 DEF CompensateDone, NextCompensation, SagaInv, SagaTypeOK, Compensating, LeftBehind
  <2> QED BY <1>5, <2>1, <2>2 DEF CompensateDone, SagaInv
<1>6. CASE CompensateRejects
  <2>1. at \in 1..N /\ retries \in Nat
    BY <1>6 DEF CompensateRejects, SagaInv, SagaTypeOK, Compensating
  <2>2. retries' \in 0..MaxCompensationRetries /\ at' \in 0..N /\ gaveUp' \in SUBSET (1..N)
    <3>1. ASSUME retries < MaxCompensationRetries
          PROVE  retries' = retries + 1 /\ at' = at /\ gaveUp' = gaveUp
      BY <1>6, <3>1 DEF CompensateRejects
    <3>2. ASSUME ~(retries < MaxCompensationRetries)
          PROVE  retries' = 0 /\ at' = at - 1 /\ gaveUp' = gaveUp \cup {at}
      BY <1>6, <3>2 DEF CompensateRejects, NextCompensation
    <3>3. retries \in 0..MaxCompensationRetries /\ gaveUp \in SUBSET (1..N)
      BY DEF SagaInv, SagaTypeOK
    <3>4. retries' \in 0..MaxCompensationRetries
      BY <2>1, <3>1, <3>2, <3>3
    <3>5. at' \in 0..N
      BY <2>1, <3>1, <3>2
    <3>6. gaveUp' \in SUBSET (1..N)
      BY <2>1, <3>1, <3>2, <3>3
    <3> QED BY <3>4, <3>5, <3>6
  <2>3. SagaTypeOK'
    BY <1>6, <2>2 DEF CompensateRejects, SagaInv, SagaTypeOK
  <2>4. Compensating'
    BY <1>6 DEF CompensateRejects, NextCompensation, SagaInv, SagaTypeOK, Compensating, LeftBehind
  <2> QED BY <1>6, <2>3, <2>4 DEF CompensateRejects, SagaInv
<1>7. CASE Fail
  <2>1. SagaTypeOK' /\ Ended'
    BY <1>7 DEF Fail, SagaInv, SagaTypeOK, Compensating, Ended, LeftBehind, bookkeeping
  <2> QED BY <1>7, <2>1 DEF Fail, SagaInv
<1>8. ASSUME NEW s \in Steps, LateEffect(s) PROVE SagaInv'
  <2>1. SagaTypeOK' /\ (late \subseteq timedOut)'
    BY <1>8 DEF LateEffect, SagaInv, SagaTypeOK, bookkeeping
  <2>2. s \in timedOut /\ \A t \in Steps : t # s => effect'[t] = effect[t]
    BY <1>8 DEF LateEffect, SagaInv, SagaTypeOK
  <2>3. ASSUME pc = "compensate" PROVE Compensating'
    BY <1>8, <2>2, <2>3 DEF LateEffect, SagaInv, Compensating, LeftBehind, bookkeeping
  <2>4. ASSUME pc = "done" PROVE Ended'
    BY <1>8, <2>2, <2>4 DEF LateEffect, SagaInv, Ended, LeftBehind, bookkeeping
  <2>5. pc # "execute"
    BY <1>8 DEF LateEffect, SagaInv, Executing
  <2> QED BY <1>8, <2>1, <2>3, <2>4, <2>5 DEF LateEffect, SagaInv
<1>9. CASE UNCHANGED sagaVars
  BY <1>9 DEF sagaVars, SagaInv, SagaTypeOK, Executing, Compensating, Ended, LeftBehind
<1> QED BY <1>1, <1>2, <1>3, <1>4, <1>5, <1>6, <1>7, <1>8, <1>9 DEF SagaNext

\* SagaInv holds in every reachable state.
THEOREM SagaInvariance == SagaSpec => []SagaInv
BY SagaInvInitially, SagaInvKept, PTL DEF SagaSpec

\* The types hold in every reachable state.
THEOREM SagaTypeCorrect == SagaSpec => []SagaTypeOK
<1>1. SagaInv => SagaTypeOK
  BY DEF SagaInv
<1> QED BY <1>1, SagaInvariance, PTL

\* However many steps there are and whichever of them fail, hang or cannot be
\* compensated, a failed saga leaves behind only what it had to.
THEOREM FailureIsRolledBack == SagaSpec => []FailedMeansUndone
<1>1. SagaInv => FailedMeansUndone
  BY DEF SagaInv, SagaTypeOK, FailedMeansUndone, Executing, Compensating, Ended, LeftBehind
<1> QED BY <1>1, SagaInvariance, PTL

\* A completed saga has taken effect in full.
THEOREM CompletionIsTotal == SagaSpec => []CompletedMeansApplied
<1>1. SagaInv => CompletedMeansApplied
  BY DEF SagaInv, SagaTypeOK, CompletedMeansApplied, Executing, Compensating, Ended
<1> QED BY <1>1, SagaInvariance, PTL

\* No step is undone while a later one stands that could have been undone.
THEOREM ReverseOrder == SagaSpec => UndoneInReverse
<1> DEFINE Reverse == \A s \in Steps : effect[s] = "applied" /\ effect'[s] = "undone" =>
                        \A t \in (s + 1)..N : effect[t] # "applied" \/ t \in gaveUp \cup timedOut
<1>1. SagaInv /\ [SagaNext]_sagaVars => [Reverse]_sagaVars
  <2> SUFFICES ASSUME SagaInv, SagaNext, NEW s \in Steps, effect[s] = "applied", effect'[s] = "undone",
                      NEW t \in (s + 1)..N, effect[t] = "applied"
               PROVE  t \in gaveUp \cup timedOut
    OBVIOUS
  <2>1. CASE CompensateDone
    <3>1. s = at
      BY <2>1 DEF CompensateDone, SagaInv, SagaTypeOK
    <3> QED BY <2>1, <3>1, SagaAssumption
            DEF SagaAssumption, CompensateDone, SagaInv, Compensating, LeftBehind, Steps
  <2>2. CASE StepDone
    BY <2>2 DEF StepDone, SagaInv, SagaTypeOK
  <2>3. ASSUME NEW u \in Steps, LateEffect(u) PROVE FALSE
    BY <2>3 DEF LateEffect, SagaInv, SagaTypeOK
  <2>4. CASE StepRejects \/ StepTimesOut \/ Complete \/ CompensateRejects \/ Fail
    BY <2>4 DEF StepRejects, StepTimesOut, Complete, CompensateRejects, Fail
  <2> QED BY <2>1, <2>2, <2>3, <2>4 DEF SagaNext
<1>2. QED BY <1>1, SagaInvariance, PTL DEF SagaSpec, UndoneInReverse

\* A saga of any length is all or nothing, up to what it gave up on and what took effect late.
THEOREM SagaSafeHolds == SagaSpec => []SagaIsSafe
<1>1. SagaTypeOK /\ FailedMeansUndone /\ CompletedMeansApplied => SagaIsSafe
  BY DEF SagaIsSafe
<1> QED BY <1>1, SagaTypeCorrect, FailureIsRolledBack, CompletionIsTotal, PTL
=============================================================================
