------------------------------- MODULE Outbox -------------------------------
(***************************************************************************)
(* engineering/backend/data-consistency/outbox-pattern/impl.ts             *)
(*                                                                         *)
(* OutboxEventBus writes business data and outbox rows, OutboxWorker polls *)
(* the store and publishes, EventConsumer removes duplicates by event id.  *)
(* Every await is a boundary between two actions.  setInterval does not    *)
(* await the poll it starts, so several polls may be in flight: each one   *)
(* takes a slot of Polls.                                                  *)
(*                                                                         *)
(* findUnpublished hands out the store's own row objects, not copies: the  *)
(* retryCount a poll reads is the current one.  row[e] is that object, and *)
(* stored says which objects are in the records array.                     *)
(***************************************************************************)
EXTENDS Naturals, FiniteSets

CONSTANTS
    Events,         \* event ids (randomUUID)
    Writes,         \* calls of writeInTransaction / writeManyInTransaction
    Batch,          \* Batch[w]: the events of write w
    Polls,          \* slots for polls in flight
    BatchSize,      \* options.batchSize
    MaxRetries,     \* options.maxRetries
    StoreRetryCap,  \* the literal 5 of InMemoryOutboxStore.findUnpublished
    Retention,      \* options.retentionMs
    MaxTime,        \* bound: the clock stops here
    MaxCrashes      \* bound: crashes of the worker's process

ASSUME OutboxAssumption ==
    /\ Batch \in [Writes -> SUBSET Events]
    /\ \A w \in Writes : Batch[w] # {}
    /\ \A v, w \in Writes : v # w => Batch[v] \cap Batch[w] = {}
    /\ BatchSize \in Nat \ {0}
    /\ {MaxRetries, StoreRetryCap, Retention, MaxTime, MaxCrashes} \subseteq Nat
    /\ IsFiniteSet(Events) /\ IsFiniteSet(Polls)

VARIABLES
    now,        \* Date.now()
    phase,      \* where each write is
    row,        \* the row object of each event
    inserted,   \* events ever inserted, for the order of the records array
    stored,     \* events whose row is in the records array
    running,    \* OutboxWorker.running (and both intervals set)
    poll,       \* local state of each poll in flight
    crashes,    \* crashes so far
    accepted,   \* events the queue took at least once
    effects     \* how often consume(e) returned true

vars == <<now, phase, row, inserted, stored, running, poll, crashes, accepted, effects>>
writeVars  == <<phase, inserted>>
workerVars == <<running, crashes>>
queueVars  == <<accepted, effects>>

Null == 0       \* publishedAt: null

WritePhases == {"idle", "business", "insert", "done", "rejected", "partial"}
Rows == [createdAt : Nat, pos : Nat, publishedAt : Nat, retryCount : Nat]
PollStates == [pc : {"idle", "loop", "publish"},
               todo : SUBSET Events, ok : SUBSET Events]

IdlePoll == [pc |-> "idle", todo |-> {}, ok |-> {}]

Init ==
    /\ now = 1
    /\ phase = [w \in Writes |-> "idle"]
    /\ row = [e \in Events |-> [createdAt |-> 0, pos |-> 0, publishedAt |-> Null, retryCount |-> 0]]
    /\ inserted = {} /\ stored = {}
    /\ running = FALSE
    /\ poll = [p \in Polls |-> IdlePoll]
    /\ crashes = 0
    /\ accepted = {}
    /\ effects = [e \in Events |-> 0]

Tick == now < MaxTime /\ now' = now + 1
        /\ UNCHANGED <<writeVars, row, stored, workerVars, poll, queueVars>>

-----------------------------------------------------------------------------
(* OutboxEventBus: the rows are built before the business function is      *)
(* awaited and inserted one by one after it; nothing undoes the business   *)
(* data or the rows already inserted when a later insert rejects.          *)

BeginWrite(w) ==
    /\ phase[w] = "idle"
    /\ phase' = [phase EXCEPT ![w] = "business"]
    /\ row' = [e \in Events |-> IF e \in Batch[w] THEN [row[e] EXCEPT !.createdAt = now] ELSE row[e]]
    /\ UNCHANGED <<now, inserted, stored, workerVars, poll, queueVars>>

BusinessDone(w) ==
    /\ phase[w] = "business"
    /\ phase' = [phase EXCEPT ![w] = "insert"]
    /\ UNCHANGED <<now, row, inserted, stored, workerVars, poll, queueVars>>

WriteRejects(w) ==
    /\ phase[w] \in {"business", "insert"}
    /\ phase' = [phase EXCEPT ![w] = IF @ = "business" THEN "rejected" ELSE "partial"]
    /\ UNCHANGED <<now, row, inserted, stored, workerVars, poll, queueVars>>

Insert(w) ==
    \E e \in Batch[w] \ inserted :
        /\ phase[w] = "insert"
        /\ inserted' = inserted \cup {e}
        /\ stored' = stored \cup {e}
        /\ row' = [row EXCEPT ![e].pos = Cardinality(inserted)]
        /\ phase' = IF Batch[w] \subseteq inserted' THEN [phase EXCEPT ![w] = "done"] ELSE phase
        /\ UNCHANGED <<now, workerVars, poll, queueVars>>

-----------------------------------------------------------------------------
(* OutboxWorker.poll                                                       *)

\* sort((a, b) => a.createdAt - b.createdAt), stable over insertion order
Before(e, f) ==
    \/ row[e].createdAt < row[f].createdAt
    \/ row[e].createdAt = row[f].createdAt /\ row[e].pos < row[f].pos

\* slice(0, n)
Earliest(S, n) == {e \in S : Cardinality({f \in S : Before(f, e)}) < n}

FindUnpublished ==
    Earliest({e \in stored : row[e].publishedAt = Null /\ row[e].retryCount < StoreRetryCap}, BatchSize)

Exhausted(e) == row[e].retryCount >= MaxRetries

IsCurrent(p, e) == e \in poll[p].todo /\ \A f \in poll[p].todo \ {e} : Before(e, f)

\* The next record of poll p, or the end of its loop.
MoveOn(p, e, ok) ==
    poll' = [poll EXCEPT ![p] = [pc |-> "loop", todo |-> poll[p].todo \ {e}, ok |-> ok]]

\* poll() is public, so it may also be called by hand on a stopped worker.
StartPoll(p) ==
    /\ poll[p].pc = "idle"
    /\ FindUnpublished # {}
    /\ poll' = [poll EXCEPT ![p] = [pc |-> "loop", todo |-> FindUnpublished, ok |-> {}]]
    /\ UNCHANGED <<now, writeVars, row, stored, workerVars, queueVars>>

TimerPoll(p) == running /\ StartPoll(p)

SkipDeadLetter(p) ==
    \E e \in Events :
        /\ poll[p].pc = "loop" /\ IsCurrent(p, e)
        /\ Exhausted(e)
        /\ MoveOn(p, e, poll[p].ok)
        /\ UNCHANGED <<now, writeVars, row, stored, workerVars, queueVars>>

BeginPublish(p) ==
    \E e \in Events :
        /\ poll[p].pc = "loop" /\ IsCurrent(p, e)
        /\ ~Exhausted(e)
        /\ poll' = [poll EXCEPT ![p].pc = "publish"]
        /\ UNCHANGED <<now, writeVars, row, stored, workerVars, queueVars>>

PublishResolves(p) ==
    \E e \in Events :
        /\ poll[p].pc = "publish" /\ IsCurrent(p, e)
        /\ MoveOn(p, e, poll[p].ok \cup {e})
        /\ accepted' = accepted \cup {e}
        /\ UNCHANGED <<now, writeVars, row, stored, workerVars, effects>>

\* Mutant: markFailed is not called.
PublishRejectsUncounted(p) ==
    \E e \in Events, taken \in BOOLEAN :
        /\ poll[p].pc = "publish" /\ IsCurrent(p, e)
        /\ MoveOn(p, e, poll[p].ok)
        /\ accepted' = IF taken THEN accepted \cup {e} ELSE accepted
        /\ UNCHANGED <<now, writeVars, row, stored, workerVars, effects>>

\* Mutant: the poll retries the record on the spot.
PublishRejectsInPlace(p) ==
    \E e \in Events :
        /\ poll[p].pc = "publish" /\ IsCurrent(p, e)
        /\ row' = [row EXCEPT ![e].retryCount = @ + 1]
        /\ UNCHANGED <<now, writeVars, stored, workerVars, poll, queueVars>>

\* A rejection may hide a message the queue did take (taken).  Reading
\* retryCount and markFailed run without an await between them.
PublishRejects(p) ==
    \E e \in Events, taken \in BOOLEAN :
        /\ poll[p].pc = "publish" /\ IsCurrent(p, e)
        /\ MoveOn(p, e, poll[p].ok)
        /\ row' = IF e \in stored THEN [row EXCEPT ![e].retryCount = @ + 1] ELSE row
        /\ accepted' = IF taken THEN accepted \cup {e} ELSE accepted
        /\ UNCHANGED <<now, writeVars, stored, workerVars, effects>>

\* markPublished(successfulIds, Date.now())
FinishPoll(p) ==
    /\ poll[p].pc = "loop" /\ poll[p].todo = {}
    /\ row' = [e \in Events |-> IF e \in poll[p].ok \cap stored
                                THEN [row[e] EXCEPT !.publishedAt = now] ELSE row[e]]
    /\ poll' = [poll EXCEPT ![p] = IdlePoll]
    /\ UNCHANGED <<now, writeVars, stored, workerVars, queueVars>>

-----------------------------------------------------------------------------
(* OutboxWorker.start, stop, cleanup, and the death of its process         *)

Start ==
    /\ ~running
    /\ running' = TRUE
    /\ UNCHANGED <<now, writeVars, row, stored, crashes, poll, queueVars>>

\* stop() clears the intervals and does not wait for the polls in flight.
Stop ==
    /\ running
    /\ running' = FALSE
    /\ UNCHANGED <<now, writeVars, row, stored, crashes, poll, queueVars>>

\* The process dies, the table and the queue survive.
Crash ==
    /\ crashes < MaxCrashes
    /\ crashes' = crashes + 1
    /\ running' = FALSE
    /\ poll' = [p \in Polls |-> IdlePoll]
    /\ UNCHANGED <<now, writeVars, row, stored, queueVars>>

\* Mutant: the filter forgets publishedAt === null.
ExpiredOrUnpublished == {e \in stored : row[e].publishedAt + Retention < now}

Expired == {e \in stored : row[e].publishedAt # Null /\ row[e].publishedAt + Retention < now}

Cleanup ==
    /\ Expired # {}
    /\ stored' = stored \ Expired
    /\ UNCHANGED <<now, writeVars, row, workerVars, poll, queueVars>>

-----------------------------------------------------------------------------
(* EventConsumer.consume.  The queue delivers what it accepted, in any     *)
(* order and any number of times.                                          *)

\* e \in processedIds iff effects[e] > 0
Consume(e) ==
    /\ e \in accepted
    /\ effects' = [effects EXCEPT ![e] = IF @ = 0 THEN 1 ELSE @]
    /\ UNCHANGED <<now, writeVars, row, stored, workerVars, poll, accepted>>

-----------------------------------------------------------------------------
PollStep(p) ==
    \/ SkipDeadLetter(p)
    \/ BeginPublish(p)
    \/ PublishResolves(p)
    \/ PublishRejects(p)
    \/ FinishPoll(p)

Next ==
    \/ Tick
    \/ \E w \in Writes : BeginWrite(w) \/ BusinessDone(w) \/ WriteRejects(w) \/ Insert(w)
    \/ \E p \in Polls : StartPoll(p) \/ PollStep(p)
    \/ Start \/ Stop \/ Crash \/ Cleanup
    \/ \E e \in Events : Consume(e)

\* The interval keeps firing while the worker runs, an await settles, and the
\* queue delivers what it accepted.
Fairness ==
    /\ \A p \in Polls : WF_vars(TimerPoll(p)) /\ WF_vars(PollStep(p))
    /\ \A e \in Events : WF_vars(Consume(e))

Spec == Init /\ [][Next]_vars
FairSpec == Spec /\ Fairness
-----------------------------------------------------------------------------
(* Properties                                                              *)

\* The state the polls, the store and the writes keep has these types.
TypeOK ==
    /\ now \in Nat
    /\ phase \in [Writes -> WritePhases]
    /\ row \in [Events -> Rows]
    /\ inserted \subseteq Events
    /\ stored \subseteq inserted
    /\ running \in BOOLEAN
    /\ poll \in [Polls -> PollStates]
    /\ crashes \in Nat
    /\ accepted \subseteq Events
    /\ effects \in [Events -> 0..1]

\* A row marked published was accepted by the queue, whatever mix of
\* successes and failures the batch saw and whichever polls overlapped it.
PublishedWasAccepted == \A e \in Events : row[e].publishedAt # Null => e \in accepted

\* An event once recorded is still in the table or has reached the queue:
\* crashes, retries, dead letters and cleanup lose none.
NoEventLost == \A e \in inserted : e \in stored \/ e \in accepted

\* The consumer never acts on an event whose business function did not succeed.
NoPhantomEvent ==
    \A w \in Writes, e \in Events :
        e \in Batch[w] /\ effects[e] > 0 => phase[w] \in {"insert", "done", "partial"}

\* Polls that overlap each pass the retry check before any of them fails, so
\* a record can be tried past maxRetries, by at most one try per extra poll.
RetryBudget == \A e \in Events : row[e].retryCount < MaxRetries + Cardinality(Polls)

\* While the worker keeps running, a recorded event takes effect or exhausts
\* its own retries; other records, dead ones too, do not hold it back.
EventuallyHandled ==
    \A e \in Events :
        e \in stored /\ running ~> effects[e] > 0 \/ Exhausted(e) \/ ~running

Delivery == INSTANCE EventDelivery WITH
    kept <- stored, recorded <- inserted, sent <- accepted

\* The table, polls, retries and crashes implement the outbox's promise: at
\* least one send before a record may go, at most one effect per event.
ImplementsDelivery == Delivery!Spec

\* The outbox's word on every event: what is marked published reached the queue, what was committed
\* with its business data is kept until it was sent, nothing else is ever sent.
Safe == TypeOK /\ PublishedWasAccepted /\ NoEventLost /\ NoPhantomEvent
=============================================================================
