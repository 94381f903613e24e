-------------------------- MODULE SentinelQueues --------------------------
(***************************************************************************)
(* ProducerConsumer of producer_consumer.py.  Every item has a thread that *)
(* submits it, another thread calls stop.  A worker function that raises   *)
(* ends its thread: the worker is dead, and takes no sentinel.             *)
(***************************************************************************)
EXTENDS Integers, Sequences, FiniteSets

CONSTANTS Item, Consumer, QueueSizes,     \* 0: unbounded
          Sentinel                        \* the None that ends a worker
ASSUME ProducerAssumption == IsFiniteSet(Item) /\ IsFiniteSet(Consumer) /\ Sentinel \notin Item

VARIABLES itemQueue, stopFlag, itemResults,
          consumerAt, inHand,             \* per worker
          submitState,                    \* per item
          stopAt, sentinelsLeft, stopResult,
          inBefore,                       \* the items put before stop began
          maxsize, raising                \* the queue's size, the items whose worker raises
pcVars == <<itemQueue, stopFlag, itemResults, consumerAt, inHand, submitState,
            stopAt, sentinelsLeft, stopResult, inBefore, maxsize, raising>>

NotFull == maxsize = 0 \/ Len(itemQueue) < maxsize

ProducerInit ==
  /\ itemQueue = <<>> /\ stopFlag = FALSE /\ itemResults = {}
  /\ consumerAt = [w \in Consumer |-> "get"] /\ inHand = [w \in Consumer |-> Sentinel]
  /\ submitState = [x \in Item |-> "new"]
  /\ stopAt = "idle" /\ sentinelsLeft = Cardinality(Consumer) /\ stopResult = {} /\ inBefore = {}
  /\ maxsize \in QueueSizes
  /\ raising \in SUBSET Item

CheckStopped(x) ==
  /\ submitState[x] = "new"
  /\ submitState' = [submitState EXCEPT ![x] = IF stopFlag THEN "refused" ELSE "put"]
  /\ UNCHANGED <<itemQueue, stopFlag, itemResults, consumerAt, inHand, stopAt, sentinelsLeft,
                 stopResult, inBefore, maxsize, raising>>

\* The flag is not looked at again: an item may go in behind the sentinels.
PutItem(x) ==
  /\ submitState[x] = "put" /\ NotFull
  /\ submitState' = [submitState EXCEPT ![x] = "in"]
  /\ itemQueue' = Append(itemQueue, x)
  /\ UNCHANGED <<stopFlag, itemResults, consumerAt, inHand, stopAt, sentinelsLeft, stopResult,
                 inBefore, maxsize, raising>>

BeginStop ==
  /\ stopAt = "idle"
  /\ stopFlag' = TRUE /\ stopAt' = "sentinels"
  /\ inBefore' = {x \in Item : submitState[x] = "in"}
  /\ UNCHANGED <<itemQueue, itemResults, consumerAt, inHand, submitState, sentinelsLeft, stopResult,
                 maxsize, raising>>

PutSentinel ==
  /\ stopAt = "sentinels" /\ sentinelsLeft > 0 /\ NotFull
  /\ itemQueue' = Append(itemQueue, Sentinel)
  /\ sentinelsLeft' = sentinelsLeft - 1
  /\ UNCHANGED <<stopFlag, itemResults, consumerAt, inHand, submitState, stopAt, stopResult,
                 inBefore, maxsize, raising>>

\* t.join() returns for a thread that took its sentinel and for a dead one.
SomeGone == \E w \in Consumer : consumerAt[w] \in {"ended", "dead"}
AllGone == \A w \in Consumer : consumerAt[w] \in {"ended", "dead"}
ReturnFromStop ==
  /\ stopAt = "sentinels" /\ sentinelsLeft = 0 /\ AllGone
  /\ stopAt' = "returned" /\ stopResult' = itemResults
  /\ UNCHANGED <<itemQueue, stopFlag, itemResults, consumerAt, inHand, submitState, sentinelsLeft,
                 inBefore, maxsize, raising>>

GetItem(w) ==
  /\ consumerAt[w] = "get" /\ itemQueue # <<>>
  /\ itemQueue' = Tail(itemQueue)
  /\ inHand' = [inHand EXCEPT ![w] = Head(itemQueue)]
  /\ consumerAt' = [consumerAt EXCEPT ![w] = IF Head(itemQueue) = Sentinel THEN "ended" ELSE "work"]
  /\ UNCHANGED <<stopFlag, itemResults, submitState, stopAt, sentinelsLeft, stopResult, inBefore,
                 maxsize, raising>>

WorkOnItem(w) ==
  /\ consumerAt[w] = "work"
  /\ IF inHand[w] \in raising
     THEN consumerAt' = [consumerAt EXCEPT ![w] = "dead"] /\ UNCHANGED itemResults
     ELSE /\ consumerAt' = [consumerAt EXCEPT ![w] = "get"]
          /\ itemResults' = itemResults \cup {inHand[w]}
  /\ inHand' = [inHand EXCEPT ![w] = Sentinel]
  /\ UNCHANGED <<itemQueue, stopFlag, submitState, stopAt, sentinelsLeft, stopResult, inBefore,
                 maxsize, raising>>

StopStep == BeginStop \/ PutSentinel \/ ReturnFromStop
ConsumerStep(w) == GetItem(w) \/ WorkOnItem(w)
ProducerNext == \/ \E x \in Item : CheckStopped(x) \/ PutItem(x)
                \/ StopStep \/ \E w \in Consumer : ConsumerStep(w)
----------------------------------------------------------------------------
\* What stop returns holds the result of every item that was in the queue before it was called,
\* however many workers died on the way, as long as one lived to take a sentinel.  If every one
\* died, the items missing are those still in the queue: none is lost in a worker's hands.
AllDead == \A w \in Consumer : consumerAt[w] = "dead"
StopReturnsAllResults ==
  stopAt = "returned" =>
    \A x \in (inBefore \ raising) \ stopResult :
      AllDead /\ \E i \in 1..Len(itemQueue) : itemQueue[i] = x

\* A call of stop comes back, unless it is left with a full queue that nobody reads any more,
\* because a worker died that would have taken a sentinel.
StopIsStuck == ~NotFull /\ sentinelsLeft > 0 /\ AllGone /\ \E w \in Consumer : consumerAt[w] = "dead"
StopComesBack == stopAt = "sentinels" ~> stopAt = "returned" \/ StopIsStuck
----------------------------------------------------------------------------
(***************************************************************************)
(* MiniTaskQueue of mini_task_queue.py: workers that retry a task by       *)
(* putting it back, the dead letters, and stop, which waits for the queue  *)
(* (join: nothing put and not done), then ends the workers with sentinels. *)
(* No task has the payload None: a fresh one would be taken for a sentinel.*)
(***************************************************************************)
CONSTANTS Job, QueueWorker, MaxRetries, EndMark
ASSUME TaskQueueAssumption == IsFiniteSet(QueueWorker) /\ MaxRetries \in Nat /\ EndMark \notin Job

VARIABLES jobQueue, unfinished,        \* what queue.join waits on
          attempts, handledJobs, deadLetter,
          workerAt, jobInHand,         \* per worker
          submitted, beforeStop,       \* jobs, those submitted before stop
          queueStop, marksLeft, stopReturned
tqVars == <<jobQueue, unfinished, attempts, handledJobs, deadLetter, workerAt, jobInHand,
            submitted, beforeStop, queueStop, marksLeft, stopReturned>>

TaskQueueInit ==
  /\ jobQueue = <<>> /\ unfinished = 0
  /\ attempts = [j \in Job |-> 0] /\ handledJobs = {} /\ deadLetter = {}
  /\ workerAt = [w \in QueueWorker |-> "get"] /\ jobInHand = [w \in QueueWorker |-> EndMark]
  /\ submitted = {} /\ beforeStop = {}
  /\ queueStop = "idle" /\ marksLeft = Cardinality(QueueWorker) /\ stopReturned = {}

\* submit; it does not ask whether the queue was stopped.
SubmitJob(j) ==
  /\ j \notin submitted
  /\ submitted' = submitted \cup {j}
  /\ jobQueue' = Append(jobQueue, j) /\ unfinished' = unfinished + 1
  /\ UNCHANGED <<attempts, handledJobs, deadLetter, workerAt, jobInHand, beforeStop, queueStop,
                 marksLeft, stopReturned>>

TakeJob(w) ==
  /\ workerAt[w] = "get" /\ jobQueue # <<>>
  /\ jobQueue' = Tail(jobQueue)
  /\ jobInHand' = [jobInHand EXCEPT ![w] = Head(jobQueue)]
  /\ IF Head(jobQueue) = EndMark
     THEN workerAt' = [workerAt EXCEPT ![w] = "ended"] /\ unfinished' = unfinished - 1
     ELSE workerAt' = [workerAt EXCEPT ![w] = "handle"] /\ UNCHANGED unfinished
  /\ UNCHANGED <<attempts, handledJobs, deadLetter, submitted, beforeStop, queueStop, marksLeft,
                 stopReturned>>

\* task_done for the marks only.
JobDoneUncounted(w) == workerAt' = [workerAt EXCEPT ![w] = "get"] /\ UNCHANGED unfinished
JobDone(w) == workerAt' = [workerAt EXCEPT ![w] = "get"] /\ unfinished' = unfinished - 1

HandlerReturns(w) ==
  /\ workerAt[w] = "handle" /\ JobDone(w)
  /\ handledJobs' = handledJobs \cup {jobInHand[w]}
  /\ UNCHANGED <<jobQueue, attempts, deadLetter, jobInHand, submitted, beforeStop, queueStop,
                 marksLeft, stopReturned>>

HandlerRaises(w) ==
  LET job == jobInHand[w]
  IN  /\ workerAt[w] = "handle"
      /\ attempts' = [attempts EXCEPT ![job] = @ + 1]
      /\ IF attempts'[job] <= MaxRetries
         THEN /\ workerAt' = [workerAt EXCEPT ![w] = "retry"]        \* sleeps, then puts it back
              /\ UNCHANGED <<unfinished, deadLetter>>
         ELSE JobDone(w) /\ deadLetter' = deadLetter \cup {job}
      /\ UNCHANGED <<jobQueue, handledJobs, jobInHand, submitted, beforeStop, queueStop, marksLeft,
                     stopReturned>>

\* put counts the task once more before task_done takes the first count off.
PutBack(w) ==
  /\ workerAt[w] = "retry"
  /\ jobQueue' = Append(jobQueue, jobInHand[w])
  /\ workerAt' = [workerAt EXCEPT ![w] = "get"]
  /\ UNCHANGED <<unfinished, attempts, handledJobs, deadLetter, jobInHand, submitted, beforeStop, queueStop,
                 marksLeft, stopReturned>>

BeginQueueStop ==
  /\ queueStop = "idle" /\ queueStop' = "join" /\ beforeStop' = submitted
  /\ UNCHANGED <<jobQueue, unfinished, attempts, handledJobs, deadLetter, workerAt, jobInHand,
                 submitted, marksLeft, stopReturned>>

QueueJoined ==
  /\ queueStop = "join" /\ unfinished = 0 /\ queueStop' = "marks"
  /\ UNCHANGED <<jobQueue, unfinished, attempts, handledJobs, deadLetter, workerAt, jobInHand,
                 submitted, beforeStop, marksLeft, stopReturned>>

PutEndMark ==
  /\ queueStop = "marks" /\ marksLeft > 0
  /\ marksLeft' = marksLeft - 1
  /\ jobQueue' = Append(jobQueue, EndMark) /\ unfinished' = unfinished + 1
  /\ UNCHANGED <<attempts, handledJobs, deadLetter, workerAt, jobInHand, submitted, beforeStop,
                 queueStop, stopReturned>>

QueueStopReturns ==
  /\ queueStop = "marks" /\ marksLeft = 0 /\ \A w \in QueueWorker : workerAt[w] = "ended"
  /\ queueStop' = "returned" /\ stopReturned' = deadLetter
  /\ UNCHANGED <<jobQueue, unfinished, attempts, handledJobs, deadLetter, workerAt, jobInHand,
                 submitted, beforeStop, marksLeft>>

QueueWorkerStep(w) == TakeJob(w) \/ HandlerReturns(w) \/ HandlerRaises(w) \/ PutBack(w)
QueueStopStep == BeginQueueStop \/ QueueJoined \/ PutEndMark \/ QueueStopReturns
TaskQueueNext == (\E j \in Job : SubmitJob(j)) \/ (\E w \in QueueWorker : QueueWorkerStep(w)) \/ QueueStopStep
----------------------------------------------------------------------------
\* When stop returns every job submitted before it was handled, or is among the dead letters
\* it returns after all its retries: no retry was cut off.
StopSettlesEveryJob ==
  queueStop = "returned" =>
    \A j \in beforeStop : j \in handledJobs \/ (j \in stopReturned /\ attempts[j] = MaxRetries + 1)

QueueStopComesBack == queueStop = "join" ~> queueStop = "returned"

\* Both stops are complete: they return when every item and job has been dealt with, and with
\* all the results.
StopsAreComplete == StopReturnsAllResults /\ StopSettlesEveryJob

\* The two queues side by side.
QueuesSpec ==
  /\ ProducerInit /\ TaskQueueInit
  /\ [][(ProducerNext /\ UNCHANGED tqVars) \/ (TaskQueueNext /\ UNCHANGED pcVars)]_<<pcVars, tqVars>>
=============================================================================
