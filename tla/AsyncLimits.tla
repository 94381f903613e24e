----------------------------- MODULE AsyncLimits -----------------------------
(***************************************************************************)
(* The two limits: on how many coroutines run at a time, and on how many   *)
(* tokens are given out in a time.                                         *)
(***************************************************************************)
EXTENDS Integers, Sequences, SequencesExt, FiniteSets

(***************************************************************************)
(* bounded_gather.py: a task per item behind a semaphore, a timeout that   *)
(* covers the item's coroutine and not the wait for the semaphore, and a   *)
(* gather that raises the first exception or collects them.  The tasks it  *)
(* leaves behind when it raises go on.                                     *)
(***************************************************************************)

CONSTANTS NumItems, GatherLimit
ASSUME GatherAssumption == NumItems \in Nat /\ GatherLimit \in Nat

VARIABLES itemState,      \* "created", "running", or how the item ended
          waiting,        \* the tasks in the order they came to the semaphore
          returnExceptions, hasTimeout,
          gathered,       \* what bounded_gather returned or raised
          firstError      \* the item that failed first
gatherVars == <<itemState, waiting, returnExceptions, hasTimeout, gathered, firstError>>

ItemNo == 1..NumItems
Running == {n \in ItemNo : itemState[n] = "running"}
Ended(n) == itemState[n] \in {"ok", "error", "timeout"}
Pending == [raised |-> 0, results |-> <<>>]

GatherInit ==
  /\ itemState = [n \in ItemNo |-> "created"]
  /\ waiting = [n \in ItemNo |-> n]       \* create_task starts them in order
  /\ returnExceptions \in BOOLEAN /\ hasTimeout \in BOOLEAN
  /\ gathered = Pending /\ firstError = 0

Free == Cardinality(Running) < GatherLimit
StartItem ==
  /\ waiting # <<>> /\ Free
  /\ itemState' = [itemState EXCEPT ![Head(waiting)] = "running"]
  /\ waiting' = Tail(waiting)
  /\ UNCHANGED <<returnExceptions, hasTimeout, gathered, firstError>>

\* The coroutine returns, raises, or is cancelled by wait_for: the semaphore is released.
EndItem(n, how) ==
  /\ itemState[n] = "running"
  /\ how = "timeout" => hasTimeout
  /\ itemState' = [itemState EXCEPT ![n] = how]
  /\ firstError' = IF how # "ok" /\ firstError = 0 THEN n ELSE firstError
  /\ UNCHANGED <<waiting, returnExceptions, hasTimeout, gathered>>

Gather ==
  /\ gathered = Pending
  /\ \/ /\ firstError # 0 /\ ~returnExceptions
        /\ gathered' = [raised |-> firstError, results |-> <<>>]
     \/ /\ \A n \in ItemNo : Ended(n)
        /\ firstError = 0 \/ returnExceptions
        /\ gathered' = [raised |-> 0, results |-> itemState]
  /\ UNCHANGED <<itemState, waiting, returnExceptions, hasTimeout, firstError>>

EndSome(n) == \E how \in {"ok", "error", "timeout"} : EndItem(n, how)
GatherNext == StartItem \/ Gather \/ \E n \in ItemNo : EndSome(n)
----------------------------------------------------------------------------
\* Never more than the limit run at a time, those that a raised exception left behind included.
\* A list of results is complete and in the items' order; what is raised is the first failure.
GatherIsBounded ==
  /\ Cardinality(Running) <= GatherLimit
  /\ gathered.raised # 0 => gathered.raised = firstError
  /\ gathered.results # <<>> => gathered.results = itemState /\ \A n \in ItemNo : Ended(n)

----------------------------------------------------------------------------
(***************************************************************************)
(* token_bucket_rate_limiter.py: a bucket per client, made full when the   *)
(* client is first seen; allow from any thread, and async_allow, which     *)
(* sleeps for wait_time and tries again.  The time unit is chosen so that  *)
(* rate and capacity are integers.                                         *)
(***************************************************************************)

CONSTANTS LimitedClient, Rate, Capacity, TokenAmounts, Waiter,
          MaxAllows,      \* calls of allow from threads, bounded for TLC
          MaxBucketTime

\* The constructor refuses a rate or a capacity that is not positive; nobody asks for less than nothing.
ASSUME BucketAssumption == Rate \in Nat \ {0} /\ Capacity \in Nat \ {0} /\ TokenAmounts \subseteq Nat

VARIABLES bucketNow, buckets,      \* client -> its bucket, once it has one
          waiterAt, wakeAt, wants, \* per waiter of async_allow
          allows,
          drawn,                   \* history: the tokens a client has drawn so far
          grants                   \* history: to whom, when, and what he had before and after
bucketVars == <<bucketNow, buckets, waiterAt, wakeAt, wants, allows, drawn, grants>>

Smaller(a, b) == IF a < b THEN a ELSE b
NewBucket == [tokens |-> Capacity, last |-> bucketNow]
GetLimiter(c) == IF c \in DOMAIN buckets THEN buckets[c] ELSE NewBucket

NotCapped(b) == [tokens |-> b.tokens + (bucketNow - b.last) * Rate, last |-> bucketNow]
Replenished(b) == [tokens |-> Smaller(Capacity, b.tokens + (bucketNow - b.last) * Rate), last |-> bucketNow]

SetBucket(c, bucket) == buckets' = [x \in DOMAIN buckets \cup {c} |-> IF x = c THEN bucket ELSE buckets[x]]

Granted(c, n) ==
  /\ Replenished(GetLimiter(c)).tokens >= n
  /\ SetBucket(c, [Replenished(GetLimiter(c)) EXCEPT !.tokens = @ - n])
  /\ drawn' = [drawn EXCEPT ![c] = @ + n]
  /\ grants' = Append(grants, [client |-> c, time |-> bucketNow, before |-> drawn[c], after |-> drawn[c] + n])
Refused(c, n) ==
  /\ Replenished(GetLimiter(c)).tokens < n
  /\ SetBucket(c, Replenished(GetLimiter(c)))
  /\ UNCHANGED <<drawn, grants>>

Allow(c, n) ==
  /\ allows < MaxAllows /\ allows' = allows + 1
  /\ Granted(c, n) \/ Refused(c, n)
  /\ UNCHANGED <<bucketNow, waiterAt, wakeAt, wants>>

Due(w) == waiterAt[w] = "try" \/ (waiterAt[w] = "sleep" /\ wakeAt[w] <= bucketNow)

CeilOf(a, b) == (a + b - 1) \div b
\* async_allow: the refusal, wait_time and the start of the sleep have no await in between; a
\* thread's allow in between would only lengthen the sleep.
TryAgain(w) ==
  LET c == wants[w].client   n == wants[w].tokens
  IN  /\ Due(w)
      /\ \/ Granted(c, n) /\ waiterAt' = [waiterAt EXCEPT ![w] = "granted"] /\ UNCHANGED wakeAt
         \/ /\ Refused(c, n)
            /\ waiterAt' = [waiterAt EXCEPT ![w] = "sleep"]
            /\ wakeAt' = [wakeAt EXCEPT ![w] = bucketNow + CeilOf(n - buckets'[c].tokens, Rate)]
      /\ UNCHANGED <<bucketNow, wants, allows>>

\* The event loop is not late: what is due runs before time goes on.
BucketTick ==
  /\ bucketNow < MaxBucketTime /\ \A w \in Waiter : ~Due(w)
  /\ bucketNow' = bucketNow + 1
  /\ UNCHANGED <<buckets, waiterAt, wakeAt, wants, allows, drawn, grants>>

BucketInit ==
  /\ bucketNow = 0 /\ buckets = <<>>
  /\ waiterAt = [w \in Waiter |-> "try"] /\ wakeAt = [w \in Waiter |-> 0]
  /\ wants \in [Waiter -> [client : LimitedClient, tokens : {n \in TokenAmounts : n <= Capacity}]]
  /\ allows = 0 /\ drawn = [c \in LimitedClient |-> 0] /\ grants = <<>>

BucketNext == \/ \E c \in LimitedClient, n \in TokenAmounts : Allow(c, n)
              \/ (\E w \in Waiter : TryAgain(w)) \/ BucketTick

\* The gather and the bucket side by side.
LimitsSpec ==
  /\ GatherInit /\ BucketInit
  /\ [][(GatherNext /\ UNCHANGED bucketVars) \/ (BucketNext /\ UNCHANGED gatherVars)]_<<gatherVars, bucketVars>>
----------------------------------------------------------------------------
\* Over every stretch of time a client gets no more than the burst and the rate allow,
\* whichever threads and waiters asked.
WithinRate ==
  \A i, j \in DOMAIN grants :
    i <= j /\ grants[i].client = grants[j].client =>
      grants[j].after - grants[i].before <= Capacity + Rate * (grants[j].time - grants[i].time)

\* Once the other callers have had enough, a waiter is served.
WaitersAreServed == \A w \in Waiter : <>(waiterAt[w] = "granted")

\* Neither limit is exceeded: on the coroutines that run, and on the tokens a client is given.
WithinLimits == GatherIsBounded /\ WithinRate
=============================================================================
