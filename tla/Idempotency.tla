---------------------------- MODULE Idempotency ----------------------------
(***************************************************************************)
(* engineering/backend/data-consistency/transaction-boundary/impl.ts:      *)
(* IdempotencyKeyStore.execute, cleanup and the waiter list.               *)
(*                                                                         *)
(* execute runs without interruption up to `await fn()`, and from the end  *)
(* of fn to its return: those are the actions.  A response is represented  *)
(* by the call whose fn produced it.                                       *)
(***************************************************************************)
EXTENDS Integers, FiniteSets

CONSTANTS
    Calls,      \* calls of execute
    Keys,       \* idempotency keys
    Ttl,        \* options.ttlMs
    MaxTime,    \* bound: the clock stops here
    NoCall

ASSUME IdempotencyAssumption ==
    /\ Ttl \in Nat /\ MaxTime \in Nat
    /\ NoCall \notin Calls

VARIABLES
    now,        \* Date.now()
    store,      \* the Map of records, "none" where it has no entry
    waiters,    \* the handlers waiting on each key
    call,       \* local state of each call, and its answer
    outlived    \* history: calls whose fn ran past the record's expiresAt

vars == <<now, store, waiters, call, outlived>>

Records == [status : {"none", "processing", "completed", "failed"},
            by : Calls \cup {NoCall}, expiresAt : Nat]
NoRecord == [status |-> "none", by |-> NoCall, expiresAt |-> 0]

Outcomes == {"none", "value", "error", "conflict", "timeout"}
CallStates == [pc : {"idle", "executing", "waiting", "returned"}, key : Keys, start : Nat,
               outcome : Outcomes, from : Calls \cup {NoCall}]

Init ==
    /\ now = 0
    /\ store = [k \in Keys |-> NoRecord]
    /\ waiters = [k \in Keys |-> {}]
    /\ call \in [Calls -> {[pc |-> "idle", key |-> k, start |-> 0, outcome |-> "none",
                            from |-> NoCall] : k \in Keys}]
    /\ outlived = {}

Executing(k) == {c \in Calls : call[c].pc = "executing" /\ call[c].key = k}

Tick ==
    /\ now < MaxTime
    /\ now' = now + 1
    /\ outlived' = outlived \cup {c \in Calls : call[c].pc = "executing" /\ call[c].start + Ttl < now'}
    /\ UNCHANGED <<store, waiters, call>>

-----------------------------------------------------------------------------
(* execute, up to its first await                                          *)

Answer(c, outcome, from) == [call[c] EXCEPT !.pc = "returned", !.outcome = outcome, !.from = from]

\* Completed: the cached response, whatever its expiresAt.
ReplyFromCache(c) ==
    LET r == store[call[c].key] IN
    /\ call[c].pc = "idle"
    /\ r.status = "completed"
    /\ call' = [call EXCEPT ![c] = Answer(c, "value", r.by)]
    /\ UNCHANGED <<now, store, waiters, outlived>>

\* Processing, onConflict: "reject".
Reject(c) ==
    /\ call[c].pc = "idle"
    /\ store[call[c].key].status = "processing"
    /\ call' = [call EXCEPT ![c] = Answer(c, "conflict", NoCall)]
    /\ UNCHANGED <<now, store, waiters, outlived>>

\* Processing, onConflict: "wait".
Wait(c) ==
    LET k == call[c].key IN
    /\ call[c].pc = "idle"
    /\ store[k].status = "processing"
    /\ call' = [call EXCEPT ![c].pc = "waiting"]
    /\ waiters' = [waiters EXCEPT ![k] = @ \cup {c}]
    /\ UNCHANGED <<now, store, outlived>>

\* Mutant: a processing record does not stop a second execution.
BeginUnguarded(c) ==
    LET k == call[c].key IN
    /\ call[c].pc = "idle"
    /\ store[k].status # "completed"
    /\ store' = [store EXCEPT ![k] = [status |-> "processing", by |-> c, expiresAt |-> now + Ttl]]
    /\ call' = [call EXCEPT ![c].pc = "executing", ![c].start = now]
    /\ UNCHANGED <<now, waiters, outlived>>

\* No record, or a failed one that is replaced: fn is called.
Begin(c) ==
    LET k == call[c].key IN
    /\ call[c].pc = "idle"
    /\ store[k].status \in {"none", "failed"}
    /\ store' = [store EXCEPT ![k] = [status |-> "processing", by |-> c, expiresAt |-> now + Ttl]]
    /\ call' = [call EXCEPT ![c].pc = "executing", ![c].start = now]
    /\ UNCHANGED <<now, waiters, outlived>>

-----------------------------------------------------------------------------
(* execute, once fn has settled: the record is overwritten, whoever's it   *)
(* is by now, and every waiter of the key gets this call's result.         *)

\* Mutant: notifyWaiters is left out.
SettleSilently(c, status, outcome) ==
    LET k == call[c].key IN
    /\ call[c].pc = "executing"
    /\ store' = [store EXCEPT ![k] = [status |-> status, by |-> c, expiresAt |-> call[c].start + Ttl]]
    /\ call' = [call EXCEPT ![c] = Answer(c, outcome, c)]
    /\ UNCHANGED <<now, waiters, outlived>>

Settle(c, status, outcome) ==
    LET k == call[c].key IN
    /\ call[c].pc = "executing"
    /\ store' = [store EXCEPT ![k] = [status |-> status, by |-> c, expiresAt |-> call[c].start + Ttl]]
    /\ waiters' = [waiters EXCEPT ![k] = {}]
    /\ call' = [d \in Calls |-> IF d = c \/ d \in waiters[k] THEN Answer(d, outcome, c) ELSE call[d]]
    /\ UNCHANGED <<now, outlived>>

Succeed(c) == Settle(c, "completed", "value")

Fail(c) == Settle(c, "failed", "error")

\* The timer of waitForResult removes its own handler.
WaitTimeout(c) ==
    LET k == call[c].key IN
    /\ call[c].pc = "waiting"
    /\ call' = [call EXCEPT ![c] = Answer(c, "timeout", NoCall)]
    /\ waiters' = [waiters EXCEPT ![k] = @ \ {c}]
    /\ UNCHANGED <<now, store, outlived>>

\* Expired records go, those still processing too.
Cleanup ==
    LET expired == {k \in Keys : store[k].status # "none" /\ store[k].expiresAt < now} IN
    /\ expired # {}
    /\ store' = [k \in Keys |-> IF k \in expired THEN NoRecord ELSE store[k]]
    /\ UNCHANGED <<now, waiters, call, outlived>>

Next ==
    \/ Tick
    \/ \E c \in Calls :
        \/ ReplyFromCache(c) \/ Reject(c) \/ Wait(c) \/ Begin(c)
        \/ Succeed(c) \/ Fail(c) \/ WaitTimeout(c)
    \/ Cleanup

\* fn settles.  Nothing is assumed of the timers: they are not needed.
Fairness == \A c \in Calls : WF_vars(Succeed(c) \/ Fail(c))

Spec == Init /\ [][Next]_vars
FairSpec == Spec /\ Fairness

-----------------------------------------------------------------------------
(* Properties                                                              *)

TypeOK ==
    /\ now \in Nat
    /\ store \in [Keys -> Records]
    /\ waiters \in [Keys -> SUBSET Calls]
    /\ call \in [Calls -> CallStates]
    /\ outlived \in SUBSET Calls

\* Nobody waits on a key no execution will ever answer for: cleanup, stale
\* executions and timeouts leave every registered handler with a live one.
NoOrphanWaiter ==
    \A c \in Calls : call[c].pc = "waiting" =>
        c \in waiters[call[c].key] /\ Executing(call[c].key) # {}

OutlivedOn(k) == \E c \in outlived : call[c].key = k

\* As long as no execution of a key has outlived its record's ttl, two
\* executions of the key never run at once, failures and retries included.
ExclusiveWithinTtl ==
    \A k \in Keys : \A c, d \in Executing(k) : c = d \/ OutlivedOn(k)

\* A value or an error a caller gets was produced by an execution of the
\* caller's own key that ended that way.
AnswerIsGenuine ==
    \A c \in Calls : call[c].outcome \in {"value", "error"} =>
        LET d == call[c].from IN
        d \in Calls /\ call[d].key = call[c].key /\ call[d].from = d
        /\ call[d].outcome = call[c].outcome

\* A cached response is not replaced by another one, and not withdrawn by a
\* failure, unless some execution of the key outlived its ttl.
CachedAnswerStable ==
    [][\A k \in Keys : store[k].status = "completed" =>
        store'[k] \in {store[k], NoRecord} \/ OutlivedOn(k)]_vars

\* A waiting caller gets its answer once fn settles, without its timer.
WaitersAreAnswered ==
    \A c \in Calls : call[c].pc = "waiting" ~> call[c].pc = "returned"

\* The key store's word: a waiter has somebody to answer it, executions of a key that stay within
\* their ttl exclude each other, an answer is that of an execution.
Safe == TypeOK /\ NoOrphanWaiter /\ ExclusiveWithinTtl /\ AnswerIsGenuine
=============================================================================
