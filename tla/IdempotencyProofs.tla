------------------------- MODULE IdempotencyProofs -------------------------
(***************************************************************************)
(* Proofs about Idempotency for any set of calls and keys and any ttl.     *)
(***************************************************************************)
EXTENDS Idempotency, TLAPS

\* The waiter lists hold the waiting calls, and only while somebody executes.
WaitersHeard ==
    /\ \A c \in Calls : call[c].pc = "waiting" => c \in waiters[call[c].key]
    /\ \A k \in Keys : \A c \in waiters[k] : call[c].pc = "waiting" /\ call[c].key = k
    /\ \A k \in Keys : waiters[k] # {} => Executing(k) # {}

\* A processing record belongs to a call that is executing.
RecordOwned ==
    \A k \in Keys : store[k].status = "processing" => store[k].by \in Executing(k)

\* An execution past its ttl has been noticed, and unless there is one the
\* record of the key belongs to whoever executes.
OwnerWithinTtl ==
    /\ \A c \in Calls : call[c].pc = "executing" /\ call[c].start + Ttl < now => c \in outlived
    /\ \A k \in Keys : \A c \in Executing(k) :
        store[k] = [status |-> "processing", by |-> c, expiresAt |-> call[c].start + Ttl]
        \/ OutlivedOn(k)

\* Calls have an outcome once they have returned, and a cached response has
\* been returned by the call that produced it.
ResponsesReturned ==
    /\ \A c \in Calls : call[c].pc # "returned" => call[c].outcome = "none"
    /\ \A k \in Keys : store[k].status = "completed" =>
        LET d == store[k].by IN
        d \in Calls /\ call[d].key = k /\ call[d].from = d /\ call[d].outcome = "value"

IInv == TypeOK /\ WaitersHeard /\ RecordOwned /\ OwnerWithinTtl /\ ResponsesReturned /\ AnswerIsGenuine

\* Nobody has called yet: every part of the invariant holds for want of calls.
LEMMA InitIInv == Init => IInv
<1> SUFFICES ASSUME Init PROVE IInv
  OBVIOUS
<1>1. \A c \in Calls : call[c].pc = "idle" /\ call[c].outcome = "none"
  BY DEF Init
<1>2. TypeOK
  BY IdempotencyAssumption DEF IdempotencyAssumption, Init, TypeOK, Records, NoRecord, CallStates, Outcomes
<1>3. \A k \in Keys : store[k].status = "none" /\ waiters[k] = {} /\ Executing(k) = {}
  BY <1>1 DEF Init, NoRecord, Executing
<1> QED BY <1>1, <1>2, <1>3
        DEF IInv, WaitersHeard, RecordOwned, OwnerWithinTtl, ResponsesReturned, AnswerIsGenuine
-----------------------------------------------------------------------------
(* What the actions do to one call at a time.                              *)

\* An answer changes what a call has got, never which key it is about.
LEMMA AnswerFacts ==
    ASSUME TypeOK, NEW c \in Calls, NEW o \in Outcomes, NEW f \in Calls \cup {NoCall}
    PROVE  LET a == Answer(c, o, f) IN
           /\ a \in CallStates /\ a.pc = "returned" /\ a.outcome = o /\ a.from = f
           /\ a.key = call[c].key /\ a.start = call[c].start
BY DEF TypeOK, CallStates, Answer

\* The actions that answer a single call, in one form; a value can only be
\* the cached one.
LEMMA AnswersOne ==
    ASSUME TypeOK, NEW c \in Calls, ReplyFromCache(c) \/ Reject(c) \/ WaitTimeout(c)
    PROVE  \E o \in Outcomes, f \in Calls \cup {NoCall} :
               /\ call' = [call EXCEPT ![c] = Answer(c, o, f)]
               /\ o \in {"value", "error"} =>
                    /\ store[call[c].key].status = "completed"
                    /\ o = "value" /\ f = store[call[c].key].by
<1> USE DEF Outcomes
<1>1. store[call[c].key].by \in Calls \cup {NoCall}
  BY DEF TypeOK, CallStates, Records
<1>2. CASE ReplyFromCache(c)
  <2>1. call' = [call EXCEPT ![c] = Answer(c, "value", store[call[c].key].by)]
    BY <1>2 DEF ReplyFromCache
  <2> QED BY <1>1, <1>2, <2>1 DEF ReplyFromCache
<1>3. CASE Reject(c)
  <2>1. call' = [call EXCEPT ![c] = Answer(c, "conflict", NoCall)]
    BY <1>3 DEF Reject
  <2> QED BY <2>1
<1>4. CASE WaitTimeout(c)
  <2>1. call' = [call EXCEPT ![c] = Answer(c, "timeout", NoCall)]
    BY <1>4 DEF WaitTimeout
  <2> QED BY <2>1
<1> QED BY <1>2, <1>3, <1>4

\* Both ways an execution can end, in one form.
LEMMA SettlesAll ==
    ASSUME NEW c \in Calls, Succeed(c) \/ Fail(c)
    PROVE  \E status \in {"completed", "failed"}, outcome \in {"value", "error"} :
               Settle(c, status, outcome) /\ (status = "completed" <=> outcome = "value")
BY DEF Succeed, Fail

\* Every action keeps the types.
LEMMA NextTypeOK == TypeOK /\ [Next]_vars => TypeOK'
<1> SUFFICES ASSUME TypeOK, [Next]_vars PROVE TypeOK'
  OBVIOUS
<1> USE IdempotencyAssumption DEF IdempotencyAssumption, TypeOK
<1>1. CASE Tick
  BY <1>1 DEF Tick
<1>2. ASSUME NEW c \in Calls, ReplyFromCache(c) PROVE TypeOK'
  <2>1. store[call[c].key] \in Records
    BY DEF CallStates
  <2>2. store[call[c].key].by \in Calls \cup {NoCall}
    BY <2>1 DEF Records
  <2>3. Answer(c, "value", store[call[c].key].by) \in CallStates
    BY <2>2, AnswerFacts DEF Outcomes
  <2> QED BY <1>2, <2>3 DEF ReplyFromCache
<1>3. ASSUME NEW c \in Calls, Reject(c) PROVE TypeOK'
  <2>1. Answer(c, "conflict", NoCall) \in CallStates
    BY AnswerFacts DEF Outcomes
  <2> QED BY <1>3, <2>1 DEF Reject
<1>4. ASSUME NEW c \in Calls, Wait(c) PROVE TypeOK'
  BY <1>4 DEF Wait, CallStates
<1>5. ASSUME NEW c \in Calls, Begin(c) PROVE TypeOK'
  <2>1. [status |-> "processing", by |-> c, expiresAt |-> now + Ttl] \in Records
    BY DEF Records
  <2>2. [call[c] EXCEPT !.pc = "executing", !.start = now] \in CallStates
    BY DEF CallStates
  <2>3. call' = [call EXCEPT ![c] = [call[c] EXCEPT !.pc = "executing", !.start = now]]
    BY <1>5 DEF Begin, CallStates
  <2> QED BY <1>5, <2>1, <2>2, <2>3 DEF Begin
<1>6. ASSUME NEW c \in Calls, Succeed(c) \/ Fail(c) PROVE TypeOK'
  <2>1. PICK status \in {"completed", "failed"}, outcome \in {"value", "error"} :
            Settle(c, status, outcome)
    BY <1>6, SettlesAll
  <2>2. [status |-> status, by |-> c, expiresAt |-> call[c].start + Ttl] \in Records
    BY DEF Records, CallStates
  <2>3. \A d \in Calls : Answer(d, outcome, c) \in CallStates
    BY AnswerFacts DEF Outcomes
  <2> QED BY <2>1, <2>2, <2>3 DEF Settle
<1>7. ASSUME NEW c \in Calls, WaitTimeout(c) PROVE TypeOK'
  <2>1. Answer(c, "timeout", NoCall) \in CallStates
    BY AnswerFacts DEF Outcomes
  <2> QED BY <1>7, <2>1 DEF WaitTimeout
<1>8. CASE Cleanup
  BY <1>8 DEF Cleanup, NoRecord, Records
<1>9. CASE UNCHANGED vars
  BY <1>9 DEF vars
<1> QED BY <1>1, <1>2, <1>3, <1>4, <1>5, <1>6, <1>7, <1>8, <1>9 DEF Next

\* The calls other than those an action answers, and the keys, stay as they are.
Untouched(S) == \A d \in Calls \ S : call'[d] = call[d]

\* Keys never change, and what has outlived its ttl stays outlived.
LEMMA Frame ==
    ASSUME TypeOK, [Next]_vars
    PROVE  /\ \A d \in Calls : call'[d].key = call[d].key
           /\ outlived \subseteq outlived'
           /\ \A k \in Keys : OutlivedOn(k) => OutlivedOn(k)'
<1> USE DEF TypeOK
<1>1. outlived \subseteq outlived'
  BY DEF Next, Tick, ReplyFromCache, Reject, Wait, Begin, Succeed, Fail, Settle, WaitTimeout, Cleanup, vars
<1>2. \A d \in Calls : call'[d].key = call[d].key
  <2>1. CASE Tick \/ Cleanup \/ UNCHANGED vars
    BY <2>1 DEF Tick, Cleanup, vars
  <2>2. ASSUME NEW c \in Calls, ReplyFromCache(c) \/ Reject(c) \/ WaitTimeout(c)
        PROVE  \A d \in Calls : call'[d].key = call[d].key
    <3>1. PICK o \in Outcomes, f \in Calls \cup {NoCall} : call' = [call EXCEPT ![c] = Answer(c, o, f)]
      BY <2>2, AnswersOne
    <3> QED BY <3>1, AnswerFacts
  <2>3. ASSUME NEW c \in Calls, Wait(c) \/ Begin(c)
        PROVE  \A d \in Calls : call'[d].key = call[d].key
    BY <2>3 DEF Wait, Begin, CallStates
  <2>4. ASSUME NEW c \in Calls, Succeed(c) \/ Fail(c)
        PROVE  \A d \in Calls : call'[d].key = call[d].key
    <3>1. PICK status \in {"completed", "failed"}, outcome \in {"value", "error"} :
              Settle(c, status, outcome)
      BY <2>4, SettlesAll
    <3>2. outcome \in Outcomes
      BY DEF Outcomes
    <3> QED BY <3>1, <3>2, AnswerFacts DEF Settle
  <2> QED BY <2>1, <2>2, <2>3, <2>4 DEF Next
<1> QED BY <1>1, <1>2 DEF OutlivedOn
-----------------------------------------------------------------------------
\* A call that is answered at once, or whose timer fires, leaves executions
\* and records alone.
LEMMA AnsweredAlone ==
    ASSUME IInv, NEW c \in Calls, ReplyFromCache(c) \/ Reject(c) \/ WaitTimeout(c)
    PROVE  IInv'
<1> DEFINE k == call[c].key
<1>1. TypeOK' /\ k \in Keys /\ [Next]_vars
  BY NextTypeOK DEF IInv, Next, TypeOK, CallStates
<1>2. /\ call[c].pc \in {"idle", "waiting"} /\ call'[c].pc = "returned"
      /\ call'[c].outcome \in {"value", "error"} =>
            /\ store[k].status = "completed"
            /\ call'[c].outcome = "value" /\ call'[c].from = store[k].by
  <2>1. PICK o \in Outcomes, f \in Calls \cup {NoCall} :
            /\ call' = [call EXCEPT ![c] = Answer(c, o, f)]
            /\ o \in {"value", "error"} =>
                 store[k].status = "completed" /\ o = "value" /\ f = store[k].by
    BY AnswersOne DEF IInv
  <2>2. call'[c].pc = "returned" /\ call'[c].outcome = o /\ call'[c].from = f
    BY <2>1, AnswerFacts DEF IInv, TypeOK
  <2> QED BY <2>1, <2>2 DEF ReplyFromCache, Reject, WaitTimeout
<1>3. Untouched({c})
  BY DEF IInv, TypeOK, Untouched, ReplyFromCache, Reject, WaitTimeout
<1>4. /\ store' = store /\ now' = now /\ outlived' = outlived
      /\ \A j \in Keys : waiters'[j] \subseteq waiters[j] /\ waiters[j] \subseteq waiters'[j] \cup {c}
  BY DEF IInv, TypeOK, ReplyFromCache, Reject, WaitTimeout
<1>5. \A d \in Calls : call'[d].key = call[d].key
  BY <1>1, Frame DEF IInv
<1>6. \A j \in Keys : Executing(j)' = Executing(j)
  BY <1>2, <1>3, <1>5 DEF Executing, Untouched
<1>7. \A j \in Keys : c \notin waiters'[j]
  BY <1>4, <1>5 DEF IInv, TypeOK, WaitersHeard, ReplyFromCache, Reject, WaitTimeout
<1>8. WaitersHeard'
  <2>1. \A d \in Calls : call'[d].pc = "waiting" => d # c /\ d \in waiters'[call'[d].key]
    BY <1>1, <1>2, <1>3, <1>4, <1>5 DEF IInv, TypeOK, CallStates, WaitersHeard, Untouched
  <2>2. \A j \in Keys : \A d \in waiters'[j] : call'[d].pc = "waiting" /\ call'[d].key = j
    BY <1>1, <1>3, <1>4, <1>7 DEF IInv, TypeOK, WaitersHeard, Untouched
  <2>3. \A j \in Keys : waiters'[j] # {} => Executing(j)' # {}
    BY <1>4, <1>6 DEF IInv, WaitersHeard
  <2> QED BY <2>1, <2>2, <2>3 DEF WaitersHeard
<1>9. RecordOwned'
  BY <1>4, <1>6 DEF IInv, RecordOwned
<1>10. OwnerWithinTtl'
  <2>1. \A d \in Calls : call'[d].pc = "executing" => d # c /\ call'[d] = call[d]
    BY <1>2, <1>3 DEF Untouched
  <2>2. \A d \in Calls : call'[d].pc = "executing" /\ call'[d].start + Ttl < now' => d \in outlived'
    BY <1>4, <2>1 DEF IInv, OwnerWithinTtl
  <2>3. ASSUME NEW j \in Keys, NEW d \in Executing(j)'
        PROVE  store'[j] = [status |-> "processing", by |-> d, expiresAt |-> call'[d].start + Ttl]
               \/ OutlivedOn(j)'
    <3>1. d \in Executing(j) /\ call'[d] = call[d]
      BY <1>6, <2>1 DEF Executing
    <3>2. OutlivedOn(j) => OutlivedOn(j)'
      BY <1>1, Frame DEF IInv
    <3> QED BY <1>4, <3>1, <3>2 DEF IInv, OwnerWithinTtl
  <2> QED BY <2>2, <2>3 DEF OwnerWithinTtl
<1>11. \A d \in Calls : call[d].outcome \in {"value", "error"} => call'[d] = call[d]
  <2>1. \A d \in Calls : call[d].outcome \in {"value", "error"} => d # c
    BY <1>2 DEF IInv, ResponsesReturned
  <2> QED BY <1>3, <2>1 DEF Untouched
<1>12. ResponsesReturned'
  <2>1. \A d \in Calls : call'[d].pc # "returned" => call'[d].outcome = "none"
    BY <1>2, <1>3 DEF IInv, ResponsesReturned, Untouched
  <2> QED BY <1>4, <1>11, <2>1 DEF IInv, ResponsesReturned
<1>13. AnswerIsGenuine'
  <2> SUFFICES ASSUME NEW d \in Calls, call'[d].outcome \in {"value", "error"}
               PROVE  LET e == call'[d].from IN
                      e \in Calls /\ call'[e].key = call'[d].key /\ call'[e].from = e
                      /\ call'[e].outcome = call'[d].outcome
    BY DEF AnswerIsGenuine
  <2>1. CASE d = c
    <3> DEFINE e == store[k].by
    <3>1. e \in Calls /\ call[e].key = k /\ call[e].from = e /\ call[e].outcome = "value"
      BY <1>1, <1>2, <2>1 DEF IInv, ResponsesReturned
    <3>2. call'[e] = call[e] /\ call'[d].from = e /\ call'[d].outcome = "value" /\ call'[d].key = k
      BY <1>2, <1>5, <1>11, <2>1, <3>1
    <3> QED BY <3>1, <3>2
  <2>2. CASE d # c
    BY <1>3, <1>11, <2>2 DEF IInv, AnswerIsGenuine, Untouched
  <2> QED BY <2>1, <2>2
<1> QED BY <1>1, <1>8, <1>9, <1>10, <1>12, <1>13 DEF IInv

\* A call that finds the key being processed joins the waiters of a live
\* execution.
LEMMA WaitKeeps == ASSUME IInv, NEW c \in Calls, Wait(c) PROVE IInv'
<1> PICK k \in Keys : k = call[c].key
  BY DEF IInv, TypeOK, CallStates
<1>1. TypeOK' /\ [Next]_vars
  BY NextTypeOK DEF IInv, Next, TypeOK, CallStates
<1>2. /\ call[c].pc = "idle" /\ call[c].outcome = "none"
      /\ call'[c].pc = "waiting" /\ call'[c].outcome = "none"
  BY DEF IInv, TypeOK, CallStates, ResponsesReturned, Wait
<1>3. /\ store' = store /\ now' = now /\ outlived' = outlived
      /\ waiters' = [waiters EXCEPT ![k] = @ \cup {c}]
  BY DEF Wait
<1>4. Untouched({c})
  BY DEF IInv, TypeOK, Untouched, Wait
<1>5. \A d \in Calls : call'[d].key = call[d].key
  BY <1>1, Frame DEF IInv
<1>6. \A j \in Keys : Executing(j)' = Executing(j)
  BY <1>2, <1>4, <1>5 DEF Executing, Untouched
<1>7. WaitersHeard'
  <2>1. \A d \in Calls : call'[d].pc = "waiting" => d \in waiters'[call'[d].key]
    BY <1>1, <1>3, <1>4, <1>5 DEF IInv, TypeOK, CallStates, WaitersHeard, Untouched
  <2>2. \A j \in Keys : \A d \in waiters'[j] : call'[d].pc = "waiting" /\ call'[d].key = j
    BY <1>1, <1>2, <1>3, <1>4, <1>5 DEF IInv, TypeOK, WaitersHeard, Untouched
  <2>3. Executing(k) # {}
    BY <1>1 DEF IInv, RecordOwned, Wait
  <2>4. \A j \in Keys : waiters'[j] # {} => Executing(j)' # {}
    BY <1>1, <1>3, <1>6, <2>3 DEF IInv, TypeOK, WaitersHeard
  <2> QED BY <2>1, <2>2, <2>4 DEF WaitersHeard
<1>8. RecordOwned'
  BY <1>3, <1>6 DEF IInv, RecordOwned
<1>9. OwnerWithinTtl'
  <2>1. \A d \in Calls : call'[d].pc = "executing" => call'[d] = call[d]
    BY <1>2, <1>4 DEF Untouched
  <2>2. \A d \in Calls : call'[d].pc = "executing" /\ call'[d].start + Ttl < now' => d \in outlived'
    BY <1>3, <2>1 DEF IInv, OwnerWithinTtl
  <2>3. ASSUME NEW j \in Keys, NEW d \in Executing(j)'
        PROVE  store'[j] = [status |-> "processing", by |-> d, expiresAt |-> call'[d].start + Ttl]
               \/ OutlivedOn(j)'
    <3>1. d \in Executing(j) /\ call'[d] = call[d]
      BY <1>6, <2>1 DEF Executing
    <3>2. OutlivedOn(j) => OutlivedOn(j)'
      BY <1>1, Frame DEF IInv
    <3> QED BY <1>3, <3>1, <3>2 DEF IInv, OwnerWithinTtl
  <2> QED BY <2>2, <2>3 DEF OwnerWithinTtl
<1>10. \A d \in Calls : call[d].outcome \in {"value", "error"} => call'[d] = call[d]
  BY <1>2, <1>4 DEF Untouched
<1>11. ResponsesReturned'
  <2>1. \A d \in Calls : call'[d].pc # "returned" => call'[d].outcome = "none"
    BY <1>2, <1>4 DEF IInv, ResponsesReturned, Untouched
  <2> QED BY <1>3, <1>10, <2>1 DEF IInv, ResponsesReturned
<1>12. AnswerIsGenuine'
  BY <1>2, <1>4, <1>10 DEF IInv, AnswerIsGenuine, Untouched
<1> QED BY <1>1, <1>7, <1>8, <1>9, <1>11, <1>12 DEF IInv

\* A call that begins to execute finds nobody executing within the ttl.
LEMMA BeginKeeps == ASSUME IInv, NEW c \in Calls, Begin(c) PROVE IInv'
<1> PICK k \in Keys : k = call[c].key
  BY DEF IInv, TypeOK, CallStates
<1>1. TypeOK' /\ [Next]_vars
  BY NextTypeOK DEF IInv, Next, TypeOK, CallStates
<1>2. /\ call[c].pc = "idle" /\ call[c].outcome = "none"
      /\ call'[c].pc = "executing" /\ call'[c].outcome = "none"
      /\ call'[c].start = now
  BY DEF IInv, TypeOK, CallStates, ResponsesReturned, Begin
<1>3. /\ now' = now /\ outlived' = outlived /\ waiters' = waiters
      /\ store[k].status \in {"none", "failed"}
      /\ store' = [store EXCEPT ![k] = [status |-> "processing", by |-> c, expiresAt |-> now + Ttl]]
  BY DEF Begin
<1>4. Untouched({c})
  BY DEF IInv, TypeOK, Untouched, Begin
<1>5. \A d \in Calls : call'[d].key = call[d].key
  BY <1>1, Frame DEF IInv
<1>6. /\ Executing(k)' = Executing(k) \cup {c}
      /\ \A j \in Keys : j # k => Executing(j)' = Executing(j)
  BY <1>2, <1>4, <1>5 DEF Executing, Untouched
<1>7. WaitersHeard'
  <2>1. \A d \in Calls : call'[d].pc = "waiting" => d \in waiters'[call'[d].key]
    BY <1>2, <1>3, <1>4, <1>5 DEF IInv, WaitersHeard, Untouched
  <2>2. \A j \in Keys : \A d \in waiters'[j] : call'[d].pc = "waiting" /\ call'[d].key = j
    BY <1>1, <1>2, <1>3, <1>4, <1>5 DEF IInv, TypeOK, WaitersHeard, Untouched
  <2>3. \A j \in Keys : waiters'[j] # {} => Executing(j)' # {}
    <3> SUFFICES ASSUME NEW j \in Keys, waiters'[j] # {} PROVE Executing(j)' # {}
      OBVIOUS
    <3>1. Executing(j) # {}
      BY <1>3 DEF IInv, WaitersHeard
    <3>2. CASE j = k
      BY <1>6, <3>2 DEF Executing
    <3>3. CASE j # k
      BY <1>6, <3>1, <3>3
    <3> QED BY <3>2, <3>3
  <2> QED BY <2>1, <2>2, <2>3 DEF WaitersHeard
<1>8. RecordOwned'
  <2>1. store'[k].by = c /\ \A j \in Keys : j # k => store'[j] = store[j]
    BY <1>1, <1>3 DEF IInv, TypeOK
  <2>2. c \in Executing(k)'
    BY <1>6
  <2>3. \A j \in Keys : j # k /\ store'[j].status = "processing" => store'[j].by \in Executing(j)'
    BY <1>6, <2>1 DEF IInv, RecordOwned
  <2> QED BY <2>1, <2>2, <2>3 DEF RecordOwned, Executing
<1>9. OwnerWithinTtl'
  <2>1. \A d \in Calls : call'[d].pc = "executing" /\ call'[d].start + Ttl < now' => d \in outlived'
    <3>1. ~(call'[c].start + Ttl < now')
      BY <1>2, <1>3, IdempotencyAssumption DEF IInv, TypeOK, IdempotencyAssumption
    <3> QED BY <1>3, <1>4, <3>1 DEF IInv, OwnerWithinTtl, Untouched
  <2>2. ASSUME NEW j \in Keys, NEW d \in Executing(j)'
        PROVE  store'[j] = [status |-> "processing", by |-> d, expiresAt |-> call'[d].start + Ttl]
               \/ OutlivedOn(j)'
    <3>1. OutlivedOn(j) => OutlivedOn(j)'
      BY <1>1, Frame DEF IInv
    <3>2. CASE d = c
      <4>1. j = k
        BY <1>5, <3>2 DEF Executing
      <4> QED BY <1>1, <1>2, <1>3, <3>2, <4>1 DEF IInv, TypeOK
    <3>3. CASE d # c
      <4>1. d \in Executing(j) /\ call'[d] = call[d]
        BY <1>4, <3>3 DEF Executing, Untouched
      <4>2. j = k => OutlivedOn(j)
        <5>1. \/ store[j] = [status |-> "processing", by |-> d, expiresAt |-> call[d].start + Ttl]
              \/ OutlivedOn(j)
          BY <4>1 DEF IInv, OwnerWithinTtl
        <5>2. CASE store[j] = [status |-> "processing", by |-> d, expiresAt |-> call[d].start + Ttl]
          BY <1>3, <5>2
        <5> QED BY <5>1, <5>2
      <4>3. j # k => store'[j] = store[j]
        BY <1>3 DEF IInv, TypeOK
      <4> QED BY <3>1, <4>1, <4>2, <4>3 DEF IInv, OwnerWithinTtl
    <3> QED BY <3>2, <3>3
  <2> QED BY <2>1, <2>2 DEF OwnerWithinTtl
<1>10. \A d \in Calls : call[d].outcome \in {"value", "error"} => call'[d] = call[d]
  BY <1>2, <1>4 DEF Untouched
<1>11. ResponsesReturned'
  <2>1. \A d \in Calls : call'[d].pc # "returned" => call'[d].outcome = "none"
    BY <1>2, <1>4 DEF IInv, ResponsesReturned, Untouched
  <2>2. store'[k].status = "processing" /\ \A j \in Keys : j # k => store'[j] = store[j]
    BY <1>1, <1>3 DEF IInv, TypeOK
  <2> QED BY <1>10, <2>1, <2>2 DEF IInv, ResponsesReturned
<1>12. AnswerIsGenuine'
  BY <1>2, <1>4, <1>10 DEF IInv, AnswerIsGenuine, Untouched
<1> QED BY <1>1, <1>7, <1>8, <1>9, <1>11, <1>12 DEF IInv

\* The end of an execution, its own or not, answers all the waiters of its key.
LEMMA SettleKeeps == ASSUME IInv, NEW c \in Calls, Succeed(c) \/ Fail(c) PROVE IInv'
<1> PICK k \in Keys : k = call[c].key
  BY DEF IInv, TypeOK, CallStates
<1>1. TypeOK' /\ [Next]_vars
  BY NextTypeOK DEF IInv, Next
<1>2. PICK status \in {"completed", "failed"}, outcome \in {"value", "error"} :
          Settle(c, status, outcome) /\ (status = "completed" <=> outcome = "value")
  BY SettlesAll
<1>3. /\ now' = now /\ outlived' = outlived
      /\ waiters' = [waiters EXCEPT ![k] = {}]
      /\ store' = [store EXCEPT ![k] = [status |-> status, by |-> c, expiresAt |-> call[c].start + Ttl]]
      /\ call[c].pc = "executing" /\ call[c].outcome = "none"
  BY <1>2 DEF Settle, IInv, ResponsesReturned
<1>4. store'[k].status = status /\ store'[k].by = c /\ \A j \in Keys : j # k => store'[j] = store[j]
  BY <1>3 DEF IInv, TypeOK
<1>5. Untouched({c} \cup waiters[k])
  BY <1>2 DEF Settle, Untouched
<1>6. \A d \in {c} \cup waiters[k] : /\ d \in Calls /\ call'[d].pc = "returned"
                                     /\ call'[d].outcome = outcome /\ call'[d].from = c
                                     /\ call[d].outcome = "none"
  <2>1. \A d \in {c} \cup waiters[k] : d \in Calls /\ call'[d] = Answer(d, outcome, c)
    BY <1>2 DEF Settle, IInv, TypeOK
  <2>2. \A d \in waiters[k] : call[d].outcome = "none"
    BY DEF IInv, TypeOK, WaitersHeard, ResponsesReturned
  <2>3. outcome \in Outcomes
    BY DEF Outcomes
  <2> QED BY <1>3, <2>1, <2>2, <2>3, AnswerFacts DEF IInv
<1>7. \A d \in Calls : call'[d].key = call[d].key
  BY <1>1, Frame DEF IInv
<1>8. \A d \in waiters[k] : call[d].key = k /\ call[d].pc = "waiting"
  BY DEF IInv, WaitersHeard
<1>9. /\ Executing(k)' = Executing(k) \ {c}
      /\ \A j \in Keys : j # k => Executing(j)' = Executing(j)
  BY <1>3, <1>5, <1>6, <1>7, <1>8 DEF Executing, Untouched
<1>10. WaitersHeard'
  <2>1. \A d \in Calls : call'[d].pc = "waiting" => d \in waiters'[call'[d].key]
    <3> SUFFICES ASSUME NEW d \in Calls, call'[d].pc = "waiting" PROVE d \in waiters'[call'[d].key]
      OBVIOUS
    <3>1. d \notin {c} \cup waiters[k] /\ call'[d] = call[d]
      BY <1>5, <1>6 DEF Untouched
    <3>2. d \in waiters[call[d].key] /\ call[d].key # k /\ call[d].key \in Keys
      BY <3>1 DEF IInv, TypeOK, CallStates, WaitersHeard
    <3> QED BY <1>3, <3>1, <3>2 DEF IInv, TypeOK
  <2>2. ASSUME NEW j \in Keys, NEW d \in waiters'[j] PROVE call'[d].pc = "waiting" /\ call'[d].key = j
    <3>1. j # k /\ d \in waiters[j]
      BY <1>3, <2>2 DEF IInv, TypeOK
    <3>2. d \in Calls /\ call[d].pc = "waiting" /\ call[d].key = j
      BY <3>1 DEF IInv, TypeOK, WaitersHeard
    <3> QED BY <1>3, <1>5, <1>8, <3>1, <3>2 DEF Untouched
  <2>3. ASSUME NEW j \in Keys, waiters'[j] # {} PROVE Executing(j)' # {}
    <3>1. j # k /\ waiters[j] # {}
      BY <1>3, <2>3 DEF IInv, TypeOK
    <3> QED BY <1>9, <3>1 DEF IInv, WaitersHeard
  <2> QED BY <2>1, <2>2, <2>3 DEF WaitersHeard
<1>11. RecordOwned'
  BY <1>4, <1>9 DEF IInv, RecordOwned
<1>12. OwnerWithinTtl'
  <2>1. \A d \in Calls : call'[d].pc = "executing" => call'[d] = call[d]
    BY <1>5, <1>6 DEF Untouched
  <2>2. \A d \in Calls : call'[d].pc = "executing" /\ call'[d].start + Ttl < now' => d \in outlived'
    BY <1>3, <2>1 DEF IInv, OwnerWithinTtl
  <2>3. ASSUME NEW j \in Keys, NEW d \in Executing(j)'
        PROVE  store'[j] = [status |-> "processing", by |-> d, expiresAt |-> call'[d].start + Ttl]
               \/ OutlivedOn(j)'
    <3>1. d \in Executing(j) /\ call'[d] = call[d] /\ d # c
      BY <1>6, <2>1, <2>3 DEF Executing
    <3>2. OutlivedOn(j) => OutlivedOn(j)'
      BY <1>1, Frame DEF IInv
    <3>3. CASE j # k
      BY <1>4, <3>1, <3>2, <3>3 DEF IInv, OwnerWithinTtl
    <3>4. CASE j = k
      <4>1. c \in Executing(j)
        BY <1>3, <3>4 DEF Executing
      <4>2. \/ /\ store[j] = [status |-> "processing", by |-> d, expiresAt |-> call[d].start + Ttl]
              /\ store[j] = [status |-> "processing", by |-> c, expiresAt |-> call[c].start + Ttl]
            \/ OutlivedOn(j)
        BY <3>1, <4>1 DEF IInv, OwnerWithinTtl
      <4>3. \/ store[j].by = d /\ store[j].by = c
            \/ OutlivedOn(j)
        BY <4>2
      <4> QED BY <3>1, <3>2, <4>3
    <3> QED BY <3>3, <3>4
  <2> QED BY <2>2, <2>3 DEF OwnerWithinTtl
<1>13. \A d \in Calls : call[d].outcome \in {"value", "error"} => call'[d] = call[d]
  BY <1>5, <1>6 DEF Untouched
<1>14. ResponsesReturned'
  <2>1. \A d \in Calls : call'[d].pc # "returned" => call'[d].outcome = "none"
    BY <1>5, <1>6 DEF IInv, ResponsesReturned, Untouched
  <2>2. status = "completed" => call'[c].key = k /\ call'[c].from = c /\ call'[c].outcome = "value"
    BY <1>2, <1>6, <1>7
  <2> QED BY <1>4, <1>13, <2>1, <2>2 DEF IInv, ResponsesReturned
<1>15. AnswerIsGenuine'
  <2> SUFFICES ASSUME NEW d \in Calls, call'[d].outcome \in {"value", "error"}
               PROVE  LET e == call'[d].from IN
                      e \in Calls /\ call'[e].key = call'[d].key /\ call'[e].from = e
                      /\ call'[e].outcome = call'[d].outcome
    BY DEF AnswerIsGenuine
  <2>1. CASE d \in {c} \cup waiters[k]
    BY <1>6, <1>7, <1>8, <2>1
  <2>2. CASE d \notin {c} \cup waiters[k]
    BY <1>5, <1>13, <2>2 DEF IInv, AnswerIsGenuine, Untouched
  <2> QED BY <2>1, <2>2
<1> QED BY <1>1, <1>10, <1>11, <1>12, <1>14, <1>15 DEF IInv

\* Removing an expired record that is still processing means that its
\* execution has outlived the ttl.
LEMMA CleanupKeeps == ASSUME IInv, Cleanup PROVE IInv'
<1>1. TypeOK' /\ call' = call /\ waiters' = waiters /\ now' = now /\ outlived' = outlived
  BY NextTypeOK DEF IInv, Next, Cleanup
<1>2. \A k \in Keys :
         \/ store'[k] = store[k]
         \/ store'[k].status = "none" /\ store[k].expiresAt < now
  <2>1. \A k \in Keys : store'[k] = store[k] \/ (store'[k] = NoRecord /\ store[k].expiresAt < now)
    BY DEF Cleanup
  <2>2. NoRecord.status = "none"
    BY DEF NoRecord
  <2> QED BY <2>1, <2>2
<1>3. WaitersHeard' /\ AnswerIsGenuine'
  BY <1>1 DEF IInv, WaitersHeard, AnswerIsGenuine, Executing
<1>4. RecordOwned' /\ ResponsesReturned'
  BY <1>1, <1>2 DEF IInv, RecordOwned, ResponsesReturned, Executing
<1>5. ASSUME NEW k \in Keys, NEW c \in Executing(k), ~OutlivedOn(k)
      PROVE  store'[k] = [status |-> "processing", by |-> c, expiresAt |-> call[c].start + Ttl]
  <2>1. store[k] = [status |-> "processing", by |-> c, expiresAt |-> call[c].start + Ttl]
    BY <1>5 DEF IInv, OwnerWithinTtl
  <2>2. c \in Calls /\ call[c].pc = "executing" /\ call[c].key = k /\ c \notin outlived
    BY <1>5 DEF Executing, OutlivedOn
  <2>3. ~(store[k].expiresAt < now)
    BY <2>1, <2>2 DEF IInv, OwnerWithinTtl
  <2> QED BY <1>2, <2>1, <2>3
<1>6. OwnerWithinTtl'
  BY <1>1, <1>5 DEF IInv, OwnerWithinTtl, Executing, OutlivedOn
<1> QED BY <1>1, <1>3, <1>4, <1>6 DEF IInv

\* Time only adds to what has been outlived.
LEMMA TickKeeps == ASSUME IInv, Tick PROVE IInv'
<1>1. TypeOK' /\ call' = call /\ waiters' = waiters /\ store' = store
  BY NextTypeOK DEF IInv, Next, Tick
<1>2. \A c \in Calls : call'[c].pc = "executing" /\ call'[c].start + Ttl < now' => c \in outlived'
  BY <1>1 DEF Tick
<1>3. \A k \in Keys : OutlivedOn(k) => OutlivedOn(k)'
  BY Frame DEF IInv, Next
<1>4. \A k \in Keys : Executing(k)' = Executing(k)
  BY <1>1 DEF Executing
<1> QED BY <1>1, <1>2, <1>3, <1>4
        DEF IInv, WaitersHeard, RecordOwned, OwnerWithinTtl, ResponsesReturned, AnswerIsGenuine

\* The invariant is inductive.
LEMMA NextIInv == IInv /\ [Next]_vars => IInv'
<1>1. IInv /\ UNCHANGED vars => IInv'
  BY DEF vars, IInv, TypeOK, WaitersHeard, RecordOwned, OwnerWithinTtl, ResponsesReturned,
         AnswerIsGenuine, Executing, OutlivedOn
<1> QED BY <1>1, TickKeeps, AnsweredAlone, WaitKeeps, BeginKeeps, SettleKeeps, CleanupKeeps DEF Next
-----------------------------------------------------------------------------
\* IInv holds in every reachable state.
THEOREM Invariance == Spec => []IInv
BY InitIInv, NextIInv, PTL DEF Spec

\* The types hold in every reachable state.
THEOREM TypeCorrect == Spec => []TypeOK
<1>1. IInv => TypeOK
  BY DEF IInv
<1> QED BY <1>1, Invariance, PTL

\* However executions, cleanup and timers interleave, a waiting call is
\* registered with a live execution of its key.
THEOREM WaitersHaveAnswerer == Spec => []NoOrphanWaiter
<1>1. IInv => NoOrphanWaiter
  BY DEF IInv, TypeOK, CallStates, WaitersHeard, NoOrphanWaiter
<1> QED BY <1>1, Invariance, PTL

\* Two executions of a key overlap only if one of the key outlived its ttl.
THEOREM MutualExclusion == Spec => []ExclusiveWithinTtl
<1>1. ASSUME IInv, NEW k \in Keys, NEW c \in Executing(k), NEW d \in Executing(k), ~OutlivedOn(k)
      PROVE  c = d
  <2>1. /\ store[k] = [status |-> "processing", by |-> c, expiresAt |-> call[c].start + Ttl]
        /\ store[k] = [status |-> "processing", by |-> d, expiresAt |-> call[d].start + Ttl]
    BY <1>1 DEF IInv, OwnerWithinTtl
  <2>2. store[k].by = c /\ store[k].by = d
    BY <2>1
  <2> QED BY <2>2
<1>2. IInv => ExclusiveWithinTtl
  BY <1>1 DEF ExclusiveWithinTtl
<1> QED BY <1>2, Invariance, PTL

\* A cached response stands until cleanup takes it, or an execution of the key
\* has outlived its ttl.
THEOREM CacheStability == Spec => CachedAnswerStable
<1> DEFINE Stable == \A k \in Keys : store[k].status = "completed" =>
                        store'[k] \in {store[k], NoRecord} \/ OutlivedOn(k)
<1>1. IInv /\ [Next]_vars => [Stable]_vars
  <2> SUFFICES ASSUME IInv, Next, NEW k \in Keys, store[k].status = "completed", ~OutlivedOn(k)
               PROVE  store'[k] \in {store[k], NoRecord}
    OBVIOUS
  <2>1. Executing(k) = {}
    <3> SUFFICES ASSUME NEW c \in Executing(k) PROVE FALSE
      OBVIOUS
    <3>1. store[k] = [status |-> "processing", by |-> c, expiresAt |-> call[c].start + Ttl]
      BY DEF IInv, OwnerWithinTtl
    <3> QED BY <3>1
  <2>2. ASSUME NEW c \in Calls, Begin(c) PROVE store'[k] = store[k]
    BY <2>2 DEF Begin, IInv, TypeOK
  <2>3. ASSUME NEW c \in Calls, Succeed(c) \/ Fail(c) PROVE store'[k] = store[k]
    <3>1. PICK status \in {"completed", "failed"}, outcome \in {"value", "error"} :
              Settle(c, status, outcome)
      BY <2>3, SettlesAll
    <3>2. call[c].key # k
      BY <2>1, <3>1 DEF Settle, Executing
    <3> QED BY <3>1, <3>2 DEF Settle, IInv, TypeOK
  <2>4. CASE Cleanup
    BY <2>4 DEF Cleanup
  <2>5. ASSUME NEW c \in Calls, ReplyFromCache(c) \/ Reject(c) \/ Wait(c) \/ WaitTimeout(c)
        PROVE  store'[k] = store[k]
    BY <2>5 DEF ReplyFromCache, Reject, Wait, WaitTimeout
  <2>6. CASE Tick
    BY <2>6 DEF Tick
  <2> QED BY <2>2, <2>3, <2>4, <2>5, <2>6 DEF Next
<1> QED BY <1>1, Invariance, PTL DEF Spec, CachedAnswerStable

\* Every value and every error a caller gets comes from an execution of its
\* own key that ended that way.
THEOREM GenuineAnswers == Spec => []AnswerIsGenuine
<1>1. IInv => AnswerIsGenuine
  BY DEF IInv
<1> QED BY <1>1, Invariance, PTL

\* Waiters, executions and answers of a key fit together, for any number of calls and keys.
THEOREM SafeHolds == Spec => []Safe
<1>1. TypeOK /\ NoOrphanWaiter /\ ExclusiveWithinTtl /\ AnswerIsGenuine => Safe
  BY DEF Safe
<1> QED BY <1>1, TypeCorrect, WaitersHaveAnswerer, MutualExclusion, GenuineAnswers, PTL
=============================================================================
