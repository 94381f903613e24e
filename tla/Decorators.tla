----------------------------- MODULE Decorators -----------------------------
(***************************************************************************)
(* The decorators that call a function again or not again: once, the three *)
(* retries and the cached property.                                        *)
(***************************************************************************)
EXTENDS Integers, Sequences, FiniteSets

(***************************************************************************)
(* The once decorator (once.py): the wrapper called by several threads.    *)
(* The flag is read without the lock, then under it; what the first call   *)
(* gave, a value or an exception, is stored before the flag is set.        *)
(***************************************************************************)

CONSTANTS Caller, Value, Unset

VARIABLES called, result, exception,
          onceLock, callerAt,
          got,          \* what the caller returned, or raised
          firstGave, executions
onceVars == <<called, result, exception, onceLock, callerAt, got, firstGave, executions>>

Raised(v) == [raised |-> v]
Outcome == {Value, Raised(Value)}
ASSUME OnceAssumption == Unset \notin Caller \cup Outcome /\ Value # Raised(Value)

OnceInit ==
  /\ called = FALSE /\ result = Unset /\ exception = Unset
  /\ onceLock = Unset /\ callerAt = [c \in Caller |-> "start"]
  /\ got = [c \in Caller |-> Unset] /\ firstGave = Unset /\ executions = 0

Goes(c, place) == callerAt' = [callerAt EXCEPT ![c] = place]
Ends(c, outcome) == Goes(c, "ended") /\ got' = [got EXCEPT ![c] = outcome]

\* `called and exception is None`: two reads, then the result.
ReadCalled(c) ==
  /\ callerAt[c] = "start" /\ Goes(c, IF called THEN "check" ELSE "lock")
  /\ UNCHANGED <<called, result, exception, onceLock, got, firstGave, executions>>

FlagIsEnough(c) == TRUE
NoException(c) == exception = Unset
ReadException(c) ==
  /\ callerAt[c] = "check"
  /\ IF NoException(c) THEN Ends(c, result) ELSE Goes(c, "lock") /\ UNCHANGED got
  /\ UNCHANGED <<called, result, exception, onceLock, firstGave, executions>>

TakeOnceLock(c) ==
  /\ callerAt[c] = "lock" /\ onceLock = Unset
  /\ onceLock' = c /\ Goes(c, "locked")
  /\ UNCHANGED <<called, result, exception, got, firstGave, executions>>

CheckAgain(c) ==
  /\ callerAt[c] = "locked"
  /\ IF called
     THEN /\ Ends(c, IF exception # Unset THEN exception ELSE result)
          /\ onceLock' = Unset
     ELSE Goes(c, "call") /\ UNCHANGED <<onceLock, got>>
  /\ UNCHANGED <<called, result, exception, firstGave, executions>>

CallFunction(c) ==
  /\ callerAt[c] = "call"
  /\ \E outcome \in Outcome : firstGave' = outcome
  /\ executions' = executions + 1
  /\ Goes(c, "store")
  /\ UNCHANGED <<called, result, exception, onceLock, got>>

Store == IF firstGave = Value THEN result' = firstGave /\ UNCHANGED <<exception, called>>
                              ELSE exception' = firstGave /\ UNCHANGED <<result, called>>
SetFlag == called' = TRUE /\ UNCHANGED <<result, exception>>
StoreOutcome(c) ==
  /\ callerAt[c] = "store"
  /\ Store /\ Goes(c, "flag")
  /\ UNCHANGED <<onceLock, got, firstGave, executions>>

SetCalled(c) ==
  /\ callerAt[c] = "flag"
  /\ SetFlag /\ Ends(c, firstGave)
  /\ onceLock' = Unset
  /\ UNCHANGED <<firstGave, executions>>

OnceStep(c) == \/ ReadCalled(c) \/ ReadException(c) \/ TakeOnceLock(c) \/ CheckAgain(c)
               \/ CallFunction(c) \/ StoreOutcome(c) \/ SetCalled(c)
OnceNext == \E c \in Caller : OnceStep(c)
OnceSpec == OnceInit /\ [][OnceNext]_onceVars
----------------------------------------------------------------------------
\* The function runs once at most and every caller, by the fast path or under the lock, ends
\* with what that run gave: the value, or its exception.
OneRunForAll ==
  /\ executions <= 1
  /\ \A c \in Caller : callerAt[c] = "ended" => got[c] = firstGave /\ firstGave # Unset

----------------------------------------------------------------------------
(***************************************************************************)
(* The three retries: the decorator (retry.py), its asynchronous twin      *)
(* (async_retry.py) and RetryPolicy.run / run_async.  The policy is chosen *)
(* at the start, the outcome of every attempt as it happens.  Times are    *)
(* multiples of the unit the delays are given in.                          *)
(***************************************************************************)

CONSTANTS MaxAttemptsInputs, Delays, Backoffs, MaxDelays, Jitters,
          Unbounded                 \* max_delay is None
ASSUME RetryAssumption ==
  /\ MaxAttemptsInputs \subseteq Int /\ Delays \subseteq Int /\ Backoffs \subseteq Int /\ Jitters \subseteq Int
  /\ MaxDelays \subseteq Int /\ Unbounded \notin Int

VARIABLES flavour,                  \* "decorator", "async" or "policy"
          retryPolicy, attempt, currentDelay, sleeps, retryAt, failure
retryVars == <<flavour, retryPolicy, attempt, currentDelay, sleeps, retryAt, failure>>

Policies == [max_attempts : MaxAttemptsInputs, delay : Delays, backoff : Backoffs,
             max_delay : MaxDelays \cup {Unbounded}, jitter : Jitters]

\* range(1, max_attempts + 1); max_attempts <= 0 is refused when the policy is made.
RetryInit ==
  /\ flavour \in {"decorator", "async", "policy"}
  /\ retryPolicy \in Policies
  /\ flavour # "policy" => retryPolicy.max_delay = Unbounded
  /\ IF retryPolicy.max_attempts <= 0 THEN retryAt = "refused" ELSE retryAt = "call"
  /\ attempt = 1 /\ currentDelay = retryPolicy.delay /\ sleeps = <<>> /\ failure = "none"

Returns ==
  /\ retryAt = "call" /\ retryAt' = "returned"
  /\ UNCHANGED <<flavour, retryPolicy, attempt, currentDelay, sleeps, failure>>

\* An exception of a type that is not listed goes through at once.
RaisesOther ==
  /\ retryAt = "call" /\ retryAt' = "raised" /\ failure' = "other"
  /\ UNCHANGED <<flavour, retryPolicy, attempt, currentDelay, sleeps>>

RaisesListed ==
  /\ retryAt = "call" /\ failure' = "listed"
  /\ retryAt' = IF flavour = "policy" THEN "failed" ELSE "on_error"
  /\ UNCHANGED <<flavour, retryPolicy, attempt, currentDelay, sleeps>>

\* The callback of the decorators is called before the last attempt is recognised, and what it
\* raises itself ends the retrying.
OnError ==
  /\ retryAt = "on_error"
  /\ \/ retryAt' = "failed" /\ UNCHANGED failure
     \/ retryAt' = "raised" /\ failure' = "callback"
  /\ UNCHANGED <<flavour, retryPolicy, attempt, currentDelay, sleeps>>

Power(base, n) == LET power[k \in Nat] == IF k = 0 THEN 1 ELSE power[k - 1] * base IN power[n]
Capped(d) == IF retryPolicy.max_delay # Unbounded /\ retryPolicy.max_delay < d THEN retryPolicy.max_delay ELSE d
PolicyDelay(a) == Capped(retryPolicy.delay * Power(retryPolicy.backoff, a - 1))

\* The jitter is added after the delay was capped.
SleepTime(jitter) == (IF flavour = "policy" THEN PolicyDelay(attempt) ELSE currentDelay) + jitter

IsLast(a) == a = retryPolicy.max_attempts
GiveUp ==
  /\ retryAt = "failed" /\ IsLast(attempt) /\ retryAt' = "raised"
  /\ UNCHANGED <<flavour, retryPolicy, attempt, currentDelay, sleeps, failure>>

SleepAndRetry ==
  /\ retryAt = "failed" /\ ~IsLast(attempt)
  /\ \E jitter \in 0..retryPolicy.jitter : sleeps' = Append(sleeps, SleepTime(jitter))
  /\ currentDelay' = currentDelay * retryPolicy.backoff
  /\ attempt' = attempt + 1 /\ retryAt' = "call"
  /\ UNCHANGED <<flavour, retryPolicy, failure>>

RetryStep == Returns \/ RaisesOther \/ RaisesListed \/ OnError \/ GiveUp \/ SleepAndRetry
RetrySpec == RetryInit /\ [][RetryStep]_retryVars
----------------------------------------------------------------------------
\* The wait before attempt k + 1 that the documentation gives: exponential, up to the jitter.
Exponential(k) == Capped(retryPolicy.delay * Power(retryPolicy.backoff, k - 1))

\* Whichever way it is written, a retry calls at most max_attempts times with one exponential
\* wait between two calls; it raises the listed exception only when all attempts are used up,
\* and what is not listed right away.
RetriesAsDocumented ==
  /\ retryAt = "call" => attempt <= retryPolicy.max_attempts
  /\ Len(sleeps) = attempt - 1
  /\ \A k \in DOMAIN sleeps : sleeps[k] \in Exponential(k)..(Exponential(k) + retryPolicy.jitter)
  /\ retryAt = "raised" /\ failure = "listed" => attempt = retryPolicy.max_attempts

----------------------------------------------------------------------------
(***************************************************************************)
(* The cached_property descriptor (cached_property.py): one reentrant lock *)
(* per descriptor, shared by all the instances of the class.  The getter   *)
(* of a property may read one other property, of the same or of another    *)
(* instance, and may raise; no getter needs itself.                        *)
(***************************************************************************)

CONSTANTS Reader, Property, NumInstances,
          MaxNeeds          \* bounds the properties that read another one
ASSUME PropertyAssumption == IsFiniteSet(Property) /\ NumInstances \in Nat /\ Unset \notin Reader

VARIABLES needs,            \* what each property of each instance reads, NoCell for nothing
          dict,             \* instance and property -> the number of the computation stored, 0 for none
          propertyLock,     \* property -> the reader that holds it
          getting,            \* reader -> its calls of __get__ one inside the other: [cell, at]
          read,             \* reader -> what it asked for and got
          computations      \* how many getters have returned
propertyVars == <<needs, dict, propertyLock, getting, read, computations>>

Cell == (1..NumInstances) \X Property
NoCell == <<0>>
\* No getter needs itself, however far down: ranks fall from a property to what it reads.
Rank == [Cell -> 1..Cardinality(Cell)]
Falls(f, rank) == \A cell \in Cell : f[cell] # NoCell => rank[f[cell]] < rank[cell]

Getters == {f \in [Cell -> Cell \cup {NoCell}] :
              Cardinality({cell \in Cell : f[cell] # NoCell}) <= MaxNeeds /\ \E rank \in Rank : Falls(f, rank)}

PropertyInit ==
  /\ needs \in Getters
  /\ dict = [cell \in Cell |-> 0] /\ propertyLock = [p \in Property |-> Unset]
  /\ getting = [r \in Reader |-> <<>>] /\ read = [r \in Reader |-> <<>>] /\ computations = 0

Get(cell) == [cell |-> cell, at |-> "lock"]
TopCall(r) == getting[r][Len(getting[r])]
Outer(r) == SubSeq(getting[r], 1, Len(getting[r]) - 1)
In(r, place) == getting[r] # <<>> /\ TopCall(r).at = place
At(r, place) == [getting EXCEPT ![r] = Append(Outer(r), [TopCall(r) EXCEPT !.at = place])]
StillHeld(stack) == {stack[k].cell[2] : k \in DOMAIN stack}

\* The with block ends: the lock is free when no outer call of the reader holds it.
Unlocked(r, stack) ==
  [p \in Property |-> IF propertyLock[p] = r /\ p \notin StillHeld(stack) THEN Unset ELSE propertyLock[p]]

\* __get__ returns to the getter that called it, or to the reader.
ReturnTo(r, number) ==
  /\ getting' = [getting EXCEPT ![r] = IF Outer(r) = <<>> THEN <<>>
                                   ELSE [Outer(r) EXCEPT ![Len(Outer(r))].at = "return"]]
  /\ propertyLock' = Unlocked(r, Outer(r))
  /\ read' = IF Outer(r) = <<>> THEN [read EXCEPT ![r] = <<TopCall(r).cell, number>>] ELSE read

Access(r) ==
  /\ getting[r] = <<>> /\ read[r] = <<>>
  /\ \E cell \in Cell : getting' = [getting EXCEPT ![r] = <<Get(cell)>>]
  /\ UNCHANGED <<needs, dict, propertyLock, read, computations>>

TakePropertyLock(r) ==
  /\ In(r, "lock") /\ propertyLock[TopCall(r).cell[2]] \in {Unset, r}
  /\ propertyLock' = [propertyLock EXCEPT ![TopCall(r).cell[2]] = r]
  /\ getting' = At(r, "look")
  /\ UNCHANGED <<needs, dict, read, computations>>

\* cache[self.name], or the getter is called, which may first read what it needs.
Look(r) ==
  /\ In(r, "look")
  /\ LET cell == TopCall(r).cell
     IN  IF dict[cell] # 0 THEN ReturnTo(r, dict[cell])
         ELSE /\ getting' = IF needs[cell] = NoCell THEN At(r, "return")
                          ELSE [getting EXCEPT ![r] = Append(@, Get(needs[cell]))]
              /\ UNCHANGED <<propertyLock, read>>
  /\ UNCHANGED <<needs, dict, computations>>

GetterReturns(r) ==
  /\ In(r, "return")
  /\ computations' = computations + 1
  /\ dict' = [dict EXCEPT ![TopCall(r).cell] = computations + 1]
  /\ ReturnTo(r, computations + 1)
  /\ UNCHANGED needs

\* The exception leaves every call of the reader; nothing is stored.
GetterRaises(r) ==
  /\ In(r, "return")
  /\ getting' = [getting EXCEPT ![r] = <<>>] /\ propertyLock' = Unlocked(r, <<>>)
  /\ read' = [read EXCEPT ![r] = <<getting[r][1].cell, 0>>]
  /\ UNCHANGED <<needs, dict, computations>>

PropertyNext == \E r \in Reader : Access(r) \/ TakePropertyLock(r) \/ Look(r) \/ GetterReturns(r) \/ GetterRaises(r)
PropertySpec == PropertyInit /\ [][PropertyNext]_propertyVars
----------------------------------------------------------------------------
\* The getters read the properties in one order: a property reads itself, on another instance,
\* or an earlier one.
Order == [Property -> 1..Cardinality(Property)]
Ordered(order) ==
  \A cell \in Cell : needs[cell] # NoCell => needs[cell][2] = cell[2] \/ order[needs[cell][2]] < order[cell[2]]

\* A property of an instance is computed once however many threads ask for it, by one thread at
\* a time, and everybody gets that value, unless the getter raised.  As long as the getters read
\* the properties in one order, a reader that another one waits for can only wait for an earlier
\* property than that one: readers never block each other in a circle.
PropertyComputedOnce ==
  LET Computing(r) == {getting[r][k].cell : k \in {k \in DOMAIN getting[r] : getting[r][k].at # "lock"}}
      WaitsFor(r, s) == In(r, "lock") /\ propertyLock[TopCall(r).cell[2]] = s /\ s # r
  IN  /\ computations = Cardinality({cell \in Cell : dict[cell] # 0})
      /\ \A r, s \in Reader : r # s => Computing(r) \cap Computing(s) = {}
      /\ \A r \in Reader : read[r] # <<>> /\ read[r][2] # 0 => dict[read[r][1]] = read[r][2]
      /\ \A r, s, t \in Reader : WaitsFor(r, s) /\ WaitsFor(s, t) =>
           \A order \in Order : Ordered(order) => order[TopCall(s).cell[2]] < order[TopCall(r).cell[2]]

\* The decorators do what they say: a function under once runs once for all its callers, a cached
\* property is computed once per instance, and a retry is bounded, exponential, and silent about
\* nothing but the exceptions it lists.
CallsAsPromised == OneRunForAll /\ PropertyComputedOnce /\ RetriesAsDocumented

\* The decorators side by side.
DecoratorsSpec ==
  /\ OnceInit /\ RetryInit /\ PropertyInit
  /\ [][\/ OnceNext /\ UNCHANGED <<retryVars, propertyVars>>
        \/ RetryStep /\ UNCHANGED <<onceVars, propertyVars>>
        \/ PropertyNext /\ UNCHANGED <<onceVars, retryVars>>]_<<onceVars, retryVars, propertyVars>>
=============================================================================
