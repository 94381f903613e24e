------------------------------ MODULE Memoize ------------------------------
(***************************************************************************)
(* memoize around the recursive fib of its demo, called by several         *)
(* threads.  A call is a frame of the thread's stack: it looks the key up  *)
(* under the lock, computes without it (calling the wrapper again), and    *)
(* stores the result under it.  threading.Lock is not reentrant.           *)
(***************************************************************************)
EXTENDS Integers, SequencesExt

CONSTANTS MemoThread, FibArgs, MemoSize, NoHolder
ASSUME MemoAssumption == FibArgs \subseteq Nat /\ MemoSize \in Nat

VARIABLES memo, memoOrder, holder, stack, asked, answer
memoVars == <<memo, memoOrder, holder, stack, asked, answer>>

\* A frame: the argument, how far the body is, and the sum of the results so far.
Frame(n) == [n |-> n, at |-> "lookup", sum |-> 0]
NoAnswer == -1

MemoInit ==
  /\ memo = <<>> /\ memoOrder = <<>> /\ holder = NoHolder
  /\ asked \in [MemoThread -> FibArgs]
  /\ stack = [t \in MemoThread |-> <<Frame(asked[t])>>]
  /\ answer = [t \in MemoThread |-> NoAnswer]

Top(t) == Last(stack[t])
Recent(k) ==
  LET at == {i \in DOMAIN memoOrder : memoOrder[i] = k}
  IN  Append(IF at = {} THEN memoOrder ELSE RemoveAt(memoOrder, CHOOSE i \in at : TRUE), k)

\* The caller's frame takes a result and goes on.
Resumed(f, result) == [f EXCEPT !.sum = @ + result, !.at = IF @ = "first" THEN "second" ELSE "store"]

\* A frame ends with a result: it goes to the caller's frame, or it is the thread's answer.
Return(t, result) ==
  LET rest == Front(stack[t])
  IN  IF rest = <<>>
      THEN stack' = [stack EXCEPT ![t] = <<>>] /\ answer' = [answer EXCEPT ![t] = result]
      ELSE /\ stack' = [stack EXCEPT ![t] = [rest EXCEPT ![Len(rest)] = Resumed(@, result)]]
           /\ UNCHANGED answer

\* The end of the first `with lock`, hit or miss.
LockKeptWhileComputing(t) == IF Top(t).n \in DOMAIN memo THEN NoHolder ELSE t
AfterLookup(t) == NoHolder

Lookup(t) ==
  /\ stack[t] # <<>> /\ Top(t).at = "lookup"
  /\ holder = NoHolder
  /\ holder' = AfterLookup(t)
  /\ IF Top(t).n \in DOMAIN memo
     THEN Return(t, memo[Top(t).n]) /\ memoOrder' = Recent(Top(t).n)
     ELSE /\ stack' = [stack EXCEPT ![t][Len(stack[t])].at = "compute"]
          /\ UNCHANGED <<memoOrder, answer>>
  /\ UNCHANGED <<memo, asked>>

\* func(n): n below 2, or the calls for n - 1 and n - 2 in turn.
Compute(t) ==
  /\ stack[t] # <<>>
  /\ LET f == Top(t)  i == Len(stack[t])
     IN  \/ /\ f.at = "compute" /\ f.n < 2
            /\ stack' = [stack EXCEPT ![t][i] = [f EXCEPT !.sum = f.n, !.at = "store"]]
         \/ /\ f.at = "compute" /\ f.n >= 2
            /\ stack' = [stack EXCEPT ![t] = Append([@ EXCEPT ![i].at = "first"], Frame(f.n - 1))]
         \/ /\ f.at = "second"
            /\ stack' = [stack EXCEPT ![t] = Append([@ EXCEPT ![i].at = "third"], Frame(f.n - 2))]
  /\ UNCHANGED <<memo, memoOrder, holder, asked, answer>>

\* The second `with lock`: store, move to the end, drop the first when it is one too many.
Untrimmed(order) == order
Trimmed(order) == IF Len(order) > MemoSize THEN Tail(order) ELSE order
StoreResult(t) ==
  /\ stack[t] # <<>> /\ Top(t).at = "store"
  /\ holder = NoHolder
  /\ LET k == Top(t).n  kept == Trimmed(Recent(k))
     IN  /\ memoOrder' = kept
         /\ memo' = [x \in ToSet(kept) |-> IF x = k THEN Top(t).sum ELSE memo[x]]
         /\ Return(t, Top(t).sum)
  /\ UNCHANGED <<holder, asked>>

CallStep(t) == Lookup(t) \/ Compute(t) \/ StoreResult(t)
MemoNext == \E t \in MemoThread : CallStep(t)
MemoSpec == MemoInit /\ [][MemoNext]_memoVars
----------------------------------------------------------------------------
Fib[n \in Nat] == IF n < 2 THEN n ELSE Fib[n - 1] + Fib[n - 2]

\* Every result in the cache and every thread's answer is the function's, with any number of results
\* evicted between a lookup and the store, and the cache stays within maxsize.
MemoIsTransparent ==
  /\ \A k \in DOMAIN memo : memo[k] = Fib[k]
  /\ \A t \in MemoThread : stack[t] = <<>> => answer[t] = Fib[asked[t]]
  /\ ToSet(memoOrder) = DOMAIN memo /\ Len(memoOrder) <= MemoSize

\* A memoized function that calls itself ends: the lock is free while the function runs.
MemoizedCallsReturn == \A t \in MemoThread : <>(stack[t] = <<>>)
=============================================================================
