----------------------------- MODULE Benchmarks -----------------------------
(***************************************************************************)
(* The benchmarks of the operating systems labs: players that hand a turn  *)
(* to and fro, and workers that count together.                            *)
(***************************************************************************)
EXTENDS Integers, FiniteSets, Functions

(***************************************************************************)
(* context_switch_bench.py: two players hand a turn to and fro.  Player a  *)
(* is the main thread.  Each holds the lock of its own condition during    *)
(* all its rounds, except while it waits; over queues and pipes there is   *)
(* no lock, and a message is the turn.  The child opens over pipes.        *)
(***************************************************************************)

CONSTANTS MaxPingPongs, Nobody

VARIABLES how,           \* "condition", "queue" or "pipe"
          whoseTurn,     \* state["turn"]
          heldBy,        \* player -> who holds the lock of its condition
          playerAt,
          gone,          \* the rounds a player has finished
          inbox,         \* messages in the queue or pipe to a player
          pingPongs      \* iterations
pingVars == <<how, whoseTurn, heldBy, playerAt, gone, inbox, pingPongs>>

Player == {"a", "b"}
Other(p) == IF p = "a" THEN "b" ELSE "a"
Leads(p) == IF how = "pipe" THEN p = "b" ELSE p = "a"
FirstMove(p) == IF Leads(p) THEN "give" ELSE "look"

PingInit ==
  /\ how \in {"condition", "queue", "pipe"} /\ pingPongs \in 1..MaxPingPongs
  /\ whoseTurn = "a" /\ heldBy = [p \in Player |-> Nobody]
  /\ playerAt = [p \in Player |-> IF how = "condition" THEN "enter" ELSE FirstMove(p)]
  /\ gone = [p \in Player |-> 0] /\ inbox = [p \in Player |-> 0]

\* with ready: at the start of a player.
Enter(p) ==
  /\ playerAt[p] = "enter" /\ heldBy[p] = Nobody
  /\ heldBy' = [heldBy EXCEPT ![p] = p]
  /\ playerAt' = [playerAt EXCEPT ![p] = FirstMove(p)]
  /\ UNCHANGED <<how, whoseTurn, gone, inbox, pingPongs>>

\* The end of a half round: on to the other half, or a new round, or out of both loops.
Proceed(p, halfAt, places, held) ==
  LET over == Leads(p) = (halfAt = "look")
      done == over /\ gone[p] + 1 = pingPongs
  IN  /\ gone' = [gone EXCEPT ![p] = IF over THEN @ + 1 ELSE @]
      /\ playerAt' = [places EXCEPT ![p] = IF done THEN "done" ELSE IF halfAt = "look" THEN "give" ELSE "look"]
      /\ heldBy' = [held EXCEPT ![p] = IF done THEN Nobody ELSE @]

Give(p) ==
  /\ how = "condition" /\ playerAt[p] = "give"
  /\ whoseTurn' = Other(p) /\ playerAt' = [playerAt EXCEPT ![p] = "tell"]
  /\ UNCHANGED <<how, heldBy, gone, inbox, pingPongs>>

\* notify, under the lock of the other's condition.
Woken(p) == [playerAt EXCEPT ![p] = IF @ = "waiting" THEN "woken" ELSE @]
Tell(p) ==
  /\ playerAt[p] = "tell" /\ heldBy[Other(p)] = Nobody
  /\ Proceed(p, "give", Woken(Other(p)), heldBy)
  /\ UNCHANGED <<how, whoseTurn, inbox, pingPongs>>

\* while turn is not mine: wait, which releases the lock.
Look(p) ==
  /\ how = "condition" /\ playerAt[p] = "look"
  /\ IF whoseTurn = p THEN Proceed(p, "look", playerAt, heldBy)
     ELSE /\ playerAt' = [playerAt EXCEPT ![p] = "waiting"]
          /\ heldBy' = [heldBy EXCEPT ![p] = Nobody] /\ UNCHANGED gone
  /\ UNCHANGED <<how, whoseTurn, inbox, pingPongs>>

WakeUp(p) ==
  /\ playerAt[p] = "woken" /\ heldBy[p] = Nobody
  /\ heldBy' = [heldBy EXCEPT ![p] = p] /\ playerAt' = [playerAt EXCEPT ![p] = "look"]
  /\ UNCHANGED <<how, whoseTurn, gone, inbox, pingPongs>>

\* put and get of a queue of one; send and recv of a pipe.
SendTurn(p) ==
  /\ how # "condition" /\ playerAt[p] = "give" /\ (how = "queue" => inbox[Other(p)] = 0)
  /\ inbox' = [inbox EXCEPT ![Other(p)] = @ + 1]
  /\ Proceed(p, "give", playerAt, heldBy)
  /\ UNCHANGED <<how, whoseTurn, pingPongs>>
ReceiveTurn(p) ==
  /\ how # "condition" /\ playerAt[p] = "look" /\ inbox[p] > 0
  /\ inbox' = [inbox EXCEPT ![p] = @ - 1]
  /\ Proceed(p, "look", playerAt, heldBy)
  /\ UNCHANGED <<how, whoseTurn, pingPongs>>

PlayerStep(p) == Enter(p) \/ Give(p) \/ Tell(p) \/ Look(p) \/ WakeUp(p) \/ SendTurn(p) \/ ReceiveTurn(p)
PingNext == \E p \in Player : PlayerStep(p)

(***************************************************************************)
(* lock_contention.py: workers that share the iterations and count them,   *)
(* in one counter under a lock or each in a cell of a list.  An increment  *)
(* reads and writes.                                                       *)
(***************************************************************************)

CONSTANTS NumCounters, IterationInputs

\* The iterations are divided by the number of workers.
ASSUME CountersAssumption == NumCounters \in Nat \ {0} /\ IterationInputs \subseteq Nat

VARIABLES strategy,      \* "mutex", "rwlock" or "sharded"
          iterations,
          cells,         \* the counter is cell 0
          counterAt, seen, todo    \* worker -> its place, what it has read, iterations left
countVars == <<strategy, iterations, cells, counterAt, seen, todo>>

Counter == 1..NumCounters
Sharded == strategy = "sharded"
CellOf(w) == IF Sharded THEN w ELSE 0

CountInit ==
  /\ strategy \in {"mutex", "rwlock", "sharded"} /\ iterations \in IterationInputs
  /\ cells = [c \in 0..NumCounters |-> 0]
  /\ counterAt = [w \in Counter |-> "loop"] /\ seen = [w \in Counter |-> 0]
  /\ todo = [w \in Counter |-> iterations \div NumCounters]

LockCounter(w) ==
  /\ ~Sharded /\ counterAt[w] = "loop" /\ todo[w] > 0
  /\ \A v \in Counter : counterAt[v] = "loop"
  /\ counterAt' = [counterAt EXCEPT ![w] = "locked"]
  /\ UNCHANGED <<strategy, iterations, cells, seen, todo>>

ReadCell(w) ==
  /\ counterAt[w] = (IF Sharded THEN "loop" ELSE "locked") /\ todo[w] > 0
  /\ counterAt' = [counterAt EXCEPT ![w] = "read"]
  /\ seen' = [seen EXCEPT ![w] = cells[CellOf(w)]]
  /\ UNCHANGED <<strategy, iterations, cells, todo>>

\* The write, and the end of with.
WriteCell(w) ==
  /\ counterAt[w] = "read"
  /\ cells' = [cells EXCEPT ![CellOf(w)] = seen[w] + 1]
  /\ todo' = [todo EXCEPT ![w] = @ - 1]
  /\ counterAt' = [counterAt EXCEPT ![w] = "loop"]
  /\ UNCHANGED <<strategy, iterations, seen>>

CountNext == \E w \in Counter : LockCounter(w) \/ ReadCell(w) \/ WriteCell(w)
----------------------------------------------------------------------------
\* Two players that each hold their own lock and want the other's: one found the turn its own
\* before it had begun to wait.  Neither wakes the other any more.
Embraced == \A p \in Player : playerAt[p] = "tell" /\ heldBy[p] = p

\* How a benchmark ends: the two threads may embrace from the first round on.
PingPongOver == (\A p \in Player : playerAt[p] = "done") \/ Embraced

\* However a turn is passed, only one player has it, and neither gets a round ahead.
TurnsAlternate ==
  /\ Cardinality({p \in Player : playerAt[p] = "give"} \cup {p \in Player : inbox[p] > 0}) <= 1
  /\ \A p \in Player : gone[p] - gone[Other(p)] \in {-1, 0, 1}

\* No increment is lost: what has been counted and what is left make the iterations, less the
\* remainder of the division, which nobody is given though the report counts it.
NoCountIsLost == SumFunction(cells) + SumFunction(todo) = iterations - (iterations % NumCounters)
=============================================================================
