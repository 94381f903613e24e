---------------------------- MODULE Replication ----------------------------
(***************************************************************************)
(* The replication lab: a master's log, the relay log of a slave and what  *)
(* it has applied.  demo() writes a burst of transactions and then calls   *)
(* the io thread and the sql thread in turn for a fixed number of rounds.  *)
(* The size of a transaction only sets how long a sleep lasts and is left  *)
(* out: an entry is the clock value it was written at.  The Raft lab       *)
(* and the types that merge follow below.                                  *)
(***************************************************************************)
EXTENDS Integers, Sequences, FiniteSets

CONSTANTS MaxMasterWrites, MaxWorkers, MaxRounds
ASSUME ReplicationAssumption == MaxWorkers \in Nat /\ MaxMasterWrites \in Nat

VARIABLES masterLog, relayLog, appliedLog, slaveWorkers, secondsBehindMaster, clock,
          turn,     \* which call of demo() comes next
          rounds    \* rounds of demo() so far
replicationVars ==
  <<masterLog, relayLog, appliedLog, slaveWorkers, secondsBehindMaster, clock, turn, rounds>>

ReplicationInit ==
  /\ masterLog = <<>> /\ relayLog = <<>> /\ appliedLog = <<>>
  /\ slaveWorkers \in 1..MaxWorkers
  /\ secondsBehindMaster = 0 /\ clock = 0
  /\ turn = "master"
  /\ rounds = 0

MasterWrite ==
  /\ turn = "master" /\ clock < MaxMasterWrites
  /\ clock' = clock + 1
  /\ masterLog' = Append(masterLog, clock + 1)
  /\ UNCHANGED <<relayLog, appliedLog, slaveWorkers, secondsBehindMaster, turn, rounds>>

StartSlave ==
  /\ turn = "master"
  /\ turn' = "io"
  /\ UNCHANGED <<masterLog, relayLog, appliedLog, slaveWorkers, secondsBehindMaster, clock, rounds>>

IoThread ==
  /\ turn = "io" /\ rounds < MaxRounds
  /\ IF masterLog = <<>> THEN UNCHANGED <<masterLog, relayLog>>
     ELSE masterLog' = Tail(masterLog) /\ relayLog' = Append(relayLog, Head(masterLog))
  /\ turn' = "sql"
  /\ UNCHANGED <<appliedLog, slaveWorkers, secondsBehindMaster, clock, rounds>>

\* How many entries one call of sql_thread takes off the relay log.
BatchOffByOne == IF Len(relayLog) < slaveWorkers - 1 THEN Len(relayLog) ELSE slaveWorkers - 1
Batch == IF Len(relayLog) < slaveWorkers THEN Len(relayLog) ELSE slaveWorkers

SqlThread ==
  /\ turn = "sql"
  /\ appliedLog' = appliedLog \o SubSeq(relayLog, 1, Batch)
  /\ relayLog' = SubSeq(relayLog, Batch + 1, Len(relayLog))
  /\ secondsBehindMaster' = Len(masterLog) + Len(relayLog')
  /\ turn' = "io"
  /\ rounds' = rounds + 1
  /\ UNCHANGED <<masterLog, slaveWorkers, clock>>

ReplicationNext == MasterWrite \/ StartSlave \/ IoThread \/ SqlThread
----------------------------------------------------------------------------
\* The slave has the master's history up to some point: nothing is lost, repeated or
\* reordered on the way, and after each round the reported lag is what it misses.  The io
\* thread carries one transaction per round, so that every round brings the slave one
\* transaction closer, and more workers never bring it closer than that.
ReplicaIsAPrefix ==
  /\ appliedLog \o relayLog \o masterLog = [i \in 1..clock |-> i]
  /\ turn = "io" /\ rounds > 0 =>
       /\ secondsBehindMaster = clock - Len(appliedLog)
       /\ Len(appliedLog) = IF rounds < clock THEN rounds ELSE clock

----------------------------------------------------------------------------
(***************************************************************************)
(* The Raft lab (raft_sim.py): the calls its demo makes on one node, here  *)
(* on any of them, in any order the state of the node admits; a call runs  *)
(* to its end.  Timers only matter to election_due, which nobody calls,    *)
(* and nothing reads next_index and match_index: they are left out.        *)
(***************************************************************************)

CONSTANTS ClusterSizes, MaxTerm, MaxCommands, NoVote
ASSUME RaftAssumption == ClusterSizes \subseteq Nat \ {0} /\ NoVote \notin Nat

VARIABLES clusterSize, role, term, votedFor, raftLog, commitIndex,
          ballots       \* what the last request_vote returned
raftVars == <<clusterSize, role, term, votedFor, raftLog, commitIndex, ballots>>

RaftNode == 1..clusterSize
Peers(n) == RaftNode \ {n}
\* A loop over the peers, in their order, ends at the first one with a greater term.
Ahead(n) == {p \in Peers(n) : term[p] > term[n]}
PeersReached(n) == {p \in Peers(n) : \A q \in Ahead(n) : p < q}
StepDown(n) ==
  IF Ahead(n) = {} THEN UNCHANGED <<term, role>>
  ELSE LET first == CHOOSE p \in Ahead(n) : \A q \in Ahead(n) : p <= q
       IN  term' = [term EXCEPT ![n] = term[first]] /\ role' = [role EXCEPT ![n] = "follower"]

RaftInit ==
  /\ clusterSize \in ClusterSizes
  /\ role = [n \in RaftNode |-> "follower"] /\ term = [n \in RaftNode |-> 0]
  /\ votedFor = [n \in RaftNode |-> NoVote] /\ raftLog = [n \in RaftNode |-> <<>>]
  /\ commitIndex = [n \in RaftNode |-> 0] /\ ballots = [n \in RaftNode |-> 0]

BecomeCandidate(n) ==
  /\ term[n] < MaxTerm
  /\ role' = [role EXCEPT ![n] = "candidate"]
  /\ term' = [term EXCEPT ![n] = @ + 1]
  /\ votedFor' = [votedFor EXCEPT ![n] = n]
  /\ ballots' = [ballots EXCEPT ![n] = 0]
  /\ UNCHANGED <<clusterSize, raftLog, commitIndex>>

MayVote(p, n) == term[p] = term[n] /\ votedFor[p] \in {NoVote, n}
RequestVote(n) ==
  /\ role[n] = "candidate"
  /\ LET voters == {p \in PeersReached(n) : MayVote(p, n)}
     IN  /\ votedFor' = [p \in RaftNode |-> IF p \in voters THEN n ELSE votedFor[p]]
         /\ ballots' = [ballots EXCEPT ![n] = IF Ahead(n) = {} THEN 1 + Cardinality(voters) ELSE 0]
  /\ StepDown(n)
  /\ UNCHANGED <<clusterSize, raftLog, commitIndex>>

BecomeLeader(n) ==
  /\ role[n] = "candidate" /\ ballots[n] > clusterSize \div 2
  /\ role' = [role EXCEPT ![n] = "leader"]
  /\ UNCHANGED <<clusterSize, term, votedFor, raftLog, commitIndex, ballots>>

AppendEntries(n) ==
  /\ role[n] = "leader" /\ Len(raftLog[n]) < MaxCommands
  /\ raftLog' = [p \in RaftNode |-> IF p \in PeersReached(n) \cup {n} THEN Append(raftLog[p], term[n]) ELSE raftLog[p]]
  /\ commitIndex' = [commitIndex EXCEPT ![n] = IF Ahead(n) = {} THEN Len(raftLog[n]) + 1 ELSE @]
  /\ StepDown(n)
  /\ UNCHANGED <<clusterSize, votedFor, ballots>>

RaftNext ==
  \E n \in RaftNode : BecomeCandidate(n) \/ RequestVote(n) \/ BecomeLeader(n) \/ AppendEntries(n)
----------------------------------------------------------------------------
\* A term has one leader at most, and what a leader has committed stands in its log.  A vote is
\* asked of peers in the candidate's own term only, and a node of that term has voted for itself
\* or for nobody it could name: among several nodes nobody is ever elected, nothing is replicated.
RaftElects ==
  /\ \A m, n \in RaftNode : role[m] = "leader" /\ role[n] = "leader" /\ term[m] = term[n] => m = n
  /\ \A n \in RaftNode : /\ commitIndex[n] <= Len(raftLog[n])
                         /\ ballots[n] <= 1
                         /\ term[n] > 0 => votedFor[n] = n
                         /\ role[n] = "leader" \/ raftLog[n] # <<>> => clusterSize = 1
  /\ clusterSize = 1 => commitIndex[1] = Len(raftLog[1])

\* The logs of both labs: the replica's is a prefix of the master's, a Raft leader's is its own.
ReplicasAgree == ReplicaIsAPrefix /\ RaftElects

\* The two labs side by side.
LogsSpec ==
  /\ ReplicationInit /\ RaftInit
  /\ [][(ReplicationNext /\ UNCHANGED raftVars) \/ (RaftNext /\ UNCHANGED replicationVars)]_<<replicationVars, raftVars>>
-----------------------------------------------------------------------------
(***************************************************************************)
(* The replicated counter and register of consistency_lab/crdt.py.  A      *)
(* payload without an entry for a node counts as 0 for it, the way merge   *)
(* and value read it.  A replica merges the present state of any other one *)
(* in any order, as often as it likes.                                     *)
(***************************************************************************)
CONSTANTS Replica, Value, NoValue, MaxIncrements, MaxStamp

VARIABLES payload,          \* GCounter.payload of each replica
          registerValue, timestamp, \* LWWRegister of each replica
          written           \* timestamp -> the values that set() was given with it
crdtVars == <<payload, registerValue, timestamp, written>>

CrdtInit ==
  /\ payload = [n \in Replica |-> [m \in Replica |-> 0]]
  /\ registerValue = [n \in Replica |-> NoValue]
  /\ timestamp = [n \in Replica |-> 0]
  /\ written = [s \in 1..MaxStamp |-> {}]

Increment(n) ==
  /\ payload[n][n] < MaxIncrements
  /\ payload' = [payload EXCEPT ![n][n] = @ + 1]
  /\ UNCHANGED <<registerValue, timestamp, written>>

Larger(a, b) == IF a < b THEN b ELSE a
MergedBySum(n, m) == [k \in Replica |-> payload[n][k] + payload[m][k]]
Merged(n, m) == [k \in Replica |-> Larger(payload[n][k], payload[m][k])]

MergeCounter(n, m) ==
  /\ payload' = [payload EXCEPT ![n] = Merged(n, m)]
  /\ UNCHANGED <<registerValue, timestamp, written>>

\* set ignores a timestamp that is not newer than the replica's own.
SetRegister(n, v, s) ==
  /\ written' = [written EXCEPT ![s] = @ \cup {v}]
  /\ \/ /\ s > timestamp[n]
        /\ registerValue' = [registerValue EXCEPT ![n] = v]
        /\ timestamp' = [timestamp EXCEPT ![n] = s]
     \/ s <= timestamp[n] /\ UNCHANGED <<registerValue, timestamp>>
  /\ UNCHANGED payload

MergeRegister(n, m) ==
  /\ timestamp[m] > timestamp[n]
  /\ registerValue' = [registerValue EXCEPT ![n] = registerValue[m]]
  /\ timestamp' = [timestamp EXCEPT ![n] = timestamp[m]]
  /\ UNCHANGED <<payload, written>>

CrdtNext ==
  \E n \in Replica :
    \/ Increment(n)
    \/ \E m \in Replica \ {n} : MergeCounter(n, m) \/ MergeRegister(n, m)
    \/ \E v \in Value, s \in 1..MaxStamp : SetRegister(n, v, s)

CrdtSpec == CrdtInit /\ [][CrdtNext]_crdtVars
----------------------------------------------------------------------------
CrdtTypeOK ==
  /\ payload \in [Replica -> [Replica -> Nat]]
  /\ registerValue \in [Replica -> Value \cup {NoValue}]
  /\ timestamp \in [Replica -> {0} \cup 1..MaxStamp]
  /\ written \in [1..MaxStamp -> SUBSET Value]

\* No replica ever counts more of a node's increments than the node has made, however often
\* and in whatever order states were merged: the counter neither invents nor doubles.
NothingInvented == \A n, m \in Replica : payload[n][m] <= payload[m][m]

\* Two replicas whose newest write was made at one timestamp agree on the value whenever
\* only one value was written at it: with unique timestamps the register converges.  (With
\* two values at one timestamp the replicas keep their own for good: merge needs a strictly
\* newer one.)
StampDecides ==
  \A n, m \in Replica :
    (timestamp[n] = timestamp[m] /\ timestamp[n] # 0 /\ \E v \in Value : written[timestamp[n]] = {v})
      => registerValue[n] = registerValue[m]

Convergence == NothingInvented /\ StampDecides
=============================================================================
