----------------------------- MODULE LabsProofs -----------------------------
(***************************************************************************)
(* What holds of the labs and of what stores things, for every value of    *)
(* their constants.  The labs: replicated types converge, logs agree, the  *)
(* three locks of LockScripts keep what they can, the write-ahead log      *)
(* loses nothing it acknowledged, a read view of Mvcc is the snapshot it   *)
(* claims to be and stays it.  The programs of MCStorage: the caches evict *)
(* by their policies and keep their structures in step, the linked list of *)
(* the LRU cache implements an order of use, the trainer's checkpoints are *)
(* the newest, complete, and found again.                                  *)
(***************************************************************************)
EXTENDS MCLabs, MCStorage, FiniteSetTheorems, WellFoundedInduction, TLAPS

\* A set of numbers has a least element, < being well-founded.
LEMMA LeastNumber ==
  ASSUME NEW S \in SUBSET Nat, S # {}
  PROVE  \E x \in S : \A y \in S : x <= y
<1> DEFINE Less == OpToRel(<, Nat)
<1>1. IsWellFoundedOn(Less, Nat)
  BY NatLessThanWellFounded
<1>2. \A x, y \in Nat : y < x => <<y, x>> \in Less
  BY DEF OpToRel
<1> HIDE DEF Less
<1>3. PICK x \in S : \A y \in S : ~(<<y, x>> \in Less)
  BY <1>1, WFMin, Zenon
<1>4. ASSUME NEW y \in S PROVE ~(y < x)
  <2>1. x \in Nat /\ y \in Nat
    OBVIOUS
  <2> QED BY <1>2, <1>3, <2>1, Zenon
<1> QED BY <1>4, SMT

\* A set of numbers below a bound has a greatest element.
LEMMA LargestNumber ==
  ASSUME NEW S \in SUBSET Nat, S # {}, NEW n \in Nat, \A x \in S : x <= n
  PROVE  Max(S) \in S /\ \A y \in S : y <= Max(S)
<1> DEFINE Below == {n - x : x \in S}
<1>1. Below \in SUBSET Nat /\ Below # {}
  <2>1. \A x \in S : n - x \in Nat
    BY SMT
  <2> QED BY <2>1
<1>2. PICK b \in Below : \A y \in Below : b <= y
  BY <1>1, LeastNumber
<1>3. PICK x \in S : b = n - x
  BY <1>2
<1>4. \A y \in S : x >= y
  <2> TAKE y \in S
  <2>1. n - x <= n - y
    BY <1>2, <1>3
  <2> QED BY <2>1, SMT
<1>5. Max(S) \in S /\ \A y \in S : Max(S) >= y
  BY <1>4, Zenon DEF Max
<1> QED BY <1>5, SMT

----------------------------------------------------------------------------
(* The replicated counter and register *)

\* A stored value was given to set() with the timestamp the replica keeps.
ValueWasWritten ==
  \A n \in Replica : timestamp[n] # 0 => registerValue[n] \in written[timestamp[n]]

CrdtInv == CrdtTypeOK /\ NothingInvented /\ ValueWasWritten

LEMMA CrdtInitially == CrdtInit => CrdtInv
  BY DEF CrdtInit, CrdtInv, CrdtTypeOK, NothingInvented, ValueWasWritten

LEMMA CrdtCounterStep ==
  ASSUME CrdtInv, NEW n \in Replica,
         Increment(n) \/ \E m \in Replica \ {n} : MergeCounter(n, m)
  PROVE  CrdtInv'
<1>1. CASE Increment(n)
  BY <1>1 DEF CrdtInv, CrdtTypeOK, NothingInvented, ValueWasWritten, Increment
<1>2. CASE \E m \in Replica \ {n} : MergeCounter(n, m)
  BY <1>2, SMTT(30) DEF CrdtInv, CrdtTypeOK, NothingInvented, ValueWasWritten, MergeCounter, Merged, Larger
<1> QED BY <1>1, <1>2

LEMMA CrdtRegisterStep ==
  ASSUME CrdtInv, NEW n \in Replica,
         \/ \E m \in Replica \ {n} : MergeRegister(n, m)
         \/ \E v \in Value, s \in 1..MaxStamp : SetRegister(n, v, s)
  PROVE  CrdtInv'
<1>1. ASSUME NEW m \in Replica \ {n}, MergeRegister(n, m) PROVE CrdtInv'
  BY <1>1 DEF CrdtInv, CrdtTypeOK, NothingInvented, ValueWasWritten, MergeRegister
<1>2. ASSUME NEW v \in Value, NEW s \in 1..MaxStamp, SetRegister(n, v, s) PROVE CrdtInv'
  <2>1. CrdtTypeOK' /\ NothingInvented'
    <3>1. written' \in [1..MaxStamp -> SUBSET Value] /\ payload' = payload
      BY <1>2 DEF CrdtInv, CrdtTypeOK, SetRegister
    <3>2. registerValue' \in [Replica -> Value \cup {NoValue}]
      BY <1>2 DEF CrdtInv, CrdtTypeOK, SetRegister
    <3>3. timestamp' \in [Replica -> {0} \cup 1..MaxStamp]
      BY <1>2 DEF CrdtInv, CrdtTypeOK, SetRegister
    <3> QED BY <3>1, <3>2, <3>3 DEF CrdtInv, CrdtTypeOK, NothingInvented
  <2>2. ValueWasWritten'
    BY <1>2 DEF CrdtInv, CrdtTypeOK, ValueWasWritten, SetRegister
  <2> QED BY <2>1, <2>2 DEF CrdtInv
<1> QED BY <1>1, <1>2

LEMMA CrdtInvImplies == CrdtInv => Convergence
  BY DEF CrdtInv, CrdtTypeOK, Convergence, StampDecides, ValueWasWritten

\* The counter neither invents nor doubles increments, and the register converges when
\* timestamps are unique: for any number of replicas and any order of merges.
THEOREM ConvergenceHolds == CrdtSpec => []Convergence
<1>1. CrdtInv /\ [CrdtNext]_crdtVars => CrdtInv'
  <2> SUFFICES ASSUME CrdtInv, [CrdtNext]_crdtVars PROVE CrdtInv'
    OBVIOUS
  <2>1. CASE UNCHANGED crdtVars
    BY <2>1 DEF CrdtInv, CrdtTypeOK, NothingInvented, ValueWasWritten, crdtVars
  <2>2. CASE CrdtNext
    BY <2>2, CrdtCounterStep, CrdtRegisterStep DEF CrdtNext
  <2> QED BY <2>1, <2>2
<1> QED BY <1>1, CrdtInitially, CrdtInvImplies, PTL DEF CrdtSpec

----------------------------------------------------------------------------
(* Redlock *)

RedlockInv ==
  /\ RedlockTypeOK /\ NodesAreKept
  /\ \A c \in RedlockClient : t1[c] <= redlockNow
  /\ \A c \in RedlockClient : attempt[c] = "locked" => Cardinality(lockedNodes[c]) >= Quorum

RedlockConstants ==
  /\ NumNodes \in Nat /\ Quorum \in Nat /\ 2 * Quorum > NumNodes
  /\ RedlockTtl \in Nat
  /\ NoOne \notin RedlockClient

LEMMA RedlockInitially ==
  ASSUME RedlockConstants PROVE RedlockInit => RedlockInv
  BY DEF RedlockConstants, RedlockInit, RedlockInv, RedlockTypeOK, NodesAreKept, Unlocked

LEMMA RedlockStep ==
  ASSUME RedlockConstants, RedlockInv, [RedlockNext]_redlockVars
  PROVE  RedlockInv'
<1> USE DEF RedlockConstants, RedlockInv, RedlockTypeOK, NodesAreKept
<1>1. CASE UNCHANGED redlockVars
  BY <1>1 DEF redlockVars
<1>2. CASE RedlockTick
  BY <1>2 DEF RedlockTick
<1>3. ASSUME NEW c \in RedlockClient, Start(c) PROVE RedlockInv'
  BY <1>3 DEF Start
<1>4. ASSUME NEW c \in RedlockClient, TryLock(c) PROVE RedlockInv'
  <2> DEFINE n == nextNode[c]
  <2>0. n \in Node /\ c # NoOne
    BY <1>4 DEF TryLock, Node
  <2>1. CASE /\ Free(n)
             /\ locks' = [locks EXCEPT ![n] = [owner |-> c, expires |-> redlockNow + RedlockTtl]]
             /\ lockedNodes' = [lockedNodes EXCEPT ![c] = @ \cup {n}]
    <3>1. RedlockTypeOK'
      BY <1>4, <2>0, <2>1 DEF TryLock
    <3>2. ASSUME NEW d \in RedlockClient, NEW k \in lockedNodes'[d]
          PROVE  /\ attempt'[d] # "start"
                 /\ redlockNow' <= t1'[d] + RedlockTtl =>
                      locks'[k].owner = d /\ locks'[k].expires >= t1'[d] + RedlockTtl
      <4>1. CASE k = n /\ d = c
        BY <1>4, <2>0, <2>1, <4>1 DEF TryLock
      <4>2. CASE k # n
        BY <1>4, <2>0, <2>1, <3>2, <4>2 DEF TryLock
      <4>3. CASE k = n /\ d # c
        BY <1>4, <2>0, <2>1, <3>2, <4>3 DEF TryLock, Free, Unlocked
      <4> QED BY <4>1, <4>2, <4>3
    <3> QED BY <1>4, <2>0, <2>1, <3>1, <3>2 DEF TryLock
  <2>2. CASE UNCHANGED <<locks, lockedNodes>>
    BY <1>4, <2>2 DEF TryLock
  <2> QED BY <1>4, <2>1, <2>2 DEF TryLock
<1>5. ASSUME NEW c \in RedlockClient, Succeed(c) PROVE RedlockInv'
  BY <1>5 DEF Succeed
<1>6. ASSUME NEW c \in RedlockClient, Fail(c) PROVE RedlockInv'
  BY <1>6 DEF Fail
<1>7. ASSUME NEW c \in RedlockClient, NEW n \in Node, Unlock(c, n) PROVE RedlockInv'
  BY <1>7 DEF Unlock, Unlocked
<1> QED BY <1>1, <1>2, <1>3, <1>4, <1>5, <1>6, <1>7 DEF RedlockNext

LEMMA RedlockInvImplies ==
  ASSUME RedlockConstants, RedlockInv PROVE RedlockMutex
<1> SUFFICES ASSUME NEW c \in RedlockClient, NEW d \in RedlockClient, Holds(c), Holds(d)
             PROVE  c = d
  BY DEF RedlockMutex
<1>1. IsFiniteSet(Node) /\ Cardinality(Node) = NumNodes
  BY FS_Interval DEF Node, RedlockConstants
<1>2. lockedNodes[c] \subseteq Node /\ lockedNodes[d] \subseteq Node
  BY DEF RedlockInv, RedlockTypeOK
<1>3. Cardinality(lockedNodes[c]) \in Nat /\ Cardinality(lockedNodes[d]) \in Nat
  BY <1>1, <1>2, FS_Subset, FS_CardinalityType
<1>4. Cardinality(lockedNodes[c]) + Cardinality(lockedNodes[d]) > Cardinality(Node)
  BY <1>1, <1>3 DEF RedlockInv, Holds, RedlockConstants
<1>5. lockedNodes[c] \cap lockedNodes[d] # {}
  BY ONLY <1>1, <1>2, <1>4, FS_MajoritiesIntersect
<1> QED BY <1>5 DEF RedlockInv, RedlockTypeOK, NodesAreKept, Holds, RedlockConstants

\* With a quorum of more than half of the nodes, no two clients hold the lock at once: for
\* any number of clients and nodes, any TTL and any latencies.
THEOREM RedlockExcludes ==
  ASSUME RedlockConstants PROVE RedlockSpec => []RedlockMutex
<1>1. RedlockInv /\ [RedlockNext]_redlockVars => RedlockInv'
  BY RedlockStep
<1>2. RedlockInit => RedlockInv
  BY RedlockInitially
<1>3. RedlockInv => RedlockMutex
  BY RedlockInvImplies
<1> QED BY <1>1, <1>2, <1>3, PTL DEF RedlockSpec

----------------------------------------------------------------------------
(* Mvcc *)

LEMMA LowestExists ==
  ASSUME NEW S \in SUBSET Nat, S # {}
  PROVE  Lowest(S) \in S /\ \A y \in S : Lowest(S) <= y
BY LeastNumber DEF Lowest

\* What a view's fields say, in terms of the transactions committed when it was made.
ViewIsSnapshot(v, past, t) ==
  /\ v.max_trx_id \in 1..(trxCounter + 1) /\ t < v.max_trx_id
  /\ v.min_trx_id <= t
  /\ v.m_ids \in SUBSET (1..(v.max_trx_id - 1))
  /\ \A x \in v.m_ids : x >= v.min_trx_id
  /\ t \notin v.m_ids
  /\ past \cup {t} = (1..(v.max_trx_id - 1)) \ v.m_ids

MvccInv == /\ MvccTypeOK
           /\ \A t \in DOMAIN views : ViewIsSnapshot(views[t], snapshot[t], t)

LEMMA NewViewIsSnapshot ==
  ASSUME MaxTrx \in Nat, MvccTypeOK, NEW t \in activeTrx
  PROVE  ViewIsSnapshot(MakeReadView(t), Ended, t) /\ MakeReadView(t) \in ReadView
<1>1. trxCounter \in Nat /\ trxCounter <= MaxTrx /\ activeTrx \subseteq 1..trxCounter /\ t \in 1..trxCounter
  BY DEF MvccTypeOK
<1>3. activeTrx \in SUBSET Nat /\ activeTrx # {}
  BY <1>1
<1>4. Lowest(activeTrx) \in activeTrx /\ \A y \in activeTrx : Lowest(activeTrx) <= y
  BY <1>3, LowestExists
<1>5. Ended = (1..trxCounter) \ activeTrx
  BY <1>1 DEF Ended, Trx
<1>6. MakeReadView(t) = [m_ids |-> activeTrx \ {t}, min_trx_id |-> Lowest(activeTrx),
                         max_trx_id |-> trxCounter + 1, creator |-> t]
  BY <1>3 DEF MakeReadView
<1>7. MakeReadView(t) \in ReadView
  <2>1. activeTrx \ {t} \in SUBSET (1..MaxTrx)
    BY <1>1
  <2>2. Lowest(activeTrx) \in Nat /\ trxCounter + 1 \in Nat /\ t \in 1..MaxTrx
    <3> DEFINE low == Lowest(activeTrx)
    <3>1. low \in activeTrx
      BY <1>4
    <3> HIDE DEF low
    <3>2. low \in Nat /\ trxCounter + 1 \in Nat /\ t \in 1..MaxTrx
      BY <1>1, <3>1
    <3> QED BY <3>2 DEF low
  <2> QED BY <1>6, <2>1, <2>2 DEF ReadView, Trx
<1>8. ViewIsSnapshot(MakeReadView(t), Ended, t)
  <2> DEFINE v == MakeReadView(t)
  <2>1. /\ v.m_ids = activeTrx \ {t}
        /\ v.min_trx_id = Lowest(activeTrx)
        /\ v.max_trx_id = trxCounter + 1
    BY <1>6
  <2>2. Ended \cup {t} = (1..trxCounter) \ (activeTrx \ {t})
    BY <1>1, <1>5
  <2>3. (trxCounter + 1) - 1 = trxCounter /\ t < trxCounter + 1 /\ Lowest(activeTrx) <= t
    BY <1>1, <1>4
  <2>4. activeTrx \ {t} \in SUBSET (1..trxCounter) /\ trxCounter + 1 \in 1..(trxCounter + 1)
    BY <1>1
  <2>5. ViewIsSnapshot(v, Ended, t)
    <3> HIDE DEF v
    <3> QED BY <1>1, <1>4, <2>1, <2>2, <2>3, <2>4 DEF ViewIsSnapshot
  <2> QED BY <2>5
<1> QED BY <1>7, <1>8

LEMMA MvccStep ==
  ASSUME MaxTrx \in Nat, MvccInv, [MvccNext]_mvccVars
  PROVE  MvccInv'
<1> USE DEF MvccInv, MvccTypeOK
<1>1. CASE UNCHANGED mvccVars
  BY <1>1 DEF mvccVars, ViewIsSnapshot
<1>2. CASE BeginTrx
  <2>1. MvccTypeOK'
    BY <1>2 DEF BeginTrx
  <2>2. ASSUME NEW t \in DOMAIN views PROVE ViewIsSnapshot(views[t], snapshot[t], t)'
    <3>1. ViewIsSnapshot(views[t], snapshot[t], t) /\ trxCounter \in Nat /\ trxCounter' = trxCounter + 1
      BY <1>2 DEF BeginTrx
    <3> QED BY <1>2, <3>1 DEF BeginTrx, ViewIsSnapshot
  <2> QED BY <1>2, <2>1, <2>2 DEF BeginTrx
<1>3. ASSUME NEW tid \in Trx, TakeView(tid) PROVE MvccInv'
  <2>1. ViewIsSnapshot(MakeReadView(tid), Ended, tid) /\ MakeReadView(tid) \in ReadView
    BY <1>3, NewViewIsSnapshot DEF TakeView
  <2>2. Ended \in SUBSET (1..trxCounter)
    BY DEF Ended, Trx
  <2>3. MvccTypeOK'
    BY <1>3, <2>1, <2>2 DEF TakeView
  <2>4. \A t \in DOMAIN views' : ViewIsSnapshot(views'[t], snapshot'[t], t)
    BY <1>3, <2>1 DEF TakeView
  <2> QED BY <1>3, <2>3, <2>4 DEF TakeView, ViewIsSnapshot
<1>4. ASSUME NEW tid \in Trx, CommitTrx(tid) PROVE MvccInv'
  BY <1>4 DEF CommitTrx, ViewIsSnapshot
<1>5. ASSUME NEW tid \in Trx, NEW key \in Key, MvccWrite(tid, key) PROVE MvccInv'
  BY <1>5 DEF MvccWrite, ViewIsSnapshot
<1> QED BY <1>1, <1>2, <1>3, <1>4, <1>5 DEF MvccNext

LEMMA MvccInvImplies ==
  ASSUME MvccInv PROVE SnapshotIsCommitted
<1> SUFFICES ASSUME NEW t \in DOMAIN views, NEW w \in 1..trxCounter
             PROVE  IsVisible(views[t], w) <=> w \in snapshot[t] \cup {t}
  BY DEF SnapshotIsCommitted
<1>1. ViewIsSnapshot(views[t], snapshot[t], t) /\ views[t] \in ReadView /\ t \in Nat /\ trxCounter \in Nat
  BY DEF MvccInv, MvccTypeOK
<1> QED BY <1>1 DEF ViewIsSnapshot, IsVisible, ReadView

\* A read view sees the transactions committed when it was made, its own, and no others,
\* for any number of transactions, keys and views.
THEOREM SnapshotIsolation ==
  ASSUME MaxTrx \in Nat PROVE MvccSpec => []SnapshotIsCommitted
<1>1. MvccInv /\ [MvccNext]_mvccVars => MvccInv'
  BY MvccStep
<1>2. MvccInit => MvccInv
  BY DEF MvccInit, MvccInv, MvccTypeOK
<1>3. MvccInv => SnapshotIsCommitted
  BY MvccInvImplies
<1> QED BY <1>1, <1>2, <1>3, PTL DEF MvccSpec

----------------------------------------------------------------------------
(* The write-ahead log, and reads by one view *)

\* What a log is made of.
LogRecord == [lsn : Nat \ {0}, page : Page, committed : BOOLEAN]

WalTypes ==
  /\ impl \in {"simulator", "re_impl"} /\ recovered \in BOOLEAN
  /\ logBuffer \in Seq(LogRecord) /\ logFile \in Seq(LogRecord)
  /\ dataPages \in [Page -> Nat] /\ lsnCounter \in Nat /\ checkpointLsn \in Nat
  /\ walPc \in [WalTrx -> {"new", "active", "committed", "done"}]
  /\ mine \in [WalTrx -> Seq(LogRecord)]
  /\ DOMAIN flushedBy = {r.lsn : r \in RecordsOf(logFile)}

\* Nothing has an LSN that was not given out yet; the buffer is in order too.
Numbered ==
  /\ \A n \in DOMAIN logFile : logFile[n].lsn <= lsnCounter
  /\ \A n \in DOMAIN logBuffer : logBuffer[n].lsn <= lsnCounter
  /\ \A m, n \in DOMAIN logBuffer : m < n => logBuffer[m].lsn < logBuffer[n].lsn
  /\ \A t \in WalTrx : /\ \A n \in DOMAIN mine[t] : mine[t][n].lsn <= lsnCounter
                       /\ \A m, n \in DOMAIN mine[t] : m < n => mine[t][m].lsn < mine[t][n].lsn

\* While its transaction runs, a record is in the file or in the buffer; once it has
\* committed, in the file.
InLog(r, log) == \E n \in DOMAIN log : log[n].lsn = r.lsn /\ log[n].page = r.page
RecordsAreKept ==
  \A t \in WalTrx : \A n \in DOMAIN mine[t] :
    /\ walPc[t] = "active" => InLog(mine[t][n], logFile) \/ InLog(mine[t][n], logBuffer)
    /\ walPc[t] = "committed" => InLog(mine[t][n], logFile)

\* A new transaction has written nothing, and while the process is down nobody runs.
WalPlaces ==
  /\ \A t \in WalTrx : walPc[t] = "new" => mine[t] = <<>>
  /\ ~recovered => logBuffer = <<>> /\ \A t \in WalTrx : walPc[t] \in {"new", "done"}

\* A record that the commit of its own transaction took to disk is marked as committed.
OwnFlushIsCommitted ==
  \A n \in DOMAIN logFile : OwnFlush(logFile[n].lsn) => logFile[n].committed

WalInv == WalTypes /\ Numbered /\ RecordsAreKept /\ WalPlaces /\ OwnFlushIsCommitted /\ WriteAhead

LEMMA WalInitially == WalInit => WalInv
<1> SUFFICES ASSUME WalInit PROVE WalInv
  OBVIOUS
<1>1. WalTypes
  <2>1. <<>> \in Seq(LogRecord) /\ DOMAIN <<>> = {}
    OBVIOUS
  <2> QED BY <2>1 DEF WalInit, WalTypes, RecordsOf
<1>2. Numbered /\ RecordsAreKept /\ WalPlaces /\ OwnFlushIsCommitted
  BY DEF WalInit, Numbered, RecordsAreKept, WalPlaces, OwnFlushIsCommitted
<1>3. WriteAhead
  BY DEF WalInit, WriteAhead, LogOrdered, RecordsOf
<1> QED BY <1>1, <1>2, <1>3 DEF WalInv

LEMMA RecordsOfALog ==
  ASSUME NEW log \in Seq(LogRecord)
  PROVE  \A n \in DOMAIN log : /\ log[n] \in LogRecord /\ log[n].lsn \in Nat /\ log[n].lsn # 0
                               /\ log[n].page \in Page /\ log[n].committed \in BOOLEAN
<1> SUFFICES ASSUME NEW n \in DOMAIN log PROVE log[n] \in LogRecord
  BY DEF LogRecord
<1> QED OBVIOUS

LEMMA WalWriteKeeps ==
  ASSUME WalInv, NEW t \in WalTrx, NEW p \in Page, WalWrite(t, p)
  PROVE  WalInv'
<1> DEFINE r == [lsn |-> lsnCounter + 1, page |-> p, committed |-> FALSE]
           last == Len(logBuffer) + 1
           own == Len(mine[t]) + 1
<1>1. WalTypes /\ Numbered /\ RecordsAreKept /\ WalPlaces /\ OwnFlushIsCommitted /\ WriteAhead
  BY DEF WalInv
<1>2. /\ recovered /\ walPc[t] = "active" /\ lsnCounter' = lsnCounter + 1
      /\ logBuffer' = Append(logBuffer, r) /\ mine' = [mine EXCEPT ![t] = Append(@, r)]
      /\ UNCHANGED <<impl, logFile, dataPages, checkpointLsn, walPc, flushedBy, walCrashes, recovered>>
  BY DEF WalWrite
<1>3. r \in LogRecord /\ r.lsn = lsnCounter + 1 /\ r.page = p
  BY <1>1 DEF WalTypes, LogRecord
<1> HIDE DEF r
<1>4. /\ DOMAIN logBuffer' = 1..last /\ logBuffer'[last] = r
      /\ DOMAIN logBuffer = 1..(last - 1) /\ \A n \in 1..(last - 1) : logBuffer'[n] = logBuffer[n]
      /\ last \in Nat \ {0} /\ logBuffer' \in Seq(LogRecord)
  BY <1>1, <1>2, <1>3 DEF WalTypes
<1>5. /\ DOMAIN mine'[t] = 1..own /\ mine'[t][own] = r /\ DOMAIN mine[t] = 1..(own - 1)
      /\ \A n \in 1..(own - 1) : mine'[t][n] = mine[t][n]
      /\ own \in Nat \ {0} /\ mine'[t] \in Seq(LogRecord)
      /\ \A u \in WalTrx : u # t => mine'[u] = mine[u]
      /\ mine' \in [WalTrx -> Seq(LogRecord)]
  BY <1>1, <1>2, <1>3 DEF WalTypes
<1> HIDE DEF last, own
<1>6. WalTypes'
  BY <1>1, <1>2, <1>4, <1>5 DEF WalTypes, RecordsOf
<1>7. lsnCounter \in Nat /\ logFile \in Seq(LogRecord) /\ logBuffer \in Seq(LogRecord) /\ mine \in [WalTrx -> Seq(LogRecord)]
  BY <1>1 DEF WalTypes
<1>8. /\ \A n \in DOMAIN logFile : logFile[n].lsn \in Nat
      /\ \A n \in DOMAIN logBuffer : logBuffer[n].lsn \in Nat
      /\ \A u \in WalTrx : \A n \in DOMAIN mine[u] : mine[u][n].lsn \in Nat
  BY <1>7, RecordsOfALog
<1>9. Numbered'
  <2>1. \A n \in DOMAIN logFile' : logFile'[n].lsn <= lsnCounter'
    BY <1>1, <1>2, <1>7, <1>8 DEF Numbered
  <2>2. /\ \A n \in DOMAIN logBuffer' : logBuffer'[n].lsn <= lsnCounter'
        /\ \A m, n \in DOMAIN logBuffer' : m < n => logBuffer'[m].lsn < logBuffer'[n].lsn
    BY <1>1, <1>2, <1>3, <1>4, <1>7, <1>8 DEF Numbered
  <2>3. /\ \A n \in DOMAIN mine'[t] : mine'[t][n].lsn <= lsnCounter'
        /\ \A m, n \in DOMAIN mine'[t] : m < n => mine'[t][m].lsn < mine'[t][n].lsn
    <3>1. ASSUME NEW n \in 1..(own - 1)
          PROVE  /\ mine'[t][n].lsn = mine[t][n].lsn /\ mine[t][n].lsn \in Nat /\ mine[t][n].lsn <= lsnCounter
                 /\ \A m \in 1..(own - 1) : m < n => mine'[t][m].lsn < mine'[t][n].lsn
      BY <1>1, <1>5, <1>8 DEF Numbered
    <3>2. mine'[t][own].lsn = lsnCounter + 1
      BY <1>3, <1>5
    <3> QED BY <1>2, <1>5, <1>7, <3>1, <3>2
  <2>4. ASSUME NEW u \in WalTrx, u # t
        PROVE  /\ \A n \in DOMAIN mine'[u] : mine'[u][n].lsn <= lsnCounter'
               /\ \A m, n \in DOMAIN mine'[u] : m < n => mine'[u][m].lsn < mine'[u][n].lsn
    BY <1>1, <1>2, <1>5, <1>7, <1>8, <2>4 DEF Numbered
  <2> QED BY <2>1, <2>2, <2>3, <2>4 DEF Numbered
<1>10. RecordsAreKept'
  <2>1. ASSUME NEW x, InLog(x, logBuffer) PROVE InLog(x, logBuffer')
    BY <1>4, <2>1 DEF InLog
  <2>2. InLog(r, logBuffer')
    BY <1>4 DEF InLog
  <2>3. ASSUME NEW u \in WalTrx, NEW n \in DOMAIN mine'[u]
        PROVE  /\ walPc'[u] = "active" => InLog(mine'[u][n], logFile') \/ InLog(mine'[u][n], logBuffer')
               /\ walPc'[u] = "committed" => InLog(mine'[u][n], logFile')
    <3>1. CASE u = t /\ n = own
      BY <1>2, <1>5, <2>2, <3>1
    <3>2. CASE ~(u = t /\ n = own)
      <4>1. n \in DOMAIN mine[u] /\ mine'[u][n] = mine[u][n]
        BY <1>5, <2>3, <3>2
      <4> QED BY <1>1, <1>2, <2>1, <4>1 DEF RecordsAreKept
    <3> QED BY <3>1, <3>2
  <2> QED BY <2>3 DEF RecordsAreKept
<1>11. WalPlaces'
  BY <1>1, <1>2, <1>5 DEF WalPlaces
<1>12. OwnFlushIsCommitted'
  <2>1. ASSUME NEW n \in DOMAIN logFile, OwnFlush(logFile[n].lsn)'
        PROVE  OwnFlush(logFile[n].lsn)
    <3>1. PICK u \in WalTrx : flushedBy[logFile[n].lsn] = u /\ \E x \in RecordsOf(mine'[u]) : x.lsn = logFile[n].lsn
      BY <1>2, <2>1 DEF OwnFlush
    <3>2. PICK k \in DOMAIN mine'[u] : mine'[u][k].lsn = logFile[n].lsn
      BY <3>1 DEF RecordsOf
    <3>3. mine'[u][k] # r
      BY <1>1, <1>3, <1>7, <1>8, <3>2 DEF Numbered
    <3>4. k \in DOMAIN mine[u] /\ mine[u][k] = mine'[u][k]
      BY <1>5, <3>2, <3>3
    <3> QED BY <3>1, <3>2, <3>4 DEF OwnFlush, RecordsOf
  <2> QED BY <1>1, <1>2, <2>1 DEF OwnFlushIsCommitted
<1>13. WriteAhead'
  <2>1. LogOrdered'
    <3>1. \A m, n \in DOMAIN logFile' : m < n => logFile'[m].lsn < logFile'[n].lsn
      BY <1>1, <1>2 DEF WriteAhead, LogOrdered
    <3>2. ASSUME NEW m \in DOMAIN logFile', NEW n \in DOMAIN logBuffer'
          PROVE  logFile'[m].lsn < logBuffer'[n].lsn /\ logBuffer'[n].lsn <= lsnCounter'
      <4>1. m \in DOMAIN logFile /\ logFile'[m] = logFile[m] /\ logFile[m].lsn <= lsnCounter
        BY <1>1, <1>2, <3>2 DEF Numbered
      <4>2. CASE n = last
        BY <1>2, <1>3, <1>4, <1>7, <1>8, <4>1, <4>2
      <4>3. CASE n # last
        <5>1. n \in DOMAIN logBuffer /\ logBuffer'[n] = logBuffer[n]
          BY <1>4, <3>2, <4>3
        <5>2. logFile[m].lsn < logBuffer[n].lsn /\ logBuffer[n].lsn <= lsnCounter
          BY <1>1, <4>1, <5>1 DEF WriteAhead, LogOrdered, RecordsOf
        <5> QED BY <1>2, <1>7, <1>8, <4>1, <5>1, <5>2
      <4> QED BY <4>2, <4>3
    <3> QED BY <3>1, <3>2 DEF LogOrdered, RecordsOf
  <2> QED BY <1>1, <1>2, <2>1 DEF WriteAhead, Logged, CommittedLsns, RecordsOf
<1> QED BY <1>6, <1>9, <1>10, <1>11, <1>12, <1>13 DEF WalInv

\* What commit(trx, lsn) leaves in the file: the old records, then those of the buffer.
LEMMA FlushIs ==
  ASSUME WalInv, NEW lsn \in Nat, logFile' = logFile \o Flushed(lsn)
  PROVE  /\ logFile' \in Seq(LogRecord) /\ Len(logFile') = Len(logFile) + Len(logBuffer)
         /\ \A n \in DOMAIN logFile : n \in DOMAIN logFile' /\ logFile'[n] = logFile[n]
         /\ \A n \in DOMAIN logBuffer :
              LET m == Len(logFile) + n
              IN  /\ m \in DOMAIN logFile' /\ logFile'[m].lsn = logBuffer[n].lsn
                  /\ logFile'[m].page = logBuffer[n].page
                  /\ logBuffer[n].lsn <= lsn => logFile'[m].committed
         /\ \A m \in DOMAIN logFile' : m \in DOMAIN logFile \/ m - Len(logFile) \in DOMAIN logBuffer
<1>1. logFile \in Seq(LogRecord) /\ logBuffer \in Seq(LogRecord)
  BY DEF WalInv, WalTypes
<1> DEFINE new == Flushed(lsn)
<1>2. /\ DOMAIN new = DOMAIN logBuffer
      /\ \A n \in DOMAIN logBuffer : /\ new[n] \in LogRecord
                                     /\ new[n].lsn = logBuffer[n].lsn /\ new[n].page = logBuffer[n].page
                                     /\ logBuffer[n].lsn <= lsn => new[n].committed
  <2>1. DOMAIN new = DOMAIN logBuffer
    BY DEF Flushed
  <2>2. ASSUME NEW n \in DOMAIN logBuffer
        PROVE  /\ new[n] \in LogRecord
               /\ new[n].lsn = logBuffer[n].lsn /\ new[n].page = logBuffer[n].page
               /\ logBuffer[n].lsn <= lsn => new[n].committed
    <3>1. logBuffer[n] \in LogRecord
      BY <1>1, RecordsOfALog
    <3>2. new[n] = [logBuffer[n] EXCEPT !.committed = @ \/ logBuffer[n].lsn <= lsn]
      BY DEF Flushed
    <3> QED BY <3>1, <3>2 DEF LogRecord
  <2> QED BY <2>1, <2>2
<1>3. new \in Seq(LogRecord) /\ Len(new) = Len(logBuffer)
  <2>1. DOMAIN new = 1..Len(logBuffer) /\ Len(logBuffer) \in Nat
    BY <1>1, <1>2
  <2>2. new = [n \in 1..Len(logBuffer) |-> new[n]]
    BY <2>1 DEF Flushed
  <2> HIDE DEF new
  <2> QED BY <1>2, <2>1, <2>2
<1> HIDE DEF new
<1>4. logFile' = logFile \o new
  BY DEF new
<1>5. /\ logFile' \in Seq(LogRecord) /\ Len(logFile') = Len(logFile) + Len(logBuffer)
      /\ \A n \in 1..Len(logFile) : logFile'[n] = logFile[n]
      /\ \A n \in 1..Len(logBuffer) : logFile'[Len(logFile) + n] = new[n]
  <2>1. /\ logFile \o new \in Seq(LogRecord) /\ Len(logFile \o new) = Len(logFile) + Len(new)
        /\ Len(logFile) \in Nat /\ Len(new) \in Nat
    BY <1>1, <1>3
  <2>2. ASSUME NEW n \in 1..Len(logFile) PROVE (logFile \o new)[n] = logFile[n]
    BY <1>1, <1>3, <2>1
  <2>3. ASSUME NEW n \in 1..Len(new) PROVE (logFile \o new)[Len(logFile) + n] = new[n]
    <3>1. Len(logFile) + n \in 1..(Len(logFile) + Len(new)) /\ ~(Len(logFile) + n <= Len(logFile))
      BY <2>1
    <3>2. (logFile \o new)[Len(logFile) + n] = new[(Len(logFile) + n) - Len(logFile)]
      BY <1>1, <1>3, <3>1
    <3>3. (Len(logFile) + n) - Len(logFile) = n
      BY <2>1
    <3> QED BY <3>2, <3>3
  <2> QED BY <1>3, <1>4, <2>1, <2>2, <2>3
<1>6. /\ DOMAIN logFile = 1..Len(logFile) /\ DOMAIN logBuffer = 1..Len(logBuffer)
      /\ DOMAIN logFile' = 1..(Len(logFile) + Len(logBuffer))
      /\ Len(logFile) \in Nat /\ Len(logBuffer) \in Nat
  BY <1>1, <1>5
<1>7. \A m \in DOMAIN logFile' : m \in DOMAIN logFile \/ m - Len(logFile) \in DOMAIN logBuffer
  BY <1>6
<1>8. \A n \in DOMAIN logFile : n \in DOMAIN logFile' /\ logFile'[n] = logFile[n]
  BY <1>5, <1>6
<1>9. \A n \in DOMAIN logBuffer : Len(logFile) + n \in DOMAIN logFile'
  BY <1>6
<1>10. \A n \in DOMAIN logBuffer : logFile'[Len(logFile) + n] = new[n]
  BY <1>5, <1>6
<1> QED BY <1>2, <1>5, <1>7, <1>8, <1>9, <1>10

LEMMA WalCommitKeeps ==
  ASSUME WalInv, NEW t \in WalTrx, WalCommit(t)
  PROVE  WalInv'
<1> DEFINE own == Len(mine[t])
           lsn == mine[t][own].lsn
           size == Len(logFile)
<1>1. WalTypes /\ Numbered /\ RecordsAreKept /\ WalPlaces /\ OwnFlushIsCommitted /\ WriteAhead
  BY DEF WalInv
<1>2. /\ recovered /\ walPc[t] = "active" /\ mine[t] # <<>>
      /\ logFile' = logFile \o Flushed(lsn) /\ logBuffer' = <<>>
      /\ walPc' = [walPc EXCEPT ![t] = "committed"]
      /\ UNCHANGED <<impl, dataPages, lsnCounter, checkpointLsn, mine, walCrashes, recovered>>
  BY DEF WalCommit
<1>3. flushedBy' = [l \in DOMAIN flushedBy \cup {r.lsn : r \in RecordsOf(logBuffer)} |->
                       IF l \in DOMAIN flushedBy THEN flushedBy[l] ELSE t]
  BY DEF WalCommit
<1>4. /\ logFile \in Seq(LogRecord) /\ logBuffer \in Seq(LogRecord) /\ mine \in [WalTrx -> Seq(LogRecord)]
      /\ lsnCounter \in Nat /\ size \in Nat /\ Len(logBuffer) \in Nat
      /\ DOMAIN logFile = 1..size /\ DOMAIN logBuffer = 1..Len(logBuffer)
  BY <1>1 DEF WalTypes
<1>5. /\ own \in DOMAIN mine[t] /\ \A n \in DOMAIN mine[t] : n \in Nat /\ n <= own
      /\ lsn \in Nat /\ \A n \in DOMAIN mine[t] : mine[t][n].lsn \in Nat /\ mine[t][n].lsn <= lsn
  <2>1. mine[t] \in Seq(LogRecord) /\ DOMAIN mine[t] = 1..own /\ own \in Nat /\ own # 0
    BY <1>2, <1>4
  <2>2. own \in DOMAIN mine[t] /\ \A n \in DOMAIN mine[t] : n \in Nat /\ n <= own
    BY <2>1
  <2>3. \A n \in DOMAIN mine[t] : mine[t][n].lsn \in Nat
    BY <2>1, RecordsOfALog
  <2>4. \A n \in DOMAIN mine[t] : n < own => mine[t][n].lsn < mine[t][own].lsn
    BY <1>1, <2>2 DEF Numbered
  <2> HIDE DEF own
  <2> QED BY <2>1, <2>2, <2>3, <2>4
<1>6. /\ logFile' \in Seq(LogRecord) /\ Len(logFile') = size + Len(logBuffer)
      /\ \A n \in DOMAIN logFile : n \in DOMAIN logFile' /\ logFile'[n] = logFile[n]
      /\ \A n \in DOMAIN logBuffer :
              /\ size + n \in DOMAIN logFile' /\ logFile'[size + n].lsn = logBuffer[n].lsn
              /\ logFile'[size + n].page = logBuffer[n].page
              /\ logBuffer[n].lsn <= lsn => logFile'[size + n].committed
      /\ \A m \in DOMAIN logFile' : m \in DOMAIN logFile \/ m - size \in DOMAIN logBuffer
  BY <1>2, <1>5, FlushIs
<1> HIDE DEF own, lsn, size
<1>7. \A m \in DOMAIN logFile' : m \in DOMAIN logFile \/ \E n \in DOMAIN logBuffer : m = size + n
  BY <1>4, <1>6
<1>8. {r.lsn : r \in RecordsOf(logFile')} = {r.lsn : r \in RecordsOf(logFile)} \cup {r.lsn : r \in RecordsOf(logBuffer)}
  <2>1. \A l : l \in {r.lsn : r \in RecordsOf(logFile')} <=> \E m \in DOMAIN logFile' : l = logFile'[m].lsn
    BY DEF RecordsOf
  <2>2. \A l : l \in {r.lsn : r \in RecordsOf(logFile)} <=> \E m \in DOMAIN logFile : l = logFile[m].lsn
    BY DEF RecordsOf
  <2>3. \A l : l \in {r.lsn : r \in RecordsOf(logBuffer)} <=> \E m \in DOMAIN logBuffer : l = logBuffer[m].lsn
    BY DEF RecordsOf
  <2>4. \A l : (\E m \in DOMAIN logFile' : l = logFile'[m].lsn)
                 <=> (\E m \in DOMAIN logFile : l = logFile[m].lsn) \/ (\E m \in DOMAIN logBuffer : l = logBuffer[m].lsn)
    BY <1>6, <1>7
  <2> QED BY <2>1, <2>2, <2>3, <2>4, Zenon
<1>9. WalTypes'
  <2>1. DOMAIN flushedBy' = {r.lsn : r \in RecordsOf(logFile')}
    BY <1>1, <1>3, <1>8 DEF WalTypes
  <2>2. <<>> \in Seq(LogRecord)
    OBVIOUS
  <2> QED BY <1>1, <1>2, <1>6, <2>1, <2>2 DEF WalTypes
<1>10. Numbered'
  <2>1. \A m \in DOMAIN logFile' : logFile'[m].lsn <= lsnCounter
    BY <1>1, <1>6, <1>7 DEF Numbered
  <2> QED BY <1>1, <1>2, <2>1 DEF Numbered
<1>11. \A x : InLog(x, logFile) \/ InLog(x, logBuffer) => InLog(x, logFile')
  BY <1>6 DEF InLog
<1>12. RecordsAreKept'
  BY <1>1, <1>2, <1>11 DEF RecordsAreKept, WalTypes
<1>13. WalPlaces'
  BY <1>1, <1>2 DEF WalPlaces, WalTypes
<1>14. LogOrdered'
  <2>1. \A n \in DOMAIN logFile : logFile[n].lsn \in Nat
    BY <1>4, RecordsOfALog
  <2>2. \A n \in DOMAIN logBuffer : logBuffer[n].lsn \in Nat
    BY <1>4, RecordsOfALog
  <2>3. \A m \in DOMAIN logFile, n \in DOMAIN logBuffer : logFile[m].lsn < logBuffer[n].lsn
    BY <1>1 DEF WriteAhead, LogOrdered, RecordsOf
  <2>4. ASSUME NEW m \in DOMAIN logFile', NEW n \in DOMAIN logFile', m < n
        PROVE  logFile'[m].lsn < logFile'[n].lsn
    <3>1. CASE m \in DOMAIN logFile /\ n \in DOMAIN logFile
      BY <1>1, <1>6, <2>4, <3>1 DEF WriteAhead, LogOrdered
    <3>2. CASE m \in DOMAIN logFile /\ n \notin DOMAIN logFile
      BY <1>6, <1>7, <2>3, <2>4, <3>2
    <3>3. CASE m \notin DOMAIN logFile
      <4>1. PICK x \in DOMAIN logBuffer : m = size + x
        BY <1>7, <3>3
      <4>2. n \notin DOMAIN logFile
        BY <1>4, <2>4, <3>3, <4>1
      <4>3. PICK y \in DOMAIN logBuffer : n = size + y
        BY <1>7, <4>2
      <4>4. x < y
        BY <1>4, <2>4, <4>1, <4>3
      <4> QED BY <1>1, <1>6, <4>1, <4>3, <4>4 DEF Numbered
    <3> QED BY <3>1, <3>2, <3>3
  <2> QED BY <1>2, <2>4 DEF LogOrdered, RecordsOf
<1>15. OwnFlushIsCommitted'
  <2>1. ASSUME NEW m \in DOMAIN logFile', OwnFlush(logFile[m].lsn)'
        PROVE  logFile'[m].committed
    <3>1. PICK u \in WalTrx : flushedBy'[logFile'[m].lsn] = u /\ \E x \in RecordsOf(mine[u]) : x.lsn = logFile'[m].lsn
      BY <1>2, <2>1 DEF OwnFlush
    <3>2. CASE m \in DOMAIN logFile
      <4>1. logFile'[m] = logFile[m] /\ logFile[m].lsn \in DOMAIN flushedBy
        BY <1>1, <1>6, <3>2 DEF WalTypes, RecordsOf
      <4>2. OwnFlush(logFile[m].lsn)
        BY <1>3, <3>1, <4>1 DEF OwnFlush
      <4> QED BY <1>1, <3>2, <4>1, <4>2 DEF OwnFlushIsCommitted
    <3>3. CASE m \notin DOMAIN logFile
      <4>1. PICK n \in DOMAIN logBuffer : m = size + n
        BY <1>7, <3>3
      <4>2. logFile'[m].lsn = logBuffer[n].lsn /\ logBuffer[n].lsn \in {r.lsn : r \in RecordsOf(logBuffer)}
        BY <1>6, <4>1 DEF RecordsOf
      <4>3. logBuffer[n].lsn \notin DOMAIN flushedBy
        <5>1. \A k \in DOMAIN logFile : logFile[k].lsn < logBuffer[n].lsn
          BY <1>1 DEF WriteAhead, LogOrdered, RecordsOf
        <5>2. logBuffer[n].lsn \in Nat
          BY <1>4, RecordsOfALog
        <5> QED BY <1>1, <5>1, <5>2 DEF WalTypes, RecordsOf
      <4>4. u = t
        BY <1>3, <3>1, <4>2, <4>3
      <4>5. logBuffer[n].lsn <= lsn
        BY <1>5, <3>1, <4>2, <4>4 DEF RecordsOf
      <4> QED BY <1>6, <4>1, <4>5
    <3> QED BY <3>2, <3>3
  <2> QED BY <2>1 DEF OwnFlushIsCommitted
<1>16. WriteAhead'
  <2>1. \A p \in Page : Logged(p) \subseteq Logged(p)'
    BY <1>6 DEF Logged, RecordsOf
  <2>2. CommittedLsns \subseteq CommittedLsns'
    BY <1>6 DEF CommittedLsns, RecordsOf
  <2>3. CommittedLsns' # {}
    <3>1. CASE logFile = <<>>
      <4>1. InLog(mine[t][own], logBuffer)
        BY <1>1, <1>2, <1>5, <3>1 DEF RecordsAreKept, InLog
      <4>2. PICK n \in DOMAIN logBuffer : logBuffer[n].lsn = lsn
        BY <4>1 DEF InLog, lsn
      <4>3. size + n \in DOMAIN logFile' /\ logFile'[size + n].committed
        BY <1>5, <1>6, <4>2
      <4> QED BY <4>3 DEF CommittedLsns, RecordsOf
    <3>2. CASE logFile # <<>>
      BY <1>1, <2>2, <3>2 DEF WriteAhead
    <3> QED BY <3>1, <3>2
  <2> QED BY <1>1, <1>2, <1>14, <2>1, <2>2, <2>3 DEF WriteAhead
<1> QED BY <1>9, <1>10, <1>12, <1>13, <1>15, <1>16 DEF WalInv

LEMMA ModifyPagesKeeps ==
  ASSUME WalInv, NEW t \in WalTrx, ModifyPages(t)
  PROVE  WalInv'
<1>1. WalTypes /\ Numbered /\ RecordsAreKept /\ WalPlaces /\ OwnFlushIsCommitted /\ WriteAhead
  BY DEF WalInv
<1>2. /\ recovered /\ walPc[t] = "committed" /\ walPc' = [walPc EXCEPT ![t] = "done"]
      /\ UNCHANGED <<impl, logBuffer, logFile, lsnCounter, checkpointLsn, mine, flushedBy, walCrashes, recovered>>
  BY DEF ModifyPages
<1>3. DOMAIN dataPages' = Page /\ dataPages' = [p \in Page |-> dataPages'[p]]
  BY DEF ModifyPages
<1>4. ASSUME NEW p \in Page
      PROVE  /\ dataPages'[p] \in Nat
             /\ dataPages'[p] # 0 => \E r \in Logged(p) : r.lsn = dataPages'[p]
  <2> DEFINE own == {r.lsn : r \in {q \in RecordsOf(mine[t]) : q.page = p}}
  <2>1. dataPages'[p] = IF own = {} THEN dataPages[p] ELSE Max(own)
    BY DEF ModifyPages
  <2>2. CASE own = {}
    BY <1>1, <2>1, <2>2 DEF WalTypes, WriteAhead
  <2>3. CASE own # {}
    <3>1. mine[t] \in Seq(LogRecord) /\ lsnCounter \in Nat
      BY <1>1 DEF WalTypes
    <3>2. \A l \in own : \E n \in DOMAIN mine[t] : mine[t][n].lsn = l /\ mine[t][n].page = p
      BY DEF RecordsOf
    <3>3. \A l \in own : l \in Nat /\ l <= lsnCounter
      BY <1>1, <3>1, <3>2, RecordsOfALog DEF Numbered
    <3> HIDE DEF own
    <3>4. Max(own) \in own
      BY <2>3, <3>1, <3>3, LargestNumber
    <3>5. PICK n \in DOMAIN mine[t] : mine[t][n].lsn = Max(own) /\ mine[t][n].page = p
      BY <3>2, <3>4
    <3>6. InLog(mine[t][n], logFile)
      BY <1>1, <1>2 DEF RecordsAreKept
    <3>7. \E r \in Logged(p) : r.lsn = Max(own)
      BY <3>5, <3>6 DEF InLog, Logged, RecordsOf
    <3> QED BY <2>1, <2>3, <3>3, <3>4, <3>7
  <2> QED BY <2>2, <2>3
<1>5. WalTypes'
  BY <1>1, <1>2, <1>3, <1>4 DEF WalTypes, RecordsOf
<1>6. Numbered' /\ RecordsAreKept' /\ WalPlaces'
  BY <1>1, <1>2 DEF Numbered, RecordsAreKept, InLog, WalPlaces, WalTypes
<1>7. OwnFlushIsCommitted'
  BY <1>1, <1>2 DEF OwnFlushIsCommitted, OwnFlush, RecordsOf
<1>8. WriteAhead'
  BY <1>1, <1>2, <1>4 DEF WriteAhead, LogOrdered, Logged, CommittedLsns, RecordsOf
<1> QED BY <1>5, <1>6, <1>7, <1>8 DEF WalInv

LEMMA CheckpointKeeps == ASSUME WalInv, Checkpoint PROVE WalInv'
<1>1. WalTypes /\ Numbered /\ RecordsAreKept /\ WalPlaces /\ OwnFlushIsCommitted /\ WriteAhead
  BY DEF WalInv
<1>2. /\ checkpointLsn' = IF logFile = <<>> THEN checkpointLsn ELSE Max(CommittedLsns)
      /\ UNCHANGED <<impl, logBuffer, logFile, dataPages, lsnCounter, walPc, mine, flushedBy, walCrashes, recovered>>
  BY DEF Checkpoint
<1>3. checkpointLsn' \in Nat /\ (checkpointLsn' # 0 => checkpointLsn' \in CommittedLsns)
  <2>1. CASE logFile = <<>>
    BY <1>1, <1>2, <2>1 DEF WalTypes, WriteAhead
  <2>2. CASE logFile # <<>>
    <3>1. logFile \in Seq(LogRecord) /\ lsnCounter \in Nat
      BY <1>1 DEF WalTypes
    <3>2. \A l \in CommittedLsns : l \in Nat /\ l <= lsnCounter
      BY <1>1, <3>1, RecordsOfALog DEF Numbered, CommittedLsns, RecordsOf
    <3>3. CommittedLsns # {}
      BY <1>1, <2>2 DEF WriteAhead
    <3>4. Max(CommittedLsns) \in CommittedLsns
      BY <3>1, <3>2, <3>3, LargestNumber
    <3> QED BY <1>2, <2>2, <3>2, <3>4
  <2> QED BY <2>1, <2>2
<1>4. WalTypes'
  BY <1>1, <1>2, <1>3 DEF WalTypes, RecordsOf
<1>5. Numbered' /\ RecordsAreKept' /\ WalPlaces' /\ OwnFlushIsCommitted'
  BY <1>1, <1>2 DEF Numbered, RecordsAreKept, InLog, WalPlaces, OwnFlushIsCommitted, OwnFlush, RecordsOf
<1>6. WriteAhead'
  <2>1. LogOrdered' /\ CommittedLsns' = CommittedLsns /\ \A p \in Page : Logged(p)' = Logged(p)
    BY <1>1, <1>2 DEF WriteAhead, LogOrdered, Logged, CommittedLsns, RecordsOf
  <2> QED BY <1>1, <1>2, <1>3, <2>1 DEF WriteAhead
<1> QED BY <1>4, <1>5, <1>6 DEF WalInv

LEMMA WalCrashKeeps == ASSUME WalInv, WalCrash PROVE WalInv'
<1>1. WalTypes /\ Numbered /\ RecordsAreKept /\ WalPlaces /\ OwnFlushIsCommitted /\ WriteAhead
  BY DEF WalInv
<1>2. /\ logBuffer' = <<>> /\ dataPages' = [p \in Page |-> 0] /\ recovered' = FALSE
      /\ walPc' = [t \in WalTrx |-> IF walPc[t] = "new" THEN "new" ELSE "done"]
      /\ UNCHANGED <<impl, logFile, lsnCounter, checkpointLsn, mine, flushedBy>>
  BY DEF WalCrash
<1>3. WalTypes'
  <2>1. <<>> \in Seq(LogRecord)
    OBVIOUS
  <2> QED BY <1>1, <1>2, <2>1 DEF WalTypes, RecordsOf
<1>4. Numbered' /\ RecordsAreKept' /\ WalPlaces'
  BY <1>1, <1>2 DEF Numbered, RecordsAreKept, WalPlaces
<1>5. OwnFlushIsCommitted'
  <2>1. \A l : OwnFlush(l)' <=> OwnFlush(l)
    BY <1>2 DEF OwnFlush, RecordsOf
  <2> QED BY <1>1, <1>2, <2>1 DEF OwnFlushIsCommitted
<1>6. WriteAhead'
  BY <1>1, <1>2 DEF WriteAhead, LogOrdered, Logged, CommittedLsns, RecordsOf
<1> QED BY <1>3, <1>4, <1>5, <1>6 DEF WalInv

\* What recovery leaves in a page: a record of the file, and the newest of those that are redone.
LEMMA RecoveredPage ==
  ASSUME WalInv, Recover, NEW p \in Page
  PROVE  /\ dataPages'[p] \in Nat
         /\ dataPages'[p] # 0 => \E r \in Logged(p) : r.lsn = dataPages'[p]
         /\ \A n \in RedoneAt(p) : logFile[n].lsn <= dataPages'[p]
<1>1. WalTypes /\ WriteAhead /\ logFile \in Seq(LogRecord)
  BY DEF WalInv, WalTypes
<1>2. dataPages'[p] = IF RedoneAt(p) = {} THEN dataPages[p] ELSE logFile[Max(RedoneAt(p))].lsn
  BY DEF Recover
<1>3. CASE RedoneAt(p) = {}
  BY <1>1, <1>2, <1>3 DEF WalTypes, WriteAhead
<1>4. CASE RedoneAt(p) # {}
  <2> DEFINE last == Max(RedoneAt(p))
  <2>1. DOMAIN logFile = 1..Len(logFile) /\ Len(logFile) \in Nat
    BY <1>1
  <2>2. \A n \in RedoneAt(p) : n \in DOMAIN logFile /\ logFile[n].page = p
    BY DEF RedoneAt
  <2>3. \A n \in RedoneAt(p) : n \in Nat /\ n <= Len(logFile)
    BY <2>1, <2>2
  <2>4. last \in RedoneAt(p) /\ \A n \in RedoneAt(p) : n <= last
    BY <1>4, <2>1, <2>3, LargestNumber
  <2> HIDE DEF last
  <2>5. last \in DOMAIN logFile /\ logFile[last].lsn \in Nat /\ logFile[last].page = p
    BY <1>1, <2>2, <2>4, RecordsOfALog
  <2>6. logFile[last] \in Logged(p)
    BY <2>5 DEF Logged, RecordsOf
  <2>7. ASSUME NEW n \in RedoneAt(p) PROVE logFile[n].lsn <= logFile[last].lsn
    <3>1. n \in DOMAIN logFile /\ logFile[n].lsn \in Nat /\ (n < last \/ n = last)
      BY <1>1, <2>2, <2>3, <2>4, RecordsOfALog
    <3>2. n < last => logFile[n].lsn < logFile[last].lsn
      BY <1>1, <2>5, <3>1 DEF WriteAhead, LogOrdered
    <3> QED BY <2>5, <3>1, <3>2
  <2>8. dataPages'[p] = logFile[last].lsn
    BY <1>2, <1>4 DEF last
  <2> QED BY <2>5, <2>6, <2>7, <2>8
<1> QED BY <1>3, <1>4

LEMMA RecoverKeeps == ASSUME WalInv, Recover PROVE WalInv'
<1>1. WalTypes /\ Numbered /\ RecordsAreKept /\ WalPlaces /\ OwnFlushIsCommitted /\ WriteAhead
  BY DEF WalInv
<1>2. /\ recovered' = TRUE /\ DOMAIN dataPages' = Page /\ dataPages' = [p \in Page |-> dataPages'[p]]
      /\ UNCHANGED <<impl, logBuffer, logFile, lsnCounter, checkpointLsn, walPc, mine, flushedBy, walCrashes>>
  BY DEF Recover
<1>3. \A p \in Page : /\ dataPages'[p] \in Nat
                      /\ dataPages'[p] # 0 => \E r \in Logged(p) : r.lsn = dataPages'[p]
  BY RecoveredPage
<1>4. WalTypes'
  BY <1>1, <1>2, <1>3 DEF WalTypes, RecordsOf
<1>5. Numbered' /\ RecordsAreKept' /\ WalPlaces' /\ OwnFlushIsCommitted'
  BY <1>1, <1>2 DEF Numbered, RecordsAreKept, InLog, WalPlaces, OwnFlushIsCommitted, OwnFlush, RecordsOf
<1>6. WriteAhead'
  BY <1>1, <1>2, <1>3 DEF WriteAhead, LogOrdered, Logged, CommittedLsns, RecordsOf
<1> QED BY <1>4, <1>5, <1>6 DEF WalInv

LEMMA WalNextKeeps == ASSUME WalInv, [WalNext]_walVars PROVE WalInv'
<1>1. CASE UNCHANGED walVars
  <2>1. /\ WalTypes /\ Numbered /\ RecordsAreKept /\ WalPlaces /\ OwnFlushIsCommitted /\ WriteAhead
        /\ UNCHANGED <<impl, logBuffer, logFile, dataPages, lsnCounter, checkpointLsn, walPc, mine, flushedBy, recovered>>
    BY <1>1 DEF walVars, WalInv
  <2>2. WalTypes' /\ Numbered'
    BY <2>1 DEF WalTypes, RecordsOf, Numbered
  <2>3. RecordsAreKept' /\ WalPlaces'
    BY <2>1 DEF RecordsAreKept, InLog, WalPlaces
  <2>4. OwnFlushIsCommitted' /\ WriteAhead'
    BY <2>1 DEF OwnFlushIsCommitted, OwnFlush, WriteAhead, LogOrdered, Logged, CommittedLsns, RecordsOf
  <2> QED BY <2>2, <2>3, <2>4 DEF WalInv
<1>2. ASSUME NEW t \in WalTrx, WalBegin(t) PROVE WalInv'
  <2>1. /\ WalTypes /\ Numbered /\ RecordsAreKept /\ WalPlaces /\ OwnFlushIsCommitted /\ WriteAhead
        /\ recovered /\ walPc[t] = "new" /\ walPc' = [walPc EXCEPT ![t] = "active"] /\ mine[t] = <<>>
        /\ UNCHANGED <<impl, logBuffer, logFile, dataPages, lsnCounter, checkpointLsn, mine, flushedBy, walCrashes, recovered>>
    BY <1>2 DEF WalInv, WalBegin, WalPlaces
  <2>2. WalTypes' /\ Numbered' /\ RecordsAreKept' /\ WalPlaces'
    BY <2>1 DEF WalTypes, RecordsOf, Numbered, RecordsAreKept, InLog, WalPlaces
  <2>3. OwnFlushIsCommitted' /\ WriteAhead'
    BY <2>1 DEF OwnFlushIsCommitted, OwnFlush, WriteAhead, LogOrdered, Logged, CommittedLsns, RecordsOf
  <2> QED BY <2>2, <2>3 DEF WalInv
<1> QED BY <1>1, <1>2, WalWriteKeeps, WalCommitKeeps, ModifyPagesKeeps, CheckpointKeeps, WalCrashKeeps, RecoverKeeps DEF WalNext

\* Only recovery brings the process back, and it redoes every record whose own transaction
\* flushed it.
LEMMA AckedStep ==
  ASSUME WalInv, [WalNext]_walVars, recovered', ~recovered, NEW p \in Page, NEW l \in SafeLsns(p)
  PROVE  dataPages'[p] >= l
<1>1. Recover
  BY DEF WalNext, walVars, WalBegin, WalWrite, WalCommit, ModifyPages, Checkpoint, WalCrash
<1>2. PICK n \in DOMAIN logFile : logFile[n].page = p /\ logFile[n].lsn = l
  BY DEF SafeLsns, Logged, RecordsOf
<1>3. logFile[n].committed
  BY <1>2 DEF WalInv, OwnFlushIsCommitted, SafeLsns
<1>4. n \in RedoneAt(p)
  BY <1>2, <1>3 DEF SafeLsns, RedoneAt, RedoSimulator, RedoReimpl
<1>5. l <= dataPages'[p] /\ dataPages'[p] \in Nat /\ l \in Nat
  <2>1. logFile \in Seq(LogRecord)
    BY DEF WalInv, WalTypes
  <2> QED BY <1>1, <1>2, <1>4, <2>1, RecoveredPage, RecordsOfALog
<1> QED BY <1>5

\* What a view was made from is over: no transaction of a snapshot runs.
ReadInv == MvccInv /\ \A t \in DOMAIN views : snapshot[t] \cap activeTrx = {}

LEMMA ReadInvStep ==
  ASSUME MaxTrx \in Nat, ReadInv, [MvccNext]_mvccVars
  PROVE  ReadInv'
<1>1. MvccInv /\ MvccInv'
  BY MvccStep DEF ReadInv
<1> USE DEF MvccInv, MvccTypeOK
<1>2. CASE UNCHANGED mvccVars
  BY <1>1, <1>2 DEF ReadInv, mvccVars
<1>3. CASE BeginTrx
  BY <1>1, <1>3 DEF ReadInv, BeginTrx
<1>4. ASSUME NEW tid \in Trx, TakeView(tid) PROVE ReadInv'
  BY <1>1, <1>4 DEF ReadInv, TakeView, Ended
<1>5. ASSUME NEW tid \in Trx, CommitTrx(tid) PROVE ReadInv'
  BY <1>1, <1>5 DEF ReadInv, CommitTrx
<1>6. ASSUME NEW tid \in Trx, NEW key \in Key, MvccWrite(tid, key) PROVE ReadInv'
  BY <1>1, <1>6 DEF ReadInv, MvccWrite
<1> QED BY <1>2, <1>3, <1>4, <1>5, <1>6 DEF MvccNext

LEMMA RepeatableStep ==
  ASSUME MaxTrx \in Nat, ReadInv, [MvccNext]_mvccVars, NEW t \in DOMAIN views, NEW k \in Key,
         rows'[k] = rows[k] \/ rows'[k][Len(rows'[k])] # t
  PROVE  ReadWithView(rows'[k], views'[t]) = ReadWithView(rows[k], views[t])
<1>1. MvccInv /\ MvccTypeOK
  BY DEF ReadInv, MvccInv
<1>2. views'[t] = views[t]
  BY DEF MvccNext, mvccVars, BeginTrx, MvccWrite, TakeView, CommitTrx
<1>3. CASE rows'[k] = rows[k]
  BY <1>2, <1>3
<1>4. CASE rows'[k] # rows[k]
  <2>1. PICK w \in Trx, key \in Key : MvccWrite(w, key)
    BY <1>4 DEF MvccNext, mvccVars, BeginTrx, TakeView, CommitTrx
  <2>2. w \in activeTrx /\ rows' = [rows EXCEPT ![key] = Append(@, w)]
    BY <2>1 DEF MvccWrite
  <2>3. key = k /\ rows[k] \in Seq(Trx) /\ rows'[k] = Append(rows[k], w)
    BY <1>1, <1>4, <2>2 DEF MvccTypeOK
  <2> DEFINE n == Len(rows[k]) + 1
  <2>4. /\ n \in Nat /\ DOMAIN rows[k] = 1..(n - 1) /\ DOMAIN rows'[k] = 1..n
        /\ rows'[k][n] = w /\ Len(rows'[k]) = n
        /\ \A i \in 1..(n - 1) : rows'[k][i] = rows[k][i]
    BY <2>1, <2>3
  <2> HIDE DEF n
  <2>5. w # t
    BY <1>4, <2>4
  <2>6. w \in 1..trxCounter /\ w \notin snapshot[t]
    BY <1>1, <2>2 DEF ReadInv, MvccTypeOK
  <2>7. ~IsVisible(views[t], w)
    BY <1>1, <2>5, <2>6, MvccInvImplies DEF SnapshotIsCommitted
  <2>8. {i \in DOMAIN rows'[k] : IsVisible(views[t], rows'[k][i])} = {i \in DOMAIN rows[k] : IsVisible(views[t], rows[k][i])}
    BY <2>4, <2>7
  <2> QED BY <1>2, <2>8 DEF ReadWithView
<1> QED BY <1>3, <1>4

\* The steps of one lab leave the variables of the others alone.
LEMMA DatabaseSteps == [LabsNext]_labsVars => [WalNext]_walVars /\ [MvccNext]_mvccVars
  BY DEF LabsNext, labsVars, databaseVars, DatabaseNext, LockNext, MeasureNext

\* The databases keep their word, for any number of transactions, pages, keys and crashes: pages
\* never run ahead of the log, no acknowledged write is lost by a crash, and a transaction that
\* keeps its view finds the same versions again.
THEOREM DatabasesKeepTheirWord == ASSUME MaxTrx \in Nat PROVE LabsSpec => DatabasesHold
<1>1. LabsInit => WalInv /\ ReadInv
  <2>1. MvccInit => ReadInv
    BY DEF MvccInit, ReadInv, MvccInv, MvccTypeOK
  <2> QED BY <2>1, WalInitially DEF LabsInit
<1>2. WalInv /\ ReadInv /\ [LabsNext]_labsVars => (WalInv /\ ReadInv)'
  BY WalNextKeeps, ReadInvStep, DatabaseSteps
<1>3. WalInv => WriteAhead
  BY DEF WalInv
<1>4. WalInv /\ [LabsNext]_labsVars
        => [recovered' /\ ~recovered => \A p \in Page : \A l \in SafeLsns(p) : dataPages'[p] >= l]_walVars
  BY AckedStep, DatabaseSteps
<1>5. ReadInv /\ [LabsNext]_labsVars
        => [\A t \in DOMAIN views, k \in Key :
              (rows'[k] = rows[k] \/ rows'[k][Len(rows'[k])] # t) =>
                ReadWithView(rows'[k], views'[t]) = ReadWithView(rows[k], views[t])]_mvccVars
  BY RepeatableStep, DatabaseSteps
<1> QED BY <1>1, <1>2, <1>3, <1>4, <1>5, PTL DEF LabsSpec, DatabasesHold, AckedSurvivesCrash, RepeatableRead

----------------------------------------------------------------------------
(* The lease and the fenced storage *)

RedisConstants == None \notin RedisClient /\ LeaseTtl \in Nat /\ Interval \in Nat

RedisTypeOK ==
  /\ owner \in RedisClient \cup {None} /\ data \in RedisClient \cup {None}
  /\ expiresAt \in Nat /\ redisNow \in Nat /\ issued \in Nat /\ maxToken \in Nat
  /\ taskPc \in [RedisClient -> {"start", "working", "holding", "lost", "failed", "released"}]
  /\ dogSince \in [RedisClient -> Int]
  /\ token \in [RedisClient -> Nat]

\* Every acquisition has a token of its own, none is above the last one issued, and the storage
\* keeps the token of the client whose value it has.
TokensDiffer ==
  /\ \A c \in RedisClient : token[c] <= issued /\ (taskPc[c] = "start" => token[c] = 0)
  /\ \A c, d \in RedisClient : token[c] = token[d] /\ token[c] # 0 => c = d
  /\ data # None => token[data] # 0 /\ maxToken = token[data]

\* Who owns the lock has asked for it, and a lease is never longer than the ttl.
LeaseInOrder ==
  /\ owner # None => taskPc[owner] # "start"
  /\ expiresAt <= redisNow + LeaseTtl

RedisInv == RedisTypeOK /\ TokensDiffer /\ LeaseInOrder

LEMMA RedisInitially ==
  ASSUME RedisConstants PROVE RedisInit => RedisInv
  BY DEF RedisConstants, RedisInit, RedisInv, RedisTypeOK, TokensDiffer, LeaseInOrder

LEMMA RedisStartStep ==
  ASSUME RedisConstants, RedisInv, NEW c \in RedisClient, StartTask(c)
  PROVE  RedisInv'
<1> USE DEF RedisConstants, RedisInv
<1>1. CASE Acquire(c) /\ issued' = issued + 1 /\ token' = [token EXCEPT ![c] = issued + 1]
           /\ taskPc' = [taskPc EXCEPT ![c] = "working"]
           /\ (dogSince' = [dogSince EXCEPT ![c] = redisNow] \/ UNCHANGED dogSince)
  <2>1. UNCHANGED <<redisNow, data, maxToken>> /\ taskPc[c] = "start"
    BY DEF StartTask
  <2>2. RedisTypeOK'
    BY <1>1, <2>1 DEF RedisTypeOK, Acquire
  <2>3. TokensDiffer'
    <3>1. data # None => data # c
      BY <2>1 DEF TokensDiffer
    <3> QED BY <1>1, <2>1, <3>1 DEF RedisTypeOK, TokensDiffer
  <2>4. LeaseInOrder'
    BY <1>1, <2>1 DEF RedisTypeOK, LeaseInOrder, Acquire
  <2> QED BY <2>2, <2>3, <2>4
<1>2. CASE taskPc' = [taskPc EXCEPT ![c] = "failed"]
           /\ UNCHANGED <<owner, expiresAt, issued, token, dogSince>>
  <2>1. UNCHANGED <<redisNow, data, maxToken>> /\ taskPc[c] = "start"
    BY DEF StartTask
  <2> QED BY <1>2, <2>1 DEF RedisTypeOK, TokensDiffer, LeaseInOrder
<1> QED BY <1>1, <1>2 DEF StartTask

LEMMA RedisStep ==
  ASSUME RedisConstants, RedisInv, [RedisNext]_redisVars
  PROVE  RedisInv'
<1> USE DEF RedisConstants, RedisInv
<1>1. CASE UNCHANGED redisVars
  BY <1>1 DEF redisVars, RedisTypeOK, TokensDiffer, LeaseInOrder
<1>2. ASSUME NEW c \in RedisClient, StartTask(c) PROVE RedisInv'
  BY <1>2, RedisStartStep
<1>3. ASSUME NEW c \in RedisClient, WatchDog(c) PROVE RedisInv'
  BY <1>3 DEF WatchDog, Renew, RedisTypeOK, TokensDiffer, LeaseInOrder
<1>4. ASSUME NEW c \in RedisClient, CheckHolding(c) PROVE RedisInv'
  BY <1>4 DEF CheckHolding, RedisTypeOK, TokensDiffer, LeaseInOrder
<1>5. ASSUME NEW c \in RedisClient, FinishTask(c) PROVE RedisInv'
  BY <1>5 DEF FinishTask, Release, RedisTypeOK, TokensDiffer, LeaseInOrder
<1>6. ASSUME NEW c \in RedisClient, StorageWrite(c) PROVE RedisInv'
  BY <1>6 DEF StorageWrite, RedisTypeOK, TokensDiffer, LeaseInOrder
<1>7. CASE RedisTick
  BY <1>7 DEF RedisTick, RedisTypeOK, TokensDiffer, LeaseInOrder
<1> QED BY <1>1, <1>2, <1>3, <1>4, <1>5, <1>6, <1>7 DEF RedisNext

\* What one step may do to the lease and to the storage, as LeaseRespected, RenewedForOwner and
\* NoStaleOverwrite state it.
LeaseStep ==
  (owner # None /\ redisNow <= expiresAt) =>
    \/ owner' = owner /\ expiresAt' >= expiresAt
    \/ owner' = None /\ taskPc[owner] = "holding" /\ taskPc'[owner] = "released"
RenewStep == (owner # None /\ owner' = owner /\ expiresAt' # expiresAt) => dogSince'[owner] = redisNow
OverwriteStep == (data # None /\ data' # data) => token[data'] > token[data]

LEMMA RedisStepIsSafe ==
  ASSUME RedisConstants, RedisInv, [RedisNext]_redisVars
  PROVE  LeaseStep /\ RenewStep /\ OverwriteStep
<1> USE DEF RedisConstants, RedisInv, LeaseStep, RenewStep, OverwriteStep
<1>1. CASE UNCHANGED redisVars
  BY <1>1 DEF redisVars, RedisTypeOK
<1>2. ASSUME NEW c \in RedisClient, StartTask(c) PROVE LeaseStep /\ RenewStep /\ OverwriteStep
  <2>1. LeaseStep
    BY <1>2 DEF StartTask, Acquire, RedisTypeOK
  <2>2. RenewStep
    BY <1>2 DEF StartTask, Acquire, RedisTypeOK, LeaseInOrder
  <2> QED BY <1>2, <2>1, <2>2 DEF StartTask
<1>3. ASSUME NEW c \in RedisClient, WatchDog(c) PROVE LeaseStep /\ RenewStep /\ OverwriteStep
  BY <1>3 DEF WatchDog, Renew, RedisTypeOK, LeaseInOrder
<1>4. ASSUME NEW c \in RedisClient, CheckHolding(c) PROVE LeaseStep /\ RenewStep /\ OverwriteStep
  BY <1>4 DEF CheckHolding, RedisTypeOK
<1>5. ASSUME NEW c \in RedisClient, FinishTask(c) PROVE LeaseStep /\ RenewStep /\ OverwriteStep
  BY <1>5 DEF FinishTask, Release, RedisTypeOK
<1>6. ASSUME NEW c \in RedisClient, StorageWrite(c) PROVE LeaseStep /\ RenewStep /\ OverwriteStep
  BY <1>6 DEF StorageWrite, RedisTypeOK, TokensDiffer
<1>7. CASE RedisTick
  BY <1>7 DEF RedisTick, RedisTypeOK
<1> QED BY <1>1, <1>2, <1>3, <1>4, <1>5, <1>6, <1>7 DEF RedisNext

RedisSpec == RedisInit /\ [][RedisNext]_redisVars

\* The lease and the fenced storage, for any number of clients, any ttl, any interval of the
\* watchdogs and any delay of the writes: a lease in force is taken from nobody, only an owner's
\* watchdog renews it, and no write overtakes that of a later holder.
THEOREM LockIsSafe ==
  ASSUME RedisConstants PROVE RedisSpec => RedisLockSafe
<1>1. RedisInit => RedisInv
  BY RedisInitially
<1>2. RedisInv /\ [RedisNext]_redisVars => RedisInv'
  BY RedisStep
<1>3. RedisInv /\ [RedisNext]_redisVars => [LeaseStep]_redisVars
  BY RedisStepIsSafe
<1>4. RedisInv /\ [RedisNext]_redisVars => [RenewStep]_redisVars
  BY RedisStepIsSafe
<1>5. RedisInv /\ [RedisNext]_redisVars => [OverwriteStep]_redisVars
  BY RedisStepIsSafe
<1>6. RedisSpec => LeaseRespected
  BY <1>1, <1>2, <1>3, PTL DEF RedisSpec, LeaseRespected, LeaseStep
<1>7. RedisSpec => RenewedForOwner
  BY <1>1, <1>2, <1>4, PTL DEF RedisSpec, RenewedForOwner, RenewStep
<1>8. RedisSpec => NoStaleOverwrite
  BY <1>1, <1>2, <1>5, PTL DEF RedisSpec, NoStaleOverwrite, OverwriteStep
<1> QED BY <1>6, <1>7, <1>8 DEF RedisLockSafe
----------------------------------------------------------------------------
(* LockScripts: the directory lock *)

LockFile == [seq : Nat, client : ZkClient]

\* A file that may exist is named no later than the one its client has named last, and earlier if
\* that one is still to be created.
NamedBefore(f) ==
  /\ f.seq <= path[f.client].seq
  /\ zkPc[f.client] = "named" => f.seq < path[f.client].seq

ZkTypeOK ==
  /\ zkClock \in Nat /\ files \subseteq LockFile
  /\ zkPc \in [ZkClient -> {"start", "named", "listing", "waiting", "holding"}]
  /\ path \in [ZkClient -> [seq : Nat, client : Nat]]
  /\ \A c \in ZkClient : zkPc[c] # "start" => path[c].client = c
  /\ ahead \in [ZkClient -> SUBSET LockFile]

FilesInOrder ==
  /\ \A f \in files : NamedBefore(f)
  /\ \A c \in ZkClient : \A f \in ahead[c] :
        NamedBefore(f) /\ (zkPc[c] # "start" => f.seq < path[c].seq)

ZkInv == ZkTypeOK /\ FilesInOrder /\ FirstComeFirstServed

LEMMA ZkStepKeeps == ASSUME ZkInv, [ZkNext]_zkVars PROVE ZkInv'
<1> USE DEF ZkInv
<1>1. CASE UNCHANGED zkVars
  BY <1>1 DEF zkVars, ZkTypeOK, FilesInOrder, NamedBefore, FirstComeFirstServed
<1>2. ASSUME NEW c \in ZkClient, NameFile(c) PROVE ZkInv'
  <2>1. PICK t \in {zkClock, zkClock + 1} :
            /\ t > path[c].seq /\ zkClock' = t
            /\ path' = [path EXCEPT ![c] = [seq |-> t, client |-> c]]
            /\ ahead' = [ahead EXCEPT ![c] = {f \in files : f.seq < t}]
    BY <1>2 DEF NameFile
  <2>2. /\ zkPc[c] = "start" /\ zkPc' = [zkPc EXCEPT ![c] = "named"]
        /\ files' = files /\ t \in Nat /\ c \in Nat
    BY <1>2 DEF NameFile, ZkTypeOK, ZkClient
  <2>3. ZkTypeOK'
    BY <2>1, <2>2 DEF ZkTypeOK
  <2>4. \A f \in LockFile : NamedBefore(f) => NamedBefore(f)'
    BY <2>1, <2>2 DEF ZkTypeOK, LockFile, NamedBefore
  <2>5. FilesInOrder'
    BY <2>1, <2>2, <2>4 DEF ZkTypeOK, FilesInOrder
  <2>6. FirstComeFirstServed'
    BY <2>1, <2>2 DEF ZkTypeOK, FirstComeFirstServed
  <2> QED BY <2>3, <2>5, <2>6
<1>3. ASSUME NEW c \in ZkClient, CreateFile(c) PROVE ZkInv'
  <2>1. /\ zkPc[c] = "named" /\ files' = files \cup {path[c]}
        /\ zkPc' = [zkPc EXCEPT ![c] = "listing"] /\ UNCHANGED <<zkClock, path, ahead>>
        /\ path[c] \in LockFile /\ path[c].client = c
    BY <1>3 DEF CreateFile, ZkTypeOK, LockFile
  <2>2. ZkTypeOK'
    BY <2>1 DEF ZkTypeOK
  <2>3. \A f \in LockFile : NamedBefore(f) => NamedBefore(f)'
    BY <2>1 DEF ZkTypeOK, LockFile, NamedBefore
  <2>4. NamedBefore(path[c])'
    BY <2>1 DEF ZkTypeOK, LockFile, NamedBefore
  <2>5. FilesInOrder'
    BY <2>1, <2>3, <2>4 DEF ZkTypeOK, FilesInOrder
  <2>6. \A d \in ZkClient : path[c] \notin ahead[d]
    BY <2>1 DEF ZkTypeOK, LockFile, FilesInOrder, NamedBefore
  <2>7. FirstComeFirstServed'
    BY <2>1, <2>6 DEF ZkTypeOK, FirstComeFirstServed
  <2> QED BY <2>2, <2>5, <2>7
<1>4. ASSUME NEW c \in ZkClient, ListFiles(c) \/ PredecessorGone(c) PROVE ZkInv'
  <2>1. PICK there \in {"listing", "waiting", "holding"} :
            /\ zkPc' = [zkPc EXCEPT ![c] = there]
            /\ zkPc[c] # "start" /\ zkPc[c] # "named"
            /\ there = "holding" => IsFirst(c)
    BY <1>4 DEF ListFiles, PredecessorGone
  <2>2. UNCHANGED <<zkClock, files, path, ahead>>
    BY <1>4 DEF ListFiles, PredecessorGone
  <2>3. ZkTypeOK'
    BY <2>1, <2>2 DEF ZkTypeOK
  <2>4. \A f \in LockFile : NamedBefore(f) => NamedBefore(f)'
    BY <2>1, <2>2 DEF ZkTypeOK, LockFile, NamedBefore
  <2>5. FilesInOrder'
    BY <2>1, <2>2, <2>4 DEF ZkTypeOK, FilesInOrder
  <2>6. there = "holding" => ahead[c] \cap files = {}
    BY <2>1 DEF IsFirst, Smaller, Before, ZkTypeOK, FilesInOrder
  <2>7. FirstComeFirstServed'
    BY <2>1, <2>2, <2>6 DEF ZkTypeOK, FirstComeFirstServed
  <2> QED BY <2>3, <2>5, <2>7
<1>5. ASSUME NEW c \in ZkClient, ReleaseLock(c) PROVE ZkInv'
  <2>1. /\ files' = files \ {path[c]} /\ ahead' = [ahead EXCEPT ![c] = {}]
        /\ zkPc' = [zkPc EXCEPT ![c] = "start"] /\ UNCHANGED <<zkClock, path>>
    BY <1>5 DEF ReleaseLock
  <2>2. ZkTypeOK'
    BY <2>1 DEF ZkTypeOK
  <2>3. \A f \in LockFile : NamedBefore(f) => NamedBefore(f)'
    BY <2>1 DEF ZkTypeOK, LockFile, NamedBefore
  <2>4. FilesInOrder'
    BY <2>1, <2>3 DEF ZkTypeOK, FilesInOrder
  <2>5. FirstComeFirstServed'
    BY <2>1 DEF ZkTypeOK, FirstComeFirstServed
  <2> QED BY <2>2, <2>4, <2>5
<1> QED BY <1>1, <1>2, <1>3, <1>4, <1>5 DEF ZkNext, ZkStep

ZkSpec == ZkInit /\ [][ZkNext]_zkVars

\* The directory lock is served in the order in which the clients read the clock, as far as their
\* files existed then, for any number of clients and rounds and however the clock advances.
THEOREM ServedInOrder == ZkSpec => []FirstComeFirstServed
<1>1. ZkInit => ZkInv
  BY DEF ZkInit, ZkInv, ZkTypeOK, FilesInOrder, FirstComeFirstServed, NoFile
<1>2. ZkInv /\ [ZkNext]_zkVars => ZkInv'
  BY ZkStepKeeps
<1>3. ZkInv => FirstComeFirstServed
  BY DEF ZkInv
<1> QED BY <1>1, <1>2, <1>3, PTL DEF ZkSpec

-----------------------------------------------------------------------------
(* The logs: replication and Raft *)

\* The three logs hold the numbers from 1 to the clock, cut in three.
LogTypes ==
  /\ masterLog \in Seq(Nat) /\ relayLog \in Seq(Nat) /\ appliedLog \in Seq(Nat)
  /\ slaveWorkers \in Nat \ {0} /\ clock \in Nat /\ rounds \in Nat /\ turn \in {"master", "io", "sql"}
CutInThree ==
  /\ Len(appliedLog) + Len(relayLog) + Len(masterLog) = clock
  /\ \A i \in 1..Len(appliedLog) : appliedLog[i] = i
  /\ \A i \in 1..Len(relayLog) : relayLog[i] = Len(appliedLog) + i
  /\ \A i \in 1..Len(masterLog) : masterLog[i] = Len(appliedLog) + Len(relayLog) + i

\* A round carries one transaction as long as there is one.
OneARound ==
  /\ turn = "master" => rounds = 0
  /\ turn # "sql" => Len(relayLog) = 0
  /\ turn = "sql" => Len(relayLog) = IF rounds < clock THEN 1 ELSE 0
  /\ Len(appliedLog) = IF rounds < clock THEN rounds ELSE clock
  /\ turn = "io" /\ rounds > 0 => secondsBehindMaster = clock - Len(appliedLog)
ReplicationInv == LogTypes /\ CutInThree /\ OneARound

LEMMA ReplicationInitially == ReplicationInit => ReplicationInv
BY ReplicationAssumption DEF ReplicationInit, ReplicationInv, LogTypes, CutInThree, OneARound

LEMMA MasterWriteKeeps == ASSUME ReplicationInv, MasterWrite PROVE ReplicationInv'
<1>1. masterLog \in Seq(Nat) /\ clock \in Nat /\ masterLog' = Append(masterLog, clock + 1) /\ clock' = clock + 1
  BY DEF ReplicationInv, LogTypes, MasterWrite
<1>2. /\ masterLog' \in Seq(Nat) /\ Len(masterLog') = Len(masterLog) + 1 /\ Len(masterLog) \in Nat
      /\ \A i \in 1..Len(masterLog) : masterLog'[i] = masterLog[i]
      /\ masterLog'[Len(masterLog) + 1] = clock + 1
  BY <1>1
<1>3. Len(appliedLog) \in Nat /\ Len(relayLog) \in Nat
  BY DEF ReplicationInv, LogTypes
<1>4. Len(relayLog) = 0 /\ rounds = 0 /\ Len(appliedLog) = 0
  BY <1>1 DEF ReplicationInv, OneARound, MasterWrite
<1> QED BY <1>1, <1>2, <1>3, <1>4 DEF ReplicationInv, LogTypes, CutInThree, OneARound, MasterWrite

LEMMA IoThreadKeeps == ASSUME ReplicationInv, IoThread PROVE ReplicationInv'
<1>1. /\ masterLog \in Seq(Nat) /\ relayLog \in Seq(Nat) /\ clock \in Nat /\ rounds \in Nat
      /\ Len(appliedLog) \in Nat /\ Len(relayLog) = 0 /\ turn = "io" /\ Len(masterLog) \in Nat
  BY DEF ReplicationInv, LogTypes, OneARound, IoThread
<1>2. CASE masterLog = <<>>
  BY <1>1, <1>2 DEF ReplicationInv, LogTypes, CutInThree, OneARound, IoThread
<1>3. CASE masterLog # <<>>
  <2>1. masterLog' = Tail(masterLog) /\ relayLog' = Append(relayLog, Head(masterLog))
        /\ UNCHANGED <<appliedLog, clock, rounds, slaveWorkers>> /\ turn' = "sql"
    BY <1>3 DEF IoThread
  <2>2. /\ masterLog' \in Seq(Nat) /\ Len(masterLog') = Len(masterLog) - 1 /\ Len(masterLog) >= 1
        /\ \A i \in 1..Len(masterLog') : masterLog'[i] = masterLog[i + 1]
        /\ Head(masterLog) = masterLog[1] /\ Head(masterLog) \in Nat
    BY <1>1, <1>3, <2>1
  <2>3. relayLog' \in Seq(Nat) /\ Len(relayLog') = 1 /\ relayLog'[1] = masterLog[1]
    BY <1>1, <2>1, <2>2
  <2>4. CutInThree'
    <3>1. masterLog[1] = Len(appliedLog) + 1
      BY <1>1, <2>2 DEF ReplicationInv, CutInThree
    <3>2. \A i \in 1..Len(masterLog') : masterLog'[i] = Len(appliedLog) + 1 + i
      BY <1>1, <2>2, SMTT(30) DEF ReplicationInv, CutInThree
    <3>3. /\ appliedLog' = appliedLog /\ clock' = clock /\ Len(relayLog') = 1 /\ Len(masterLog') = Len(masterLog) - 1
          /\ Len(appliedLog) + Len(masterLog) = clock /\ \A i \in 1..Len(appliedLog) : appliedLog[i] = i
      BY <1>1, <2>1, <2>2, <2>3 DEF ReplicationInv, CutInThree
    <3>4. \A i \in 1..1 : relayLog'[i] = Len(appliedLog) + i
      BY <2>3, <3>1
    <3>5. Len(appliedLog') + Len(relayLog') + Len(masterLog') = clock'
      <4>1. \A a, m, c, n \in Int : a + m = c /\ n = m - 1 => (a + 1) + n = c
        OBVIOUS
      <4>2. Len(appliedLog) \in Int /\ Len(masterLog) \in Int /\ clock \in Int /\ Len(masterLog') \in Int
        BY <1>1, <2>2
      <4> QED BY <4>1, <4>2, <3>3
    <3>6. \A i \in 1..Len(relayLog') : relayLog'[i] = Len(appliedLog') + i
      BY <3>3, <3>4
    <3>7. \A i \in 1..Len(masterLog') : masterLog'[i] = Len(appliedLog') + Len(relayLog') + i
      BY <3>2, <3>3
    <3> QED BY <3>3, <3>5, <3>6, <3>7 DEF CutInThree
  <2>5. OneARound'
    BY <1>1, <2>1, <2>2, <2>3 DEF ReplicationInv, CutInThree, OneARound
  <2> QED BY <2>1, <2>2, <2>3, <2>4, <2>5 DEF ReplicationInv, LogTypes
<1> QED BY <1>2, <1>3

LEMMA SqlThreadKeeps == ASSUME ReplicationInv, SqlThread PROVE ReplicationInv'
<1>1. /\ relayLog \in Seq(Nat) /\ appliedLog \in Seq(Nat) /\ clock \in Nat /\ rounds \in Nat
      /\ Len(appliedLog) \in Nat /\ Len(masterLog) \in Nat /\ slaveWorkers \in Nat \ {0} /\ turn = "sql"
      /\ Len(relayLog) = IF rounds < clock THEN 1 ELSE 0
  BY DEF ReplicationInv, LogTypes, OneARound, SqlThread
<1>2. Batch = Len(relayLog)
  BY <1>1 DEF Batch
<1> DEFINE got == SubSeq(relayLog, 1, Batch)
<1>3. /\ got \in Seq(Nat) /\ Len(got) = Len(relayLog) /\ Len(got) \in Nat
      /\ \A i \in 1..Len(got) : got[i] = Len(appliedLog) + i
  <2>1. Batch \in 0..Len(relayLog) /\ \A i \in 1..Len(relayLog) : relayLog[i] = Len(appliedLog) + i
    BY <1>1, <1>2 DEF ReplicationInv, CutInThree
  <2>2. /\ SubSeq(relayLog, 1, Batch) \in Seq(Nat) /\ Len(SubSeq(relayLog, 1, Batch)) = Batch
        /\ \A i \in 1..Batch : SubSeq(relayLog, 1, Batch)[i] = relayLog[i]
    BY <1>1, <2>1
  <2> QED BY <1>2, <2>1, <2>2
<1>4. appliedLog' = appliedLog \o got /\ clock' = clock /\ masterLog' = masterLog /\ slaveWorkers' = slaveWorkers
      /\ rounds' = rounds + 1 /\ turn' = "io" /\ secondsBehindMaster' = Len(masterLog) + Len(relayLog')
  BY DEF SqlThread
<1>5. relayLog' \in Seq(Nat) /\ Len(relayLog') = 0
  <2>1. SubSeq(relayLog, Len(relayLog) + 1, Len(relayLog)) = <<>>
    BY <1>1
  <2> QED BY <1>2, <2>1 DEF SqlThread
<1> HIDE DEF got
<1>6. /\ appliedLog' \in Seq(Nat) /\ Len(appliedLog') = Len(appliedLog) + Len(got)
      /\ \A i \in 1..Len(appliedLog') :
           appliedLog'[i] = IF i <= Len(appliedLog) THEN appliedLog[i] ELSE got[i - Len(appliedLog)]
  <2>1. got \in Seq(Nat) /\ appliedLog \in Seq(Nat)
    BY <1>1, <1>3
  <2>2. /\ appliedLog \o got \in Seq(Nat) /\ Len(appliedLog \o got) = Len(appliedLog) + Len(got)
        /\ \A i \in 1..Len(appliedLog \o got) :
             (appliedLog \o got)[i] = IF i <= Len(appliedLog) THEN appliedLog[i] ELSE got[i - Len(appliedLog)]
    BY <2>1
  <2> QED BY <1>4, <2>2
<1>7. \A i \in 1..Len(appliedLog') : appliedLog'[i] = i
  <2> TAKE i \in 1..Len(appliedLog')
  <2>1. CASE i <= Len(appliedLog)
    <3>1. i \in 1..Len(appliedLog)
      BY <1>1, <1>3, <1>6, <2>1
    <3> QED BY <1>6, <2>1, <3>1 DEF ReplicationInv, CutInThree
  <2>2. CASE i > Len(appliedLog)
    <3>1. i - Len(appliedLog) \in 1..Len(got) /\ i \in Int
      BY <1>1, <1>3, <1>6, <2>2
    <3>2. got[i - Len(appliedLog)] = Len(appliedLog) + (i - Len(appliedLog))
      BY <1>3, <3>1
    <3> QED BY <1>1, <1>6, <2>2, <3>1, <3>2
  <2> QED BY <1>1, <1>3, <1>6, <2>1, <2>2
<1>8. /\ Len(appliedLog) + Len(relayLog) + Len(masterLog) = clock
      /\ \A i \in 1..Len(masterLog) : masterLog[i] = Len(appliedLog) + Len(relayLog) + i
  BY DEF ReplicationInv, CutInThree
<1>9. CutInThree'
  BY <1>1, <1>3, <1>4, <1>5, <1>6, <1>7, <1>8 DEF CutInThree
<1>10. OneARound'
  <2>1. Len(appliedLog) = IF rounds < clock THEN rounds ELSE clock
    BY DEF ReplicationInv, OneARound
  <2> QED BY <1>1, <1>3, <1>4, <1>5, <1>6, <1>8, <2>1 DEF OneARound
<1> QED BY <1>1, <1>4, <1>5, <1>6, <1>9, <1>10 DEF ReplicationInv, LogTypes

LEMMA ReplicationNextKeeps == ASSUME ReplicationInv, [ReplicationNext]_replicationVars PROVE ReplicationInv'
<1>1. CASE UNCHANGED replicationVars
  BY <1>1 DEF replicationVars, ReplicationInv, LogTypes, CutInThree, OneARound
<1>2. CASE StartSlave
  <2>1. CutInThree' /\ LogTypes'
    BY <1>2 DEF StartSlave, ReplicationInv, LogTypes, CutInThree
  <2>2. rounds = 0 /\ Len(relayLog) = 0
    BY <1>2 DEF StartSlave, ReplicationInv, OneARound
  <2> QED BY <1>2, <2>1, <2>2 DEF StartSlave, ReplicationInv, OneARound
<1> QED BY <1>1, <1>2, MasterWriteKeeps, IoThreadKeeps, SqlThreadKeeps DEF ReplicationNext

LEMMA ReplicationInvImplies == ReplicationInv => ReplicaIsAPrefix
<1> SUFFICES ASSUME ReplicationInv PROVE ReplicaIsAPrefix
  OBVIOUS
<1> DEFINE two == appliedLog \o relayLog
           all == two \o masterLog
<1>1. masterLog \in Seq(Nat) /\ relayLog \in Seq(Nat) /\ appliedLog \in Seq(Nat) /\ clock \in Nat
  BY DEF ReplicationInv, LogTypes
<1>2. /\ two \in Seq(Nat) /\ Len(two) = Len(appliedLog) + Len(relayLog)
      /\ \A i \in 1..Len(two) : two[i] = IF i <= Len(appliedLog) THEN appliedLog[i] ELSE relayLog[i - Len(appliedLog)]
  BY <1>1
<1>3. \A i \in 1..Len(two) : two[i] = i
  <2> HIDE DEF two
  <2>0. Len(appliedLog) \in Nat /\ Len(relayLog) \in Nat
    BY <1>1
  <2> TAKE i \in 1..Len(two)
  <2>1. CASE i <= Len(appliedLog)
    <3>1. i \in 1..Len(appliedLog)
      BY <1>2, <2>0, <2>1
    <3> QED BY <1>2, <2>1, <3>1 DEF ReplicationInv, CutInThree
  <2>2. CASE i > Len(appliedLog)
    <3>1. i - Len(appliedLog) \in 1..Len(relayLog) /\ i \in Int
      BY <1>2, <2>0, <2>2
    <3>2. relayLog[i - Len(appliedLog)] = Len(appliedLog) + (i - Len(appliedLog))
      BY <3>1 DEF ReplicationInv, CutInThree
    <3> QED BY <1>2, <2>0, <2>2, <3>1, <3>2
  <2> QED BY <1>2, <2>0, <2>1, <2>2
<1> HIDE DEF two
<1>4. /\ all \in Seq(Nat) /\ Len(all) = Len(two) + Len(masterLog) /\ Len(two) \in Nat /\ Len(masterLog) \in Nat
      /\ \A i \in 1..Len(all) : all[i] = IF i <= Len(two) THEN two[i] ELSE masterLog[i - Len(two)]
  <2>1. two \in Seq(Nat)
    BY <1>2
  <2> QED BY <1>1, <2>1
<1>5. \A i \in 1..Len(all) : all[i] = i
  <2> HIDE DEF all
  <2> TAKE i \in 1..Len(all)
  <2>1. CASE i <= Len(two)
    BY <1>1, <1>2, <1>3, <1>4, <2>1
  <2>2. CASE i > Len(two)
    <3>1. i - Len(two) \in 1..Len(masterLog) /\ i \in Int
      BY <1>1, <1>2, <1>4, <2>2
    <3>2. masterLog[i - Len(two)] = Len(two) + (i - Len(two))
      BY <1>1, <1>2, <3>1 DEF ReplicationInv, CutInThree
    <3> QED BY <1>1, <1>2, <1>4, <2>2, <3>1, <3>2, SMTT(30)
  <2> QED BY <1>1, <1>2, <2>1, <2>2
<1>6. Len(all) = clock
  BY <1>1, <1>2, <1>4 DEF ReplicationInv, CutInThree
<1>7. all = [i \in 1..clock |-> i]
  <2> HIDE DEF all
  <2>1. all = [i \in 1..Len(all) |-> all[i]]
    BY <1>4
  <2> QED BY <1>5, <1>6, <2>1
<1> QED BY <1>7 DEF ReplicationInv, OneARound, ReplicaIsAPrefix, two

-----------------------------------------------------------------------------
RaftTypes ==
  /\ clusterSize \in Nat \ {0}
  /\ role \in [RaftNode -> {"follower", "candidate", "leader"}] /\ term \in [RaftNode -> Nat]
  /\ votedFor \in [RaftNode -> RaftNode \cup {NoVote}] /\ raftLog \in [RaftNode -> Seq(Nat)]
  /\ commitIndex \in [RaftNode -> Nat] /\ ballots \in [RaftNode -> Nat]
\* Only who has begun a term is anything but a follower.
Campaigned == \A n \in RaftNode : role[n] # "follower" => term[n] > 0
RaftInv == RaftTypes /\ Campaigned /\ RaftElects

LEMMA RaftInitially == RaftInit => RaftInv
BY RaftAssumption DEF RaftInit, RaftInv, RaftTypes, Campaigned, RaftElects, RaftNode

\* Nobody whom a candidate asks may vote for it: a peer of its term has voted for itself.
LEMMA NobodyVotes ==
  ASSUME RaftInv, NEW n \in RaftNode, term[n] > 0
  PROVE  {p \in PeersReached(n) : MayVote(p, n)} = {}
<1> SUFFICES ASSUME NEW p \in PeersReached(n), MayVote(p, n) PROVE FALSE
  OBVIOUS
<1>1. p \in RaftNode /\ p # n /\ p \in Nat
  BY DEF PeersReached, Peers, RaftNode, RaftInv, RaftTypes
<1>2. term[p] = term[n] /\ votedFor[p] \in {NoVote, n}
  BY DEF MayVote
<1>3. votedFor[p] = p
  BY <1>1, <1>2 DEF RaftInv, RaftElects
<1> QED BY <1>1, <1>2, <1>3, RaftAssumption

\* Stepping down takes the term of a peer that has one.
LEMMA StepDownIs ==
  ASSUME RaftInv, NEW n \in RaftNode, StepDown(n), term[n] > 0
  PROVE  /\ term' \in [RaftNode -> Nat] /\ role' \in [RaftNode -> {"follower", "candidate", "leader"}]
         /\ \A p \in RaftNode : /\ p # n => role'[p] = role[p] /\ term'[p] = term[p]
                                /\ role'[p] \in {"follower", role[p]}
         /\ term'[n] > 0
<1>1. CASE Ahead(n) = {}
  BY <1>1 DEF StepDown, RaftInv, RaftTypes
<1>2. CASE Ahead(n) # {}
  <2> DEFINE Least(p) == \A q \in Ahead(n) : p <= q
             first == CHOOSE p \in Ahead(n) : Least(p)
  <2>1. \E p \in Ahead(n) : Least(p)
    <3>1. Ahead(n) \in SUBSET Nat
      BY DEF Ahead, Peers, RaftNode, RaftInv, RaftTypes
    <3> QED BY <1>2, <3>1, LeastNumber
  <2>2. first \in Ahead(n)
    BY <2>1
  <2>3. term' = [term EXCEPT ![n] = term[first]] /\ role' = [role EXCEPT ![n] = "follower"]
    BY <1>2 DEF StepDown
  <2> HIDE DEF first
  <2>4. first \in RaftNode /\ term[first] > term[n] /\ term[first] \in Nat
    BY <2>2 DEF Ahead, Peers, RaftInv, RaftTypes
  <2> QED BY <2>3, <2>4 DEF RaftInv, RaftTypes
<1> QED BY <1>1, <1>2

LEMMA RaftStep ==
  ASSUME RaftInv, NEW n \in RaftNode,
         BecomeCandidate(n) \/ RequestVote(n) \/ BecomeLeader(n) \/ AppendEntries(n)
  PROVE  RaftInv'
<1>1. CASE BecomeCandidate(n)
  <2>1. /\ clusterSize' = clusterSize /\ raftLog' = raftLog /\ commitIndex' = commitIndex
        /\ role' = [role EXCEPT ![n] = "candidate"] /\ term' = [term EXCEPT ![n] = @ + 1]
        /\ votedFor' = [votedFor EXCEPT ![n] = n] /\ ballots' = [ballots EXCEPT ![n] = 0] /\ RaftNode' = RaftNode
    BY <1>1 DEF BecomeCandidate, RaftNode
  <2>2. RaftTypes'
    BY <2>1 DEF RaftInv, RaftTypes
  <2>3. Campaigned'
    BY <2>1 DEF RaftInv, RaftTypes, Campaigned
  <2>4. \A m \in RaftNode : m # n => /\ role'[m] = role[m] /\ term'[m] = term[m] /\ votedFor'[m] = votedFor[m]
                                     /\ ballots'[m] = ballots[m]
    BY <2>1 DEF RaftInv, RaftTypes
  <2>5. role'[n] = "candidate" /\ votedFor'[n] = n /\ ballots'[n] = 0
    BY <2>1 DEF RaftInv, RaftTypes
  <2>6. RaftElects'
    BY <2>1, <2>4, <2>5 DEF RaftInv, RaftElects
  <2> QED BY <2>2, <2>3, <2>6 DEF RaftInv
<1>2. CASE RequestVote(n)
  <2>1. term[n] > 0 /\ StepDown(n) /\ UNCHANGED <<clusterSize, raftLog, commitIndex>>
    BY <1>2 DEF RequestVote, RaftInv, Campaigned
  <2>2. {p \in PeersReached(n) : MayVote(p, n)} = {}
    BY <2>1, NobodyVotes
  <2> DEFINE voters == {p \in PeersReached(n) : MayVote(p, n)}
  <2>31. /\ votedFor' = [p \in RaftNode |-> IF p \in voters THEN n ELSE votedFor[p]]
        /\ ballots' = [ballots EXCEPT ![n] = IF Ahead(n) = {} THEN 1 + Cardinality(voters) ELSE 0]
    BY <1>2 DEF RequestVote
  <2>32. voters = {}
    BY <2>2
  <2> HIDE DEF voters
  <2>33. Cardinality(voters) = 0
    BY <2>32, FS_EmptySet
  <2>3. votedFor' = [p \in RaftNode |-> votedFor[p]]
        /\ ballots' = [ballots EXCEPT ![n] = IF Ahead(n) = {} THEN 1 ELSE 0]
    <3>1. \A p \in RaftNode : (IF p \in voters THEN n ELSE votedFor[p]) = votedFor[p]
      BY <2>32
    <3>2. 1 + Cardinality(voters) = 1
      BY <2>33
    <3>3. votedFor' = [p \in RaftNode |-> votedFor[p]]
      BY <2>31, <3>1
    <3> QED BY <2>31, <3>2, <3>3
  <2>4. votedFor' = votedFor
    BY <2>3 DEF RaftInv, RaftTypes
  <2>5. /\ term' \in [RaftNode -> Nat] /\ role' \in [RaftNode -> {"follower", "candidate", "leader"}]
        /\ \A p \in RaftNode : /\ p # n => role'[p] = role[p] /\ term'[p] = term[p]
                               /\ role'[p] \in {"follower", role[p]}
        /\ term'[n] > 0
    BY <2>1, StepDownIs
  <2>6. RaftNode' = RaftNode /\ role[n] = "candidate"
    BY <1>2, <2>1 DEF RaftNode, RequestVote
  <2>7. ballots' \in [RaftNode -> Nat] /\ \A p \in RaftNode : ballots'[p] <= 1
    BY <2>3 DEF RaftInv, RaftTypes, RaftElects
  <2>8. RaftTypes'
    BY <2>1, <2>4, <2>5, <2>6, <2>7 DEF RaftInv, RaftTypes
  <2>9. Campaigned'
    BY <2>5, <2>6 DEF RaftInv, Campaigned
  <2>10. \A m \in RaftNode : role'[m] = "leader" => m # n /\ role[m] = "leader" /\ term'[m] = term[m]
    BY <2>5, <2>6
  <2>11. \A m \in RaftNode : term'[m] > 0 => votedFor[m] = m
    BY <2>1, <2>5 DEF RaftInv, RaftElects
  <2>12. RaftElects'
    BY <2>1, <2>4, <2>6, <2>7, <2>10, <2>11 DEF RaftInv, RaftElects
  <2> QED BY <2>8, <2>9, <2>12 DEF RaftInv
<1>3. CASE BecomeLeader(n)
  <2>1. clusterSize = 1
    BY <1>3 DEF BecomeLeader, RaftInv, RaftTypes, RaftElects
  <2> QED BY <1>3, <2>1 DEF BecomeLeader, RaftInv, RaftTypes, Campaigned, RaftElects, RaftNode
<1>4. CASE AppendEntries(n)
  <2>1. clusterSize = 1 /\ term[n] > 0 /\ StepDown(n) /\ n = 1 /\ RaftNode = {1}
    BY <1>4 DEF AppendEntries, RaftInv, RaftElects, Campaigned, RaftNode
  <2>2. Ahead(n) = {} /\ PeersReached(n) = {}
    BY <2>1 DEF Ahead, Peers, PeersReached
  <2>3. /\ raftLog' = [p \in RaftNode |-> Append(raftLog[p], term[n])]
        /\ commitIndex' = [commitIndex EXCEPT ![n] = Len(raftLog[n]) + 1]
        /\ UNCHANGED <<term, role, clusterSize, votedFor, ballots>>
    BY <1>4, <2>1, <2>2 DEF AppendEntries, StepDown
  <2>4. raftLog[1] \in Seq(Nat) /\ term[1] \in Nat
    BY <2>1 DEF RaftInv, RaftTypes
  <2>5. raftLog'[1] \in Seq(Nat) /\ Len(raftLog'[1]) = Len(raftLog[1]) + 1 /\ Len(raftLog[1]) \in Nat
    BY <2>1, <2>3, <2>4
  <2>6. commitIndex'[1] = Len(raftLog'[1])
    BY <2>1, <2>3, <2>5 DEF RaftInv, RaftTypes
  <2>7. RaftTypes'
    BY <2>1, <2>3, <2>5 DEF RaftInv, RaftTypes, RaftNode
  <2> QED BY <2>1, <2>3, <2>5, <2>6, <2>7 DEF RaftInv, RaftTypes, Campaigned, RaftElects, RaftNode
<1> QED BY <1>1, <1>2, <1>3, <1>4

LEMMA RaftNextKeeps == ASSUME RaftInv, [RaftNext]_raftVars PROVE RaftInv'
<1>1. CASE UNCHANGED raftVars
  BY <1>1 DEF raftVars, RaftInv, RaftTypes, Campaigned, RaftElects, RaftNode
<1> QED BY <1>1, RaftStep DEF RaftNext

\* Whatever is written and however the rounds of replication_sim.py and the calls of raft_sim.py
\* follow each other, for any number of transactions, workers and nodes: the slave has applied a
\* prefix of what the master wrote, and no Raft term has two leaders.
THEOREM LogsAgree == LogsSpec => []ReplicasAgree
<1>1. ReplicationInit /\ RaftInit => ReplicationInv /\ RaftInv
  BY ReplicationInitially, RaftInitially
<1>2. /\ ReplicationInv /\ RaftInv
      /\ [(ReplicationNext /\ UNCHANGED raftVars) \/ (RaftNext /\ UNCHANGED replicationVars)]_<<replicationVars, raftVars>>
      => ReplicationInv' /\ RaftInv'
  BY ReplicationNextKeeps, RaftNextKeeps
<1>3. ReplicationInv /\ RaftInv => ReplicasAgree
  BY ReplicationInvImplies DEF RaftInv, ReplicasAgree
<1> QED BY <1>1, <1>2, <1>3, PTL DEF LogsSpec
-----------------------------------------------------------------------------
(* Recursion, and what is kept of a sequence *)

\* What holds of 0, and of n + 1 when it holds of n, holds of every number.
LEMMA EveryNumber ==
  ASSUME NEW S \in SUBSET Nat, 0 \in S, \A n \in S : n + 1 \in S
  PROVE  S = Nat
<1> SUFFICES ASSUME Nat \ S # {} PROVE FALSE
  OBVIOUS
<1>1. PICK x \in Nat \ S : \A y \in Nat \ S : x <= y
  BY LeastNumber
<1>2. x # 0 /\ x - 1 \in Nat /\ (x - 1) + 1 = x /\ ~(x <= x - 1)
  BY <1>1
<1>3. x - 1 \in S
  BY <1>1, <1>2
<1> QED BY <1>2, <1>3

\* A function on 0..N can be given by its first value and the step to each of the next.
Follows(f, V, N, first, by) ==
  f \in [0..N -> V] /\ f[0] = first /\ \A i \in 1..N : f[i] = by[i][f[i - 1]]
LEMMA Recursion ==
  ASSUME NEW N \in Nat, NEW V, NEW first \in V, NEW by \in [1..N -> [V -> V]]
  PROVE  \E f : Follows(f, V, N, first, by)
<1> DEFINE S == {n \in Nat : n <= N => \E f : Follows(f, V, n, first, by)}
<1>1. 0 \in S
  <2>1. Follows([i \in 0..0 |-> first], V, 0, first, by)
    BY DEF Follows
  <2> QED BY <2>1
<1>2. ASSUME NEW n \in S PROVE n + 1 \in S
  <2>1. CASE ~(n + 1 <= N)
    BY <2>1
  <2>2. CASE n + 1 <= N
    <3>1. n \in Nat /\ n <= N /\ n + 1 \in 1..N
      BY <2>2
    <3>2. PICK f : Follows(f, V, n, first, by)
      BY <3>1
    <3> DEFINE g == [i \in 0..(n + 1) |-> IF i = n + 1 THEN by[n + 1][f[n]] ELSE f[i]]
    <3>3. f \in [0..n -> V] /\ f[0] = first /\ \A i \in 1..n : f[i] = by[i][f[i - 1]]
      BY <3>2 DEF Follows
    <3>4. f[n] \in V /\ by[n + 1] \in [V -> V]
      BY <3>1, <3>3
    <3>5. by[n + 1][f[n]] \in V
      BY <3>4
    <3>6. \A i \in 0..(n + 1) : i = n + 1 \/ (i \in 0..n /\ i # n + 1)
      BY <3>1
    <3>7. g \in [0..(n + 1) -> V]
      BY <3>3, <3>5, <3>6
    <3>8. g[0] = first
      BY <3>1, <3>3
    <3>9. ASSUME NEW i \in 1..(n + 1) PROVE g[i] = by[i][g[i - 1]]
      <4>1. i \in 0..(n + 1) /\ i - 1 \in 0..(n + 1) /\ i - 1 # n + 1 /\ (i = n + 1 => i - 1 = n) /\ (i # n + 1 => i \in 1..n)
        BY <3>1
      <4>2. g[i - 1] = f[i - 1]
        BY <4>1
      <4>3. CASE i = n + 1
        BY <4>1, <4>2, <4>3
      <4>4. CASE i # n + 1
        BY <3>3, <4>1, <4>2, <4>4
      <4> QED BY <4>3, <4>4
    <3> HIDE DEF g
    <3>10. Follows(g, V, n + 1, first, by)
      BY <3>7, <3>8, <3>9 DEF Follows
    <3> QED BY <3>1, <3>10
  <2> QED BY <2>1, <2>2
<1>3. S = Nat
  <2> HIDE DEF S
  <2>1. S \subseteq Nat
    BY DEF S
  <2> QED BY <1>1, <1>2, <2>1, EveryNumber
<1>4. N \in S
  <2> HIDE DEF S
  <2> QED BY <1>3
<1> QED BY <1>4

\* What the three modules keep of a sequence.
Filtered(s, K) ==
  LET kept[n \in 0..Len(s)] ==
        IF n = 0 THEN <<>> ELSE IF s[n] \in K THEN kept[n - 1] ELSE Append(kept[n - 1], s[n])
  IN  kept[Len(s)]
Keeps(kept, s, K) ==
  \A n \in 1..Len(s) : kept[n] = IF s[n] \in K THEN kept[n - 1] ELSE Append(kept[n - 1], s[n])

LEMMA FilteredIs ==
  ASSUME NEW S, NEW s \in Seq(S), NEW K
  PROVE  \E kept \in [0..Len(s) -> Seq(S)] : kept[0] = <<>> /\ Keeps(kept, s, K) /\ Filtered(s, K) = kept[Len(s)]
<1> DEFINE N == Len(s)
           V == Seq(S)
           Rule(g) == g = [n \in 0..N |-> IF n = 0 THEN <<>> ELSE IF s[n] \in K THEN g[n - 1] ELSE Append(g[n - 1], s[n])]
           P == CHOOSE g : Rule(g)
           One(i) == [q \in V |-> IF s[i] \in K THEN q ELSE Append(q, s[i])]
           by == [i \in 1..N |-> One(i)]
<1>1. N \in Nat /\ \A i \in 1..N : s[i] \in S
  OBVIOUS
<1>2. <<>> \in V /\ \A q \in V, e \in S : Append(q, e) \in V
  OBVIOUS
<1> HIDE DEF N, V
<1>3. by \in [1..N -> [V -> V]]
  <2>1. \A i \in 1..N : One(i) \in [V -> V]
    BY <1>1, <1>2
  <2> HIDE DEF One
  <2> QED BY <2>1
<1>4. PICK f : Follows(f, V, N, <<>>, by)
  <2> HIDE DEF by
  <2> QED BY <1>1, <1>2, <1>3, Recursion
<1>5. /\ f \in [0..N -> V] /\ f[0] = <<>>
      /\ \A i \in 1..N : f[i] = IF s[i] \in K THEN f[i - 1] ELSE Append(f[i - 1], s[i])
  <2>1. f \in [0..N -> V] /\ f[0] = <<>> /\ \A i \in 1..N : f[i] = by[i][f[i - 1]]
    BY <1>4 DEF Follows
  <2>2. ASSUME NEW i \in 1..N PROVE f[i] = IF s[i] \in K THEN f[i - 1] ELSE Append(f[i - 1], s[i])
    <3>1. f[i - 1] \in V
      BY <1>1, <2>1
    <3>2. f[i] = One(i)[f[i - 1]]
      BY <2>1
    <3> QED BY <3>1, <3>2
  <2> QED BY <2>1, <2>2
<1>6. Rule(f)
  <2>1. \A n \in 0..N : n = 0 \/ n \in 1..N
    BY <1>1
  <2> QED BY <1>5, <2>1
<1>7. Rule(P)
  <2> HIDE DEF Rule
  <2> QED BY <1>6
<1>8. Filtered(s, K) = P[Len(s)]
  BY DEF Filtered, N
<1>9. \A n \in 0..N : P[n] = f[n]
  <2> DEFINE T == {n \in Nat : n <= N => P[n] = f[n]}
  <2>1. \A n \in 0..N : P[n] = IF n = 0 THEN <<>> ELSE IF s[n] \in K THEN P[n - 1] ELSE Append(P[n - 1], s[n])
    <3> HIDE DEF P
    <3> QED BY <1>7
  <2> HIDE DEF P, Rule
  <2>2. 0 \in T
    BY <1>1, <1>5, <2>1
  <2>3. ASSUME NEW n \in T PROVE n + 1 \in T
    <3>1. CASE n + 1 <= N
      <4>1. n \in Nat /\ n <= N /\ n + 1 \in 1..N /\ n + 1 \in 0..N /\ (n + 1) - 1 = n /\ n + 1 # 0
        BY <1>1, <3>1
      <4>2. P[n] = f[n]
        BY <4>1
      <4> QED BY <1>5, <2>1, <4>1, <4>2
    <3>2. CASE ~(n + 1 <= N)
      BY <3>2
    <3> QED BY <3>1, <3>2
  <2>4. T = Nat
    <3> HIDE DEF T
    <3>1. T \subseteq Nat
      BY DEF T
    <3> QED BY <2>2, <2>3, <3>1, EveryNumber
  <2> QED BY <2>4
<1> HIDE DEF P, Rule
<1> QED BY <1>1, <1>5, <1>8, <1>9 DEF N, V, Keeps

\* What is kept is what K does not have, in the same order.
InOrderFrom(q, s, n, from) ==
  /\ from \in [1..Len(q) -> 1..n]
  /\ \A i \in 1..Len(q) : q[i] = s[from[i]]
  /\ \A i, j \in 1..Len(q) : i < j => from[i] < from[j]
LEMMA WhatIsKept ==
  ASSUME NEW S, NEW s \in Seq(S), NEW K
  PROVE  /\ Filtered(s, K) \in Seq(S)
         /\ \E from : InOrderFrom(Filtered(s, K), s, Len(s), from)
         /\ ToSet(Filtered(s, K)) = ToSet(s) \ K
<1> DEFINE N == Len(s)
<1>1. PICK kept \in [0..N -> Seq(S)] : kept[0] = <<>> /\ Keeps(kept, s, K) /\ Filtered(s, K) = kept[N]
  BY FilteredIs
<1>2. N \in Nat /\ \A i \in 1..N : s[i] \in S
  OBVIOUS
<1> DEFINE Good(n) == /\ \E from : InOrderFrom(kept[n], s, n, from)
                      /\ \A m \in 1..n : s[m] \notin K => \E i \in 1..Len(kept[n]) : kept[n][i] = s[m]
                      /\ \A i \in 1..Len(kept[n]) : kept[n][i] \notin K
           T == {n \in Nat : n <= N => Good(n)}
<1>3. 0 \in T
  <2>1. InOrderFrom(<<>>, s, 0, <<>>)
    BY DEF InOrderFrom
  <2>2. Good(0)
    BY <1>1, <2>1
  <2> QED BY <2>2
<1>4. ASSUME NEW n \in T PROVE n + 1 \in T
  <2>1. CASE ~(n + 1 <= N)
    BY <2>1
  <2>2. CASE n + 1 <= N
    <3> DEFINE q == kept[n]
               r == kept[n + 1]
               e == s[n + 1]
    <3>0. n \in Nat /\ n <= N /\ Good(n)
      <4> HIDE DEF Good
      <4> QED BY <1>2, <2>2
    <3> HIDE DEF T
    <3>1. n \in Nat /\ n + 1 \in 1..N /\ n + 1 \in 0..N /\ n \in 0..N /\ (n + 1) - 1 = n /\ e \in S /\ Good(n)
      <4>1. n + 1 \in 1..N /\ n + 1 \in 0..N /\ n \in 0..N /\ (n + 1) - 1 = n
        BY <1>2, <2>2, <3>0
      <4> HIDE DEF Good
      <4> QED BY <1>2, <3>0, <4>1
    <3>2. q \in Seq(S) /\ Len(q) \in Nat
      BY <1>1, <3>1
    <3>3. r = IF e \in K THEN q ELSE Append(q, e)
      BY <1>1, <3>1 DEF Keeps
    <3>4. PICK from : InOrderFrom(q, s, n, from)
      BY <3>1
    <3>5. /\ from \in [1..Len(q) -> 1..n] /\ \A i \in 1..Len(q) : q[i] = s[from[i]]
          /\ \A i, j \in 1..Len(q) : i < j => from[i] < from[j]
      BY <3>4 DEF InOrderFrom
    <3>6. /\ \A m \in 1..n : s[m] \notin K => \E i \in 1..Len(q) : q[i] = s[m]
          /\ \A i \in 1..Len(q) : q[i] \notin K
      BY <3>1
    <3>7. \A m \in 1..(n + 1) : m \in 1..n \/ m = n + 1
      BY <3>1
    <3> HIDE DEF q, e
    <3>8. CASE e \in K
      <4>1. r = q
        BY <3>3, <3>8
      <4>2. \A x : x \in 1..n => x \in 1..(n + 1)
        BY <3>1
      <4>3. InOrderFrom(q, s, n + 1, from)
        BY <3>5, <4>2 DEF InOrderFrom
      <4>4. \A m \in 1..(n + 1) : s[m] \notin K => \E i \in 1..Len(q) : q[i] = s[m]
        BY <3>6, <3>7, <3>8 DEF e
      <4>5. Good(n + 1)
        BY <3>6, <4>1, <4>3, <4>4
      <4> HIDE DEF Good
      <4> QED BY <3>1, <4>5 DEF T
    <3>9. CASE e \notin K
      <4> DEFINE longer == [i \in 1..(Len(q) + 1) |-> IF i = Len(q) + 1 THEN n + 1 ELSE from[i]]
      <4>1. /\ r = Append(q, e) /\ Len(r) = Len(q) + 1 /\ r[Len(q) + 1] = e
            /\ \A i \in 1..Len(q) : r[i] = q[i]
        BY <3>1, <3>2, <3>3, <3>9
      <4> HIDE DEF r
      <4>2. \A i \in 1..(Len(q) + 1) : i \in 1..Len(q) \/ i = Len(q) + 1
        BY <3>2
      <4>3. longer \in [1..Len(r) -> 1..(n + 1)]
        BY <3>1, <3>2, <3>5, <4>1, <4>2
      <4>4. \A i \in 1..Len(r) : r[i] = s[longer[i]]
        BY <3>2, <3>5, <4>1, <4>2 DEF e
      <4>5. \A i, j \in 1..Len(r) : i < j => longer[i] < longer[j]
        <5> SUFFICES ASSUME NEW i \in 1..Len(r), NEW j \in 1..Len(r), i < j PROVE longer[i] < longer[j]
          OBVIOUS
        <5>1. i \in 1..Len(q) /\ i # Len(q) + 1 /\ from[i] \in 1..n
          <6>1. i \in 1..Len(q) /\ i # Len(q) + 1
            BY <3>2, <4>1
          <6> QED BY <3>5, <6>1
        <5>2. CASE j = Len(q) + 1
          BY <3>1, <3>2, <4>1, <5>1, <5>2
        <5>3. CASE j # Len(q) + 1
          BY <3>2, <3>5, <4>1, <4>2, <5>1, <5>3
        <5> QED BY <5>2, <5>3
      <4> HIDE DEF longer
      <4>6. InOrderFrom(r, s, n + 1, longer)
        BY <4>3, <4>4, <4>5 DEF InOrderFrom
      <4>7. \A m \in 1..(n + 1) : s[m] \notin K => \E i \in 1..Len(r) : r[i] = s[m]
        <5> SUFFICES ASSUME NEW m \in 1..(n + 1), s[m] \notin K PROVE \E i \in 1..Len(r) : r[i] = s[m]
          OBVIOUS
        <5>1. CASE m = n + 1
          BY <3>2, <4>1, <5>1 DEF e
        <5>2. CASE m \in 1..n
          <6>1. PICK i \in 1..Len(q) : q[i] = s[m]
            BY <3>6, <5>2
          <6>2. i \in 1..Len(r) /\ r[i] = s[m]
            BY <3>2, <4>1, <6>1
          <6> QED BY <6>2
        <5> QED BY <3>7, <5>1, <5>2
      <4>8. \A i \in 1..Len(r) : r[i] \notin K
        BY <3>6, <3>9, <4>1, <4>2
      <4>9. Good(n + 1)
        BY <4>6, <4>7, <4>8 DEF r
      <4> HIDE DEF Good
      <4> QED BY <3>1, <4>9 DEF T
    <3> QED BY <3>8, <3>9
  <2> QED BY <2>1, <2>2
<1>5. Good(N)
  <2>1. T = Nat
    <3> HIDE DEF T
    <3>1. T \subseteq Nat
      BY DEF T
    <3> QED BY <1>3, <1>4, <3>1, EveryNumber
  <2> HIDE DEF Good
  <2> QED BY <1>2, <2>1
<1> DEFINE q == kept[N]
<1>6. q \in Seq(S) /\ Filtered(s, K) = q
  BY <1>1, <1>2
<1>7. \E from : InOrderFrom(q, s, N, from)
  BY <1>5
<1>8. /\ \A m \in 1..N : s[m] \notin K => \E i \in 1..Len(q) : q[i] = s[m]
      /\ \A i \in 1..Len(q) : q[i] \notin K
  BY <1>5
<1> HIDE DEF q, Good
<1>9. ToSet(q) = ToSet(s) \ K
  <2>1. DOMAIN q = 1..Len(q) /\ DOMAIN s = 1..N
    BY <1>6
  <2>2. ASSUME NEW x \in ToSet(q) PROVE x \in ToSet(s) \ K
    <3>1. PICK i \in 1..Len(q) : q[i] = x
      BY <2>1, <2>2 DEF ToSet
    <3>2. PICK from : from \in [1..Len(q) -> 1..N] /\ \A k \in 1..Len(q) : q[k] = s[from[k]]
      BY <1>7 DEF InOrderFrom
    <3>3. from[i] \in 1..N /\ s[from[i]] = x
      BY <3>1, <3>2
    <3> QED BY <1>8, <2>1, <3>1, <3>3 DEF ToSet
  <2>3. ASSUME NEW x \in ToSet(s) \ K PROVE x \in ToSet(q)
    <3>1. PICK m \in 1..N : s[m] = x
      BY <2>1, <2>3 DEF ToSet
    <3> QED BY <1>8, <2>1, <2>3, <3>1 DEF ToSet
  <2> QED BY <2>2, <2>3
<1> QED BY <1>6, <1>7, <1>9 DEF N

\* Without one element that it has once, a sequence is the one before it and the one behind it.
LEMMA KeptButOne ==
  ASSUME NEW S, NEW s \in Seq(S), NEW p \in 1..Len(s), \A i \in 1..Len(s) : s[i] = s[p] => i = p
  PROVE  /\ Filtered(s, {s[p]}) \in Seq(S) /\ Len(Filtered(s, {s[p]})) = Len(s) - 1
         /\ \A i \in 1..(Len(s) - 1) : Filtered(s, {s[p]})[i] = IF i < p THEN s[i] ELSE s[i + 1]
<1> DEFINE N == Len(s)
           K == {s[p]}
<1>0. \A i \in 1..N : s[i] \in K <=> i = p
  OBVIOUS
<1> HIDE DEF K
<1>1. PICK kept \in [0..N -> Seq(S)] : kept[0] = <<>> /\ Keeps(kept, s, K) /\ Filtered(s, K) = kept[N]
  BY FilteredIs
<1>2. N \in Nat /\ \A i \in 1..N : s[i] \in S
  OBVIOUS
<1> DEFINE l(n) == IF n < p THEN n ELSE n - 1
           Good(n) == /\ Len(kept[n]) = l(n)
                      /\ \A i \in 1..l(n) : kept[n][i] = IF i < p THEN s[i] ELSE s[i + 1]
           T == {n \in Nat : n <= N => Good(n)}
<1>3. 0 \in T
  BY <1>1
<1>4. ASSUME NEW n \in T PROVE n + 1 \in T
  <2>1. CASE ~(n + 1 <= N)
    BY <2>1
  <2>2. CASE n + 1 <= N
    <3> DEFINE q == kept[n]
               e == s[n + 1]
    <3>0. n \in Nat /\ n <= N /\ Good(n)
      <4> HIDE DEF Good
      <4> QED BY <1>2, <2>2
    <3> HIDE DEF T
    <3>1. n \in Nat /\ n + 1 \in 1..N /\ n + 1 \in 0..N /\ n \in 0..N /\ (n + 1) - 1 = n /\ e \in S /\ Good(n)
      <4>1. n + 1 \in 1..N /\ n + 1 \in 0..N /\ n \in 0..N /\ (n + 1) - 1 = n
        BY <1>2, <2>2, <3>0
      <4> HIDE DEF Good
      <4> QED BY <1>2, <3>0, <4>1
    <3>2. q \in Seq(S) /\ Len(q) = l(n) /\ \A i \in 1..l(n) : q[i] = IF i < p THEN s[i] ELSE s[i + 1]
      BY <1>1, <3>1
    <3>3. kept[n + 1] = IF n + 1 = p THEN q ELSE Append(q, e)
      BY <1>0, <1>1, <3>1 DEF Keeps
    <3> HIDE DEF q, e
    <3>4. CASE n + 1 = p
      <4>1. l(n) = n /\ l(n + 1) = n /\ kept[n + 1] = q
        BY <3>1, <3>3, <3>4
      <4> HIDE DEF l
      <4>2. Good(n + 1)
        BY <3>2, <4>1
      <4> HIDE DEF Good
      <4> QED BY <3>1, <4>2 DEF T
    <3>5. CASE n + 1 # p
      <4> DEFINE r == Append(q, e)
      <4>1. /\ kept[n + 1] = r /\ Len(r) = l(n) + 1 /\ r[l(n) + 1] = e
            /\ \A i \in 1..l(n) : r[i] = q[i]
        BY <3>1, <3>2, <3>3, <3>5
      <4>2. l(n + 1) = l(n) + 1 /\ l(n) \in Nat /\ (n < p => l(n) + 1 = n + 1 /\ l(n) + 1 < p)
            /\ (~(n < p) => (l(n) + 1) + 1 = n + 1 /\ ~(l(n) + 1 < p))
        BY <3>1, <3>5
      <4> HIDE DEF r, l
      <4>3. ASSUME NEW i \in 1..(l(n) + 1) PROVE r[i] = IF i < p THEN s[i] ELSE s[i + 1]
        <5>1. CASE i = l(n) + 1
          BY <4>1, <4>2, <5>1 DEF e
        <5>2. CASE i # l(n) + 1
          <6>1. i \in 1..l(n)
            BY <4>2, <5>2
          <6> QED BY <3>2, <4>1, <6>1
        <5> QED BY <5>1, <5>2
      <4>4. Good(n + 1)
        BY <4>1, <4>2, <4>3
      <4> HIDE DEF Good
      <4> QED BY <3>1, <4>4 DEF T
    <3> QED BY <3>4, <3>5
  <2> QED BY <2>1, <2>2
<1>5. Good(N)
  <2>1. T = Nat
    <3> HIDE DEF T
    <3>1. T \subseteq Nat
      BY DEF T
    <3> QED BY <1>3, <1>4, <3>1, EveryNumber
  <2> HIDE DEF Good
  <2> QED BY <1>2, <2>1
<1>6. l(N) = N - 1 /\ kept[N] \in Seq(S)
  BY <1>1, <1>2
<1> QED BY <1>1, <1>5, <1>6 DEF K

-----------------------------------------------------------------------------
(* The cache framework *)

Distinct(q) == \A i, j \in 1..Len(q) : q[i] = q[j] => i = j

LEMMA KeptDistinct ==
  ASSUME NEW S, NEW s \in Seq(S), Distinct(s), NEW K
  PROVE  Distinct(Filtered(s, K))
<1>1. PICK from : InOrderFrom(Filtered(s, K), s, Len(s), from)
  BY WhatIsKept
<1> DEFINE q == Filtered(s, K)
<1>2. q \in Seq(S) /\ Len(q) \in Nat /\ Len(s) \in Nat
  BY WhatIsKept
<1>3. /\ \A i \in 1..Len(q) : from[i] \in 1..Len(s) /\ q[i] = s[from[i]]
      /\ \A i, j \in 1..Len(q) : i < j => from[i] < from[j]
  BY <1>1, <1>2 DEF InOrderFrom
<1> HIDE DEF q
<1>4. ASSUME NEW i \in 1..Len(q), NEW j \in 1..Len(q), q[i] = q[j] PROVE i = j
  <2>1. from[i] = from[j] /\ from[i] \in Nat
    BY <1>2, <1>3, <1>4 DEF Distinct
  <2>2. ~(i < j) /\ ~(j < i)
    BY <1>3, <2>1
  <2> QED BY <1>2, <2>2
<1> QED BY <1>4 DEF q, Distinct

LEMMA AppendedDistinct ==
  ASSUME NEW S, NEW q \in Seq(S), Distinct(q), NEW e \in S, e \notin ToSet(q)
  PROVE  Append(q, e) \in Seq(S) /\ Distinct(Append(q, e)) /\ ToSet(Append(q, e)) = ToSet(q) \cup {e}
<1> DEFINE r == Append(q, e)
<1>1. /\ r \in Seq(S) /\ Len(q) \in Nat /\ Len(r) = Len(q) + 1 /\ r[Len(q) + 1] = e
      /\ \A i \in 1..Len(q) : r[i] = q[i]
  OBVIOUS
<1>2. DOMAIN q = 1..Len(q) /\ DOMAIN r = 1..(Len(q) + 1)
  BY <1>1
<1> HIDE DEF r
<1>3. \A i \in 1..(Len(q) + 1) : i \in 1..Len(q) \/ i = Len(q) + 1
  BY <1>1
<1>4. \A i \in 1..Len(q) : q[i] # e /\ i \in 1..(Len(q) + 1) /\ Len(q) + 1 \in 1..(Len(q) + 1)
  BY <1>1, <1>2 DEF ToSet
<1>5. Distinct(r)
  BY <1>1, <1>3, <1>4 DEF Distinct
<1>6. ToSet(r) = ToSet(q) \cup {e}
  <2>1. \A x \in ToSet(r) : x \in ToSet(q) \cup {e}
    BY <1>1, <1>2, <1>3 DEF ToSet
  <2>2. \A x \in ToSet(q) : x \in ToSet(r)
    BY <1>1, <1>2, <1>4 DEF ToSet
  <2>3. e \in ToSet(r)
    <3>1. Len(q) + 1 \in 1..(Len(q) + 1)
      BY <1>1
    <3> QED BY <1>1, <1>2, <3>1 DEF ToSet
  <2> QED BY <2>1, <2>2, <2>3
<1> QED BY <1>1, <1>5, <1>6 DEF r

\* A sequence without repetitions is as long as the set of its elements.
LEMMA AsLongAsItsSet ==
  ASSUME NEW S, NEW q \in Seq(S), Distinct(q)
  PROVE  IsFiniteSet(ToSet(q)) /\ Cardinality(ToSet(q)) = Len(q)
<1>1. Len(q) \in Nat /\ DOMAIN q = 1..Len(q) /\ q \in [1..Len(q) -> ToSet(q)]
  BY DEF ToSet
<1>2. q \in Bijection(1..Len(q), ToSet(q))
  BY <1>1 DEF Distinct, ToSet, Bijection, Injection, Surjection, IsInjective
<1>3. IsFiniteSet(1..Len(q)) /\ Cardinality(1..Len(q)) = Len(q)
  <2>1. 1 \in Int /\ Len(q) \in Int
    BY <1>1
  <2>2. IsFiniteSet(1..Len(q)) /\ Cardinality(1..Len(q)) = IF 1 > Len(q) THEN 0 ELSE Len(q) - 1 + 1
    BY <2>1, FS_Interval
  <2> QED BY <1>1, <2>2
<1>4. ExistsBijection(1..Len(q), ToSet(q))
  BY <1>2 DEF ExistsBijection
<1> QED BY <1>3, <1>4, FS_Bijection, Zenon

Entry == [createdAt : Nat, lastAccess : Nat, accessCount : Nat, expireAt : Nat]
CacheTypes ==
  /\ policy \in Policies /\ cacheNow \in Nat
  /\ DOMAIN store \subseteq CacheKey /\ store \in [DOMAIN store -> Entry]
  /\ lru \in Seq(CacheKey)
\* The order of use has every key once and, under lru, its time stamps rise.
InUse(q, st) == q \in Seq(CacheKey) /\ Distinct(q) /\ ToSet(q) = DOMAIN st
Rising(q, st) == \A i, j \in 1..Len(q) : i < j => st[q[i]].lastAccess <= st[q[j]].lastAccess
Counted(f, st) == DOMAIN f = DOMAIN st /\ \A k \in DOMAIN st : f[k] = st[k].accessCount
CacheInv ==
  /\ CacheTypes
  /\ InUse(lru, store) /\ Counted(freq, store)
  /\ Cardinality(DOMAIN store) <= MaxSize
  /\ \A k \in DOMAIN store : store[k].lastAccess <= cacheNow
  /\ policy = "lru" => Rising(lru, store)

LEMMA CacheInitially == CacheInit => CacheInv
<1> SUFFICES ASSUME CacheInit PROVE CacheInv
  OBVIOUS
<1>1. DOMAIN store = {} /\ DOMAIN freq = {} /\ lru = <<>> /\ policy \in Policies /\ cacheNow = 1
  BY DEF CacheInit
<1>2. store \in [DOMAIN store -> Entry] /\ <<>> \in Seq(CacheKey) /\ ToSet(<<>>) = {} /\ Len(<<>>) = 0
  BY <1>1 DEF CacheInit, ToSet
<1>3. Cardinality({}) = 0 /\ MaxSize \in Nat
  BY FS_EmptySet, CacheAssumption
<1> QED BY <1>1, <1>2, <1>3 DEF CacheInv, CacheTypes, InUse, Rising, Counted, Distinct

LEMMA StoreIsFinite ==
  ASSUME CacheTypes
  PROVE  /\ IsFiniteSet(DOMAIN store) /\ Cardinality(DOMAIN store) \in Nat
         /\ \A K : IsFiniteSet(DOMAIN store \ K) /\ Cardinality(DOMAIN store \ K) \in Nat
                   /\ Cardinality(DOMAIN store \ K) <= Cardinality(DOMAIN store)
<1>1. IsFiniteSet(DOMAIN store)
  BY CacheAssumption, FS_Subset DEF CacheTypes
<1> QED BY <1>1, FS_Subset, FS_CardinalityType

\* What is left of the order of use is the order of use of what is left.
LEMMA LeftInUse ==
  ASSUME CacheInv, NEW K
  PROVE  LET q == Without(lru, K)
         IN  /\ q \in Seq(CacheKey) /\ Distinct(q) /\ ToSet(q) = DOMAIN store \ K
             /\ policy = "lru" => Rising(q, store)
<1> DEFINE q == Without(lru, K)
<1>1. q = Filtered(lru, K)
  BY DEF Without, Filtered
<1>2. lru \in Seq(CacheKey) /\ Distinct(lru) /\ ToSet(lru) = DOMAIN store
  BY DEF CacheInv, InUse
<1>3. q \in Seq(CacheKey) /\ Distinct(q) /\ ToSet(q) = DOMAIN store \ K
  BY <1>1, <1>2, WhatIsKept, KeptDistinct
<1>4. PICK from : InOrderFrom(q, lru, Len(lru), from)
  BY <1>1, <1>2, WhatIsKept
<1> HIDE DEF q
<1>5. ASSUME policy = "lru" PROVE Rising(q, store)
  <2>1. /\ \A i \in 1..Len(q) : from[i] \in 1..Len(lru) /\ q[i] = lru[from[i]]
        /\ \A i, j \in 1..Len(q) : i < j => from[i] < from[j]
    BY <1>4 DEF InOrderFrom
  <2>2. \A i, j \in 1..Len(lru) : i < j => store[lru[i]].lastAccess <= store[lru[j]].lastAccess
    BY <1>5 DEF CacheInv, Rising
  <2> QED BY <2>1, <2>2 DEF Rising
<1> QED BY <1>3, <1>5 DEF q

LEMMA RemoveKeeps ==
  ASSUME CacheInv, NEW K, RemoveEntries(K), UNCHANGED <<policy, cacheNow>>
  PROVE  CacheInv'
<1>1. /\ DOMAIN store' = DOMAIN store \ K /\ \A k \in DOMAIN store' : store'[k] = store[k]
      /\ DOMAIN freq' = DOMAIN freq \ K /\ \A k \in DOMAIN freq' : freq'[k] = freq[k]
      /\ store' \in [DOMAIN store' -> Entry]
  BY DEF RemoveEntries, Drop, CacheInv, CacheTypes
<1>2. lru' = Without(lru, K) /\ policy' = policy /\ cacheNow' = cacheNow
  BY DEF RemoveEntries
<1> DEFINE q == Without(lru, K)
<1>3. q \in Seq(CacheKey) /\ Distinct(q) /\ ToSet(q) = DOMAIN store \ K /\ (policy = "lru" => Rising(q, store))
  BY LeftInUse
<1>4. \A i \in 1..Len(q) : q[i] \in DOMAIN store \ K
  BY <1>3 DEF ToSet
<1> HIDE DEF q
<1>5. policy = "lru" => Rising(q, store')
  BY <1>1, <1>3, <1>4 DEF Rising
<1>6. Cardinality(DOMAIN store') <= MaxSize
  BY <1>1, StoreIsFinite, CacheAssumption DEF CacheInv
<1>7. CacheTypes'
  BY <1>1, <1>2, <1>3 DEF CacheInv, CacheTypes, q
<1>8. InUse(lru', store') /\ Counted(freq', store')
  BY <1>1, <1>2, <1>3 DEF CacheInv, InUse, Counted, q
<1>9. \A k \in DOMAIN store' : store'[k].lastAccess <= cacheNow'
  BY <1>1, <1>2 DEF CacheInv
<1> QED BY <1>2, <1>5, <1>6, <1>7, <1>8, <1>9 DEF CacheInv, q

\* A key that is used: it goes to the end, with the time stamp of now.
LEMMA TouchKeeps ==
  ASSUME CacheInv, NEW k \in DOMAIN store, lru' = Touched(k), UNCHANGED <<policy, cacheNow>>,
         DOMAIN store' = DOMAIN store, store' \in [DOMAIN store' -> Entry],
         store'[k].lastAccess = cacheNow, \A x \in DOMAIN store : x # k => store'[x] = store[x],
         Counted(freq', store')
  PROVE  CacheInv'
<1>1. lru \in Seq(CacheKey) /\ Distinct(lru) /\ ToSet(lru) = DOMAIN store /\ DOMAIN store \subseteq CacheKey /\ cacheNow \in Nat
  BY DEF CacheInv, CacheTypes, InUse
<1>2. lru' \in Seq(CacheKey) /\ Distinct(lru') /\ ToSet(lru') = DOMAIN store
  <2>1. CASE policy = "lru"
    <3> DEFINE q == Without(lru, {k})
    <3>1. q \in Seq(CacheKey) /\ Distinct(q) /\ ToSet(q) = DOMAIN store \ {k}
      BY LeftInUse
    <3>2. lru' = Append(q, k)
      BY <2>1 DEF Touched, ToEnd
    <3> HIDE DEF q
    <3>3. k \in CacheKey /\ k \notin ToSet(q) /\ ToSet(q) \cup {k} = DOMAIN store
      BY <1>1, <3>1
    <3>4. Append(q, k) \in Seq(CacheKey) /\ Distinct(Append(q, k)) /\ ToSet(Append(q, k)) = ToSet(q) \cup {k}
      BY <3>1, <3>3, AppendedDistinct
    <3> QED BY <3>2, <3>3, <3>4
  <2>2. CASE policy # "lru"
    BY <1>1, <2>2 DEF Touched
  <2> QED BY <2>1, <2>2
<1>3. \A x \in DOMAIN store : store[x].lastAccess <= cacheNow /\ store[x].lastAccess \in Nat
  BY DEF CacheInv, CacheTypes, Entry
<1>4. \A x \in DOMAIN store : store'[x].lastAccess <= cacheNow /\ store'[x].lastAccess \in Nat
  BY <1>1, <1>3
<1>5. ASSUME policy = "lru" PROVE Rising(lru', store')
  <2> DEFINE q == Without(lru, {k})
  <2>1. q \in Seq(CacheKey) /\ ToSet(q) = DOMAIN store \ {k} /\ Rising(q, store)
    BY <1>5, LeftInUse
  <2>2. lru' = Append(q, k)
    BY <1>5 DEF Touched, ToEnd
  <2> HIDE DEF q
  <2>3. \A i \in 1..Len(q) : q[i] \in DOMAIN store \ {k}
    <3>1. DOMAIN q = 1..Len(q)
      BY <2>1
    <3> QED BY <2>1, <3>1 DEF ToSet
  <2>4. /\ Len(q) \in Nat /\ Len(lru') = Len(q) + 1 /\ lru'[Len(q) + 1] = k
        /\ \A i \in 1..Len(q) : lru'[i] = q[i]
    BY <1>1, <2>1, <2>2
  <2>5. ASSUME NEW i \in 1..Len(lru'), NEW j \in 1..Len(lru'), i < j
        PROVE  store'[lru'[i]].lastAccess <= store'[lru'[j]].lastAccess
    <3>1. i \in 1..Len(q) /\ lru'[i] = q[i] /\ q[i] \in DOMAIN store /\ q[i] # k
      BY <2>3, <2>4, <2>5
    <3>2. CASE j = Len(q) + 1
      BY <1>4, <2>4, <3>1, <3>2
    <3>3. CASE j # Len(q) + 1
      <4>1. j \in 1..Len(q) /\ lru'[j] = q[j] /\ q[j] \in DOMAIN store /\ q[j] # k
        BY <2>3, <2>4, <3>3
      <4>2. store[q[i]].lastAccess <= store[q[j]].lastAccess
        BY <2>1, <2>5, <3>1, <4>1 DEF Rising
      <4> QED BY <3>1, <4>1, <4>2
    <3> QED BY <3>2, <3>3
  <2> QED BY <2>5 DEF Rising
<1>6. CacheTypes' /\ InUse(lru', store')
  BY <1>1, <1>2 DEF CacheInv, CacheTypes, InUse
<1>7. Cardinality(DOMAIN store') <= MaxSize
  BY DEF CacheInv
<1> QED BY <1>4, <1>5, <1>6, <1>7 DEF CacheInv

\* Whom the policy puts last there is, and the victim is one of them.
LEMMA VictimIs ==
  ASSUME CacheInv, DOMAIN store # {}
  PROVE  /\ Victim \in DOMAIN store
         /\ \A x \in DOMAIN store :
              CASE policy = "lru"  -> store[Victim].lastAccess <= store[x].lastAccess
                [] policy = "lfu"  -> store[Victim].accessCount <= store[x].accessCount
                [] policy = "fifo" -> store[Victim].createdAt <= store[x].createdAt
<1> DEFINE I == {i \in DOMAIN lru : lru[i] \in Candidates}
           First(i) == i \in DOMAIN lru /\ lru[i] \in Candidates /\ \A j \in 1..(i - 1) : lru[j] \notin Candidates
           v == CHOOSE i \in DOMAIN lru : lru[i] \in Candidates /\ \A j \in 1..(i - 1) : lru[j] \notin Candidates
<1>1. /\ lru \in Seq(CacheKey) /\ Distinct(lru) /\ DOMAIN lru = 1..Len(lru) /\ Len(lru) \in Nat
      /\ \A x \in DOMAIN store : \E i \in DOMAIN lru : lru[i] = x
      /\ \A i \in DOMAIN lru : lru[i] \in DOMAIN store
      /\ policy \in {"lru", "lfu", "fifo"}
  BY DEF CacheInv, CacheTypes, InUse, ToSet, Policies
<1>2. \A x \in DOMAIN store : store[x].lastAccess \in Nat /\ store[x].accessCount \in Nat /\ store[x].createdAt \in Nat
                              /\ freq[x] = store[x].accessCount
  BY DEF CacheInv, CacheTypes, Entry, Counted
<1>3. Candidates \subseteq DOMAIN store /\ Candidates # {}
  <2>1. CASE policy = "lru"
    BY <2>1 DEF Candidates
  <2>2. CASE policy = "lfu"
    <3> DEFINE F == {store[x].accessCount : x \in DOMAIN store}
    <3>1. PICK m \in F : \A y \in F : m <= y
      <4>1. F \in SUBSET Nat /\ F # {}
        BY <1>2
      <4> HIDE DEF F
      <4> QED BY <4>1, LeastNumber
    <3>2. PICK k \in DOMAIN store : store[k].accessCount = m
      BY <3>1
    <3>3. \A x \in DOMAIN store : freq[k] <= freq[x]
      BY <1>2, <3>1, <3>2
    <3> QED BY <2>2, <3>2, <3>3 DEF Candidates
  <2>3. CASE policy = "fifo"
    <3> DEFINE F == {store[x].createdAt : x \in DOMAIN store}
    <3>1. PICK m \in F : \A y \in F : m <= y
      <4>1. F \in SUBSET Nat /\ F # {}
        BY <1>2
      <4> HIDE DEF F
      <4> QED BY <4>1, LeastNumber
    <3>2. PICK k \in DOMAIN store : store[k].createdAt = m
      BY <3>1
    <3>3. \A x \in DOMAIN store : store[k].createdAt <= store[x].createdAt
      BY <3>1, <3>2
    <3> QED BY <2>3, <3>2, <3>3 DEF Candidates
  <2> QED BY <1>1, <2>1, <2>2, <2>3
<1>4. \E i : First(i)
  <2>1. I \in SUBSET Nat /\ I # {}
    BY <1>1, <1>3
  <2>2. PICK i \in I : \A j \in I : i <= j
    <3> HIDE DEF I
    <3> QED BY <2>1, LeastNumber
  <2>3. ASSUME NEW j \in 1..(i - 1) PROVE lru[j] \notin Candidates
    <3>1. j \in DOMAIN lru /\ ~(i <= j)
      BY <1>1, <2>2
    <3> QED BY <2>2, <3>1
  <2> QED BY <2>2, <2>3
<1>5. First(v)
  BY <1>4
<1>6. Victim = lru[v]
  BY DEF Victim
<1> HIDE DEF v
<1>7. Victim \in Candidates /\ Victim \in DOMAIN store
  BY <1>1, <1>5, <1>6
<1>8. ASSUME NEW x \in DOMAIN store
      PROVE  CASE policy = "lru"  -> store[Victim].lastAccess <= store[x].lastAccess
               [] policy = "lfu"  -> store[Victim].accessCount <= store[x].accessCount
               [] policy = "fifo" -> store[Victim].createdAt <= store[x].createdAt
  <2>1. CASE policy = "lru"
    <3>1. \A i \in DOMAIN lru : lru[i] \in Candidates
      BY <1>1, <2>1 DEF Candidates
    <3>2. v = 1
      <4>1. v \in 1..Len(lru) /\ \A j \in 1..(v - 1) : lru[j] \notin Candidates
        BY <1>1, <1>5
      <4>2. v # 1 => 1 \in 1..(v - 1) /\ 1 \in DOMAIN lru
        BY <1>1, <4>1
      <4> QED BY <3>1, <4>1, <4>2
    <3>3. PICK i \in DOMAIN lru : lru[i] = x
      BY <1>1
    <3>4. i = 1 \/ (1 < i /\ 1 \in 1..Len(lru) /\ i \in 1..Len(lru))
      BY <1>1
    <3>5. Rising(lru, store)
      BY <2>1 DEF CacheInv
    <3>6. store[lru[1]].lastAccess <= store[lru[i]].lastAccess
      BY <1>1, <1>2, <3>4, <3>5 DEF Rising
    <3> QED BY <1>6, <2>1, <3>2, <3>3, <3>6
  <2>2. CASE policy = "lfu"
    BY <1>2, <1>7, <2>2 DEF Candidates
  <2>3. CASE policy = "fifo"
    BY <1>7, <2>3 DEF Candidates
  <2> QED BY <1>1, <2>1, <2>2, <2>3
<1> QED BY <1>7, <1>8

LEMMA AddKeeps ==
  ASSUME CacheInv, NEW k \in CacheKey, NEW ttl \in Nat, Add(k, ttl), UNCHANGED <<policy, cacheNow>>
  PROVE  /\ CacheInv'
         /\ \/ DOMAIN store' = DOMAIN store \cup {k}
            \/ /\ Cardinality(DOMAIN store) = MaxSize /\ Victim \in DOMAIN store
               /\ DOMAIN store' = (DOMAIN store \ {Victim}) \cup {k}
<1> DEFINE full == Cardinality(DOMAIN store) >= MaxSize
           victims == IF full THEN {Victim} ELSE {}
           q == Without(lru, victims)
           e == NewEntry(ttl)
<1>1. /\ k \notin DOMAIN store /\ lru' = Append(q, k) /\ policy' = policy /\ cacheNow' = cacheNow
      /\ DOMAIN store' = (DOMAIN store \ victims) \cup {k} /\ store'[k] = e
      /\ \A x \in DOMAIN store \ victims : store'[x] = store[x]
      /\ DOMAIN freq' = (DOMAIN freq \ victims) \cup {k} /\ freq'[k] = 1
      /\ \A x \in DOMAIN freq \ victims : freq'[x] = IF x = k THEN 1 ELSE freq[x]
  BY DEF Add, Put, Drop
<1>2. e \in Entry /\ e.lastAccess = cacheNow /\ e.accessCount = 1 /\ cacheNow \in Nat
  BY DEF NewEntry, Entry, ExpireAt, Forever, CacheInv, CacheTypes
<1>3. /\ q \in Seq(CacheKey) /\ Distinct(q) /\ ToSet(q) = DOMAIN store \ victims
      /\ policy = "lru" => Rising(q, store)
  BY LeftInUse
<1>4. /\ \A x \in DOMAIN store : store[x] \in Entry /\ store[x].lastAccess <= cacheNow
      /\ DOMAIN store \subseteq CacheKey
      /\ Cardinality(DOMAIN store) \in Nat /\ Cardinality(DOMAIN store) <= MaxSize /\ MaxSize \in Nat \ {0}
      /\ IsFiniteSet(DOMAIN store) /\ IsFiniteSet(DOMAIN store \ victims)
  BY StoreIsFinite, CacheAssumption DEF CacheInv, CacheTypes
<1>5. full => /\ Cardinality(DOMAIN store) = MaxSize /\ Victim \in DOMAIN store
              /\ Cardinality(DOMAIN store \ victims) = Cardinality(DOMAIN store) - 1
  <2> SUFFICES ASSUME full PROVE /\ Cardinality(DOMAIN store) = MaxSize /\ Victim \in DOMAIN store
                                 /\ Cardinality(DOMAIN store \ victims) = Cardinality(DOMAIN store) - 1
    OBVIOUS
  <2>1. Cardinality(DOMAIN store) = MaxSize
    BY <1>4
  <2>2. DOMAIN store # {}
    BY <1>4, <2>1, FS_EmptySet
  <2>3. Victim \in DOMAIN store
    BY <2>2, VictimIs
  <2> QED BY <1>4, <2>1, <2>3, FS_RemoveElement
<1> HIDE DEF e, full, q
<1>6. Append(q, k) \in Seq(CacheKey) /\ Distinct(Append(q, k)) /\ ToSet(Append(q, k)) = DOMAIN store'
  <2>1. k \notin ToSet(q) /\ ToSet(q) \cup {k} = DOMAIN store'
    BY <1>1, <1>3
  <2>2. Append(q, k) \in Seq(CacheKey) /\ Distinct(Append(q, k)) /\ ToSet(Append(q, k)) = ToSet(q) \cup {k}
    BY <1>3, <2>1, AppendedDistinct
  <2> QED BY <2>1, <2>2
<1>7. store' \in [DOMAIN store' -> Entry]
  <2>1. \A x \in DOMAIN store' : store'[x] \in Entry
    BY <1>1, <1>2, <1>4
  <2>2. store' = [x \in DOMAIN store' |-> store'[x]]
    BY DEF Add, Put
  <2> QED BY <2>1, <2>2
<1>8. Counted(freq', store')
  <2>1. DOMAIN freq = DOMAIN store /\ \A x \in DOMAIN store : freq[x] = store[x].accessCount
    BY DEF CacheInv, Counted
  <2> QED BY <1>1, <1>2, <2>1 DEF Counted
<1>9. Cardinality(DOMAIN store') <= MaxSize
  <2>1. Cardinality(DOMAIN store') = Cardinality(DOMAIN store \ victims) + 1
    BY <1>1, <1>4, FS_AddElement
  <2>2. CASE full
    BY <1>4, <1>5, <2>1, <2>2
  <2>3. CASE ~full
    BY <1>4, <2>1, <2>3 DEF full
  <2> QED BY <2>2, <2>3
<1>10. \A x \in DOMAIN store' : store'[x].lastAccess <= cacheNow
  BY <1>1, <1>2, <1>4
<1>11. ASSUME policy = "lru" PROVE Rising(lru', store')
  <2>1. DOMAIN q = 1..Len(q) /\ \A i \in 1..Len(q) : q[i] \in DOMAIN store \ victims
    <3>1. DOMAIN q = 1..Len(q)
      BY <1>3
    <3> QED BY <1>3, <3>1 DEF ToSet
  <2>2. /\ Len(q) \in Nat /\ Len(lru') = Len(q) + 1 /\ lru'[Len(q) + 1] = k
        /\ \A i \in 1..Len(q) : lru'[i] = q[i]
    BY <1>1, <1>3
  <2>3. ASSUME NEW i \in 1..Len(lru'), NEW j \in 1..Len(lru'), i < j
        PROVE  store'[lru'[i]].lastAccess <= store'[lru'[j]].lastAccess
    <3>1. i \in 1..Len(q) /\ lru'[i] = q[i] /\ q[i] \in DOMAIN store \ victims
      BY <2>1, <2>2, <2>3
    <3>2. CASE j = Len(q) + 1
      BY <1>1, <1>2, <1>4, <2>2, <3>1, <3>2
    <3>3. CASE j # Len(q) + 1
      <4>1. j \in 1..Len(q) /\ lru'[j] = q[j] /\ q[j] \in DOMAIN store \ victims
        BY <2>1, <2>2, <3>3
      <4>2. store[q[i]].lastAccess <= store[q[j]].lastAccess
        BY <1>3, <1>11, <2>3, <3>1, <4>1 DEF Rising
      <4> QED BY <1>1, <3>1, <4>1, <4>2
    <3> QED BY <3>2, <3>3
  <2> QED BY <2>3 DEF Rising
<1>12. CacheTypes' /\ InUse(lru', store')
  <2>1. policy' \in Policies /\ cacheNow' \in Nat /\ DOMAIN store' \subseteq CacheKey
    BY <1>1, <1>4 DEF CacheInv, CacheTypes
  <2> QED BY <1>1, <1>6, <1>7, <2>1 DEF CacheTypes, InUse
<1>13. CacheInv'
  BY <1>1, <1>8, <1>9, <1>10, <1>11, <1>12 DEF CacheInv
<1> QED BY <1>1, <1>5, <1>13

\* What each step does to the cache: the invariant stays, and a key goes while another comes only
\* when the policy pushes it out.
PushedOut(k) ==
  /\ Cardinality(DOMAIN store) = MaxSize
  /\ DOMAIN store \ DOMAIN store' = {k}
  /\ \A x \in DOMAIN store :
       CASE policy = "lru"  -> store[k].lastAccess <= store[x].lastAccess
         [] policy = "lfu"  -> store[k].accessCount <= store[x].accessCount
         [] policy = "fifo" -> store[k].createdAt <= store[x].createdAt
Evicts == \A k \in DOMAIN store : k \notin DOMAIN store' /\ DOMAIN store' \ DOMAIN store # {} => PushedOut(k)

LEMMA CacheNextKeeps ==
  ASSUME CacheInv, CacheNext
  PROVE  CacheInv' /\ Evicts
<1>0. /\ store \in [DOMAIN store -> Entry] /\ DOMAIN freq = DOMAIN store
      /\ \A x \in DOMAIN store : store[x] \in Entry /\ freq[x] = store[x].accessCount
      /\ cacheNow \in Nat /\ Ttls \cup {DefaultTtl} \subseteq Nat
  BY CacheAssumption DEF CacheInv, CacheTypes, Counted
<1>1. ASSUME NEW K, RemoveEntries(K), UNCHANGED <<policy, cacheNow>> PROVE CacheInv' /\ Evicts
  <2>1. CacheInv'
    BY <1>1, RemoveKeeps
  <2>2. DOMAIN store' \subseteq DOMAIN store
    BY <1>1 DEF RemoveEntries, Drop
  <2> QED BY <2>1, <2>2 DEF Evicts
<1>2. ASSUME UNCHANGED <<policy, store, lru, freq>>, cacheNow' \in Nat, cacheNow <= cacheNow' PROVE CacheInv' /\ Evicts
  <2>1. \A x \in DOMAIN store : store[x].lastAccess \in Nat /\ store[x].lastAccess <= cacheNow
    BY <1>0 DEF CacheInv, Entry
  <2>2. CacheTypes' /\ InUse(lru', store') /\ Counted(freq', store')
    BY <1>2 DEF CacheInv, CacheTypes, InUse, Counted
  <2>3. \A x \in DOMAIN store' : store'[x].lastAccess <= cacheNow'
    BY <1>0, <1>2, <2>1
  <2>4. CacheInv'
    BY <1>2, <2>2, <2>3 DEF CacheInv, Rising
  <2> QED BY <1>2, <2>4 DEF Evicts
<1>3. ASSUME NEW k \in CacheKey, Hit(k), UNCHANGED <<policy, cacheNow>> PROVE CacheInv' /\ Evicts
  <2>1. /\ k \in DOMAIN store /\ DOMAIN store' = DOMAIN store /\ lru' = Touched(k)
        /\ \A x \in DOMAIN store : x # k => store'[x] = store[x]
        /\ store'[k] = [store[k] EXCEPT !.lastAccess = cacheNow, !.accessCount = store[k].accessCount + 1]
        /\ DOMAIN freq' = DOMAIN freq /\ freq'[k] = store[k].accessCount + 1
        /\ \A x \in DOMAIN store : x # k => freq'[x] = freq[x]
    BY <1>0, <1>3 DEF Hit
  <2>2. store'[k] \in Entry /\ store'[k].lastAccess = cacheNow /\ store'[k].accessCount = store[k].accessCount + 1
    <3> DEFINE e == store[k]
               n == e.accessCount + 1
    <3>1. e \in Entry /\ n \in Nat /\ cacheNow \in Nat
      BY <1>0, <2>1 DEF Entry
    <3>2. store'[k] = [e EXCEPT !.lastAccess = cacheNow, !.accessCount = n]
      BY <2>1
    <3> HIDE DEF e, n
    <3>3. store'[k] \in Entry /\ store'[k].lastAccess = cacheNow /\ store'[k].accessCount = n
      BY <3>1, <3>2 DEF Entry
    <3> QED BY <3>3 DEF e, n
  <2>3. store' = [x \in DOMAIN store |-> store'[x]]
    BY <1>0, <1>3 DEF Hit
  <2>4. store' \in [DOMAIN store' -> Entry]
    BY <1>0, <2>1, <2>2, <2>3
  <2>5. Counted(freq', store')
    BY <1>0, <2>1, <2>2 DEF Counted
  <2>6. CacheInv'
    BY <1>3, <2>1, <2>2, <2>4, <2>5, TouchKeeps
  <2> QED BY <2>1, <2>6 DEF Evicts
<1>4. ASSUME NEW k \in CacheKey, NEW ttl \in Nat, Update(k, ttl), UNCHANGED <<policy, cacheNow>> PROVE CacheInv' /\ Evicts
  <2>1. /\ k \in DOMAIN store /\ DOMAIN store' = DOMAIN store /\ lru' = Touched(k) /\ freq' = freq
        /\ \A x \in DOMAIN store : x # k => store'[x] = store[x]
        /\ store'[k] = [store[k] EXCEPT !.expireAt = ExpireAt(ttl), !.lastAccess = cacheNow]
    BY <1>0, <1>4 DEF Update
  <2>2. store'[k] \in Entry /\ store'[k].lastAccess = cacheNow /\ store'[k].accessCount = store[k].accessCount
    <3>1. store[k] \in Entry /\ ExpireAt(ttl) \in Nat
      BY <1>0, <2>1 DEF ExpireAt, Forever
    <3> QED BY <1>0, <2>1, <3>1 DEF Entry
  <2>3. store' = [x \in DOMAIN store |-> store'[x]]
    BY <1>0, <1>4 DEF Update
  <2>4. store' \in [DOMAIN store' -> Entry]
    BY <1>0, <2>1, <2>2, <2>3
  <2>5. Counted(freq', store')
    BY <1>0, <2>1, <2>2 DEF Counted
  <2>6. CacheInv'
    BY <1>4, <2>1, <2>2, <2>4, <2>5, TouchKeeps
  <2> QED BY <2>1, <2>6 DEF Evicts
<1>5. ASSUME NEW k \in CacheKey, NEW ttl \in Nat, Add(k, ttl), UNCHANGED <<policy, cacheNow>> PROVE CacheInv' /\ Evicts
  <2>1. CacheInv' /\ \/ DOMAIN store' = DOMAIN store \cup {k}
                     \/ /\ Cardinality(DOMAIN store) = MaxSize /\ Victim \in DOMAIN store
                        /\ DOMAIN store' = (DOMAIN store \ {Victim}) \cup {k}
    BY <1>5, AddKeeps
  <2>2. ASSUME NEW x \in DOMAIN store, x \notin DOMAIN store' PROVE PushedOut(x)
    <3>1. x = Victim /\ Cardinality(DOMAIN store) = MaxSize /\ DOMAIN store' = (DOMAIN store \ {Victim}) \cup {k}
      BY <2>1, <2>2
    <3>2. k \notin DOMAIN store
      BY <1>5 DEF Add
    <3>3. DOMAIN store \ DOMAIN store' = {x}
      BY <2>2, <3>1, <3>2
    <3>4. DOMAIN store # {}
      BY <2>2
    <3> QED BY <3>1, <3>3, <3>4, VictimIs DEF PushedOut
  <2> QED BY <2>1, <2>2 DEF Evicts
<1>6. ASSUME NEW k \in CacheKey, NEW ttl \in Nat, Expire(k, ttl) PROVE CacheInv' /\ Evicts
  <2>1. /\ k \in DOMAIN store /\ DOMAIN store' = DOMAIN store
        /\ \A x \in DOMAIN store : x # k => store'[x] = store[x]
        /\ store'[k] = [store[k] EXCEPT !.expireAt = cacheNow + ttl]
        /\ UNCHANGED <<policy, lru, freq, cacheNow>>
    BY <1>0, <1>6 DEF Expire
  <2>2. /\ store'[k] \in Entry /\ store'[k].lastAccess = store[k].lastAccess
        /\ store'[k].accessCount = store[k].accessCount
    BY <1>0, <2>1 DEF Entry
  <2>3. \A x \in DOMAIN store : /\ store'[x] \in Entry /\ store'[x].lastAccess = store[x].lastAccess
                                /\ store'[x].accessCount = store[x].accessCount
    BY <1>0, <2>1, <2>2
  <2>4. store' = [x \in DOMAIN store |-> store'[x]]
    BY <1>0, <1>6 DEF Expire
  <2>5. CacheTypes' /\ InUse(lru', store') /\ Counted(freq', store')
    <3>1. store' \in [DOMAIN store' -> Entry]
      BY <2>1, <2>3, <2>4
    <3> QED BY <2>1, <2>3, <3>1 DEF CacheInv, CacheTypes, InUse, Counted
  <2>6. policy = "lru" => Rising(lru', store')
    <3>1. DOMAIN lru = 1..Len(lru) /\ \A i \in 1..Len(lru) : lru[i] \in DOMAIN store
      <4>1. lru \in Seq(CacheKey) /\ ToSet(lru) = DOMAIN store
        BY DEF CacheInv, CacheTypes, InUse
      <4>2. DOMAIN lru = 1..Len(lru)
        BY <4>1
      <4> QED BY <4>1, <4>2 DEF ToSet
    <3> QED BY <2>1, <2>3, <3>1 DEF CacheInv, Rising
  <2>7. CacheInv'
    BY <2>1, <2>3, <2>5, <2>6 DEF CacheInv
  <2> QED BY <2>1, <2>7 DEF Evicts
<1>7. ASSUME NEW k \in CacheKey, Get(k) PROVE CacheInv' /\ Evicts
  <2>1. UNCHANGED <<policy, cacheNow>> /\ (Hit(k) \/ Miss(k))
    BY <1>7 DEF Get
  <2>2. Hit(k) \/ UNCHANGED <<store, lru, freq>> \/ RemoveEntries({k})
    BY <2>1 DEF Miss
  <2> QED BY <1>0, <1>1, <1>2, <1>3, <2>1, <2>2
<1>8. ASSUME NEW k \in CacheKey, Delete(k) PROVE CacheInv' /\ Evicts
  BY <1>1, <1>8 DEF Delete
<1>9. ASSUME NEW k \in CacheKey, NEW ttl \in Nat, Set(k, ttl) PROVE CacheInv' /\ Evicts
  <2>1. UNCHANGED <<policy, cacheNow>> /\ (Update(k, ttl) \/ Add(k, ttl))
    BY <1>9 DEF Set, Stored
  <2> QED BY <1>4, <1>5, <2>1
<1>10. ASSUME TimerThread \/ CloseFlag \/ CloseCancel \/ CloseClear \/ CacheTick PROVE CacheInv' /\ Evicts
  <2>1. CASE Cleanup
    BY <1>1, <2>1 DEF Cleanup
  <2>2. CASE CloseClear
    BY <1>1, <2>2 DEF CloseClear
  <2>3. CASE ScheduleCleanup \/ StartTimer \/ CloseFlag \/ CloseCancel \/ CacheTick
    <3>1. UNCHANGED <<policy, store, lru, freq>> /\ cacheNow' \in Nat /\ cacheNow <= cacheNow'
      BY <1>0, <2>3 DEF ScheduleCleanup, StartTimer, CloseFlag, CloseCancel, CacheTick
    <3> QED BY <1>2, <3>1
  <2> QED BY <1>10, <2>1, <2>2, <2>3 DEF TimerThread
<1> HIDE DEF CacheInv, Evicts
<1> QED BY <1>0, <1>6, <1>7, <1>8, <1>9, <1>10 DEF CacheNext

LEMMA CacheInvAgrees ==
  ASSUME CacheInv
  PROVE  StructuresAgree
<1>1. lru \in Seq(CacheKey) /\ Distinct(lru) /\ ToSet(lru) = DOMAIN store
  BY DEF CacheInv, InUse
<1>2. Len(lru) = Cardinality(DOMAIN store)
  BY <1>1, AsLongAsItsSet
<1> QED BY <1>1, <1>2 DEF CacheInv, Counted, StructuresAgree

-----------------------------------------------------------------------------
(* The linked list of the LRU cache *)

\* The nodes from the head to the tail, of a list that holds w.
Chain(w, i) == IF i = 0 THEN LruHead ELSE IF i = Len(w) + 1 THEN LruTail ELSE w[i]
Links == [next : [LruNode -> LruNode], prev : [LruNode -> LruNode]]
Linked(l, w) ==
  /\ l \in Links /\ w \in Seq(LruKey) /\ Distinct(w)
  /\ \A i \in 0..Len(w) : l.next[Chain(w, i)] = Chain(w, i + 1) /\ l.prev[Chain(w, i + 1)] = Chain(w, i)

\* No node is in the chain twice.
LEMMA ChainIs ==
  ASSUME NEW w \in Seq(LruKey), Distinct(w)
  PROVE  /\ \A i \in 0..(Len(w) + 1) : Chain(w, i) \in LruNode
         /\ \A i \in 1..Len(w) : Chain(w, i) = w[i]
         /\ Chain(w, 0) = LruHead /\ Chain(w, Len(w) + 1) = LruTail
         /\ \A i, j \in 0..(Len(w) + 1) : Chain(w, i) = Chain(w, j) => i = j
<1>1. Len(w) \in Nat /\ \A i \in 1..Len(w) : w[i] \in LruKey
  OBVIOUS
<1>2. \A i \in 0..(Len(w) + 1) : i = 0 \/ i = Len(w) + 1 \/ i \in 1..Len(w)
  BY <1>1
<1>3. /\ \A i \in 1..Len(w) : Chain(w, i) = w[i] /\ i # 0 /\ i # Len(w) + 1
      /\ Chain(w, 0) = LruHead /\ Chain(w, Len(w) + 1) = LruTail
  BY <1>1 DEF Chain
<1>4. \A i \in 0..(Len(w) + 1) : Chain(w, i) \in LruNode
  BY <1>1, <1>2, <1>3 DEF LruNode
<1>5. ASSUME NEW i \in 0..(Len(w) + 1), NEW j \in 0..(Len(w) + 1), Chain(w, i) = Chain(w, j) PROVE i = j
  BY <1>1, <1>2, <1>3, <1>5, LruAssumption DEF Distinct
<1> QED BY <1>3, <1>4, <1>5

LEMMA UnlinkIs ==
  ASSUME NEW l, NEW w, Linked(l, w), NEW p \in 1..Len(w)
  PROVE  Linked(Unlink(l, w[p]), Filtered(w, {w[p]}))
<1> DEFINE v == Filtered(w, {w[p]})
           N == Len(w)
           m == Unlink(l, w[p])
<1>1. /\ l \in Links /\ w \in Seq(LruKey) /\ Distinct(w) /\ N \in Nat /\ p \in 1..N
      /\ \A i \in 0..N : l.next[Chain(w, i)] = Chain(w, i + 1) /\ l.prev[Chain(w, i + 1)] = Chain(w, i)
  BY DEF Linked
<1>2. /\ \A i \in 0..(N + 1) : Chain(w, i) \in LruNode
      /\ \A i \in 1..N : Chain(w, i) = w[i]
      /\ Chain(w, 0) = LruHead /\ Chain(w, N + 1) = LruTail
      /\ \A i, j \in 0..(N + 1) : Chain(w, i) = Chain(w, j) => i = j
  BY <1>1, ChainIs
<1>3. v \in Seq(LruKey) /\ Len(v) = N - 1 /\ \A i \in 1..(N - 1) : v[i] = IF i < p THEN w[i] ELSE w[i + 1]
  BY <1>1, KeptButOne DEF Distinct
<1>4. Distinct(v)
  BY <1>1, KeptDistinct
<1> DEFINE before == Chain(w, p - 1)
           after == Chain(w, p + 1)
<1>5. l.prev[w[p]] = before /\ l.next[w[p]] = after /\ before \in LruNode /\ after \in LruNode
  <2>1. p \in 0..N /\ p - 1 \in 0..N /\ p - 1 \in 0..(N + 1) /\ p + 1 \in 0..(N + 1) /\ (p - 1) + 1 = p
    BY <1>1
  <2> QED BY <1>1, <1>2, <2>1
<1>6. m = [next |-> [l.next EXCEPT ![before] = after], prev |-> [l.prev EXCEPT ![after] = before]]
  <2>1. m = [l EXCEPT !.next[before] = after, !.prev[after] = before]
    BY <1>5 DEF Unlink
  <2> HIDE DEF m, before, after
  <2> QED BY <1>1, <2>1 DEF Links
<1>7. /\ m \in Links
      /\ \A n \in LruNode : m.next[n] = IF n = before THEN after ELSE l.next[n]
      /\ \A n \in LruNode : m.prev[n] = IF n = after THEN before ELSE l.prev[n]
  <2> HIDE DEF m, before, after
  <2> QED BY <1>1, <1>5, <1>6 DEF Links
<1> HIDE DEF v, m
<1>8. \A i \in 0..N : Chain(v, i) = IF i < p THEN Chain(w, i) ELSE Chain(w, i + 1)
  <2> SUFFICES ASSUME NEW i \in 0..N PROVE Chain(v, i) = IF i < p THEN Chain(w, i) ELSE Chain(w, i + 1)
    OBVIOUS
  <2>1. CASE i = 0
    BY <1>1, <1>2, <2>1 DEF Chain
  <2>2. CASE i = N
    <3>1. Chain(v, i) = LruTail /\ Chain(w, i + 1) = LruTail /\ ~(i < p)
      BY <1>1, <1>2, <1>3, <2>2 DEF Chain
    <3> QED BY <3>1
  <2>3. CASE i # 0 /\ i # N
    <3>1. i \in 1..(N - 1) /\ i \in 1..N /\ i + 1 \in 1..N
      BY <1>1, <2>3
    <3>2. Chain(v, i) = v[i]
      BY <1>1, <1>3, <3>1 DEF Chain
    <3> QED BY <1>2, <1>3, <3>1, <3>2
  <2> QED BY <2>1, <2>2, <2>3
<1>9. ASSUME NEW i \in 0..(N - 1)
      PROVE  m.next[Chain(v, i)] = Chain(v, i + 1) /\ m.prev[Chain(v, i + 1)] = Chain(v, i)
  <2>1. i \in 0..N /\ i + 1 \in 0..N /\ i + 2 \in 0..(N + 1) /\ (i + 1) + 1 = i + 2 /\ i \in 0..(N + 1) /\ i + 1 \in 0..(N + 1)
        /\ p - 1 \in 0..(N + 1) /\ p + 1 \in 0..(N + 1)
    BY <1>1
  <2>2. CASE i < p - 1
    <3>1. Chain(v, i) = Chain(w, i) /\ Chain(v, i + 1) = Chain(w, i + 1)
      BY <1>1, <1>8, <2>1, <2>2
    <3>2. Chain(w, i) # before /\ Chain(w, i + 1) # after
      BY <1>1, <1>2, <2>1, <2>2
    <3>3. l.next[Chain(w, i)] = Chain(w, i + 1) /\ l.prev[Chain(w, i + 1)] = Chain(w, i)
      BY <1>1, <2>1
    <3>4. Chain(w, i) \in LruNode /\ Chain(w, i + 1) \in LruNode
      BY <1>2, <2>1
    <3> QED BY <1>7, <3>1, <3>2, <3>3, <3>4
  <2>3. CASE i = p - 1
    <3>1. Chain(v, i) = before /\ Chain(v, i + 1) = after
      BY <1>1, <1>8, <2>1, <2>3
    <3> QED BY <1>5, <1>7, <3>1
  <2>4. CASE i > p - 1
    <3>1. Chain(v, i) = Chain(w, i + 1) /\ Chain(v, i + 1) = Chain(w, i + 2)
      BY <1>1, <1>8, <2>1, <2>4
    <3>2. Chain(w, i + 1) # before /\ Chain(w, i + 2) # after
      BY <1>1, <1>2, <2>1, <2>4
    <3>3. l.next[Chain(w, i + 1)] = Chain(w, i + 2) /\ l.prev[Chain(w, i + 2)] = Chain(w, i + 1)
      BY <1>1, <2>1
    <3>4. Chain(w, i + 1) \in LruNode /\ Chain(w, i + 2) \in LruNode
      BY <1>2, <2>1
    <3> QED BY <1>7, <3>1, <3>2, <3>3, <3>4
  <2> QED BY <1>1, <2>1, <2>2, <2>3, <2>4
<1> QED BY <1>3, <1>4, <1>7, <1>9 DEF Linked, v, m

LEMMA AddIs ==
  ASSUME NEW l, NEW w, Linked(l, w), NEW k \in LruKey, k \notin ToSet(w)
  PROVE  Linked(AddToHead(l, k), <<k>> \o w)
<1> DEFINE v == <<k>> \o w
           N == Len(w)
           m == AddToHead(l, k)
           first == Chain(w, 1)
<1>1. /\ l \in Links /\ w \in Seq(LruKey) /\ Distinct(w) /\ N \in Nat
      /\ \A i \in 0..N : l.next[Chain(w, i)] = Chain(w, i + 1) /\ l.prev[Chain(w, i + 1)] = Chain(w, i)
  BY DEF Linked
<1>2. /\ \A i \in 0..(N + 1) : Chain(w, i) \in LruNode
      /\ \A i \in 1..N : Chain(w, i) = w[i]
      /\ Chain(w, 0) = LruHead /\ Chain(w, N + 1) = LruTail
      /\ \A i, j \in 0..(N + 1) : Chain(w, i) = Chain(w, j) => i = j
  BY <1>1, ChainIs
<1>3. v \in Seq(LruKey) /\ Len(v) = N + 1 /\ v[1] = k /\ \A i \in 2..(N + 1) : v[i] = w[i - 1]
  BY <1>1
<1>4. k \in LruNode /\ LruHead \in LruNode /\ \A i \in 0..(N + 1) : Chain(w, i) # k
  <2>1. \A i \in 1..N : w[i] # k
    BY <1>1 DEF ToSet
  <2>2. \A i \in 0..(N + 1) : i = 0 \/ i = N + 1 \/ i \in 1..N
    BY <1>1
  <2> QED BY <1>2, <2>1, <2>2, LruAssumption DEF LruNode
<1>5. l.next[LruHead] = first /\ first \in LruNode /\ first # k /\ first # LruHead
  <2>1. 0 \in 0..N /\ 1 \in 0..(N + 1) /\ 0 \in 0..(N + 1) /\ 0 + 1 = 1
    BY <1>1
  <2> QED BY <1>1, <1>2, <1>4, <2>1
<1>6. m = [next |-> [l.next EXCEPT ![k] = first, ![LruHead] = k], prev |-> [l.prev EXCEPT ![k] = LruHead, ![first] = k]]
  BY <1>5 DEF AddToHead
<1>7. /\ m \in Links
      /\ \A n \in LruNode : m.next[n] = IF n = LruHead THEN k ELSE IF n = k THEN first ELSE l.next[n]
      /\ \A n \in LruNode : m.prev[n] = IF n = first THEN k ELSE IF n = k THEN LruHead ELSE l.prev[n]
  <2> HIDE DEF m, first
  <2> QED BY <1>1, <1>4, <1>5, <1>6 DEF Links
<1> HIDE DEF v, m
<1>8. Distinct(v)
  <2>1. ASSUME NEW i \in 1..Len(v), NEW j \in 1..Len(v), v[i] = v[j] PROVE i = j
    <3>1. \A n \in 1..Len(v) : n = 1 \/ (n \in 2..(N + 1) /\ n - 1 \in 1..N)
      BY <1>1, <1>3
    <3>2. \A n \in 1..N : w[n] # k
      BY <1>1 DEF ToSet
    <3>3. (i = 1 /\ j = 1) \/ (i \in 2..(N + 1) /\ j \in 2..(N + 1) /\ i - 1 \in 1..N /\ j - 1 \in 1..N)
      BY <1>3, <2>1, <3>1, <3>2
    <3>4. CASE i \in 2..(N + 1) /\ j \in 2..(N + 1) /\ i - 1 \in 1..N /\ j - 1 \in 1..N
      <4>1. w[i - 1] = w[j - 1]
        BY <1>3, <2>1, <3>4
      <4>2. i - 1 = j - 1
        BY <1>1, <3>4, <4>1 DEF Distinct
      <4> QED BY <3>4, <4>2
    <3> QED BY <3>3, <3>4
  <2> QED BY <2>1 DEF Distinct
<1>9. Chain(v, 0) = LruHead /\ Chain(v, 1) = k /\ \A i \in 2..(N + 2) : Chain(v, i) = Chain(w, i - 1)
  <2>1. Chain(v, 0) = LruHead /\ Chain(v, 1) = k
    BY <1>1, <1>3 DEF Chain
  <2>2. ASSUME NEW i \in 2..(N + 2) PROVE Chain(v, i) = Chain(w, i - 1)
    <3>1. CASE i = N + 2
      BY <1>1, <1>3, <3>1 DEF Chain
    <3>2. CASE i # N + 2
      <4>1. i \in 2..(N + 1) /\ i # 0 /\ i # Len(v) + 1 /\ i - 1 # 0 /\ i - 1 # N + 1
        BY <1>1, <1>3, <3>2
      <4> QED BY <1>3, <4>1 DEF Chain
    <3> QED BY <3>1, <3>2
  <2> QED BY <2>1, <2>2
<1>10. ASSUME NEW i \in 0..(N + 1)
       PROVE  m.next[Chain(v, i)] = Chain(v, i + 1) /\ m.prev[Chain(v, i + 1)] = Chain(v, i)
  <2>1. CASE i = 0
    BY <1>4, <1>5, <1>7, <1>9, <2>1
  <2>2. CASE i = 1
    <3>1. Chain(v, i) = k /\ Chain(v, i + 1) = first
      <4>1. i + 1 \in 2..(N + 2) /\ (i + 1) - 1 = 1
        BY <1>1, <2>2
      <4> QED BY <1>9, <2>2, <4>1
    <3>2. k # LruHead
      BY LruAssumption
    <3> QED BY <1>4, <1>5, <1>7, <3>1, <3>2
  <2>3. CASE i # 0 /\ i # 1
    <3>1. /\ i \in 2..(N + 2) /\ i + 1 \in 2..(N + 2) /\ i - 1 \in 0..N /\ (i + 1) - 1 = i /\ (i - 1) + 1 = i
          /\ i - 1 # 0 /\ i # 1 /\ i \in 0..(N + 1) /\ i - 1 \in 0..(N + 1) /\ 0 \in 0..(N + 1) /\ 1 \in 0..(N + 1)
      BY <1>1, <2>3
    <3>2. Chain(v, i) = Chain(w, i - 1) /\ Chain(v, i + 1) = Chain(w, i)
      BY <1>9, <3>1
    <3>3. l.next[Chain(w, i - 1)] = Chain(w, i) /\ l.prev[Chain(w, i)] = Chain(w, i - 1)
      BY <1>1, <3>1
    <3>4. Chain(w, i - 1) # LruHead /\ Chain(w, i) # first
      BY <1>2, <3>1
    <3> QED BY <1>2, <1>4, <1>7, <3>1, <3>2, <3>3, <3>4
  <2> QED BY <2>1, <2>2, <2>3
<1> QED BY <1>3, <1>7, <1>8, <1>10 DEF Linked, v, m

\* Walking a list finds what it holds.
LEMMA WalkIs ==
  ASSUME NEW l, NEW w, Linked(l, w)
  PROVE  Walk(l) = w
<1> DEFINE N == Cardinality(LruKey)
           M == Len(w)
           Rule(g) == g = [i \in 0..N |-> IF i = 0 THEN l.next[LruHead] ELSE IF g[i - 1] = LruTail THEN LruTail ELSE l.next[g[i - 1]]]
           P == CHOOSE g : Rule(g)
           f == [i \in 0..N |-> IF i <= M THEN Chain(w, i + 1) ELSE LruTail]
<1>1. /\ w \in Seq(LruKey) /\ Distinct(w) /\ M \in Nat
      /\ \A i \in 0..M : l.next[Chain(w, i)] = Chain(w, i + 1)
  BY DEF Linked
<1>2. /\ \A i \in 1..M : Chain(w, i) = w[i] /\ w[i] \in LruKey /\ w[i] # LruTail
      /\ Chain(w, 0) = LruHead /\ Chain(w, M + 1) = LruTail
  BY <1>1, ChainIs, LruAssumption
<1>3. N \in Nat /\ M <= N
  <2>1. IsFiniteSet(LruKey) /\ N \in Nat
    BY LruAssumption, FS_CardinalityType
  <2>2. ToSet(w) \subseteq LruKey /\ Cardinality(ToSet(w)) = M
    <3>1. Cardinality(ToSet(w)) = M
      BY <1>1, AsLongAsItsSet
    <3> QED BY <1>1, <3>1 DEF ToSet
  <2> QED BY <2>1, <2>2, FS_Subset
<1> HIDE DEF N, M
<1>4. Rule(f)
  <2>1. ASSUME NEW i \in 0..N
        PROVE  f[i] = IF i = 0 THEN l.next[LruHead] ELSE IF f[i - 1] = LruTail THEN LruTail ELSE l.next[f[i - 1]]
    <3>1. CASE i = 0
      BY <1>1, <1>2, <1>3, <3>1
    <3>2. CASE i # 0 /\ i <= M
      <4>1. i \in 1..M /\ i - 1 \in 0..N /\ i - 1 <= M /\ (i - 1) + 1 = i /\ i \in 0..M
        BY <1>1, <1>3, <3>2
      <4>2. f[i - 1] = Chain(w, i) /\ f[i] = Chain(w, i + 1)
        BY <3>2, <4>1
      <4> QED BY <1>1, <1>2, <3>2, <4>1, <4>2
    <3>3. CASE i = M + 1
      <4>1. i - 1 = M /\ i - 1 \in 0..N /\ (i - 1) + 1 = i /\ ~(i <= M) /\ i # 0
        BY <1>1, <1>3, <3>3
      <4>2. f[i - 1] = LruTail /\ f[i] = LruTail
        BY <1>1, <1>2, <3>3, <4>1
      <4> QED BY <4>1, <4>2
    <3>4. CASE i # 0 /\ ~(i <= M) /\ i # M + 1
      <4>1. i - 1 \in 0..N /\ ~(i - 1 <= M)
        BY <1>1, <1>3, <3>4
      <4>2. f[i - 1] = LruTail /\ f[i] = LruTail
        BY <3>4, <4>1
      <4> QED BY <3>4, <4>2
    <3> QED BY <1>1, <1>3, <3>1, <3>2, <3>3, <3>4
  <2>2. f = [i \in 0..N |-> f[i]]
    OBVIOUS
  <2> HIDE DEF f
  <2> QED BY <2>1, <2>2
<1>5. Rule(P)
  <2> HIDE DEF Rule, f
  <2> QED BY <1>4
<1>6. Walk(l) = LET steps == {i \in 1..N : P[i - 1] # LruTail} IN [i \in 1..Cardinality(steps) |-> P[i - 1]]
  BY DEF Walk, N
<1>7. \A n \in 0..N : P[n] = f[n]
  <2> DEFINE T == {n \in Nat : n <= N => P[n] = f[n]}
  <2>1. \A i \in 0..N : P[i] = IF i = 0 THEN l.next[LruHead] ELSE IF P[i - 1] = LruTail THEN LruTail ELSE l.next[P[i - 1]]
    <3> HIDE DEF P
    <3> QED BY <1>5
  <2>2. \A i \in 0..N : f[i] = IF i = 0 THEN l.next[LruHead] ELSE IF f[i - 1] = LruTail THEN LruTail ELSE l.next[f[i - 1]]
    <3> HIDE DEF f
    <3> QED BY <1>4
  <2> HIDE DEF P, Rule, f
  <2>3. 0 \in T
    BY <1>3, <2>1, <2>2
  <2>4. ASSUME NEW n \in T PROVE n + 1 \in T
    <3>1. CASE n + 1 <= N
      <4>1. n \in Nat /\ n <= N /\ n + 1 \in 0..N /\ (n + 1) - 1 = n /\ n + 1 # 0
        BY <1>3, <3>1
      <4>2. P[n] = f[n]
        BY <4>1
      <4> QED BY <2>1, <2>2, <4>1, <4>2
    <3>2. CASE ~(n + 1 <= N)
      BY <3>2
    <3> QED BY <3>1, <3>2
  <2>5. T = Nat
    <3> HIDE DEF T
    <3>1. T \subseteq Nat
      BY DEF T
    <3> QED BY <2>3, <2>4, <3>1, EveryNumber
  <2> QED BY <2>5
<1> HIDE DEF P, Rule
<1>8. \A i \in 1..N : P[i - 1] = IF i <= M THEN w[i] ELSE LruTail
  <2> SUFFICES ASSUME NEW i \in 1..N PROVE P[i - 1] = IF i <= M THEN w[i] ELSE LruTail
    OBVIOUS
  <2>1. i - 1 \in 0..N /\ (i - 1) + 1 = i /\ (i - 1 <= M <=> i <= M + 1)
    BY <1>1, <1>3
  <2>2. P[i - 1] = IF i - 1 <= M THEN Chain(w, i) ELSE LruTail
    BY <1>7, <2>1
  <2>3. CASE i <= M
    <3>1. i \in 1..M /\ i - 1 <= M
      BY <1>1, <2>3
    <3>2. Chain(w, i) = w[i]
      BY <1>2, <3>1
    <3> QED BY <2>2, <2>3, <3>1, <3>2
  <2>4. CASE ~(i <= M)
    <3>1. i - 1 <= M => i = M + 1
      BY <1>1, <2>4
    <3> QED BY <1>2, <2>2, <2>4, <3>1
  <2> QED BY <2>3, <2>4
<1> HIDE DEF f
<1>9. {i \in 1..N : P[i - 1] # LruTail} = 1..M
  <2>1. \A i : i \in 1..M <=> i \in 1..N /\ i <= M
    BY <1>1, <1>3
  <2>2. ASSUME NEW i \in 1..N PROVE P[i - 1] # LruTail <=> i <= M
    <3>1. i <= M => i \in 1..M
      BY <2>1
    <3> QED BY <1>2, <1>8, <3>1
  <2> QED BY <2>1, <2>2
<1>10. Cardinality(1..M) = M
  <2>1. 1 \in Int /\ M \in Int
    BY <1>1
  <2>2. Cardinality(1..M) = IF 1 > M THEN 0 ELSE M - 1 + 1
    BY <2>1, FS_Interval
  <2> QED BY <1>1, <2>2
<1>11. Walk(l) = [i \in 1..M |-> P[i - 1]]
  BY <1>6, <1>9, <1>10
<1>12. \A i \in 1..M : P[i - 1] = w[i]
  <2>1. \A i \in 1..M : i \in 1..N /\ i <= M
    BY <1>1, <1>3
  <2> QED BY <1>8, <2>1
<1>13. w = [i \in 1..M |-> w[i]]
  BY <1>1 DEF M
<1> QED BY <1>11, <1>12, <1>13

LruInv == \E w : Linked(links, w) /\ ToSet(w) = cache /\ Len(w) <= LruCapacity

LEMMA LruInitially == LruInit => LruInv /\ Iterated = <<>>
<1> SUFFICES ASSUME LruInit PROVE LruInv /\ Iterated = <<>>
  OBVIOUS
<1>1. <<>> \in Seq(LruKey) /\ Distinct(<<>>) /\ Len(<<>>) = 0 /\ ToSet(<<>>) = {}
  BY DEF Distinct, ToSet
<1>2. Chain(<<>>, 0) = LruHead /\ Chain(<<>>, 1) = LruTail
  BY DEF Chain
<1>3. links \in Links /\ links.next[LruHead] = LruTail /\ links.prev[LruTail] = LruHead
  BY DEF LruInit, Links, LruNode
<1>4. Linked(links, <<>>)
  <2>1. \A i \in 0..0 : i = 0 /\ i + 1 = 1
    OBVIOUS
  <2> QED BY <1>1, <1>2, <1>3, <2>1 DEF Linked
<1>5. 0 <= LruCapacity
  BY LruAssumption
<1>6. LruInv
  BY <1>1, <1>4, <1>5 DEF LruInv, LruInit
<1>7. Iterated = <<>>
  BY <1>4, WalkIs DEF Iterated
<1> QED BY <1>6, <1>7

\* A key that is used moves to the front.
LEMMA MoveIs ==
  ASSUME NEW w, Linked(links, w), ToSet(w) = cache, Len(w) <= LruCapacity,
         NEW k \in LruKey, k \in cache, links' = MoveToHead(links, k), UNCHANGED cache
  PROVE  LruInv' /\ Order!Use(k)
<1> DEFINE u == Filtered(w, {k})
           v == <<k>> \o u
<1>1. w \in Seq(LruKey) /\ Distinct(w) /\ Len(w) \in Nat /\ DOMAIN w = 1..Len(w)
  BY DEF Linked
<1>2. PICK p \in 1..Len(w) : w[p] = k
  BY <1>1 DEF ToSet
<1>3. Linked(Unlink(links, k), u)
  BY <1>2, UnlinkIs
<1>4. u \in Seq(LruKey) /\ ToSet(u) = ToSet(w) \ {k} /\ Len(u) = Len(w) - 1
  <2>1. u \in Seq(LruKey) /\ ToSet(u) = ToSet(w) \ {k}
    BY <1>1, WhatIsKept
  <2>2. \A i \in 1..Len(w) : w[i] = w[p] => i = p
    BY <1>1, <1>2 DEF Distinct
  <2>3. Len(Filtered(w, {w[p]})) = Len(w) - 1
    BY <1>1, <1>2, <2>2, KeptButOne
  <2> QED BY <1>2, <2>1, <2>3
<1>5. Linked(links', v)
  BY <1>3, <1>4, AddIs DEF MoveToHead
<1> HIDE DEF u
<1>6. ToSet(v) = cache /\ Len(v) = Len(w)
  <2>0. DOMAIN u = 1..Len(u) /\ Len(u) \in Nat /\ v \in Seq(LruKey) /\ Len(v) = Len(u) + 1 /\ v[1] = k
        /\ \A i \in 2..(Len(u) + 1) : v[i] = u[i - 1]
    BY <1>4
  <2> HIDE DEF v
  <2>1. DOMAIN u = 1..Len(u) /\ DOMAIN v = 1..Len(w) /\ v[1] = k /\ Len(v) = Len(w)
        /\ \A i \in 1..Len(u) : v[i + 1] = u[i] /\ i + 1 \in 1..Len(w)
    <3>1. Len(v) = Len(w) /\ DOMAIN v = 1..Len(v)
      BY <1>1, <1>4, <2>0
    <3>2. ASSUME NEW i \in 1..Len(u) PROVE v[i + 1] = u[i] /\ i + 1 \in 1..Len(w)
      <4>1. i + 1 \in 2..(Len(u) + 1) /\ (i + 1) - 1 = i /\ i + 1 \in 1..Len(w)
        BY <1>1, <1>4, <2>0
      <4> QED BY <2>0, <4>1
    <3> QED BY <2>0, <3>1, <3>2
  <2>2. \A i \in 2..Len(w) : i - 1 \in 1..Len(u) /\ v[i] = u[i - 1]
    <3>1. \A i \in 2..Len(w) : i - 1 \in 1..Len(u) /\ i \in 2..(Len(u) + 1)
      BY <1>1, <1>4, <2>0
    <3> QED BY <2>0, <3>1
  <2>3. \A i \in 1..Len(w) : i = 1 \/ i \in 2..Len(w)
    BY <1>1
  <2>4. \A x \in ToSet(v) : x \in cache
    <3> SUFFICES ASSUME NEW i \in 1..Len(w) PROVE v[i] \in cache
      BY <2>1 DEF ToSet
    <3>1. CASE i = 1
      BY <2>1, <3>1
    <3>2. CASE i \in 2..Len(w)
      <4>1. v[i] \in ToSet(u)
        BY <2>1, <2>2, <3>2 DEF ToSet
      <4> QED BY <1>4, <4>1
    <3> QED BY <2>3, <3>1, <3>2
  <2>5. \A x \in ToSet(u) : x \in ToSet(v)
    BY <2>1 DEF ToSet
  <2>6. k \in ToSet(v)
    <3>1. 1 \in 1..Len(w)
      BY <1>1, <1>2
    <3> QED BY <2>1, <3>1 DEF ToSet
  <2> QED BY <1>4, <2>1, <2>4, <2>5, <2>6
<1>7. LruInv'
  BY <1>5, <1>6 DEF LruInv
<1>8. Iterated = w /\ Iterated' = v
  BY <1>5, WalkIs DEF Iterated
<1>9. Order!Use(k)
  <2>1. Order!Without(k) = Filtered(Iterated, {k})
    BY DEF Order!Without, Filtered
  <2>2. Order!Without(k) = u
    BY <1>8, <2>1 DEF u
  <2> HIDE DEF v
  <2>3. k \in ToSet(Iterated) /\ Iterated' = v
    BY <1>8
  <2>4. Order!Use(k) <=> k \in ToSet(Iterated) /\ Iterated' = <<k>> \o Order!Without(k)
    BY DEF Order!Use, Order!ToSet, ToSet
  <2> QED BY <2>2, <2>3, <2>4 DEF v
<1> QED BY <1>7, <1>9

\* A sequence with one more in front.
LEMMA InFront ==
  ASSUME NEW S, NEW q \in Seq(S), NEW e \in S
  PROVE  /\ <<e>> \o q \in Seq(S) /\ Len(<<e>> \o q) = Len(q) + 1
         /\ (<<e>> \o q)[1] = e /\ \A i \in 1..Len(q) : (<<e>> \o q)[i + 1] = q[i]
         /\ ToSet(<<e>> \o q) = ToSet(q) \cup {e}
<1> DEFINE v == <<e>> \o q
<1>1. Len(q) \in Nat /\ v \in Seq(S) /\ Len(v) = Len(q) + 1 /\ v[1] = e /\ \A i \in 2..(Len(q) + 1) : v[i] = q[i - 1]
  OBVIOUS
<1>2. DOMAIN q = 1..Len(q) /\ DOMAIN v = 1..(Len(q) + 1)
  BY <1>1
<1> HIDE DEF v
<1>3. ASSUME NEW i \in 1..Len(q) PROVE v[i + 1] = q[i] /\ i + 1 \in 1..(Len(q) + 1)
  <2>1. i + 1 \in 2..(Len(q) + 1) /\ (i + 1) - 1 = i /\ i + 1 \in 1..(Len(q) + 1)
    BY <1>1
  <2> QED BY <1>1, <2>1
<1>4. \A x \in ToSet(v) : x \in ToSet(q) \cup {e}
  <2> SUFFICES ASSUME NEW i \in 1..(Len(q) + 1) PROVE v[i] \in ToSet(q) \cup {e}
    BY <1>2 DEF ToSet
  <2>1. CASE i = 1
    BY <1>1, <2>1
  <2>2. CASE i # 1
    <3>1. i \in 2..(Len(q) + 1) /\ i - 1 \in 1..Len(q)
      BY <1>1, <2>2
    <3> QED BY <1>1, <1>2, <3>1 DEF ToSet
  <2> QED BY <2>1, <2>2
<1>5. \A x \in ToSet(q) : x \in ToSet(v)
  BY <1>2, <1>3 DEF ToSet
<1>6. e \in ToSet(v)
  <2>1. 1 \in 1..(Len(q) + 1)
    BY <1>1
  <2> QED BY <1>1, <1>2, <2>1 DEF ToSet
<1>7. ToSet(v) = ToSet(q) \cup {e}
  BY <1>4, <1>5, <1>6
<1> QED BY <1>1, <1>3, <1>7 DEF v

\* A new key comes in front, and beyond the capacity the last one goes.
LEMMA InsertIs ==
  ASSUME NEW w, Linked(links, w), ToSet(w) = cache, Len(w) <= LruCapacity,
         NEW k \in LruKey, k \notin cache, LruPut(k)
  PROVE  LruInv' /\ Order!Insert(k)
<1> DEFINE N == Len(w)
           v == <<k>> \o w
           added == AddToHead(links, k)
           oldest == added.prev[LruTail]
           u == Filtered(v, {v[N + 1]})
<1>1. w \in Seq(LruKey) /\ Distinct(w) /\ N \in Nat /\ LruCapacity \in Nat \ {0}
  BY LruAssumption DEF Linked
<1>2. v \in Seq(LruKey) /\ Len(v) = N + 1 /\ ToSet(v) = cache \cup {k}
  BY <1>1, InFront
<1>3. Linked(added, v)
  BY AddIs
<1>4. /\ links' = IF Cardinality(cache \cup {k}) > LruCapacity THEN Unlink(added, oldest) ELSE added
      /\ cache' = IF Cardinality(cache \cup {k}) > LruCapacity THEN (cache \cup {k}) \ {oldest} ELSE cache \cup {k}
  BY DEF LruPut
<1> HIDE DEF added, v
<1>5. Distinct(v) /\ Cardinality(cache \cup {k}) = N + 1
  BY <1>2, <1>3, AsLongAsItsSet DEF Linked
<1>6. Iterated = w
  BY WalkIs DEF Iterated
<1> DEFINE m == IF N < LruCapacity THEN N + 1 ELSE LruCapacity
<1>7. SubSeq(v, 1, m) = [i \in 1..m |-> v[i]] /\ m \in 1..(N + 1)
  <2>1. m \in 1..(N + 1)
    BY <1>1
  <2> HIDE DEF m
  <2>2. SubSeq(v, 1, m) = [i \in 1..(m - 1 + 1) |-> v[i + 1 - 1]]
    BY <1>1, <1>2, <2>1
  <2>3. m - 1 + 1 = m
    BY <1>1, <2>1
  <2>4. [i \in 1..m |-> v[i + 1 - 1]] = [i \in 1..m |-> v[i]]
    <3>1. \A i \in 1..m : i + 1 - 1 = i
      BY <1>1, <2>1
    <3> QED BY <3>1
  <2> QED BY <2>1, <2>2, <2>3, <2>4
<1>8. LruInv' /\ Iterated' = SubSeq(v, 1, m)
  <2>1. CASE N + 1 > LruCapacity
    <3>1. m = N /\ N = LruCapacity
      BY <1>1, <2>1
    <3>2. oldest = v[N + 1] /\ N + 1 \in 1..Len(v)
      <4>1. N + 1 \in 0..Len(v) /\ N + 1 \in 1..Len(v) /\ (N + 1) + 1 = Len(v) + 1
        BY <1>1, <1>2
      <4>2. added.prev[Chain(v, (N + 1) + 1)] = Chain(v, N + 1)
        BY <1>3, <4>1 DEF Linked
      <4> QED BY <1>2, <1>5, <4>1, <4>2, ChainIs
    <3>3. Linked(Unlink(added, oldest), u)
      BY <1>3, <3>2, UnlinkIs
    <3>4. links' = Unlink(added, oldest) /\ cache' = (cache \cup {k}) \ {v[N + 1]}
      BY <1>4, <1>5, <2>1, <3>2
    <3>5. u \in Seq(LruKey) /\ ToSet(u) = cache' /\ Len(u) = N /\ \A i \in 1..N : u[i] = IF i < N + 1 THEN v[i] ELSE v[i + 1]
      <4>1. Len(v) - 1 = N
        BY <1>1, <1>2
      <4>2. u \in Seq(LruKey) /\ Len(u) = Len(v) - 1 /\ \A i \in 1..(Len(v) - 1) : u[i] = IF i < N + 1 THEN v[i] ELSE v[i + 1]
        BY <1>2, <1>5, <3>2, KeptButOne DEF Distinct
      <4>3. ToSet(u) = ToSet(v) \ {v[N + 1]}
        BY <1>2, WhatIsKept
      <4> QED BY <1>2, <3>4, <4>1, <4>2, <4>3
    <3> HIDE DEF u
    <3>6. LruInv'
      BY <3>1, <3>3, <3>4, <3>5, <1>1 DEF LruInv
    <3>7. Iterated' = u
      BY <3>3, <3>4, WalkIs DEF Iterated
    <3>8. u = [i \in 1..N |-> v[i]]
      <4>1. u = [i \in 1..N |-> u[i]]
        BY <3>5
      <4>2. \A i \in 1..N : u[i] = v[i]
        BY <1>1, <3>5
      <4> QED BY <4>1, <4>2
    <3> QED BY <1>7, <3>1, <3>6, <3>7, <3>8
  <2>2. CASE ~(N + 1 > LruCapacity)
    <3>1. m = N + 1 /\ N + 1 <= LruCapacity
      BY <1>1, <2>2
    <3>2. links' = added /\ cache' = cache \cup {k}
      BY <1>4, <1>5, <2>2
    <3>3. LruInv'
      BY <1>2, <1>3, <3>1, <3>2 DEF LruInv
    <3>4. Iterated' = v
      BY <1>3, <3>2, WalkIs DEF Iterated
    <3>5. v = [i \in 1..(N + 1) |-> v[i]]
      BY <1>2
    <3> QED BY <1>7, <3>1, <3>3, <3>4, <3>5
  <2> QED BY <2>1, <2>2
<1>9. Order!Insert(k)
  <2>1. Order!Insert(k) <=> /\ k \notin ToSet(Iterated)
                            /\ Iterated' = SubSeq(<<k>> \o Iterated, 1, IF Len(Iterated) < LruCapacity THEN Len(Iterated) + 1 ELSE LruCapacity)
    BY DEF Order!Insert, Order!ToSet, ToSet
  <2> HIDE DEF m
  <2>2. k \notin ToSet(Iterated) /\ Iterated' = SubSeq(<<k>> \o Iterated, 1, m)
    BY <1>6, <1>8 DEF v
  <2> QED BY <1>6, <2>1, <2>2 DEF m
<1> QED BY <1>8, <1>9

\* A get or a put is one use or one insertion, in the order the walk finds the keys.
LEMMA LruNextKeeps ==
  ASSUME LruInv, LruNext
  PROVE  LruInv' /\ \E k \in LruKey : Order!Use(k) \/ Order!Insert(k)
<1>1. PICK w : Linked(links, w) /\ ToSet(w) = cache /\ Len(w) <= LruCapacity
  BY DEF LruInv
<1>2. PICK k \in LruKey : LruGet(k) \/ LruPut(k)
  BY DEF LruNext
<1>3. CASE k \in cache
  <2>1. links' = MoveToHead(links, k) /\ UNCHANGED cache
    BY <1>2, <1>3 DEF LruGet, LruPut
  <2>2. LruInv' /\ Order!Use(k)
    BY <1>1, <1>3, <2>1, MoveIs
  <2> QED BY <2>2
<1>4. CASE k \notin cache
  <2>1. LruPut(k)
    BY <1>2, <1>4 DEF LruGet
  <2>2. LruInv' /\ Order!Insert(k)
    BY <1>1, <1>4, <2>1, InsertIs
  <2> QED BY <2>2
<1> QED BY <1>3, <1>4

LEMMA LruInvMatches ==
  ASSUME LruInv
  PROVE  ListMatchesDict
<1>1. PICK w : Linked(links, w) /\ ToSet(w) = cache /\ Len(w) <= LruCapacity
  BY DEF LruInv
<1>2. Iterated = w
  BY <1>1, WalkIs DEF Iterated
<1>3. /\ w \in Seq(LruKey) /\ Distinct(w) /\ Len(w) \in Nat /\ DOMAIN w = 1..Len(w)
      /\ \A i \in 0..Len(w) : links.next[Chain(w, i)] = Chain(w, i + 1) /\ links.prev[Chain(w, i + 1)] = Chain(w, i)
  BY <1>1 DEF Linked
<1>4. ASSUME NEW n \in cache PROVE links.prev[links.next[n]] = n /\ links.next[links.prev[n]] = n
  <2>1. PICK i \in 1..Len(w) : w[i] = n
    BY <1>1, <1>3 DEF ToSet
  <2>2. Chain(w, i) = n
    BY <1>3, <2>1, ChainIs
  <2>3. i \in 0..Len(w) /\ i - 1 \in 0..Len(w) /\ (i - 1) + 1 = i
    BY <1>3
  <2> QED BY <1>3, <2>2, <2>3
<1> QED BY <1>1, <1>2, <1>4 DEF ListMatchesDict

-----------------------------------------------------------------------------
(* The two small caches *)

MiniInv ==
  /\ miniSize \in MiniSizes
  /\ order \in Seq(MiniKey) /\ Distinct(order) /\ ToSet(order) = DOMAIN deadline
  /\ Limited => Len(order) <= miniSize
  /\ \A s \in DOMAIN setting : setting[s].key \in MiniKey

\* What is left of the order, and a key that goes to its end.
LEMMA OthersAre ==
  ASSUME MiniInv, NEW K
  PROVE  /\ Others(K) \in Seq(MiniKey) /\ Distinct(Others(K)) /\ ToSet(Others(K)) = DOMAIN deadline \ K
         /\ Len(Others(K)) <= Len(order)
<1>1. order \in Seq(MiniKey) /\ Distinct(order) /\ ToSet(order) = DOMAIN deadline
  BY DEF MiniInv
<1>2. Others(K) = Filtered(order, K)
  BY DEF Others, Filtered
<1>3. Others(K) \in Seq(MiniKey) /\ Distinct(Others(K)) /\ ToSet(Others(K)) = DOMAIN deadline \ K
  BY <1>1, <1>2, WhatIsKept, KeptDistinct
<1>4. IsFiniteSet(ToSet(order)) /\ Cardinality(ToSet(order)) = Len(order) /\ Cardinality(ToSet(Others(K))) = Len(Others(K))
  BY <1>1, <1>3, AsLongAsItsSet
<1> QED BY <1>1, <1>3, <1>4, FS_Subset

LEMMA Last2EndIs ==
  ASSUME MiniInv, NEW k \in MiniKey
  PROVE  /\ Last2End(k) \in Seq(MiniKey) /\ Distinct(Last2End(k)) /\ ToSet(Last2End(k)) = DOMAIN deadline \cup {k}
         /\ Len(Last2End(k)) <= Len(order) + 1
         /\ k \in DOMAIN deadline => Len(Last2End(k)) = Len(order)
<1> DEFINE q == Others({k})
<1>1. q \in Seq(MiniKey) /\ Distinct(q) /\ ToSet(q) = DOMAIN deadline \ {k} /\ Len(q) <= Len(order)
  BY OthersAre
<1>2. Last2End(k) = Append(q, k)
  BY DEF Last2End
<1> HIDE DEF q
<1>3. k \notin ToSet(q)
  BY <1>1
<1>4. /\ Append(q, k) \in Seq(MiniKey) /\ Distinct(Append(q, k)) /\ ToSet(Append(q, k)) = ToSet(q) \cup {k}
      /\ Len(Append(q, k)) = Len(q) + 1
  <2>1. Append(q, k) \in Seq(MiniKey) /\ Distinct(Append(q, k)) /\ ToSet(Append(q, k)) = ToSet(q) \cup {k}
    BY <1>1, <1>3, AppendedDistinct
  <2> QED BY <1>1, <2>1
<1>5. ToSet(Append(q, k)) = DOMAIN deadline \cup {k}
  BY <1>1, <1>4
<1>6. order \in Seq(MiniKey) /\ Distinct(order) /\ ToSet(order) = DOMAIN deadline /\ Len(order) \in Nat /\ Len(q) \in Nat
  BY <1>1 DEF MiniInv
<1>7. Cardinality(ToSet(order)) = Len(order) /\ Cardinality(ToSet(Append(q, k))) = Len(Append(q, k))
  BY <1>4, <1>6, AsLongAsItsSet
<1>8. k \in DOMAIN deadline => ToSet(Append(q, k)) = ToSet(order)
  BY <1>5, <1>6
<1> QED BY <1>1, <1>2, <1>4, <1>5, <1>6, <1>7, <1>8

\* A limit is a number.
LEMMA LimitIs == MiniSizes \subseteq Int /\ (miniSize \in MiniSizes /\ Limited => miniSize \in Nat)
<1>1. MiniSizes \subseteq Nat \cup {NoSize}
  BY MiniAssumption
<1>2. NoSize \in Int
  BY DEF NoSize
<1>3. Limited => miniSize # NoSize
  BY DEF Limited
<1>4. ASSUME NEW n \in MiniSizes PROVE n \in Int /\ (n # NoSize => n \in Nat)
  <2>1. n \in Nat \/ n = NoSize
    BY <1>1
  <2> QED BY <1>2, <2>1
<1>5. MiniSizes \subseteq Int
  BY <1>4
<1> QED BY <1>3, <1>4, <1>5

\* What popitem leaves.
LEMMA KeptIs ==
  ASSUME miniSize \in MiniSizes, NEW s \in Seq(MiniKey), Distinct(s), Limited => Len(s) <= miniSize + 1
  PROVE  Kept(s) \in Seq(MiniKey) /\ Distinct(Kept(s)) /\ (Limited => Len(Kept(s)) <= miniSize)
<1>1. (Limited => miniSize \in Nat) /\ Len(s) \in Nat
  BY LimitIs
<1>2. CASE Limited /\ Len(s) > miniSize
  <2> DEFINE t == Tail(s)
  <2>1. t \in Seq(MiniKey) /\ Len(t) = Len(s) - 1 /\ \A i \in 1..Len(t) : t[i] = s[i + 1]
    BY <1>1, <1>2
  <2> HIDE DEF t
  <2>2. ASSUME NEW i \in 1..Len(t), NEW j \in 1..Len(t), t[i] = t[j] PROVE i = j
    <3>1. i + 1 \in 1..Len(s) /\ j + 1 \in 1..Len(s) /\ s[i + 1] = s[j + 1] /\ (i + 1 = j + 1 => i = j)
      BY <1>1, <2>1, <2>2
    <3> QED BY <3>1 DEF Distinct
  <2>3. Len(t) <= miniSize
    BY <1>1, <1>2, <2>1
  <2> QED BY <1>2, <2>1, <2>2, <2>3 DEF Kept, Distinct, t
<1>3. CASE ~(Limited /\ Len(s) > miniSize)
  BY <1>1, <1>3 DEF Kept
<1> QED BY <1>2, <1>3

LEMMA MiniInitially == MiniInit => MiniInv
<1> SUFFICES ASSUME MiniInit PROVE MiniInv
  OBVIOUS
<1>1. miniSize \in MiniSizes /\ order = <<>> /\ deadline = <<>> /\ setting = <<>>
  BY DEF MiniInit
<1>2. order \in Seq(MiniKey) /\ Len(order) = 0 /\ DOMAIN order = {} /\ DOMAIN deadline = {} /\ DOMAIN setting = {}
  BY <1>1
<1>3. Distinct(order) /\ ToSet(order) = DOMAIN deadline
  BY <1>2 DEF Distinct, ToSet
<1>4. Limited => Len(order) <= miniSize
  BY <1>1, <1>2, LimitIs
<1> QED BY <1>1, <1>2, <1>3, <1>4 DEF MiniInv

LEMMA MiniNextKeeps ==
  ASSUME MiniInv, MiniNext
  PROVE  MiniInv'
<1>0. /\ Len(order) \in Nat /\ \A s \in DOMAIN setting : setting[s].key \in MiniKey
      /\ miniSize \in MiniSizes /\ (Limited => miniSize \in Nat /\ Len(order) <= miniSize)
      /\ UNCHANGED <<mini, miniSize>> /\ Limited' = Limited
  <2>1. UNCHANGED <<mini, miniSize>>
    BY DEF MiniNext, MiniGet, MiniDelete, MiniSetClock, MiniSetStore, StopCleanup, Cleaner, CleanerWakes, CleanerSweeps,
           CleanerEnds, MiniTick, miniCleaner
  <2> QED BY <2>1, LimitIs DEF MiniInv, Limited
<1>1. ASSUME NEW K, MiniRemove(K), UNCHANGED setting PROVE MiniInv'
  <2>1. order' = Others(K) /\ DOMAIN deadline' = DOMAIN deadline \ K
    BY <1>1 DEF MiniRemove, Only
  <2>2. Others(K) \in Seq(MiniKey) /\ Distinct(Others(K)) /\ ToSet(Others(K)) = DOMAIN deadline \ K /\ Len(Others(K)) <= Len(order)
    BY OthersAre
  <2>3. Limited => Len(order') <= miniSize
    BY <1>0, <2>1, <2>2
  <2> QED BY <1>0, <1>1, <2>1, <2>2, <2>3 DEF MiniInv
<1>2. ASSUME UNCHANGED <<order, deadline, setting>> PROVE MiniInv'
  BY <1>0, <1>2 DEF MiniInv
<1>3. ASSUME NEW k \in MiniKey, MiniGet(k) PROVE MiniInv'
  <2>1. CASE HasPassed(k, miniNow)
    BY <1>1, <1>3, <2>1 DEF MiniGet
  <2>2. CASE ~HasPassed(k, miniNow)
    <3>1. k \in DOMAIN deadline /\ order' = Last2End(k) /\ UNCHANGED <<deadline, setting>>
      BY <1>3, <2>2 DEF MiniGet
    <3>2. /\ Last2End(k) \in Seq(MiniKey) /\ Distinct(Last2End(k)) /\ ToSet(Last2End(k)) = DOMAIN deadline \cup {k}
          /\ Len(Last2End(k)) = Len(order)
      BY <3>1, Last2EndIs
    <3> QED BY <1>0, <3>1, <3>2 DEF MiniInv
  <2> QED BY <2>1, <2>2
<1>4. ASSUME NEW k \in MiniKey, MiniDelete(k) PROVE MiniInv'
  BY <1>1, <1>4 DEF MiniDelete
<1>5. ASSUME NEW k \in MiniKey, NEW s \in Setter, MiniSetClock(s, k) PROVE MiniInv'
  <2>1. UNCHANGED <<order, deadline>>
    BY <1>5 DEF MiniSetClock
  <2>2. \A x \in DOMAIN setting' : setting'[x].key \in MiniKey
    BY <1>0, <1>5 DEF MiniSetClock
  <2> QED BY <1>0, <2>1, <2>2 DEF MiniInv
<1>6. ASSUME NEW s \in Setter, MiniSetStore(s) PROVE MiniInv'
  <2> DEFINE k == setting[s].key
  <2>1. /\ k \in MiniKey /\ order' = Kept(Last2End(k)) /\ DOMAIN deadline' = ToSet(Kept(Last2End(k)))
        /\ DOMAIN setting' \subseteq DOMAIN setting /\ \A x \in DOMAIN setting' : setting'[x] = setting[x]
    BY <1>0, <1>6 DEF MiniSetStore, Only
  <2> HIDE DEF k
  <2>2. Last2End(k) \in Seq(MiniKey) /\ Distinct(Last2End(k)) /\ Len(Last2End(k)) <= Len(order) + 1
    BY <2>1, Last2EndIs
  <2>3. Len(Last2End(k)) \in Nat
    BY <2>2
  <2>4. Limited => Len(Last2End(k)) <= miniSize + 1
    BY <1>0, <2>2, <2>3
  <2>5. Kept(Last2End(k)) \in Seq(MiniKey) /\ Distinct(Kept(Last2End(k))) /\ (Limited => Len(Kept(Last2End(k))) <= miniSize)
    BY <1>0, <2>2, <2>4, KeptIs
  <2> QED BY <1>0, <2>1, <2>5 DEF MiniInv
<1>7. ASSUME StopCleanup \/ Cleaner \/ MiniTick PROVE MiniInv'
  <2>1. CASE CleanerSweeps
    BY <1>1, <2>1 DEF CleanerSweeps
  <2>2. CASE StopCleanup \/ CleanerWakes \/ CleanerEnds \/ MiniTick
    BY <1>2, <2>2 DEF StopCleanup, CleanerWakes, CleanerEnds, MiniTick
  <2> QED BY <1>7, <2>1, <2>2 DEF Cleaner
<1> QED BY <1>3, <1>4, <1>5, <1>6, <1>7 DEF MiniNext

LEMMA MiniInvMatches ==
  ASSUME MiniInv
  PROVE  MapMatchesList
<1>1. DOMAIN order = 1..Len(order)
  BY DEF MiniInv
<1> QED BY <1>1 DEF MiniInv, MapMatchesList, Distinct, IsInjective

-----------------------------------------------------------------------------
(* The trainer and its checkpoints *)

Names == [step : Int, epoch : Int]
Files == {"none", "partial", "full"}
UploadStates == {"started", "adding", "listing", "reading", "logging", "logged", "skipped", "failed"}
UploadThread == [name : Names, at : UploadStates, read : {"nothing", "full"}]
\* The batches and the epochs a save of this process was named after lie behind it.
Earlier(n) == (n.epoch = -1 /\ n.step <= step) \/ (n.epoch \in Nat /\ n.epoch < epoch)
TrainTypes ==
  /\ cfg \in Configs /\ limit \in Limits
  /\ step \in Nat /\ epoch \in Nat /\ batch \in Nat /\ optimizerSteps \in Nat /\ diskClock \in Nat /\ generation \in Nat
  /\ saved \in Seq(Names) /\ saving \in Names
  /\ disk \in [DOMAIN disk -> [mtime : Nat, file : Files]]
  /\ uploads \in Seq(UploadThread)
\* What the clean-up has yet to delete.
DoomedInv ==
  /\ doomed \in [DOMAIN doomed -> Nat] /\ DOMAIN doomed \subseteq DOMAIN disk
  /\ pc # "removing" => doomed = <<>>
\* No name is saved twice.
NamesInv ==
  /\ Distinct(saved) /\ \A n \in ToSet(saved) : Earlier(n)
  /\ pc \in {"save", "writing"} => saving # NoName /\ saving \notin ToSet(saved) /\ Earlier(saving)
  /\ pc \in {"cleanup", "removing", "upload"} => saved # <<>> /\ saved[Len(saved)] = saving
  /\ saving = NoName => saved = <<>>
  /\ pc \in {"load_data", "init_tracking", "build"} => saving = NoName
Shipped(ups, names) ==
  \A u \in DOMAIN ups : /\ ups[u].name \in names
                        /\ ups[u].at \in {"logging", "logged"} => ups[u].read = "full" \/ ups[u].name \notin FullOnDisk
\* What was saved is complete until it is deleted, and what is uploaded was saved.
UploadsInv ==
  /\ \A n \in ToSet(saved) \cap DOMAIN disk : disk[n].file \in {"none", "full"}
  /\ Shipped(uploads, ToSet(saved))
  /\ pc = "killed" => uploads = <<>>
\* The names the limit asks for.
FirstKept(n) == IF limit \in 1..n THEN (n - limit) + 1 ELSE 1
RecentOf(q) == {q[i] : i \in FirstKept(Len(q))..Len(q)}
Idle == {"load_data", "init_tracking", "build", "train", "save", "upload", "evaluate", "wait", "done"}
\* In a first run they are there, in order of time, and after a clean-up nothing else is.
FirstRun ==
  /\ RecentOf(saved) \subseteq DOMAIN disk \ Emptied /\ DOMAIN disk \subseteq ToSet(saved) \cup {begun}
  /\ \A i, j \in 1..Len(saved) : i < j /\ {saved[i], saved[j]} \subseteq DOMAIN disk \ Emptied
                                   => disk[saved[i]].mtime < disk[saved[j]].mtime
  /\ \A n \in DOMAIN disk : disk[n].mtime <= diskClock
  /\ pc \notin {"writing", "killed"} => begun = IF saved = <<>> THEN NoName ELSE saved[Len(saved)]
  /\ pc = "writing" => begun = saving
  /\ pc \in Idle /\ limit # NoLimit => DOMAIN disk \subseteq RecentOf(saved)
  /\ pc \notin {"removing", "killed"} => Emptied = {}
\* While old ones are deleted, oldest first, what goes is not what the limit asks for.
Removal ==
  /\ DOMAIN disk \subseteq RecentOf(saved) \cup DOMAIN doomed /\ RecentOf(saved) \cap DOMAIN doomed = {}
  /\ \A m, n \in DOMAIN doomed : m # n => doomed[m] # doomed[n]
  /\ \A e \in Emptied : e \in DOMAIN doomed /\ \A n \in DOMAIN doomed : doomed[e] <= doomed[n]
\* The checkpoint begun last is the newest, except for one that was just emptied.
Newest ==
  IF begun = NoName THEN DOMAIN disk = {}
  ELSE /\ begun \in DOMAIN disk \ Emptied
       /\ \A n \in DOMAIN disk \ Emptied : n # begun => disk[n].mtime < disk[begun].mtime
       /\ \A e \in Emptied : \A n \in DOMAIN disk : n # e => disk[n].mtime < disk[e].mtime
Found(name) == IF Emptied = {} THEN name = begun ELSE name \in Emptied
ResumeInv ==
  /\ generation = 0 \/ (generation = 1 /\ saving = NoName) => Newest
  /\ generation <= 1 /\ pc = "train" /\ saving = NoName /\ cfg.resume => Found(resumeFrom)
HorizonInv ==
  /\ optimizerSteps <= step /\ batch <= BatchesPerEpoch /\ epoch <= cfg.num_epochs /\ (epoch = cfg.num_epochs => batch = 0)
  /\ cfg.max_steps <= 0 => step = epoch * BatchesPerEpoch + batch
  /\ cfg.max_steps > 0 => step <= cfg.max_steps - 1 + epoch + IF batch = BatchesPerEpoch /\ epoch < cfg.num_epochs THEN 1 ELSE 0
TrainInv ==
  /\ TrainTypes /\ DoomedInv /\ NamesInv /\ UploadsInv /\ ResumeInv /\ HorizonInv
  /\ generation = 0 => FirstRun /\ (pc = "removing" => Removal)

LEMMA TrainInitially == TrainerInit => TrainInv
<1> SUFFICES ASSUME TrainerInit PROVE TrainInv
  OBVIOUS
<1>1. /\ disk = <<>> /\ doomed = <<>> /\ diskClock = 0 /\ limit \in Limits /\ uploads = <<>> /\ cfg \in Configs /\ pc = "load_data"
      /\ generation = 0 /\ step = 0 /\ epoch = 0 /\ batch = 0 /\ saving = NoName /\ saved = <<>>
      /\ optimizerSteps = 0 /\ begun = NoName
  BY DEF TrainerInit, CheckpointInit
<1>2. DOMAIN disk = {} /\ ToSet(saved) = {} /\ RecentOf(saved) = {} /\ Len(saved) = 0 /\ DOMAIN uploads = {}
      /\ DOMAIN doomed = {} /\ Emptied = {}
  <2>1. FirstKept(0) = 1 /\ 1..0 = {}
    BY DEF FirstKept
  <2> QED BY <1>1, <2>1 DEF ToSet, RecentOf, Emptied
<1>3. TrainTypes /\ DoomedInv
  BY <1>1, <1>2 DEF TrainTypes, DoomedInv, NoName, CheckpointName, Names
<1>4. NamesInv /\ UploadsInv /\ FirstRun /\ ResumeInv
  BY <1>1, <1>2 DEF NamesInv, UploadsInv, Shipped, FirstRun, ResumeInv, Newest, Distinct
<1>5. HorizonInv
  <2>1. cfg.max_steps \in Int /\ cfg.num_epochs \in Nat /\ BatchesPerEpoch \in Nat
    BY <1>1, TrainerAssumption
  <2>2. 0 * BatchesPerEpoch = 0
    BY <2>1
  <2> QED BY <1>1, <2>1, <2>2 DEF HorizonInv
<1> QED BY <1>1, <1>3, <1>4, <1>5 DEF TrainInv

\* A step that leaves the disk, the names and the counters alone.
LEMMA QuietKeeps ==
  ASSUME TrainInv, UNCHANGED <<disk, diskClock, limit, cfg, generation, step, epoch, batch, saving, saved, optimizerSteps, begun>>,
         uploads' \in Seq(UploadThread),
         Shipped(uploads', ToSet(saved)),
         pc' = "killed" => uploads' = <<>>,
         doomed' = IF pc' = "killed" THEN <<>> ELSE doomed,
         pc = pc' \/ pc' \notin {"save", "writing", "cleanup", "removing", "upload", "load_data"},
         pc = "removing" => pc' \in {pc, "killed"},
         pc' \in {"init_tracking", "build"} => pc \in {"load_data", "init_tracking", "build"},
         pc' \in Idle => pc \in Idle, pc \in {"writing", "killed"} => pc' \in {pc, "killed"},
         pc' = "train" /\ saving = NoName /\ cfg.resume /\ generation <= 1 => Found(resumeFrom')
  PROVE  TrainInv'
<1>1. TrainTypes'
  BY DEF TrainInv, TrainTypes
<1>2. NamesInv' /\ UploadsInv'
  BY DEF TrainInv, NamesInv, UploadsInv, Shipped, FullOnDisk, Earlier
<1>3. RecentOf(saved)' = RecentOf(saved) /\ Newest' = Newest /\ Emptied' = Emptied /\ \A n : Found(n)' = Found(n)
  BY DEF RecentOf, FirstKept, Newest, Emptied, Found
<1>4. ASSUME FirstRun PROVE FirstRun'
  BY <1>3, <1>4 DEF FirstRun, Idle
<1>5. ResumeInv'
  BY <1>3 DEF TrainInv, ResumeInv, Found
<1>6. HorizonInv'
  BY DEF TrainInv, HorizonInv
<1>7. DoomedInv'
  <2>1. <<>> \in [DOMAIN <<>> -> Nat] /\ DOMAIN <<>> = {}
    OBVIOUS
  <2>2. CASE pc' = "killed"
    BY <2>1, <2>2 DEF DoomedInv
  <2>3. CASE pc' # "killed"
    <3>1. doomed' = doomed /\ (pc' # "removing" => pc # "removing")
      BY <2>3
    <3> QED BY <3>1 DEF TrainInv, DoomedInv
  <2> QED BY <2>2, <2>3
<1>8. ASSUME pc' = "removing", Removal PROVE Removal'
  BY <1>3, <1>8 DEF Removal
<1> QED BY <1>1, <1>2, <1>4, <1>5, <1>6, <1>7, <1>8 DEF TrainInv

\* The numbers of the loop.
LEMMA BatchInHorizon ==
  ASSUME TrainInv, TrainBatch
  PROVE  HorizonInv' /\ step' = step + 1 /\ step' \in Nat /\ batch' \in Nat /\ optimizerSteps' \in Nat
<1>1. /\ cfg' = cfg /\ epoch' = epoch /\ epoch < cfg.num_epochs /\ batch < BatchesPerEpoch /\ step' = step + 1
      /\ batch' = IF ReachesLimit THEN BatchesPerEpoch ELSE batch + 1
      /\ optimizerSteps' \in {optimizerSteps, optimizerSteps + 1}
  BY DEF TrainBatch, Backward
<1>2. /\ cfg.max_steps \in Int /\ cfg.num_epochs \in Nat /\ BatchesPerEpoch \in Nat
      /\ step \in Nat /\ epoch \in Nat /\ batch \in Nat /\ optimizerSteps \in Nat
  BY TrainerAssumption DEF TrainInv, TrainTypes
<1>3. HorizonInv
  BY DEF TrainInv
<1>4. cfg.max_steps <= 0 => step' = epoch' * BatchesPerEpoch + batch'
  <2> DEFINE m == epoch * BatchesPerEpoch
  <2>1. m \in Nat
    BY <1>2
  <2>2. cfg.max_steps <= 0 => step = m + batch
    BY <1>3 DEF HorizonInv
  <2>3. cfg.max_steps <= 0 => ~ReachesLimit
    BY <1>2 DEF ReachesLimit
  <2> HIDE DEF m
  <2>4. cfg.max_steps <= 0 => step' = m + batch'
    BY <1>1, <1>2, <2>1, <2>2, <2>3
  <2> QED BY <1>1, <2>4 DEF m
<1>5. cfg.max_steps > 0 => step' <= cfg.max_steps - 1 + epoch + IF batch' = BatchesPerEpoch /\ epoch < cfg.num_epochs THEN 1 ELSE 0
  <2> SUFFICES ASSUME cfg.max_steps > 0
               PROVE  step' <= cfg.max_steps - 1 + epoch + IF batch' = BatchesPerEpoch /\ epoch < cfg.num_epochs THEN 1 ELSE 0
    OBVIOUS
  <2>1. step <= cfg.max_steps - 1 + epoch
    BY <1>1, <1>2, <1>3 DEF HorizonInv
  <2>2. CASE ReachesLimit
    BY <1>1, <1>2, <2>1, <2>2
  <2>3. CASE ~ReachesLimit
    BY <1>1, <1>2, <2>3 DEF ReachesLimit
  <2> QED BY <2>2, <2>3
<1>6. optimizerSteps' <= step' /\ batch' <= BatchesPerEpoch /\ batch' \in Nat /\ optimizerSteps' \in Nat /\ step' \in Nat
  BY <1>1, <1>2, <1>3 DEF HorizonInv
<1> QED BY <1>1, <1>2, <1>4, <1>5, <1>6 DEF HorizonInv

LEMMA EpochInHorizon ==
  ASSUME TrainInv, EpochEnd
  PROVE  HorizonInv'
<1>1. /\ cfg' = cfg /\ epoch' = epoch + 1 /\ epoch < cfg.num_epochs /\ batch = BatchesPerEpoch /\ step' = step /\ batch' = 0
      /\ optimizerSteps' = optimizerSteps
  BY DEF EpochEnd, gradientVars
<1>2. /\ cfg.max_steps \in Int /\ cfg.num_epochs \in Nat /\ BatchesPerEpoch \in Nat
      /\ step \in Nat /\ epoch \in Nat /\ batch \in Nat /\ optimizerSteps \in Nat
  BY TrainerAssumption DEF TrainInv, TrainTypes
<1>3. HorizonInv
  BY DEF TrainInv
<1>4. cfg.max_steps <= 0 => step' = epoch' * BatchesPerEpoch + batch'
  <2>1. (epoch + 1) * BatchesPerEpoch = epoch * BatchesPerEpoch + BatchesPerEpoch
    BY <1>2
  <2>2. epoch * BatchesPerEpoch \in Nat
    BY <1>2
  <2> QED BY <1>1, <1>2, <1>3, <2>1, <2>2 DEF HorizonInv
<1>5. cfg.max_steps > 0 => step' <= cfg.max_steps - 1 + epoch'
  BY <1>1, <1>2, <1>3 DEF HorizonInv
<1>6. optimizerSteps' <= step' /\ batch' <= BatchesPerEpoch /\ epoch' <= cfg.num_epochs
  BY <1>1, <1>2, <1>3 DEF HorizonInv
<1>7. cfg.max_steps > 0 =>
        step' <= cfg.max_steps - 1 + epoch' + IF batch' = BatchesPerEpoch /\ epoch' < cfg.num_epochs THEN 1 ELSE 0
  BY <1>1, <1>2, <1>5
<1> QED BY <1>1, <1>4, <1>6, <1>7 DEF HorizonInv

\* A step of the loop, which may name the next save.
LEMMA LoopKeeps ==
  ASSUME TrainInv, TrainBatch \/ EpochEnd
  PROVE  TrainInv'
<1>1. /\ UNCHANGED <<disk, diskClock, limit, doomed, uploads, cfg, generation, saved, begun, resumeFrom>>
      /\ pc = "train" /\ pc' \in {"train", "save"} /\ (pc' = "train" => saving' = saving)
  BY DEF TrainBatch, EpochEnd, checkpointVars, gradientVars
<1>2. step \in Nat /\ epoch \in Nat /\ batch \in Nat /\ optimizerSteps \in Nat
  BY DEF TrainInv, TrainTypes
<1>3. HorizonInv' /\ step' \in Nat /\ epoch' \in Nat /\ batch' \in Nat /\ optimizerSteps' \in Nat /\ step <= step' /\ epoch <= epoch'
  <2>1. CASE TrainBatch
    BY <1>2, <2>1, BatchInHorizon DEF TrainBatch
  <2>2. CASE EpochEnd
    BY <1>2, <2>2, EpochInHorizon DEF EpochEnd, gradientVars
  <2> QED BY <2>1, <2>2
<1>4. \A n : Earlier(n) /\ n \in Names => Earlier(n)'
  BY <1>2, <1>3 DEF Earlier, Names
<1>5. pc' = "save" => saving' \in Names /\ saving' # NoName /\ saving' \notin ToSet(saved) /\ Earlier(saving)'
  <2> SUFFICES ASSUME pc' = "save" PROVE saving' \in Names /\ saving' # NoName /\ saving' \notin ToSet(saved) /\ Earlier(saving)'
    OBVIOUS
  <2>1. \A n \in ToSet(saved) : Earlier(n)
    BY DEF TrainInv, NamesInv
  <2>2. CASE TrainBatch
    <3>1. saving' = [step |-> step + 1, epoch |-> -1] /\ step' = step + 1
      BY <2>2 DEF TrainBatch, CheckpointName
    <3>2. saving' \in Names /\ saving' # NoName /\ Earlier(saving)'
      BY <1>2, <3>1 DEF Names, NoName, CheckpointName, Earlier
    <3>3. ~Earlier(saving')
      BY <1>2, <3>1 DEF Earlier
    <3> QED BY <2>1, <3>2, <3>3
  <2>3. CASE EpochEnd
    <3>1. saving' = [step |-> step, epoch |-> epoch] /\ epoch' = epoch + 1
      BY <2>3 DEF EpochEnd, CheckpointName
    <3>2. saving' \in Names /\ saving' # NoName /\ Earlier(saving)'
      BY <1>2, <3>1 DEF Names, NoName, CheckpointName, Earlier
    <3>3. ~Earlier(saving')
      BY <1>2, <3>1 DEF Earlier
    <3> QED BY <2>1, <3>2, <3>3
  <2> QED BY <2>2, <2>3
<1>6. TrainTypes' /\ DoomedInv'
  BY <1>1, <1>3, <1>5 DEF TrainInv, TrainTypes, DoomedInv
<1>7. NamesInv'
  <2>1. ToSet(saved) \subseteq Names
    BY DEF TrainInv, TrainTypes, ToSet
  <2> QED BY <1>1, <1>4, <1>5, <2>1 DEF TrainInv, NamesInv
<1>8. UploadsInv'
  BY <1>1 DEF TrainInv, UploadsInv, Shipped, FullOnDisk
<1>9. RecentOf(saved)' = RecentOf(saved) /\ Newest' = Newest /\ Emptied' = Emptied
  BY <1>1 DEF RecentOf, FirstKept, Newest, Emptied
<1>10. ASSUME FirstRun PROVE FirstRun'
  BY <1>1, <1>9, <1>10 DEF FirstRun, Idle
<1>11. ResumeInv'
  <2>1. saving' = NoName => saving = NoName
    BY <1>1, <1>5
  <2> QED BY <1>1, <1>5, <1>9, <2>1 DEF TrainInv, ResumeInv, Found
<1> QED BY <1>1, <1>3, <1>6, <1>7, <1>8, <1>10, <1>11 DEF TrainInv

LEMMA RestartKeeps ==
  ASSUME TrainInv, Restart
  PROVE  TrainInv'
<1>1. /\ UNCHANGED <<disk, diskClock, limit, doomed, uploads, cfg, begun>> /\ generation' = generation + 1
      /\ pc = "killed" /\ pc' = "load_data" /\ step' = 0 /\ epoch' = 0 /\ batch' = 0
      /\ saving' = NoName /\ saved' = <<>> /\ optimizerSteps' = 0
  BY DEF Restart, checkpointVars
<1>2. generation \in Nat /\ uploads = <<>>
  BY <1>1 DEF TrainInv, TrainTypes, UploadsInv
<1>3. TrainTypes' /\ DoomedInv'
  BY <1>1, <1>2 DEF TrainInv, TrainTypes, DoomedInv, Names, NoName, CheckpointName
<1>4. NamesInv' /\ UploadsInv'
  BY <1>1, <1>2 DEF NamesInv, UploadsInv, Shipped, Distinct, ToSet
<1>5. ResumeInv'
  <2>1. Newest' = Newest
    BY <1>1 DEF Newest, Emptied
  <2> QED BY <1>1, <1>2, <2>1 DEF TrainInv, ResumeInv
<1>6. HorizonInv'
  <2>1. cfg.max_steps \in Int /\ cfg.num_epochs \in Nat /\ BatchesPerEpoch \in Nat
    BY TrainerAssumption DEF TrainInv, TrainTypes
  <2>2. 0 * BatchesPerEpoch = 0
    BY <2>1
  <2> QED BY <1>1, <2>1, <2>2 DEF HorizonInv
<1>7. generation' # 0
  BY <1>1, <1>2
<1> QED BY <1>3, <1>4, <1>5, <1>6, <1>7 DEF TrainInv

\* A save begins: its directory is the newest, if it is not an older run's.
LEMMA StartKeeps ==
  ASSUME TrainInv, pc = "save", StartSave(saving), pc' = "writing", begun' = saving,
         UNCHANGED <<saved, cfg, step, epoch, batch, saving, generation, optimizerSteps, resumeFrom>>
  PROVE  TrainInv'
<1>1. /\ DOMAIN disk' = DOMAIN disk \cup {saving} /\ disk'[saving].file = "partial"
      /\ saving \notin DOMAIN disk => disk'[saving].mtime = diskClock + 1
      /\ \A n \in DOMAIN disk : n # saving => disk'[n] = disk[n]
      /\ disk' = [n \in DOMAIN disk' |-> disk'[n]]
      /\ diskClock' = diskClock + 1 /\ UNCHANGED <<limit, doomed, uploads>>
  BY DEF StartSave
<1>2. /\ diskClock \in Nat /\ \A n \in DOMAIN disk : disk[n].mtime \in Nat /\ disk[n] \in [mtime : Nat, file : Files]
      /\ saving # NoName /\ saving \notin ToSet(saved)
  BY DEF TrainInv, TrainTypes, NamesInv
<1>3. TrainTypes'
  <2>1. disk'[saving] \in [mtime : Nat, file : Files]
    <3>1. disk'[saving].mtime \in {disk[saving].mtime, diskClock + 1} /\ (disk'[saving].mtime # diskClock + 1 => saving \in DOMAIN disk)
      BY DEF StartSave
    <3>2. disk'[saving] = [mtime |-> disk'[saving].mtime, file |-> "partial"]
      BY DEF StartSave
    <3> QED BY <1>2, <3>1, <3>2 DEF Files
  <2>2. \A n \in DOMAIN disk' : disk'[n] \in [mtime : Nat, file : Files]
    BY <1>1, <1>2, <2>1
  <2>3. disk' \in [DOMAIN disk' -> [mtime : Nat, file : Files]]
    BY <1>1, <2>2
  <2> QED BY <1>1, <1>2, <2>3 DEF TrainInv, TrainTypes
<1>4. NamesInv'
  BY DEF TrainInv, NamesInv, Earlier
<1>5. UploadsInv' /\ DoomedInv'
  BY <1>1, <1>2 DEF TrainInv, UploadsInv, Shipped, FullOnDisk, DoomedInv
<1>6. ASSUME generation = 0, FirstRun PROVE FirstRun' /\ Newest'
  <2>0. Emptied = {}
    BY <1>6 DEF FirstRun
  <2>1. saving \notin DOMAIN disk
    <3>1. DOMAIN disk \subseteq ToSet(saved) \cup {begun} /\ begun = IF saved = <<>> THEN NoName ELSE saved[Len(saved)]
      BY <1>6 DEF FirstRun
    <3>2. saved # <<>> => saved[Len(saved)] \in ToSet(saved)
      BY DEF TrainInv, TrainTypes, ToSet
    <3> QED BY <1>2, <3>1, <3>2
  <2>2. \A n \in DOMAIN disk : n # saving /\ disk'[n] = disk[n] /\ disk[n].mtime <= diskClock
    BY <1>1, <1>6, <2>1 DEF FirstRun
  <2>3. disk'[saving].mtime = diskClock + 1
    BY <1>1, <2>1
  <2>14. Emptied' = {}
    BY <1>1, <2>0, <2>2 DEF Emptied
  <2>4. Newest'
    BY <1>1, <1>2, <2>2, <2>3, <2>14 DEF Newest
  <2>5. RecentOf(saved)' = RecentOf(saved)
    BY <1>1 DEF RecentOf, FirstKept
  <2>6. DOMAIN disk \subseteq ToSet(saved)
    <3>1. DOMAIN disk \subseteq ToSet(saved) \cup {begun} /\ begun = IF saved = <<>> THEN NoName ELSE saved[Len(saved)]
      BY <1>6 DEF FirstRun
    <3>2. saved # <<>> => saved[Len(saved)] \in ToSet(saved)
      BY DEF TrainInv, TrainTypes, ToSet
    <3>3. begun = NoName => DOMAIN disk = {}
      BY <1>6 DEF TrainInv, ResumeInv, Newest
    <3> QED BY <3>1, <3>2, <3>3
  <2>7. \A i \in 1..Len(saved) : saved[i] \in ToSet(saved)
    BY DEF TrainInv, TrainTypes, ToSet
  <2>8. \A n \in DOMAIN disk' : disk'[n].mtime <= diskClock'
    BY <1>1, <1>2, <2>2, <2>3
  <2>9. \A i, j \in 1..Len(saved) : i < j /\ saved[i] \in DOMAIN disk' /\ saved[j] \in DOMAIN disk'
                                   => disk'[saved[i]].mtime < disk'[saved[j]].mtime
    BY <1>1, <1>2, <1>6, <2>0, <2>2, <2>7 DEF FirstRun
  <2>10. RecentOf(saved)' \subseteq DOMAIN disk' /\ DOMAIN disk' \subseteq ToSet(saved) \cup {saving}
    BY <1>1, <1>6, <2>5, <2>6 DEF FirstRun
  <2> QED BY <2>4, <2>8, <2>9, <2>10, <2>14 DEF FirstRun, Idle
<1>7. ResumeInv'
  BY <1>2, <1>6 DEF TrainInv, ResumeInv
<1>8. HorizonInv'
  BY DEF TrainInv, HorizonInv
<1> QED BY <1>3, <1>4, <1>5, <1>6, <1>7, <1>8 DEF TrainInv

\* With one more name at the end the limit asks for that name and no older ones.
LEMMA RecentAfter ==
  ASSUME NEW S, NEW q \in Seq(S), NEW e
  PROVE  RecentOf(Append(q, e)) \subseteq RecentOf(q) \cup {e}
<1> DEFINE r == Append(q, e)
<1>1. Len(q) \in Nat /\ Len(r) = Len(q) + 1 /\ r[Len(q) + 1] = e /\ \A i \in 1..Len(q) : r[i] = q[i]
  OBVIOUS
<1> HIDE DEF r
<1>2. FirstKept(Len(q) + 1) \in Nat /\ FirstKept(Len(q) + 1) >= 1 /\ FirstKept(Len(q)) \in Nat /\ FirstKept(Len(q)) <= FirstKept(Len(q) + 1)
  <2>1. limit \in 1..Len(q) => limit \in 1..(Len(q) + 1)
    BY <1>1
  <2>2. limit \in 1..(Len(q) + 1) => limit \in Nat
    BY <1>1
  <2>3. CASE limit \in 1..(Len(q) + 1)
    BY <1>1, <2>2, <2>3 DEF FirstKept
  <2>4. CASE limit \notin 1..(Len(q) + 1)
    BY <1>1, <2>1, <2>4 DEF FirstKept
  <2> QED BY <2>3, <2>4
<1>3. ASSUME NEW i \in FirstKept(Len(q) + 1)..(Len(q) + 1) PROVE r[i] \in RecentOf(q) \cup {e}
  <2>1. CASE i = Len(q) + 1
    BY <1>1, <2>1
  <2>2. CASE i # Len(q) + 1
    <3>1. i \in FirstKept(Len(q))..Len(q) /\ i \in 1..Len(q)
      BY <1>1, <1>2, <2>2
    <3> QED BY <1>1, <3>1 DEF RecentOf
  <2> QED BY <2>1, <2>2
<1> QED BY <1>1, <1>3 DEF RecentOf, r

\* The file is complete, and its name is saved.
LEMMA FinishKeeps ==
  ASSUME TrainInv, pc = "writing", FinishSave(saving), pc' = "cleanup", saved' = Append(saved, saving), begun' = begun,
         UNCHANGED <<cfg, step, epoch, batch, saving, generation, optimizerSteps, resumeFrom>>
  PROVE  TrainInv'
<1>1. /\ DOMAIN disk' = DOMAIN disk /\ \A n \in DOMAIN disk : n # saving => disk'[n] = disk[n]
      /\ disk' = [disk EXCEPT ![saving].file = "full"] /\ UNCHANGED <<diskClock, limit, doomed, uploads>>
  BY DEF FinishSave
<1>2. /\ disk \in [DOMAIN disk -> [mtime : Nat, file : Files]] /\ saved \in Seq(Names) /\ saving \in Names
      /\ Distinct(saved) /\ saving # NoName /\ saving \notin ToSet(saved) /\ Earlier(saving)
      /\ \A n \in ToSet(saved) : Earlier(n)
  BY DEF TrainInv, TrainTypes, NamesInv
<1>3. /\ \A n \in DOMAIN disk : disk'[n] \in [mtime : Nat, file : Files] /\ disk'[n].mtime = disk[n].mtime
      /\ saving \in DOMAIN disk => disk'[saving].file = "full"
  BY <1>1, <1>2 DEF Files
<1>4. TrainTypes'
  <2>1. disk' = [n \in DOMAIN disk' |-> disk'[n]]
    BY <1>1, <1>2
  <2>2. disk' \in [DOMAIN disk' -> [mtime : Nat, file : Files]]
    BY <1>1, <1>3, <2>1
  <2> QED BY <1>1, <1>2, <2>2 DEF TrainInv, TrainTypes
<1>5. saved' \in Seq(Names) /\ Distinct(saved') /\ ToSet(saved') = ToSet(saved) \cup {saving}
  BY <1>2, AppendedDistinct
<1>6. saved' # <<>> /\ Len(saved') = Len(saved) + 1 /\ Len(saved) \in Nat /\ saved'[Len(saved')] = saving
      /\ \A i \in 1..Len(saved) : saved'[i] = saved[i]
  BY <1>2
<1>7. NamesInv'
  BY <1>2, <1>5, <1>6 DEF NamesInv, Earlier
<1>8. UploadsInv' /\ DoomedInv'
  BY <1>1, <1>2, <1>3, <1>5 DEF TrainInv, UploadsInv, Shipped, FullOnDisk, DoomedInv
<1>13. Emptied' = Emptied \ {saving}
  BY <1>1, <1>3 DEF Emptied
<1>9. ASSUME Newest, begun = saving PROVE Newest'
  <2>1. /\ saving \in DOMAIN disk \ Emptied /\ \A n \in DOMAIN disk \ Emptied : n # saving => disk[n].mtime < disk[saving].mtime
        /\ \A e \in Emptied : \A n \in DOMAIN disk : n # e => disk[n].mtime < disk[e].mtime
    BY <1>2, <1>9 DEF Newest
  <2>2. Emptied' = Emptied /\ Emptied \subseteq DOMAIN disk
    BY <2>1, <1>13 DEF Emptied
  <2>3. /\ saving \in DOMAIN disk' \ Emptied' /\ \A n \in DOMAIN disk' \ Emptied' : n # saving => disk'[n].mtime < disk'[saving].mtime
        /\ \A e \in Emptied' : \A n \in DOMAIN disk' : n # e => disk'[n].mtime < disk'[e].mtime
    BY <2>1, <2>2, <1>1, <1>3
  <2> QED BY <2>3, <1>2, <1>9 DEF Newest
<1>10. ASSUME generation = 0, FirstRun PROVE FirstRun'
  <2>1. /\ begun = saving /\ saving \in DOMAIN disk /\ \A n \in DOMAIN disk \ {saving} : disk[n].mtime < disk[saving].mtime
        /\ Emptied = {} /\ Emptied' = {}
    BY <1>2, <1>10, <1>13 DEF FirstRun, TrainInv, ResumeInv, Newest
  <2>2. RecentOf(saved)' \subseteq RecentOf(saved) \cup {saving}
    <3>1. RecentOf(saved)' = RecentOf(saved')
      BY <1>1 DEF RecentOf, FirstKept
    <3> QED BY <1>2, <3>1, RecentAfter
  <2>3. ASSUME NEW i \in 1..Len(saved'), NEW j \in 1..Len(saved'), i < j, saved'[i] \in DOMAIN disk', saved'[j] \in DOMAIN disk'
        PROVE  disk'[saved'[i]].mtime < disk'[saved'[j]].mtime
    <3>1. i \in 1..Len(saved) /\ saved'[i] = saved[i]
      BY <1>6, <2>3
    <3>2. saved[i] # saving
      BY <1>2, <3>1 DEF ToSet
    <3>3. CASE j = Len(saved) + 1
      BY <1>1, <1>3, <1>6, <2>1, <2>3, <3>1, <3>2, <3>3
    <3>4. CASE j # Len(saved) + 1
      <4>1. j \in 1..Len(saved) /\ saved'[j] = saved[j]
        BY <1>6, <3>4
      <4> QED BY <1>1, <1>3, <1>10, <2>1, <2>3, <3>1, <4>1 DEF FirstRun
    <3> QED BY <3>3, <3>4
  <2>4. RecentOf(saved)' \subseteq DOMAIN disk' /\ DOMAIN disk' \subseteq ToSet(saved') \cup {begun'}
    BY <1>1, <1>5, <1>10, <2>1, <2>2 DEF FirstRun
  <2>5. \A n \in DOMAIN disk' : disk'[n].mtime <= diskClock'
    BY <1>1, <1>3, <1>10 DEF FirstRun
  <2> QED BY <1>6, <2>1, <2>3, <2>4, <2>5 DEF FirstRun, Idle
<1>11. ResumeInv'
  BY <1>2, <1>9 DEF TrainInv, ResumeInv, FirstRun
<1>12. HorizonInv'
  BY DEF TrainInv, HorizonInv
<1> QED BY <1>4, <1>7, <1>8, <1>10, <1>11, <1>12 DEF TrainInv

\* As many elements as places.
LEMMA PlacesOf ==
  ASSUME NEW S, NEW q \in Seq(S), Distinct(q), NEW a \in 1..(Len(q) + 1)
  PROVE  IsFiniteSet({q[i] : i \in a..Len(q)}) /\ Cardinality({q[i] : i \in a..Len(q)}) = Len(q) - a + 1
<1> DEFINE D == a..Len(q)
           R == {q[i] : i \in D}
           f == [i \in D |-> q[i]]
<1>1. Len(q) \in Nat /\ a \in Nat /\ \A i \in D : i \in 1..Len(q)
  OBVIOUS
<1>2. f \in Bijection(D, R)
  <2> HIDE DEF D
  <2> QED BY <1>1 DEF Distinct, Bijection, Injection, Surjection, IsInjective
<1>3. IsFiniteSet(D) /\ Cardinality(D) = Len(q) - a + 1
  <2>1. a \in Int /\ Len(q) \in Int
    BY <1>1
  <2>2. IsFiniteSet(D) /\ Cardinality(D) = IF a > Len(q) THEN 0 ELSE Len(q) - a + 1
    BY <2>1, FS_Interval
  <2>3. a > Len(q) => Len(q) - a + 1 = 0
    BY <1>1
  <2> HIDE DEF D
  <2> QED BY <2>2, <2>3
<1>4. ExistsBijection(D, R)
  <2> HIDE DEF D, R, f
  <2> QED BY <1>2 DEF ExistsBijection
<1> HIDE DEF D, R, f
<1>5. IsFiniteSet(R) /\ Cardinality(R) = Cardinality(D)
  BY <1>3, <1>4, FS_Bijection, Zenon
<1> QED BY <1>3, <1>5 DEF R, D

\* The clean-up means to keep what the limit asks for.
LEMMA ListKeeps ==
  ASSUME TrainInv, pc = "cleanup", ListOld, pc' = "removing",
         UNCHANGED <<saved, begun, cfg, step, epoch, batch, saving, generation, optimizerSteps, resumeFrom>>
  PROVE  TrainInv'
<1>1. /\ limit # NoLimit /\ doomed' = [n \in Doomed |-> disk[n].mtime] /\ Doomed \subseteq DOMAIN disk
      /\ UNCHANGED <<disk, diskClock, limit, uploads>>
  BY DEF ListOld, CleanupRaises, Doomed
<1>2. /\ disk \in [DOMAIN disk -> [mtime : Nat, file : Files]] /\ saved \in Seq(Names) /\ limit \in Nat
      /\ Distinct(saved) /\ saved # <<>> /\ saved[Len(saved)] = saving /\ Len(saved) \in Nat /\ saving # NoName
  BY <1>1, CheckpointAssumption DEF TrainInv, TrainTypes, NamesInv
<1>3. TrainTypes' /\ DoomedInv'
  <2>1. DOMAIN doomed' = Doomed /\ doomed' \in [Doomed -> Nat]
    BY <1>1, <1>2
  <2> QED BY <1>1, <2>1 DEF TrainInv, TrainTypes, DoomedInv
<1>4. NamesInv'
  BY <1>2 DEF TrainInv, NamesInv, Earlier
<1>5. UploadsInv'
  BY <1>1 DEF TrainInv, UploadsInv, Shipped, FullOnDisk
<1>6. ASSUME generation = 0, FirstRun PROVE FirstRun' /\ Newest' /\ Removal'
  <2> DEFINE L == Len(saved)
             later(i) == {saved[j] : j \in (i + 1)..L}
  <2>1. /\ RecentOf(saved) \subseteq DOMAIN disk /\ DOMAIN disk \subseteq ToSet(saved) /\ Emptied = {}
        /\ \A i, j \in 1..L : i < j /\ saved[i] \in DOMAIN disk /\ saved[j] \in DOMAIN disk => disk[saved[i]].mtime < disk[saved[j]].mtime
    <3>1. begun = saving /\ Emptied = {}
      BY <1>2, <1>6 DEF FirstRun
    <3>2. saving \in ToSet(saved)
      BY <1>2 DEF ToSet
    <3> QED BY <1>6, <3>1, <3>2 DEF FirstRun
  <2>2. ASSUME NEW i \in 1..L PROVE /\ IsFiniteSet(later(i)) /\ Cardinality(later(i)) = L - i
                                    /\ saved[i] \in DOMAIN disk => Newer(saved[i]) \subseteq later(i)
    <3>0. L \in Nat /\ i \in 1..L
      BY <1>2
    <3>1. i + 1 \in 1..(L + 1) /\ L - (i + 1) + 1 = L - i
      BY <3>0
    <3>2. IsFiniteSet(later(i)) /\ Cardinality(later(i)) = L - i
      BY <1>2, <3>1, PlacesOf
    <3>3. ASSUME saved[i] \in DOMAIN disk, NEW n \in Newer(saved[i]) PROVE n \in later(i)
      <4>1. n \in DOMAIN disk /\ disk[n].mtime > disk[saved[i]].mtime
        BY <3>3 DEF Newer
      <4>2. PICK j \in 1..L : saved[j] = n
        <5>1. n \in ToSet(saved)
          BY <2>1, <4>1
        <5> QED BY <1>2, <5>1 DEF ToSet
      <4>3. disk[n].mtime \in Nat /\ disk[saved[i]].mtime \in Nat
        BY <1>2, <3>3, <4>1
      <4>4. ~(j < i) /\ j # i
        BY <2>1, <3>3, <4>1, <4>2, <4>3
      <4>5. j \in (i + 1)..L
        BY <1>2, <4>4
      <4> QED BY <4>2, <4>5
    <3> QED BY <3>2, <3>3
  <2>3. limit = 0 \/ limit > L => FirstKept(L) = 1
    BY <1>2 DEF FirstKept
  <2>4. limit \in 1..L => FirstKept(L) = (L - limit) + 1
    BY <1>2 DEF FirstKept
  <2> HIDE DEF L, later
  <2>5. \A n \in ToSet(saved) : \E i \in 1..L : saved[i] = n
    BY <1>2 DEF ToSet, L
  <2>6. L \in Nat /\ L >= 1
    BY <1>2 DEF L
  <2>7. ASSUME NEW i \in 1..L, i < FirstKept(L), saved[i] \in DOMAIN disk PROVE saved[i] \in Doomed
    <3>1. limit \in 1..L /\ i <= L - limit
      BY <1>2, <2>3, <2>4, <2>6, <2>7
    <3> DEFINE k == L - limit
               kept == {saved[j] : j \in (k + 1)..L}
    <3>2. kept = RecentOf(saved)
      BY <2>4, <3>1 DEF RecentOf, L
    <3>3. kept \subseteq Newer(saved[i])
      <4> SUFFICES ASSUME NEW j \in (k + 1)..L PROVE saved[j] \in Newer(saved[i])
        OBVIOUS
      <4>1. j \in 1..L /\ i < j
        BY <2>6, <3>1
      <4>2. saved[j] \in DOMAIN disk
        BY <2>1, <3>2
      <4>3. disk[saved[i]].mtime < disk[saved[j]].mtime
        BY <2>1, <2>7, <4>1, <4>2 DEF L
      <4>4. disk[saved[i]].mtime \in Nat /\ disk[saved[j]].mtime \in Nat
        BY <1>2, <2>7, <4>2
      <4> QED BY <4>2, <4>3, <4>4 DEF Newer
    <3>4. Cardinality(kept) = limit
      <4>1. k + 1 \in 1..(L + 1) /\ L - (k + 1) + 1 = limit
        BY <1>2, <2>6, <3>1
      <4> QED BY <1>2, <4>1, PlacesOf DEF L
    <3>5. IsFiniteSet(Newer(saved[i])) /\ Cardinality(kept) <= Cardinality(Newer(saved[i])) /\ Cardinality(Newer(saved[i])) \in Nat
      <4>1. IsFiniteSet(Newer(saved[i]))
        BY <2>2, <2>7, FS_Subset
      <4> QED BY <3>3, <4>1, FS_Subset, FS_CardinalityType
    <3>6. Cardinality(Newer(saved[i])) >= limit /\ limit # 0
      BY <1>2, <3>1, <3>4, <3>5
    <3> QED BY <2>7, <3>6 DEF Doomed
  <2>8. ASSUME NEW i \in 1..L, i >= FirstKept(L), saved[i] \in DOMAIN disk PROVE saved[i] \notin Doomed
    <3>1. CASE limit = 0
      BY <3>1 DEF Doomed
    <3>2. CASE limit # 0
      <4>1. L - i < limit
        BY <1>2, <2>3, <2>4, <2>6, <2>8, <3>2
      <4>2. Cardinality(Newer(saved[i])) <= L - i /\ Cardinality(Newer(saved[i])) \in Nat
        BY <2>2, <2>8, FS_Subset, FS_CardinalityType
      <4>3. ~(Cardinality(Newer(saved[i])) >= limit)
        BY <1>2, <2>6, <4>1, <4>2
      <4> QED BY <3>2, <4>3 DEF Doomed
    <3> QED BY <3>1, <3>2
  <2>9. FirstKept(L) \in 1..L
    BY <1>2, <2>3, <2>4, <2>6
  <2>10. DOMAIN disk \subseteq RecentOf(saved) \cup Doomed /\ RecentOf(saved) \cap Doomed = {}
    <3>1. ASSUME NEW n \in DOMAIN disk, n \notin Doomed PROVE n \in RecentOf(saved)
      <4>2. PICK i \in 1..L : saved[i] = n
        BY <2>1, <2>5, <3>1
      <4>3. ~(i < FirstKept(L))
        BY <2>7, <3>1, <4>2
      <4>4. i \in FirstKept(L)..L
        BY <2>6, <2>9, <4>3
      <4> QED BY <4>2, <4>4 DEF RecentOf, L
    <3>2. ASSUME NEW n \in RecentOf(saved) PROVE n \notin Doomed
      <4>1. PICK i \in FirstKept(L)..L : saved[i] = n
        BY DEF RecentOf, L
      <4>2. i \in 1..L /\ i >= FirstKept(L) /\ n \in DOMAIN disk
        BY <2>1, <2>6, <2>9
      <4> QED BY <2>8, <4>1, <4>2
    <3> QED BY <3>1, <3>2
  <2>11. \A m, n \in Doomed : m # n => disk[m].mtime # disk[n].mtime
    <3> SUFFICES ASSUME NEW m \in Doomed, NEW n \in Doomed, m # n PROVE disk[m].mtime # disk[n].mtime
      OBVIOUS
    <3>1. PICK i \in 1..L : saved[i] = m
      BY <1>1, <2>1, <2>5
    <3>2. PICK j \in 1..L : saved[j] = n
      BY <1>1, <2>1, <2>5
    <3>3. m \in DOMAIN disk /\ n \in DOMAIN disk /\ disk[m].mtime \in Nat /\ disk[n].mtime \in Nat
      BY <1>1, <1>2
    <3>4. i < j \/ j < i
      BY <2>6, <3>1, <3>2
    <3> QED BY <2>1, <3>1, <3>2, <3>3, <3>4
  <2>12. RecentOf(saved)' = RecentOf(saved) /\ Emptied' = Emptied /\ Newest' = Newest
    BY <1>1 DEF RecentOf, FirstKept, Emptied, Newest
  <2>13. Newest'
    BY <1>6, <2>12 DEF TrainInv, ResumeInv
  <2>14. FirstRun'
    BY <1>1, <1>6, <2>12 DEF FirstRun, Idle
  <2>15. Removal'
    <3>1. DOMAIN doomed' = Doomed /\ \A n \in Doomed : doomed'[n] = disk[n].mtime
      BY <1>1
    <3> QED BY <1>1, <2>1, <2>10, <2>11, <2>12, <3>1 DEF Removal
  <2> QED BY <2>13, <2>14, <2>15
<1>7. ResumeInv'
  <2>1. saving # NoName
    BY <1>2
  <2> QED BY <1>6, <2>1 DEF TrainInv, ResumeInv
<1>8. HorizonInv'
  BY DEF TrainInv, HorizonInv
<1> QED BY <1>3, <1>4, <1>5, <1>6, <1>7, <1>8 DEF TrainInv

\* The oldest of what is to go loses its file or, empty, its directory.
LEMMA DeleteKeeps ==
  ASSUME TrainInv, pc = "removing", RemoveOld,
         UNCHANGED <<pc, saved, begun, cfg, step, epoch, batch, saving, generation, optimizerSteps, resumeFrom>>
  PROVE  TrainInv'
<1>1. PICK n \in DOMAIN doomed :
        /\ \A m \in DOMAIN doomed : doomed[n] <= doomed[m]
        /\ \/ /\ disk[n].file # "none" /\ diskClock' = diskClock + 1 /\ UNCHANGED doomed
              /\ disk' = [disk EXCEPT ![n] = [mtime |-> diskClock + 1, file |-> "none"]]
           \/ /\ disk[n].file = "none" /\ UNCHANGED diskClock
              /\ disk' = [m \in DOMAIN disk \ {n} |-> disk[m]]
              /\ doomed' = [m \in DOMAIN doomed \ {n} |-> doomed[m]]
        /\ UNCHANGED <<limit, uploads>>
  BY DEF RemoveOld
<1> DEFINE Unlinks == disk[n].file # "none"
<1>2. /\ disk \in [DOMAIN disk -> [mtime : Nat, file : Files]] /\ diskClock \in Nat
      /\ doomed \in [DOMAIN doomed -> Nat] /\ n \in DOMAIN disk /\ DOMAIN doomed \subseteq DOMAIN disk
      /\ saved # <<>> /\ saved[Len(saved)] = saving /\ saving # NoName /\ saved \in Seq(Names) /\ Len(saved) \in Nat
  BY <1>1 DEF TrainInv, TrainTypes, DoomedInv, NamesInv
<1>3. /\ Unlinks => /\ DOMAIN disk' = DOMAIN disk /\ disk'[n] = [mtime |-> diskClock + 1, file |-> "none"]
                    /\ doomed' = doomed /\ diskClock' = diskClock + 1
      /\ ~Unlinks => DOMAIN disk' = DOMAIN disk \ {n} /\ DOMAIN doomed' = DOMAIN doomed \ {n} /\ diskClock' = diskClock
      /\ \A m \in DOMAIN disk \ {n} : disk'[m] = disk[m] /\ m \in DOMAIN disk'
      /\ \A m \in DOMAIN doomed' : doomed'[m] = doomed[m]
  BY <1>1, <1>2
<1>4. TrainTypes' /\ DoomedInv'
  <2>1. disk' \in [DOMAIN disk' -> [mtime : Nat, file : Files]]
    <3>1. [mtime |-> diskClock + 1, file |-> "none"] \in [mtime : Nat, file : Files]
      BY <1>2 DEF Files
    <3> QED BY <1>1, <1>2, <3>1
  <2>2. doomed' \in [DOMAIN doomed' -> Nat] /\ DOMAIN doomed' \subseteq DOMAIN disk'
    BY <1>1, <1>2
  <2>3. diskClock' \in Nat
    BY <1>2, <1>3
  <2> QED BY <1>1, <2>1, <2>2, <2>3 DEF TrainInv, TrainTypes, DoomedInv
<1>5. NamesInv'
  BY DEF TrainInv, NamesInv, Earlier
<1>6. UploadsInv'
  <2>1. FullOnDisk' \subseteq FullOnDisk /\ \A m \in DOMAIN disk' : m \in DOMAIN disk /\ disk'[m].file \in {"none", disk[m].file}
    BY <1>1, <1>2 DEF FullOnDisk
  <2> QED BY <1>1, <2>1 DEF TrainInv, UploadsInv, Shipped
<1>7. ASSUME generation = 0, FirstRun, Removal PROVE FirstRun' /\ Newest' /\ Removal'
  <2>1. Unlinks => Emptied = {} /\ Emptied' = {n}
    <3>1. ASSUME Unlinks, NEW e \in Emptied PROVE FALSE
      <4>1. e \in DOMAIN doomed /\ doomed[e] <= doomed[n] /\ doomed[n] <= doomed[e]
        BY <1>1, <1>7 DEF Removal
      <4>2. doomed[e] = doomed[n]
        BY <1>2, <4>1
      <4>3. e = n
        BY <1>7, <4>1, <4>2 DEF Removal
      <4> QED BY <3>1, <4>3 DEF Emptied
    <3> QED BY <1>2, <1>3, <3>1 DEF Emptied
  <2>2. Newest
    BY <1>7 DEF TrainInv, ResumeInv
  <2>3. ~Unlinks => Emptied = {n} /\ Emptied' = {}
    <3>1. ASSUME ~Unlinks, NEW e \in Emptied PROVE e = n
      <4>1. e \in DOMAIN doomed /\ doomed[e] <= doomed[n] /\ doomed[n] <= doomed[e]
        BY <1>1, <1>7 DEF Removal
      <4>2. doomed[e] = doomed[n]
        BY <1>2, <4>1
      <4> QED BY <1>7, <4>1, <4>2 DEF Removal
    <3>2. ~Unlinks => n \in Emptied
      BY <1>2 DEF Emptied
    <3> QED BY <1>2, <1>3, <3>1, <3>2 DEF Emptied
  <2>4. RecentOf(saved)' = RecentOf(saved) /\ n \notin RecentOf(saved)
    BY <1>1, <1>7 DEF RecentOf, FirstKept, Removal
  <2>5. begun = saving /\ begun \in DOMAIN disk \ Emptied /\ begun # n
    <3>1. begun = saving
      BY <1>2, <1>7 DEF FirstRun
    <3>2. saving \in RecentOf(saved)
      <4>1. FirstKept(Len(saved)) \in 1..Len(saved)
        BY <1>2 DEF FirstKept
      <4>2. Len(saved) \in FirstKept(Len(saved))..Len(saved)
        BY <1>2, <4>1
      <4> QED BY <1>2, <4>2 DEF RecentOf
    <3> QED BY <1>7, <2>4, <3>1, <3>2 DEF FirstRun
  <2>6. Newest'
    <3>1. /\ begun # NoName /\ \A m \in DOMAIN disk \ Emptied : m # begun => disk[m].mtime < disk[begun].mtime
      BY <1>2, <2>2, <2>5 DEF Newest
    <3>2. \A m \in DOMAIN disk : disk[m].mtime <= diskClock /\ disk[m].mtime \in Nat
      BY <1>2, <1>7 DEF FirstRun
    <3>3. \A m \in DOMAIN disk : m # n => disk'[m].mtime < diskClock + 1
      BY <1>2, <1>3, <3>2
    <3>4. DOMAIN disk' \ Emptied' = (DOMAIN disk \ Emptied) \ {n} /\ begun \in DOMAIN disk' \ Emptied'
      BY <1>2, <1>3, <2>1, <2>3, <2>5
    <3>5. \A m \in DOMAIN disk' \ Emptied' : m # begun => disk'[m].mtime < disk'[begun].mtime
      BY <1>3, <2>5, <3>1, <3>4
    <3>6. \A e \in Emptied' : \A m \in DOMAIN disk' : m # e => disk'[m].mtime < disk'[e].mtime
      BY <1>3, <2>1, <2>3, <3>3
    <3> QED BY <3>1, <3>4, <3>5, <3>6 DEF Newest
  <2>7. FirstRun'
    <3>1. DOMAIN disk' \subseteq DOMAIN disk /\ DOMAIN disk' \ Emptied' = (DOMAIN disk \ Emptied) \ {n}
      BY <1>2, <1>3, <2>1, <2>3
    <3>2. \A i, j \in 1..Len(saved) : i < j /\ {saved[i], saved[j]} \subseteq DOMAIN disk' \ Emptied'
                                   => disk'[saved[i]].mtime < disk'[saved[j]].mtime
      BY <1>3, <1>7, <3>1 DEF FirstRun
    <3>3. \A m \in DOMAIN disk' : disk'[m].mtime <= diskClock'
      <4>1. \A m \in DOMAIN disk : disk[m].mtime <= diskClock /\ disk[m].mtime \in Nat
        BY <1>2, <1>7 DEF FirstRun
      <4>2. CASE Unlinks
        BY <1>2, <1>3, <3>1, <4>1, <4>2
      <4>3. CASE ~Unlinks
        BY <1>2, <1>3, <3>1, <4>1, <4>3
      <4> QED BY <4>2, <4>3
    <3>4. RecentOf(saved)' \subseteq DOMAIN disk' \ Emptied' /\ DOMAIN disk' \subseteq ToSet(saved) \cup {begun}
      BY <1>7, <2>4, <3>1 DEF FirstRun
    <3> QED BY <1>1, <1>7, <3>2, <3>3, <3>4 DEF FirstRun, Idle
  <2>8. Removal'
    <3>1. DOMAIN disk' \subseteq RecentOf(saved) \cup DOMAIN doomed' /\ RecentOf(saved) \cap DOMAIN doomed' = {}
      BY <1>3, <1>7 DEF Removal
    <3>2. DOMAIN doomed' \subseteq DOMAIN doomed /\ (Unlinks => n \in DOMAIN doomed')
      BY <1>3
    <3>3. \A m, k \in DOMAIN doomed' : m # k => doomed'[m] # doomed'[k]
      BY <1>3, <1>7, <3>2 DEF Removal
    <3>4. \A e \in Emptied' : e \in DOMAIN doomed' /\ \A m \in DOMAIN doomed' : doomed'[e] <= doomed'[m]
      BY <1>1, <1>3, <2>1, <2>3, <3>2
    <3> QED BY <2>4, <3>1, <3>3, <3>4 DEF Removal
  <2> QED BY <2>6, <2>7, <2>8
<1>8. ResumeInv'
  <2>1. saving # NoName /\ pc' = "removing"
    BY <1>2
  <2> QED BY <1>7, <2>1 DEF TrainInv, ResumeInv
<1>9. HorizonInv'
  BY DEF TrainInv, HorizonInv
<1> QED BY <1>4, <1>5, <1>6, <1>7, <1>8, <1>9 DEF TrainInv

\* Nothing more to delete: what is left is what the limit asks for.
LEMMA CleanupEnds ==
  ASSUME TrainInv, pc = "removing", doomed = <<>>, pc' \in {"train", "upload"},
         UNCHANGED <<checkpointVars, saved, begun, cfg, step, epoch, batch, saving, generation, optimizerSteps, resumeFrom>>
  PROVE  TrainInv'
<1>1. UNCHANGED <<disk, diskClock, limit, doomed, uploads>> /\ DOMAIN doomed = {} /\ saving # NoName
  BY DEF checkpointVars, TrainInv, NamesInv
<1>2. TrainTypes' /\ DoomedInv' /\ NamesInv' /\ UploadsInv' /\ HorizonInv'
  BY <1>1 DEF TrainInv, TrainTypes, DoomedInv, NamesInv, UploadsInv, Shipped, FullOnDisk, Earlier, HorizonInv
<1>3. RecentOf(saved)' = RecentOf(saved) /\ Emptied' = Emptied /\ Newest' = Newest
  BY <1>1 DEF RecentOf, FirstKept, Emptied, Newest
<1>4. ASSUME FirstRun, Removal PROVE FirstRun'
  <2>1. DOMAIN disk \subseteq RecentOf(saved) /\ Emptied = {}
    BY <1>1, <1>4 DEF Removal
  <2> QED BY <1>1, <1>3, <1>4, <2>1 DEF FirstRun
<1>5. ResumeInv'
  BY <1>1, <1>3 DEF TrainInv, ResumeInv
<1> QED BY <1>2, <1>4, <1>5 DEF TrainInv

\* An upload thread reads a file that was saved.
LEMMA UploadKeeps ==
  ASSUME TrainInv, Upload
  PROVE  TrainInv'
<1>1. /\ UNCHANGED <<disk, diskClock, limit, doomed, run, cfg, pc, step, epoch, batch, saving, saved, generation, optimizerSteps, begun, resumeFrom>>
  BY DEF Upload, UploadStep, CheckRun, IsDir, ListDir, ReadFile, LogArtifact, loopVars, gradientVars
<1>2. PICK u \in DOMAIN uploads : CheckRun(u) \/ IsDir(u) \/ ListDir(u) \/ ReadFile(u) \/ LogArtifact(u)
  BY DEF Upload, UploadStep
<1> DEFINE Good(t) == t.at \in {"logging", "logged"} => t.read = "full" \/ t.name \notin FullOnDisk
<1>3. /\ uploads \in Seq(UploadThread) /\ \A x \in DOMAIN uploads : uploads[x] \in UploadThread
      /\ \A x \in DOMAIN uploads : uploads[x].name \in ToSet(saved) /\ Good(uploads[x])
      /\ \A n \in ToSet(saved) \cap DOMAIN disk : disk[n].file \in {"none", "full"}
  BY DEF TrainInv, TrainTypes, UploadsInv, Shipped
<1>4. /\ DOMAIN uploads' = DOMAIN uploads /\ uploads' = [x \in DOMAIN uploads |-> uploads'[x]]
      /\ \A x \in DOMAIN uploads : x # u => uploads'[x] = uploads[x]
      /\ uploads'[u] \in UploadThread /\ uploads'[u].name \in ToSet(saved) /\ Good(uploads'[u])
  <2> DEFINE e == uploads[u]
  <2>1. ASSUME NEW place \in UploadStates, Moved(u, place)
        PROVE  /\ DOMAIN uploads' = DOMAIN uploads /\ uploads' = [x \in DOMAIN uploads |-> uploads'[x]]
               /\ \A x \in DOMAIN uploads : x # u => uploads'[x] = uploads[x]
               /\ uploads'[u] = [e EXCEPT !.at = place]
    BY <1>3, <2>1 DEF Moved
  <2>2. ASSUME NEW place \in UploadStates, Moved(u, place)
        PROVE  uploads'[u] \in UploadThread /\ uploads'[u].name = e.name /\ uploads'[u].at = place /\ uploads'[u].read = e.read
    BY <1>3, <2>1, <2>2 DEF UploadThread
  <2>3. CASE \E place \in UploadStates \ {"logging", "logged"} : Moved(u, place)
    <3>1. PICK place \in UploadStates : Moved(u, place) /\ place \notin {"logging", "logged"}
      BY <2>3
    <3> QED BY <1>3, <2>1, <2>2, <3>1
  <2>4. CASE /\ \E place \in UploadStates : Moved(u, place)
             /\ e.at = "logging" \/ e.name \notin FullOnDisk
    <3>1. PICK place \in UploadStates : Moved(u, place)
      BY <2>4
    <3>2. e.read = "full" \/ e.name \notin FullOnDisk
      BY <1>3, <2>4
    <3> QED BY <1>3, <2>1, <2>2, <3>1, <3>2
  <2>5. CASE CheckRun(u) \/ IsDir(u)
    BY <2>3, <2>5 DEF CheckRun, IsDir, UploadStates
  <2>6. CASE ListDir(u)
    <3>1. CASE e.name \in DOMAIN disk /\ disk[e.name].file = "none"
      <4>1. Moved(u, "logging") /\ e.name \notin FullOnDisk
        BY <2>6, <3>1 DEF ListDir, FullOnDisk
      <4> QED BY <2>4, <4>1 DEF UploadStates
    <3>2. CASE ~(e.name \in DOMAIN disk /\ disk[e.name].file = "none")
      <4>1. Moved(u, "failed") \/ Moved(u, "reading")
        BY <2>6, <3>2 DEF ListDir
      <4> QED BY <2>3, <4>1 DEF UploadStates
    <3> QED BY <3>1, <3>2
  <2>7. CASE LogArtifact(u)
    BY <2>4, <2>7 DEF LogArtifact, UploadStates
  <2>8. CASE ReadFile(u) /\ ~(e.name \in DOMAIN disk /\ disk[e.name].file # "none")
    <3>1. Moved(u, "failed")
      BY <2>8 DEF ReadFile
    <3> QED BY <2>3, <3>1 DEF UploadStates
  <2>9. CASE ReadFile(u) /\ e.name \in DOMAIN disk /\ disk[e.name].file # "none"
    <3>1. uploads' = [uploads EXCEPT ![u].at = "logging", ![u].read = disk[e.name].file]
      BY <2>9 DEF ReadFile
    <3>2. disk[e.name].file = "full"
      BY <1>3, <2>9
    <3>3. /\ DOMAIN uploads' = DOMAIN uploads /\ uploads' = [x \in DOMAIN uploads |-> uploads'[x]]
          /\ \A x \in DOMAIN uploads : x # u => uploads'[x] = uploads[x]
          /\ uploads'[u] = [e EXCEPT !.at = "logging", !.read = "full"]
      BY <1>3, <3>1, <3>2
    <3>4. uploads'[u] \in UploadThread /\ uploads'[u].name = e.name /\ uploads'[u].read = "full"
      BY <1>3, <3>3 DEF UploadThread, UploadStates
    <3> QED BY <1>3, <3>3, <3>4
  <2> QED BY <1>2, <2>5, <2>6, <2>7, <2>8, <2>9
<1>5. uploads' \in Seq(UploadThread)
  <2>1. DOMAIN uploads = 1..Len(uploads) /\ Len(uploads) \in Nat
    BY <1>3
  <2>2. \A x \in 1..Len(uploads) : uploads'[x] \in UploadThread
    BY <1>3, <1>4, <2>1
  <2>3. uploads' \in [1..Len(uploads) -> UploadThread]
    BY <1>4, <2>1, <2>2
  <2> QED BY <2>1, <2>3
<1>6. pc # "killed"
  <2>1. DOMAIN uploads # {}
    OBVIOUS
  <2> QED BY <2>1 DEF TrainInv, UploadsInv
<1>7. Shipped(uploads', ToSet(saved))
  BY <1>3, <1>4 DEF Shipped
<1>8. pc' = "train" /\ saving = NoName /\ cfg.resume /\ generation <= 1 => Found(resumeFrom')
  BY <1>1 DEF TrainInv, ResumeInv
<1> QED BY <1>1, <1>5, <1>6, <1>7, <1>8, QuietKeeps

\* The newest of what is there is what was begun last, or what was just emptied.
LEMMA BuildFinds ==
  ASSUME TrainInv, BuildTrainer, generation <= 1, cfg.resume
  PROVE  Found(resumeFrom')
<1>1. pc = "build" /\ resumeFrom' = IF disk # <<>> THEN FindLatest ELSE NoName
  BY DEF BuildTrainer
<1>2. Newest /\ disk \in [DOMAIN disk -> [mtime : Nat, file : Files]]
  BY <1>1 DEF TrainInv, TrainTypes, NamesInv, ResumeInv
<1>3. CASE DOMAIN disk = {}
  <2>1. disk = <<>>
    BY <1>2, <1>3
  <2>2. begun = NoName /\ Emptied = {}
    BY <1>2, <1>3 DEF Newest, Emptied
  <2> QED BY <1>1, <2>1, <2>2 DEF Found
<1>4. CASE DOMAIN disk # {}
  <2>1. disk # <<>>
    BY <1>4
  <2>2. \A n \in DOMAIN disk : disk[n].mtime \in Nat
    BY <1>2
  <2>3. ASSUME NEW b \in DOMAIN disk, \A n \in DOMAIN disk : n # b => disk[n].mtime < disk[b].mtime
        PROVE  FindLatest = b
    <3>1. Newer(b) = {}
      BY <2>2, <2>3 DEF Newer
    <3>2. \A n \in DOMAIN disk : Newer(n) = {} => n = b
      BY <2>2, <2>3 DEF Newer
    <3> QED BY <2>3, <3>1, <3>2 DEF FindLatest
  <2>4. CASE Emptied = {}
    <3>1. begun \in DOMAIN disk /\ \A n \in DOMAIN disk : n # begun => disk[n].mtime < disk[begun].mtime
      BY <1>2, <1>4, <2>4 DEF Newest
    <3> QED BY <1>1, <2>1, <2>3, <2>4, <3>1 DEF Found
  <2>5. CASE Emptied # {}
    <3>1. PICK e \in Emptied : TRUE
      BY <2>5
    <3>2. e \in DOMAIN disk /\ \A n \in DOMAIN disk : n # e => disk[n].mtime < disk[e].mtime
      BY <1>2, <1>4, <3>1 DEF Newest, Emptied
    <3> QED BY <1>1, <2>1, <2>3, <2>5, <3>1, <3>2 DEF Found
  <2> QED BY <2>4, <2>5
<1> QED BY <1>3, <1>4

LEMMA SaveKeeps ==
  ASSUME TrainInv, Save
  PROVE  TrainInv'
<1> DEFINE Same == UNCHANGED <<cfg, step, epoch, batch, saving, generation, optimizerSteps, resumeFrom>>
<1>1. Same /\ begun' = IF pc = "save" THEN saving ELSE begun
  BY DEF Save, gradientVars
<1>2. /\ uploads \in Seq(UploadThread) /\ Shipped(uploads, ToSet(saved))
      /\ pc \in {"cleanup", "removing", "upload"} => saved # <<>> /\ saved[Len(saved)] = saving /\ saving # NoName
      /\ saved \in Seq(Names) /\ saving \in Names
  BY DEF TrainInv, TrainTypes, NamesInv, UploadsInv
<1>3. CASE pc = "save" /\ StartSave(saving) /\ pc' = "writing" /\ UNCHANGED saved
  BY <1>1, <1>3, StartKeeps
<1>4. CASE pc = "writing" /\ FinishSave(saving) /\ pc' = "cleanup" /\ saved' = Append(saved, saving)
  BY <1>1, <1>4, FinishKeeps
<1>5. CASE pc = "cleanup" /\ ListOld /\ UNCHANGED saved /\ pc' = "removing"
  BY <1>1, <1>5, ListKeeps
<1>9. CASE pc = "removing" /\ RemoveOld /\ UNCHANGED <<pc, saved>>
  BY <1>1, <1>9, DeleteKeeps
<1>10. CASE /\ pc = "removing" /\ doomed = <<>> /\ UNCHANGED <<checkpointVars, saved>>
            /\ pc' = IF cfg.upload = "none" THEN "train" ELSE "upload"
  <2>1. pc' \in {"train", "upload"} /\ begun' = begun
    BY <1>1, <1>10
  <2> QED BY <1>1, <1>10, <2>1, CleanupEnds
<1>6. CASE pc = "cleanup" /\ CleanupRaises /\ pc' = "raised" /\ UNCHANGED <<checkpointVars, saved>>
  <2>1. UNCHANGED <<disk, diskClock, limit, doomed, uploads, saved, begun>>
    BY <1>1, <1>6 DEF checkpointVars
  <2>2. uploads' \in Seq(UploadThread) /\ Shipped(uploads', ToSet(saved))
    BY <1>2, <2>1
  <2>3. /\ pc' # "killed" /\ pc' \notin {"save", "writing", "cleanup", "removing", "upload", "load_data"}
        /\ pc' \in {"init_tracking", "build"} => pc \in {"load_data", "init_tracking", "build"}
        /\ pc' \in Idle => pc \in Idle
        /\ pc \notin {"writing", "removing", "killed"}
        /\ pc' = "train" /\ saving = NoName /\ cfg.resume /\ generation <= 1 => Found(resumeFrom')
    BY <1>6 DEF Idle
  <2> QED BY <1>1, <2>1, <2>2, <2>3, QuietKeeps
<1>7. CASE pc = "upload" /\ UNCHANGED <<checkpointVars, saved>> /\ pc' = IF saving \in DOMAIN disk THEN "train" ELSE "raised"
  <2>1. UNCHANGED <<disk, diskClock, limit, doomed, uploads, saved, begun>> /\ pc' \in {"train", "raised"} /\ pc = "upload"
    BY <1>1, <1>7 DEF checkpointVars
  <2>2. uploads' \in Seq(UploadThread) /\ Shipped(uploads', ToSet(saved))
    BY <1>2, <2>1
  <2>3. /\ pc' # "killed" /\ pc' \notin {"save", "writing", "cleanup", "removing", "upload", "load_data"}
        /\ pc' \in {"init_tracking", "build"} => pc \in {"load_data", "init_tracking", "build"}
        /\ pc' \in Idle => pc \in Idle
        /\ pc \notin {"writing", "removing", "killed"}
        /\ pc' = "train" /\ saving = NoName /\ cfg.resume /\ generation <= 1 => Found(resumeFrom')
    BY <1>2, <2>1 DEF Idle
  <2> QED BY <1>1, <2>1, <2>2, <2>3, QuietKeeps
<1>8. CASE pc = "upload" /\ UploadAsync(saving) /\ pc' = "train" /\ UNCHANGED saved
  <2> DEFINE e == [name |-> saving, at |-> "started", read |-> "nothing"]
  <2>1. uploads' = Append(uploads, e) /\ UNCHANGED <<disk, diskClock, limit, doomed, run, saved, begun>>
    BY <1>1, <1>8 DEF UploadAsync
  <2>2. e \in UploadThread /\ e.at \notin {"logging", "logged"} /\ e.name \in ToSet(saved)
    <3>1. saving \in ToSet(saved)
      BY <1>2, <1>8 DEF ToSet
    <3> QED BY <1>2, <3>1 DEF UploadThread, UploadStates
  <2> HIDE DEF e
  <2>3. uploads' \in Seq(UploadThread) /\ \A u \in DOMAIN uploads' : uploads'[u] = e \/ (u \in DOMAIN uploads /\ uploads'[u] = uploads[u])
    BY <1>2, <2>1, <2>2
  <2>4. Shipped(uploads', ToSet(saved))
    <3>1. \A u \in DOMAIN uploads : /\ uploads[u].name \in ToSet(saved)
                                    /\ uploads[u].at \in {"logging", "logged"} => uploads[u].read = "full" \/ uploads[u].name \notin FullOnDisk
      BY <1>2 DEF Shipped
    <3>2. \A u \in DOMAIN uploads' : uploads'[u] = e \/ (u \in DOMAIN uploads /\ uploads'[u] = uploads[u])
      BY <2>3
    <3>3. e.at \notin {"logging", "logged"} /\ e.name \in ToSet(saved)
      BY <2>2
    <3> QED BY <3>1, <3>2, <3>3, Zenon DEF Shipped
  <2> QED BY <1>1, <1>2, <1>8, <2>1, <2>3, <2>4, QuietKeeps DEF Idle
<1> QED BY <1>3, <1>4, <1>5, <1>6, <1>7, <1>8, <1>9, <1>10 DEF Save

LEMMA TrainNextKeeps ==
  ASSUME TrainInv, TrainerNext
  PROVE  TrainInv'
<1>1. /\ uploads \in Seq(UploadThread) /\ Shipped(uploads, ToSet(saved))
  BY DEF TrainInv, TrainTypes, UploadsInv
<1>2. CASE LoadData \/ InitTracking \/ FinishTraining \/ Evaluate \/ WaitForUploads
  <2>1. /\ UNCHANGED <<disk, diskClock, limit, doomed, uploads, cfg, generation, step, epoch, batch, saving, saved, optimizerSteps, begun, resumeFrom>>
        /\ pc' \in {"init_tracking", "raised", "build", "evaluate", "wait", "done"} /\ pc \in Idle
        /\ pc' \in {"init_tracking", "build"} => pc \in {"load_data", "init_tracking", "build"}
    BY <1>2 DEF LoadData, InitTracking, FinishTraining, Evaluate, WaitForUploads, TrackerInit, TrackerFinish,
                checkpointVars, loopVars, gradientVars, Idle
  <2>2. uploads' \in Seq(UploadThread) /\ Shipped(uploads', ToSet(saved))
    BY <1>1, <2>1
  <2>3. /\ pc' # "killed" /\ pc' \notin {"save", "writing", "cleanup", "removing", "upload", "load_data"}
        /\ pc' \in {"init_tracking", "build"} => pc \in {"load_data", "init_tracking", "build"}
        /\ pc' \in Idle => pc \in Idle
        /\ pc \notin {"writing", "removing", "killed"}
        /\ pc' = "train" /\ saving = NoName /\ cfg.resume /\ generation <= 1 => Found(resumeFrom')
    BY <2>1 DEF Idle
  <2> QED BY <2>1, <2>2, <2>3, QuietKeeps
<1>3. CASE BuildTrainer
  <2>1. /\ UNCHANGED <<disk, diskClock, limit, doomed, uploads, cfg, generation, step, epoch, batch, saving, saved, optimizerSteps, begun>>
        /\ pc = "build" /\ pc' \in {"train", "raised"}
    BY <1>3 DEF BuildTrainer, checkpointVars, loopVars, gradientVars
  <2>2. pc' = "train" /\ saving = NoName /\ cfg.resume /\ generation <= 1 => Found(resumeFrom')
    BY <1>3, BuildFinds
  <2>3. uploads' \in Seq(UploadThread) /\ Shipped(uploads', ToSet(saved))
    BY <1>1, <2>1
  <2>4. /\ pc' # "killed" /\ pc' \notin {"save", "writing", "cleanup", "removing", "upload", "load_data"}
        /\ pc' \in {"init_tracking", "build"} => pc \in {"load_data", "init_tracking", "build"}
        /\ pc' \in Idle => pc \in Idle
        /\ pc \notin {"writing", "removing", "killed"}
        /\ pc' = "train" /\ saving = NoName /\ cfg.resume /\ generation <= 1 => Found(resumeFrom')
    BY <2>1, <2>2 DEF Idle
  <2> QED BY <2>1, <2>3, <2>4, QuietKeeps
<1>4. CASE Kill
  <2>1. /\ UNCHANGED <<disk, diskClock, limit, cfg, generation, step, epoch, batch, saving, saved, optimizerSteps, begun, resumeFrom>>
        /\ uploads' = <<>> /\ doomed' = <<>> /\ pc' = "killed" /\ pc # "killed"
    BY <1>4 DEF Kill, ProcessGone, loopVars, gradientVars
  <2>2. <<>> \in Seq(UploadThread) /\ Shipped(<<>>, ToSet(saved))
    BY DEF Shipped
  <2>3. /\ pc' \notin {"save", "writing", "cleanup", "removing", "upload", "load_data", "init_tracking", "build", "train"}
        /\ pc' \notin Idle
    BY <2>1 DEF Idle
  <2> QED BY <2>1, <2>2, <2>3, QuietKeeps
<1>5. CASE TrainBatch \/ EpochEnd
  BY <1>5, LoopKeeps
<1>6. CASE Save
  BY <1>6, SaveKeeps
<1>7. CASE Upload
  BY <1>7, UploadKeeps
<1>8. CASE Restart
  BY <1>8, RestartKeeps
<1> QED BY <1>2, <1>3, <1>4, <1>5, <1>6, <1>7, <1>8 DEF TrainerNext, MainThread

\* What the trainer promises follows.
LEMMA TrainInvUsable ==
  ASSUME TrainInv
  PROVE  CheckpointsAreUsable
<1>1. /\ saved \in Seq(Names) /\ Len(saved) \in Nat /\ DOMAIN saved = 1..Len(saved)
      /\ disk \in [DOMAIN disk -> [mtime : Nat, file : Files]]
  BY DEF TrainInv, TrainTypes
<1>2. \A n \in ToSet(saved) \cap DOMAIN disk : n \notin Emptied => n \in FullOnDisk
  BY DEF TrainInv, UploadsInv, FullOnDisk, Emptied
<1>3. FirstKept(Len(saved)) \in Nat /\ FirstKept(Len(saved)) >= 1 /\ (saved # <<>> => FirstKept(Len(saved)) <= Len(saved))
  BY <1>1 DEF FirstKept
<1>4. RecentOf(saved) \subseteq ToSet(saved)
  <2>1. \A i \in FirstKept(Len(saved))..Len(saved) : i \in 1..Len(saved)
    BY <1>1, <1>3
  <2> QED BY <1>1, <2>1 DEF RecentOf, ToSet
<1>5. KeepsTheNewest
  <2> SUFFICES ASSUME generation = 0, limit # NoLimit, pc \in {"train", "upload", "evaluate", "wait", "done"}
               PROVE  FullOnDisk = ToSet(IF limit \in 1..Len(saved) THEN SubSeq(saved, Len(saved) - limit + 1, Len(saved)) ELSE saved)
    BY DEF KeepsTheNewest
  <2>1. DOMAIN disk = RecentOf(saved) /\ Emptied = {}
    BY DEF TrainInv, FirstRun, Idle
  <2>2. FullOnDisk = RecentOf(saved)
    BY <1>2, <1>4, <2>1 DEF FullOnDisk
  <2>3. CASE limit \in 1..Len(saved)
    <3> DEFINE a == Len(saved) - limit + 1
               q == SubSeq(saved, a, Len(saved))
    <3>1. a \in 1..Len(saved) /\ FirstKept(Len(saved)) = a
      BY <1>1, <2>3 DEF FirstKept
    <3>2. q = [i \in 1..(Len(saved) - a + 1) |-> saved[i + a - 1]]
      BY <1>1, <3>1
    <3>3. DOMAIN q = 1..(Len(saved) - a + 1) /\ \A i \in 1..(Len(saved) - a + 1) : q[i] = saved[i + a - 1]
      <4> HIDE DEF q
      <4> QED BY <3>2
    <3> HIDE DEF q, a
    <3>4. \A x \in ToSet(q) : x \in RecentOf(saved)
      <4>1. \A i \in 1..(Len(saved) - a + 1) : i + a - 1 \in a..Len(saved)
        BY <1>1, <3>1
      <4> QED BY <3>1, <3>3, <4>1 DEF ToSet, RecentOf
    <3>5. \A x \in RecentOf(saved) : x \in ToSet(q)
      <4>1. \A i \in a..Len(saved) : i - a + 1 \in 1..(Len(saved) - a + 1) /\ (i - a + 1) + a - 1 = i
        BY <1>1, <3>1
      <4>2. \A i \in a..Len(saved) : saved[i] = q[i - a + 1]
        BY <3>3, <4>1
      <4> QED BY <3>1, <3>3, <4>1, <4>2 DEF ToSet, RecentOf
    <3> QED BY <2>2, <2>3, <3>4, <3>5 DEF q, a
  <2>4. CASE limit \notin 1..Len(saved)
    <3>1. FirstKept(Len(saved)) = 1
      BY <2>4 DEF FirstKept
    <3> QED BY <1>1, <2>2, <2>4, <3>1 DEF RecentOf, ToSet
  <2> QED BY <2>3, <2>4
<1>6. KilledRunCanResume
  <2> SUFFICES ASSUME generation = 0, saved # <<>> PROVE FullOnDisk # {}
    BY DEF KilledRunCanResume
  <2>1. Len(saved) \in FirstKept(Len(saved))..Len(saved)
    BY <1>1, <1>3
  <2>2. saved[Len(saved)] \in RecentOf(saved)
    BY <2>1 DEF RecentOf
  <2>3. RecentOf(saved) \subseteq DOMAIN disk \ Emptied
    BY DEF TrainInv, FirstRun
  <2> QED BY <1>2, <1>4, <2>2, <2>3
<1>7. ResumeFindsTheNewest
  BY DEF TrainInv, ResumeInv, Found, ResumeFindsTheNewest
<1>8. UploadedIsComplete
  <2>1. \A u \in DOMAIN uploads : uploads[u].read \in {"nothing", "full"}
    <3>1. uploads \in Seq(UploadThread)
      BY DEF TrainInv, TrainTypes
    <3>2. \A u \in DOMAIN uploads : uploads[u] \in UploadThread
      BY <3>1
    <3> QED BY <3>2 DEF UploadThread
  <2> QED BY <2>1 DEF TrainInv, UploadsInv, Shipped, UploadedIsComplete
<1>9. SchedulerWithinHorizon
  <2>1. /\ cfg.max_steps \in Int /\ cfg.num_epochs \in Nat /\ BatchesPerEpoch \in Nat
        /\ step \in Nat /\ epoch \in Nat /\ batch \in Nat /\ optimizerSteps \in Nat
    BY TrainerAssumption DEF TrainInv, TrainTypes
  <2>2. HorizonInv
    BY DEF TrainInv
  <2>3. CASE cfg.max_steps > 0
    <3>1. step <= cfg.max_steps - 1 + cfg.num_epochs
      <4>1. CASE epoch < cfg.num_epochs
        BY <2>1, <2>2, <2>3, <4>1 DEF HorizonInv
      <4>2. CASE ~(epoch < cfg.num_epochs)
        BY <2>1, <2>2, <2>3, <4>2 DEF HorizonInv
      <4> QED BY <4>1, <4>2
    <3>2. optimizerSteps <= cfg.max_steps + (cfg.num_epochs - 1)
      BY <2>1, <2>2, <3>1 DEF HorizonInv
    <3> QED BY <2>3, <3>2 DEF SchedulerWithinHorizon, EstimateTotalSteps
  <2>4. CASE ~(cfg.max_steps > 0)
    <3>1. step = epoch * BatchesPerEpoch + batch /\ batch <= BatchesPerEpoch /\ epoch <= cfg.num_epochs
          /\ (epoch = cfg.num_epochs => batch = 0) /\ optimizerSteps <= step
      BY <2>1, <2>2, <2>4 DEF HorizonInv
    <3>2. BatchesPerEpoch * cfg.num_epochs \in Nat /\ epoch * BatchesPerEpoch \in Nat
      BY <2>1
    <3>3. CASE epoch = cfg.num_epochs
      <4>1. epoch * BatchesPerEpoch = BatchesPerEpoch * cfg.num_epochs
        BY <2>1, <3>3
      <4>2. step = BatchesPerEpoch * cfg.num_epochs
        BY <3>1, <3>2, <3>3, <4>1
      <4> QED BY <2>1, <2>4, <3>1, <3>2, <4>2 DEF SchedulerWithinHorizon, EstimateTotalSteps
    <3>4. CASE epoch # cfg.num_epochs
      <4> DEFINE d == cfg.num_epochs - epoch - 1
      <4>1. d \in Nat /\ cfg.num_epochs = epoch + 1 + d
        BY <2>1, <3>1, <3>4
      <4>2. BatchesPerEpoch * cfg.num_epochs = epoch * BatchesPerEpoch + BatchesPerEpoch + d * BatchesPerEpoch /\ d * BatchesPerEpoch \in Nat
        <5> HIDE DEF d
        <5> QED BY <2>1, <4>1
      <4>3. step <= BatchesPerEpoch * cfg.num_epochs
        <5> DEFINE b == d * BatchesPerEpoch
                   c == epoch * BatchesPerEpoch
                   t == BatchesPerEpoch * cfg.num_epochs
        <5>1. t = c + BatchesPerEpoch + b /\ b \in Nat /\ c \in Nat /\ step = c + batch /\ batch <= BatchesPerEpoch
          BY <3>1, <3>2, <4>2
        <5> HIDE DEF b, c, t
        <5>2. step <= t
          BY <2>1, <5>1
        <5> QED BY <5>2 DEF t
      <4>4. optimizerSteps <= BatchesPerEpoch * cfg.num_epochs + 0
        BY <2>1, <3>1, <3>2, <4>3
      <4> QED BY <2>4, <4>4 DEF SchedulerWithinHorizon, EstimateTotalSteps
    <3> QED BY <3>3, <3>4
  <2> QED BY <2>3, <2>4
<1> QED BY <1>5, <1>6, <1>7, <1>8, <1>9 DEF CheckpointsAreUsable

-----------------------------------------------------------------------------
(* The programs that store things, one of which runs *)

StorageInv == LruInv /\ CacheInv /\ MiniInv /\ TrainInv

LEMMA StorageInitially == Init => StorageInv
<1> SUFFICES ASSUME Init PROVE StorageInv
  OBVIOUS
<1>1. LruInit /\ CacheInit /\ MiniInit /\ TrainerInit
  BY DEF Init
<1> QED BY <1>1, LruInitially, CacheInitially, MiniInitially, TrainInitially DEF StorageInv

\* The programs that do not run keep what they have.
LEMMA LruStands == ASSUME LruInv, UNCHANGED lruVars PROVE LruInv' /\ Iterated' = Iterated
  BY DEF LruInv, lruVars, Iterated
LEMMA CacheStands == ASSUME CacheInv, UNCHANGED cacheVars PROVE CacheInv'
  BY DEF CacheInv, CacheTypes, InUse, Rising, Counted, cacheVars
LEMMA MiniStands == ASSUME MiniInv, UNCHANGED miniVars PROVE MiniInv'
  BY DEF MiniInv, miniVars, Limited
LEMMA TrainStands == ASSUME TrainInv, UNCHANGED trainerVars PROVE TrainInv'
<1>1. UNCHANGED <<disk, diskClock, limit, doomed, uploads, cfg, pc, generation, step, epoch, batch, saving, saved, optimizerSteps, begun, resumeFrom>>
  BY DEF trainerVars, checkpointVars
<1>2. TrainTypes' /\ DoomedInv' /\ NamesInv' /\ UploadsInv' /\ HorizonInv'
  BY <1>1 DEF TrainInv, TrainTypes, DoomedInv, NamesInv, Earlier, UploadsInv, Shipped, FullOnDisk, HorizonInv
<1>3. RecentOf(saved)' = RecentOf(saved) /\ Newest' = Newest /\ Emptied' = Emptied
  BY <1>1 DEF RecentOf, FirstKept, Newest, Emptied
<1>4. FirstRun' = FirstRun /\ Removal' = Removal
  BY <1>1, <1>3 DEF FirstRun, Removal
<1>5. ResumeInv'
  BY <1>1, <1>3 DEF TrainInv, ResumeInv, Found
<1> QED BY <1>1, <1>2, <1>4, <1>5 DEF TrainInv

LEMMA StorageStep ==
  ASSUME StorageInv, [Next]_vars
  PROVE  /\ StorageInv'
         /\ Iterated' = Iterated \/ \E k \in LruKey : Order!Use(k) \/ Order!Insert(k)
         /\ UNCHANGED cacheVars \/ Evicts
<1>1. LruInv /\ CacheInv /\ MiniInv /\ TrainInv
  BY DEF StorageInv
<1>2. LruNext \/ UNCHANGED lruVars
  BY DEF Next, vars
<1>3. CacheNext \/ UNCHANGED cacheVars
  BY DEF Next, vars
<1>4. MiniNext \/ UNCHANGED miniVars
  BY DEF Next, vars
<1>5. TrainerNext \/ UNCHANGED trainerVars
  BY DEF Next, vars
<1>6. LruInv' /\ (Iterated' = Iterated \/ \E k \in LruKey : Order!Use(k) \/ Order!Insert(k))
  BY <1>1, <1>2, LruStands, LruNextKeeps
<1>7. CacheInv' /\ (UNCHANGED cacheVars \/ Evicts)
  BY <1>1, <1>3, CacheStands, CacheNextKeeps
<1>8. MiniInv'
  BY <1>1, <1>4, MiniStands, MiniNextKeeps
<1>9. TrainInv'
  BY <1>1, <1>5, TrainStands, TrainNextKeeps
<1> QED BY <1>6, <1>7, <1>8, <1>9 DEF StorageInv

\* What is stored is what was meant to be, in every program: the structures of the caches agree
\* whatever calls, expiries, collections and closes interleave, and the trainer's checkpoints are
\* the newest, complete and found again, killed or not.
THEOREM StorageHolds == Spec => []StorageIsConsistent
<1>1. Init => StorageInv
  BY StorageInitially
<1>2. StorageInv /\ [Next]_vars => StorageInv'
  BY StorageStep
<1>3. StorageInv => StorageIsConsistent
  BY CacheInvAgrees, LruInvMatches, MiniInvMatches, TrainInvUsable DEF StorageInv, StorageIsConsistent
<1> QED BY <1>1, <1>2, <1>3, PTL DEF Spec

\* The cache framework makes room by its policy: one entry goes, from a full cache, and the one
\* that was not used for longest, used least often or created first.
THEOREM EvictionHolds == Spec => EvictsByPolicy
<1>1. Init => StorageInv
  BY StorageInitially
<1>2. StorageInv /\ [Next]_vars => StorageInv'
  BY StorageStep
<1>3. StorageInv /\ [Next]_vars =>
        [\A k \in DOMAIN store : k \notin DOMAIN store' /\ DOMAIN store' \ DOMAIN store # {} =>
            /\ Cardinality(DOMAIN store) = MaxSize
            /\ DOMAIN store \ DOMAIN store' = {k}
            /\ \A x \in DOMAIN store :
                 CASE policy = "lru"  -> store[k].lastAccess <= store[x].lastAccess
                   [] policy = "lfu"  -> store[k].accessCount <= store[x].accessCount
                   [] policy = "fifo" -> store[k].createdAt <= store[x].createdAt]_cacheVars
  BY StorageStep DEF Evicts, PushedOut
<1> QED BY <1>1, <1>2, <1>3, PTL DEF Spec, EvictsByPolicy

\* The dict and the linked list of the LRU cache are an order of use: each get and put is one step
\* of the abstract cache, seen by walking the list.
THEOREM LruRefines == Spec => ImplementsLru
<1>1. Init => StorageInv
  BY StorageInitially
<1>2. StorageInv /\ [Next]_vars => StorageInv'
  BY StorageStep
<1>3. Init => Iterated = <<>>
  BY LruInitially DEF Init
<1>4. StorageInv /\ [Next]_vars => [\E k \in LruKey : Order!Use(k) \/ Order!Insert(k)]_Iterated
  BY StorageStep
<1> QED BY <1>1, <1>2, <1>3, <1>4, PTL DEF Spec, ImplementsLru, Order!OrderSpec
=============================================================================
