-------------------------------- MODULE Wal --------------------------------
(***************************************************************************)
(* The write-ahead log of wal_lab: WALSimulator, and the second            *)
(* implementation in re_impl/wal.py, which differs in the records that     *)
(* recovery redoes.  Transactions of several callers are interleaved, each *)
(* written the way demo() writes one: begin, write, commit with the LSN of *)
(* its last write, and only then modify the pages.  The process may crash  *)
(* between any two calls.                                                  *)
(*                                                                         *)
(* The value a write gives to a page is named by the LSN of its record, 0  *)
(* being a page nobody has written.  old_val is left out: no method reads  *)
(* it.                                                                     *)
(***************************************************************************)
EXTENDS Integers, Sequences, FiniteSetsExt

CONSTANTS WalTrx, Page, MaxLsn, MaxWalCrashes

VARIABLES impl,          \* the implementation that runs: "simulator" or "re_impl"
          logBuffer, logFile, dataPages, lsnCounter, checkpointLsn,
          walPc,            \* where each caller stands in its transaction
          mine,          \* the records each transaction has written, oldest first
          flushedBy,     \* LSN -> the transaction whose commit flushed the record
          walCrashes, recovered

walVars == <<impl, logBuffer, logFile, dataPages, lsnCounter, checkpointLsn, walPc,
             mine, flushedBy, walCrashes, recovered>>

RecordsOf(s) == {s[i] : i \in DOMAIN s}
Logged(p) == {r \in RecordsOf(logFile) : r.page = p}

WalInit ==
  /\ impl \in {"simulator", "re_impl"}
  /\ logBuffer = <<>> /\ logFile = <<>>
  /\ dataPages = [p \in Page |-> 0]
  /\ lsnCounter = 0 /\ checkpointLsn = 0
  /\ walPc = [t \in WalTrx |-> "new"]
  /\ mine = [t \in WalTrx |-> <<>>]
  /\ flushedBy = <<>>
  /\ walCrashes = 0 /\ recovered = TRUE

WalBegin(t) ==
  /\ recovered /\ walPc[t] = "new"
  /\ walPc' = [walPc EXCEPT ![t] = "active"]
  /\ UNCHANGED <<impl, logBuffer, logFile, dataPages, lsnCounter, checkpointLsn,
                 mine, flushedBy, walCrashes, recovered>>

WalWrite(t, p) ==
  /\ recovered /\ walPc[t] = "active" /\ lsnCounter < MaxLsn
  /\ lsnCounter' = lsnCounter + 1
  /\ LET r == [lsn |-> lsnCounter + 1, page |-> p, committed |-> FALSE]
     IN  /\ logBuffer' = Append(logBuffer, r)
         /\ mine' = [mine EXCEPT ![t] = Append(@, r)]
  /\ UNCHANGED <<impl, logFile, dataPages, checkpointLsn, walPc, flushedBy, walCrashes,
                 recovered>>

\* What commit(trx, lsn) appends to the file: the whole buffer, whoever wrote it, the
\* records up to the given LSN marked as committed.
Flushed(lsn) ==
  [i \in DOMAIN logBuffer |-> [logBuffer[i] EXCEPT !.committed = @ \/ logBuffer[i].lsn <= lsn]]

WalCommit(t) ==
  /\ recovered /\ walPc[t] = "active" /\ mine[t] # <<>>
  /\ LET lsn == mine[t][Len(mine[t])].lsn
     IN  logFile' = logFile \o Flushed(lsn)
  /\ flushedBy' = [l \in DOMAIN flushedBy \cup {r.lsn : r \in RecordsOf(logBuffer)} |->
                       IF l \in DOMAIN flushedBy THEN flushedBy[l] ELSE t]
  /\ logBuffer' = <<>>
  /\ walPc' = [walPc EXCEPT ![t] = "committed"]
  /\ UNCHANGED <<impl, dataPages, lsnCounter, checkpointLsn, mine, walCrashes, recovered>>

ModifyPages(t) ==
  /\ recovered /\ walPc[t] = "committed"
  /\ dataPages' = [p \in Page |->
       LET own == {r.lsn : r \in {q \in RecordsOf(mine[t]) : q.page = p}}
       IN  IF own = {} THEN dataPages[p] ELSE Max(own)]
  /\ walPc' = [walPc EXCEPT ![t] = "done"]
  /\ UNCHANGED <<impl, logBuffer, logFile, lsnCounter, checkpointLsn, mine, flushedBy,
                 walCrashes, recovered>>

CommittedLsns == {r.lsn : r \in {q \in RecordsOf(logFile) : q.committed}}

Checkpoint ==
  /\ recovered
  /\ checkpointLsn' = IF logFile = <<>> THEN checkpointLsn ELSE Max(CommittedLsns)
  /\ UNCHANGED <<impl, logBuffer, logFile, dataPages, lsnCounter, walPc, mine, flushedBy,
                 walCrashes, recovered>>

\* The callers of unfinished transactions are gone with the process.
WalCrash ==
  /\ walCrashes < MaxWalCrashes
  /\ walCrashes' = walCrashes + 1
  /\ logBuffer' = <<>>
  /\ dataPages' = [p \in Page |-> 0]
  /\ walPc' = [t \in WalTrx |-> IF walPc[t] = "new" THEN "new" ELSE "done"]
  /\ recovered' = FALSE
  /\ UNCHANGED <<impl, logFile, lsnCounter, checkpointLsn, mine, flushedBy>>

\* The records redone, in the order of the file: the last one of a page gives its value.
RedoSimulatorOffByOne(r) == r.committed /\ r.lsn > checkpointLsn + 1
RedoSimulator(r) == r.lsn > checkpointLsn /\ r.committed
RedoReimpl(r) == ~(r.lsn <= checkpointLsn /\ ~r.committed)

RedoneAt(p) ==
  {i \in DOMAIN logFile : /\ logFile[i].page = p
                          /\ IF impl = "simulator" THEN RedoSimulator(logFile[i])
                                                   ELSE RedoReimpl(logFile[i])}

Recover ==
  /\ ~recovered
  /\ dataPages' = [p \in Page |-> IF RedoneAt(p) = {} THEN dataPages[p]
                                                      ELSE logFile[Max(RedoneAt(p))].lsn]
  /\ recovered' = TRUE
  /\ UNCHANGED <<impl, logBuffer, logFile, lsnCounter, checkpointLsn, walPc, mine,
                 flushedBy, walCrashes>>

WalNext ==
  \/ \E t \in WalTrx : \/ WalBegin(t)
                    \/ WalCommit(t)
                    \/ ModifyPages(t)
                    \/ \E p \in Page : WalWrite(t, p)
  \/ Checkpoint
  \/ WalCrash
  \/ Recover

----------------------------------------------------------------------------
\* The file is in LSN order, so that redoing it in file order leaves the newest record
\* of a page, and everything still buffered is newer than everything on disk.
LogOrdered ==
  /\ \A i, j \in DOMAIN logFile : i < j => logFile[i].lsn < logFile[j].lsn
  /\ \A r \in RecordsOf(logFile), b \in RecordsOf(logBuffer) : r.lsn < b.lsn /\ b.lsn <= lsnCounter

\* Write-ahead: a page never holds, and recovery never produces, a value whose record is
\* not on disk.  And a checkpoint stands at a committed record of the file, which always has
\* one, so that max() in checkpoint never meets an empty sequence.
WriteAhead ==
  /\ LogOrdered
  /\ \A p \in Page : dataPages[p] # 0 => \E r \in Logged(p) : r.lsn = dataPages[p]
  /\ logFile # <<>> => CommittedLsns # {}
  /\ checkpointLsn # 0 => checkpointLsn \in CommittedLsns

\* The records that the commit of their own transaction took to disk, and that this
\* implementation still redoes: the simulator forgets those up to the checkpoint, although
\* checkpoint() never wrote their pages anywhere.
OwnFlush(l) == \E t \in WalTrx : flushedBy[l] = t /\ \E r \in RecordsOf(mine[t]) : r.lsn = l
SafeLsns(p) ==
  {l \in {r.lsn : r \in Logged(p)} : OwnFlush(l) /\ (impl = "simulator" => l > checkpointLsn)}

\* A crash loses no write that the commit of its own transaction flushed: recovery leaves
\* each page at least as new as every such write, whatever the other callers, checkpoints
\* and earlier crashes did.  (commit(trx, lsn) marks records by LSN, whoever wrote them, so
\* a record flushed by somebody else's commit has no such promise.)
AckedSurvivesCrash ==
  [][recovered' /\ ~recovered => \A p \in Page : \A l \in SafeLsns(p) : dataPages'[p] >= l]_walVars
=============================================================================
