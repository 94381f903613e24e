-------------------------------- MODULE Mvcc --------------------------------
(***************************************************************************)
(* The multi-version store of mvcc_lab.  A row is the chain of its         *)
(* versions, newest first in the code (prev), here a sequence whose last   *)
(* element is the newest.  A version's value is abstracted to its writer:  *)
(* two versions of one writer and key differ only in their place in the    *)
(* chain.  A transaction may make one read view and reuse it (read_rr) or  *)
(* make one per read (read_rc).                                            *)
(***************************************************************************)
EXTENDS Integers, Sequences, FiniteSetsExt

CONSTANTS Key, MaxTrx, MaxVersions

VARIABLES rows, trxCounter, activeTrx,
          views,     \* the transactions that hold a view -> the view
          snapshot   \* the same transactions -> those committed when it was made
mvccVars == <<rows, trxCounter, activeTrx, views, snapshot>>

Trx == 1..MaxTrx
ReadView == [m_ids : SUBSET Trx, min_trx_id : Nat, max_trx_id : Nat, creator : Trx]

Lowest(S) == CHOOSE x \in S : \A y \in S : x <= y

IsVisible(view, trx) ==
  \/ trx < view.min_trx_id
  \/ trx < view.max_trx_id /\ trx \notin view.m_ids

MakeReadViewUpToNow(tid) ==
  [m_ids |-> activeTrx \ {tid},
   min_trx_id |-> IF activeTrx = {} THEN tid ELSE Lowest(activeTrx),
   max_trx_id |-> MaxTrx + 1, creator |-> tid]
MakeReadView(tid) ==
  [m_ids |-> activeTrx \ {tid},
   min_trx_id |-> IF activeTrx = {} THEN tid ELSE Lowest(activeTrx),
   max_trx_id |-> trxCounter + 1, creator |-> tid]

\* The walk along prev: the newest visible version, 0 when there is none.
ReadWithView(chain, view) ==
  LET seen == {i \in DOMAIN chain : IsVisible(view, chain[i])}
  IN  IF seen = {} THEN 0 ELSE Max(seen)

Ended == {t \in Trx : t <= trxCounter} \ activeTrx

MvccInit ==
  /\ rows = [k \in Key |-> <<>>]
  /\ trxCounter = 0
  /\ activeTrx = {}
  /\ views = <<>>
  /\ snapshot = <<>>

BeginTrx ==
  /\ trxCounter < MaxTrx
  /\ trxCounter' = trxCounter + 1
  /\ activeTrx' = activeTrx \cup {trxCounter + 1}
  /\ UNCHANGED <<rows, views, snapshot>>

MvccWrite(tid, key) ==
  /\ tid \in activeTrx
  /\ Len(rows[key]) < MaxVersions
  /\ rows' = [rows EXCEPT ![key] = Append(@, tid)]
  /\ UNCHANGED <<trxCounter, activeTrx, views, snapshot>>

TakeView(tid) ==
  /\ tid \in activeTrx \ DOMAIN views
  /\ views' = [t \in DOMAIN views \cup {tid} |-> IF t = tid THEN MakeReadView(tid) ELSE views[t]]
  /\ snapshot' = [t \in DOMAIN views \cup {tid} |-> IF t = tid THEN Ended ELSE snapshot[t]]
  /\ UNCHANGED <<rows, trxCounter, activeTrx>>

CommitTrx(tid) ==
  /\ tid \in activeTrx
  /\ activeTrx' = activeTrx \ {tid}
  /\ UNCHANGED <<rows, trxCounter, views, snapshot>>

MvccNext ==
  \/ BeginTrx
  \/ \E tid \in Trx : \/ TakeView(tid)
                      \/ CommitTrx(tid)
                      \/ \E key \in Key : MvccWrite(tid, key)

MvccSpec == MvccInit /\ [][MvccNext]_mvccVars
----------------------------------------------------------------------------
MvccTypeOK ==
  /\ rows \in [Key -> Seq(Trx)]
  /\ trxCounter \in 0..MaxTrx
  /\ activeTrx \in SUBSET (1..trxCounter)
  /\ DOMAIN views \in SUBSET (1..trxCounter)
  /\ DOMAIN snapshot = DOMAIN views
  /\ \A t \in DOMAIN views : views[t] \in ReadView /\ snapshot[t] \in SUBSET (1..trxCounter)

\* A read view sees exactly the transactions that had committed when it was made, and its
\* own: never one that began later (even if it has committed since), never one that was
\* still running.
SnapshotIsCommitted ==
  \A t \in DOMAIN views :
    \A w \in 1..trxCounter : IsVisible(views[t], w) <=> w \in snapshot[t] \cup {t}

\* Repeatable read: while a transaction keeps its view, no step of another transaction
\* changes which version of a key the view finds.
RepeatableRead ==
  [][\A t \in DOMAIN views, k \in Key :
        (rows'[k] = rows[k] \/ rows'[k][Len(rows'[k])] # t) =>
          ReadWithView(rows'[k], views'[t]) = ReadWithView(rows[k], views[t])]_mvccVars
=============================================================================
