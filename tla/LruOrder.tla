------------------------------ MODULE LruOrder ------------------------------
(***************************************************************************)
(* What a least-recently-used cache promises: the keys it holds, in the    *)
(* order of their last use, most recent first, and never more than its     *)
(* capacity.  A new key beyond the capacity pushes out the last one.       *)
(***************************************************************************)
EXTENDS Integers, SequencesExt

CONSTANTS Keys, Capacity

VARIABLE recency

Without(k) ==
  LET kept[n \in 0..Len(recency)] ==
        IF n = 0 THEN <<>> ELSE IF recency[n] \in {k} THEN kept[n - 1] ELSE Append(kept[n - 1], recency[n])
  IN  kept[Len(recency)]

Use(k) == /\ k \in ToSet(recency)
          /\ recency' = <<k>> \o Without(k)

Insert(k) ==
  /\ k \notin ToSet(recency)
  /\ recency' = SubSeq(<<k>> \o recency, 1, IF Len(recency) < Capacity THEN Len(recency) + 1 ELSE Capacity)

OrderSpec == recency = <<>> /\ [][\E k \in Keys : Use(k) \/ Insert(k)]_recency
=============================================================================
