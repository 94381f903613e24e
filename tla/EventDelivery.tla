--------------------------- MODULE EventDelivery ---------------------------
(***************************************************************************)
(* What an outbox promises, with the table, the polls and the retries      *)
(* hidden: an event is recorded once with its business data, reaches the   *)
(* queue at least once before its record may be purged, and takes effect   *)
(* at most once at the consumer.                                           *)
(***************************************************************************)
EXTENDS Naturals

CONSTANT Events

VARIABLES
    kept,       \* events whose record is still retained
    recorded,   \* events ever recorded
    sent,       \* events the queue has accepted at least once
    effects     \* how often the consumer acted on each event

vars == <<kept, recorded, sent, effects>>

Init ==
    /\ kept = {}
    /\ recorded = {}
    /\ sent = {}
    /\ effects = [e \in Events |-> 0]

Record(e) ==
    /\ e \notin recorded
    /\ recorded' = recorded \cup {e}
    /\ kept' = kept \cup {e}
    /\ UNCHANGED <<sent, effects>>

Send(e) ==
    /\ e \in recorded
    /\ sent' = sent \cup {e}
    /\ UNCHANGED <<kept, recorded, effects>>

TakeEffect(e) ==
    /\ e \in sent
    /\ effects[e] = 0
    /\ effects' = [effects EXCEPT ![e] = 1]
    /\ UNCHANGED <<kept, recorded, sent>>

Purge(S) ==
    /\ S \subseteq kept \cap sent
    /\ kept' = kept \ S
    /\ UNCHANGED <<recorded, sent, effects>>

Next ==
    \/ \E e \in Events : Record(e) \/ Send(e) \/ TakeEffect(e)
    \/ \E S \in SUBSET kept : Purge(S)

Spec == Init /\ [][Next]_vars
=============================================================================
