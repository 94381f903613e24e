------------------------------ MODULE MCOutbox ------------------------------
(* One write of two events, and two polls that may overlap.              *)
EXTENDS Outbox, TLC

CONSTANTS e1, e2, w1

MCBatch == (w1 :> {e1, e2})
=============================================================================
