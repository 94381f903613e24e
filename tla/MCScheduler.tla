----------------------------- MODULE MCScheduler -----------------------------
(* A periodic task and a one-shot task of the same id, and one of another.  *)
EXTENDS Scheduler, TLC

CONSTANTS t1, t2, t3, i1, i2

MCId == t1 :> i1 @@ t2 :> i1 @@ t3 :> i2
MCDelay == t1 :> 1 @@ t2 :> 1 @@ t3 :> 2
MCInterval == t1 :> 1 @@ t2 :> 0 @@ t3 :> 0
=============================================================================
