---------------------------- MODULE MCTaskQueue ----------------------------
(* Four tasks, one to be retried without end, two once and one never.      *)
EXTENDS TaskQueue, TLC

CONSTANTS t1, t2, t3, t4

MCMaxRetry == t1 :> -1 @@ t2 :> 1 @@ t3 :> 1 @@ t4 :> 0
MCNoRetry == t1 :> 0
=============================================================================
