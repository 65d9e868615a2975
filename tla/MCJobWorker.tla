----------------------------- MODULE MCJobWorker -----------------------------
(***************************************************************************)
(* Instances of JobWorker for TLC: job 1 is due at once, job 2 a minute    *)
(* later, job 3 has no handler.                                            *)
(***************************************************************************)
EXTENDS JobWorker

BothQueues == <<"default", "retry_queue">>
DueLater == [j \in Jobs |-> IF j = 2 THEN 1 ELSE 0]
=============================================================================
