-------------------------- MODULE MCDistributedJobs --------------------------
(***************************************************************************)
(* An instance of DistributedJobs for TLC: job 1 validates a key that job  *)
(* 2 is scheduled to warm a second later.                                  *)
(***************************************************************************)
EXTENDS DistributedJobs

JobKind == <<"validation", "scheduled">>
JobKey == <<"k", "k">>
JobPriority == <<5, 1>>
JobDelay == <<0, 1>>
=============================================================================
