---------------------------- MODULE MCCacheWarmer ----------------------------
(***************************************************************************)
(* Instances of CacheWarmer for TLC: jobs are numbered, and a job's number *)
(* is its priority.                                                        *)
(***************************************************************************)
EXTENDS CacheWarmer

Numbered == [j \in Jobs |-> j]
=============================================================================
