---------------------------- MODULE MCLifecycle ----------------------------
(***************************************************************************)
(* An instance of Lifecycle for TLC: one process seen through its whole    *)
(* life, and a second one that boots beside it, migrates, crashes, serves  *)
(* and exits, but whose requests and workers are left out.                 *)
(***************************************************************************)
EXTENDS Lifecycle

MCWorkers == [one |-> 2, other |-> 0]
MCInFlight == [one |-> 1, other |-> 0]
=============================================================================
