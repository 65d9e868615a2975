------------------------- MODULE MCMultiLevelCache -------------------------
(***************************************************************************)
(* Instances of MultiLevelCache for TLC.                                   *)
(***************************************************************************)
EXTENDS MultiLevelCache, TLC

\* The callers are interchangeable; used where no liveness is checked.
CallerSymmetry == Permutations(Callers)
=============================================================================
