---------------------------- MODULE MCTaskCache ----------------------------
(***************************************************************************)
(* An instance of TaskCache for TLC.  A tick is five minutes, the smallest *)
(* TTL in the service; the others are scaled down but keep their order.    *)
(***************************************************************************)
EXTENDS TaskCache

MCTtl == [k \in CacheKeys |-> IF k = "page" THEN 1 ELSE 2]

CONSTANTS r1, r2

\* Every client has a replica of its own.
OwnReplica == [c \in Clients |-> IF c = 1 THEN r1 ELSE r2]
=============================================================================
