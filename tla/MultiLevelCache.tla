--------------------------- MODULE MultiLevelCache ---------------------------
(***************************************************************************)
(* The two-level cache of one backend process                              *)
(* (backend/internal/cache/multilevel.go): an in-memory L1 in front of     *)
(* Redis, the L2, most calls of which go through the circuit breaker.      *)
(*                                                                         *)
(* CircuitBreaker.tla leaves open how the protected calls end.  Here they  *)
(* are the calls the cache makes, so that the breaker sees what it sees in *)
(* the program: a Redis Get that finds nothing returns ErrCacheMiss, which *)
(* Execute reports to the breaker like any other error.                    *)
(* L1 and L2 are abstracted to the sets of keys they hold; values and the  *)
(* age of entries are the subject of TaskCache.tla.                        *)
(***************************************************************************)
EXTENDS Integers, FiniteSets

CONSTANTS Keys,              \* cache keys
          Callers, MaxFailures, HalfOpenMaxCalls, Timeout, FailureCap

\* What CircuitBreaker.tla assumes of its parameters.
ASSUME CacheConstants ==
    /\ MaxFailures \in Nat \ {0}
    /\ HalfOpenMaxCalls \in Nat \ {0}
    /\ Timeout \in Nat
    /\ FailureCap \in Nat /\ FailureCap >= MaxFailures

VARIABLES
    state, failureCount, successCount, sinceFailure,  \* the breaker
    failRun, okRun,                                   \* its history
    l1,      \* keys in MemoryCache
    l2,      \* keys in Redis
    redis,   \* environment: is Redis "up" or "down"
    req,     \* req[c]: the cache call caller c is in
    outage   \* history: some call to Redis has failed for real

breaker == <<state, failureCount, successCount, sinceFailure, failRun, okRun>>
vars == <<breaker, l1, l2, redis, req, outage>>

\* Where a call is: idle; about to ask the breaker; admitted; copying a hit
\* into L1; about to report ok or not; or, for DeletePattern, about to send
\* KEYS or DEL.
NoReq == [op |-> "none", key |-> "none", at |-> "idle", mode |-> "idle",
          ok |-> FALSE, found |-> {}]
Ops == {"Get", "Set", "Delete", "DeletePattern"}

\* The breaker's view of a caller.
Calls == [c \in Callers |-> req[c].mode]

\* For the breaker Redis is an arbitrary service.
CB == INSTANCE CircuitBreaker WITH call <- Calls, backend <- "flaky"

TypeOK ==
    /\ CB!TypeOK
    /\ l1 \subseteq Keys /\ l2 \subseteq Keys
    /\ redis \in {"up", "down"}
    /\ \A c \in Callers :
        /\ req[c].op \in Ops \cup {"none"}
        /\ req[c].key \in Keys \cup {"none"}
        /\ req[c].at \in {"idle", "ask", "exec", "promote", "report", "keys", "del"}
        /\ req[c].found \subseteq Keys
        /\ req[c].mode # "idle" <=> req[c].at \in {"exec", "promote", "report"}
    /\ outage \in BOOLEAN

Init ==
    /\ state = "Closed" /\ failureCount = 0 /\ successCount = 0
    /\ sinceFailure = Timeout
    /\ failRun = 0 /\ okRun = 0
    /\ l1 = {} /\ l2 = {}
    /\ redis = "up"
    /\ req = [c \in Callers |-> NoReq]
    /\ outage = FALSE
-----------------------------------------------------------------------------
Put(c, r) == req' = [req EXCEPT ![c] = r]
At(c, place) == req[c].at = place

\* The L1 half of a call.  A Get that hits L1 is over at once and changes
\* nothing; Exists is two such lookups and has no step either.
Begin(c, op, k) ==
    /\ At(c, "idle")
    /\ \/ op = "Get" /\ k \notin l1 /\ UNCHANGED l1
       \/ op = "Set" /\ l1' = l1 \cup {k}
       \/ op \in {"Delete", "DeletePattern"} /\ l1' = l1 \ {k}
    /\ Put(c, [NoReq EXCEPT !.op = op, !.key = k,
                            !.at = IF op = "DeletePattern" THEN "keys" ELSE "ask"])
    /\ UNCHANGED <<breaker, l2, redis, outage>>

(* Mutant of Admitted: the breaker is bypassed. *)
Bypassed == TRUE

\* Execute asks the breaker.
Admitted == CB!Allow

\* Refused, a Get is a miss, a Set is nil and a Delete is
\* ErrCircuitBreakerOpen; L2 keeps what it has.
Ask(c) ==
    /\ At(c, "ask")
    /\ Put(c, IF Admitted
              THEN [req[c] EXCEPT !.at = "exec",
                                  !.mode = IF state = "Closed" THEN "regular" ELSE "probe"]
              ELSE NoReq)
    /\ UNCHANGED <<breaker, l1, l2, redis, outage>>

Done(c, ok) == [req[c] EXCEPT !.at = "report", !.ok = ok]

\* Redis executes a protected call.  A Get that finds nothing returns
\* ErrCacheMiss out of the protected function, an error to the breaker.
Answer(c) ==
    /\ At(c, "exec") /\ redis = "up"
    /\ LET k == req[c].key IN
       \/ /\ req[c].op = "Get" /\ k \in l2
          /\ Put(c, [req[c] EXCEPT !.at = "promote"])
          /\ UNCHANGED l2
       \/ /\ req[c].op = "Get" /\ k \notin l2
          /\ Put(c, Done(c, FALSE))
          /\ UNCHANGED l2
       \/ /\ req[c].op = "Set"
          /\ l2' = l2 \cup {k}
          /\ Put(c, Done(c, TRUE))
       \/ /\ req[c].op = "Delete"
          /\ l2' = l2 \ {k}
          /\ Put(c, Done(c, TRUE))
    /\ UNCHANGED <<breaker, l1, redis, outage>>

\* A call to Redis fails; a Set or Delete may have been executed all the same.
TimeOut(c) ==
    /\ At(c, "exec") /\ redis = "down"
    /\ \/ UNCHANGED l2
       \/ req[c].op = "Set" /\ l2' = l2 \cup {req[c].key}
       \/ req[c].op = "Delete" /\ l2' = l2 \ {req[c].key}
    /\ Put(c, Done(c, FALSE))
    /\ outage' = TRUE
    /\ UNCHANGED <<breaker, l1, redis>>

\* The rest of the protected function of Get after a hit in Redis.
Promote(c) ==
    /\ At(c, "promote")
    /\ l1' = l1 \cup {req[c].key}
    /\ Put(c, Done(c, TRUE))
    /\ UNCHANGED <<breaker, l2, redis, outage>>

(* Mutant of Report: only failures are reported. *)
ReportFailuresOnly(c) ==
    /\ At(c, "report")
    /\ IF req[c].ok THEN UNCHANGED breaker ELSE CB!RecordFailure
    /\ Put(c, NoReq)
    /\ UNCHANGED <<l1, l2, redis, outage>>

\* Execute reports to the breaker.
Report(c) ==
    /\ At(c, "report")
    /\ IF req[c].ok THEN CB!RecordSuccess ELSE CB!RecordFailure
    /\ Put(c, NoReq)
    /\ UNCHANGED <<l1, l2, redis, outage>>

\* DeletePattern goes to Redis without the breaker: KEYS, then DEL of what
\* KEYS found.  It gives up when Redis is down.
SendKeys(c) ==
    /\ At(c, "keys")
    /\ Put(c, IF redis = "up" /\ req[c].key \in l2
              THEN [req[c] EXCEPT !.at = "del", !.found = {req[c].key}]
              ELSE NoReq)
    /\ UNCHANGED <<breaker, l1, l2, redis, outage>>

SendDel(c) ==
    /\ At(c, "del")
    /\ l2' = IF redis = "up" THEN l2 \ req[c].found ELSE l2
    /\ Put(c, NoReq)
    /\ UNCHANGED <<breaker, l1, redis, outage>>

\* TTLs run out.
Expire(k) ==
    /\ \/ k \in l1 /\ l1' = l1 \ {k} /\ UNCHANGED l2
       \/ k \in l2 /\ l2' = l2 \ {k} /\ UNCHANGED l1
    /\ UNCHANGED <<breaker, redis, req, outage>>

Tick ==
    /\ sinceFailure < Timeout
    /\ sinceFailure' = sinceFailure + 1
    /\ UNCHANGED <<state, failureCount, successCount, failRun, okRun,
                   l1, l2, redis, req, outage>>

RedisChanges ==
    /\ redis' \in {"up", "down"} \ {redis}
    /\ UNCHANGED <<breaker, l1, l2, req, outage>>

Continue(c) ==
    \/ Ask(c) \/ Answer(c) \/ TimeOut(c) \/ Promote(c) \/ Report(c)
    \/ SendKeys(c) \/ SendDel(c)

Next ==
    \/ \E c \in Callers : Continue(c)
    \/ \E c \in Callers, op \in Ops, k \in Keys : Begin(c, op, k)
    \/ \E k \in Keys : Expire(k)
    \/ Tick
    \/ RedisChanges

Spec == Init /\ [][Next]_vars

\* Calls return, time passes and somebody sets a key again and again (every
\* read-through miss and every warm-up job does).
Fairness ==
    /\ WF_vars(Tick)
    /\ \A c \in Callers : WF_vars(Continue(c))
    /\ \A c \in Callers : SF_vars(\E k \in Keys : Begin(c, "Set", k))

FairSpec == Spec /\ Fairness
-----------------------------------------------------------------------------
\* Every use the cache makes of the breaker is one that CircuitBreaker.tla
\* allows, with Redis in the part of an erratic service: admission before
\* every call, one report after it.  What is proved of the breaker therefore
\* holds inside the cache.
UsesBreakerProperly == CB!Spec

\* With Redis up and every key in it, the breaker ends up closed for good:
\* no mixture of calls in flight and late reports keeps it open.
RecoversWhenWarm ==
    <>[](redis = "up" /\ l2 = Keys) => <>[](state = "Closed")

\* README.md:688, "Open: Redis is down, skip L2 calls for fast-fail".
OpenMeansRedisDown == state = "Open" => outage
=============================================================================
