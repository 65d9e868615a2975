---------------------------- MODULE RateLimiter ----------------------------
(***************************************************************************)
(* The sliding-window limiter kept in Redis                                *)
(* (backend/internal/middleware/rate_limiter.go, DistributedRateLimiter),  *)
(* for one key.                                                            *)
(*                                                                         *)
(* checkLimit sends four commands in a pipeline, which is not a            *)
(* transaction: commands of other requests run in between, time passes,    *)
(* the client repeats the whole pipeline after a network error, and when   *)
(* it gives up the request is let through unchecked, with any prefix of    *)
(* the commands done.  The reply to ZCARD decides; ZADD records every      *)
(* request, the refused ones too.                                          *)
(*                                                                         *)
(* One clock serves the application and Redis; members are time stamps.    *)
(***************************************************************************)
EXTENDS Integers, FiniteSets

CONSTANTS
    Slots,    \* requests in flight at a time
    Rate,     \* RateLimit.Rate
    Window,   \* RateLimit.Window, in clock ticks
    MaxTime   \* bound on the clock

ASSUME LimiterConstants ==
    /\ IsFiniteSet(Slots)
    /\ Rate \in Nat \ {0} /\ Window \in Nat \ {0} /\ MaxTime \in Nat

VARIABLES
    clock,
    entries,    \* the sorted set under the key: every member is its own score
    expiresAt,  \* when the key goes away; Never without a time to live
    at,         \* at[s]: the next command of slot s, or its last request's outcome
    stamp,      \* stamp[s]: now in checkLimit
    count,      \* count[s]: the reply to ZCARD
    alone,      \* history: nothing ran beside s's request, nothing was repeated
    cut,        \* history: slots during whose request the key has expired
    arrivals,   \* history: stamps of the requests answered
    recorded,   \* history: those checked, and with the key alive throughout
    abandoned   \* history: those let through unchecked

limiterVars == <<clock, entries, expiresAt, at, stamp, count, alone, cut,
                arrivals, recorded, abandoned>>

Never == MaxTime + Window + 1
Commands == {"ZREMRANGEBYSCORE", "ZCARD", "ZADD", "EXPIRE"}
Outcomes == {"admitted", "refused", "unchecked"}

LimiterTypeOK ==
    /\ clock \in 0..MaxTime
    /\ entries \subseteq 0..MaxTime
    /\ expiresAt \in 0..Never
    /\ at \in [Slots -> Commands \cup Outcomes]
    /\ stamp \in [Slots -> 0..MaxTime]
    /\ count \in [Slots -> Nat]
    /\ alone \in [Slots -> BOOLEAN] /\ cut \subseteq Slots
    /\ recorded \cup abandoned \subseteq arrivals /\ arrivals \subseteq 0..MaxTime

LimiterInit ==
    /\ clock = 0
    /\ entries = {} /\ expiresAt = Never
    /\ at = [s \in Slots |-> "unchecked"]
    /\ stamp = [s \in Slots |-> 0] /\ count = [s \in Slots |-> 0]
    /\ alone = [s \in Slots |-> FALSE] /\ cut = {}
    /\ arrivals = {} /\ recorded = {} /\ abandoned = {}
-----------------------------------------------------------------------------
(* Mutants: one request too many, and a time to live a fresh key gets only
   when a request is admitted. *)
AllowsOneMore(n) == n <= Rate
LivesWhenAdmitted(n) == IF n < Rate THEN clock + Window ELSE expiresAt

Allowed(n) == n < Rate
InWindow(t) == {u \in entries : u > t - Window}

\* EXPIRE does not ask what ZCARD has replied.
Renewed(n) == clock + Window

Busy == {s \in Slots : at[s] \in Commands}

Answer(s, outcome) ==
    /\ at' = [at EXCEPT ![s] = outcome]
    /\ arrivals' = arrivals \cup {stamp[s]}
    /\ recorded' = IF outcome = "unchecked" \/ s \in cut THEN recorded
                   ELSE recorded \cup {stamp[s]}
    /\ abandoned' = IF outcome = "unchecked" THEN abandoned \cup {stamp[s]} ELSE abandoned
    /\ stamp' = [stamp EXCEPT ![s] = 0] /\ count' = [count EXCEPT ![s] = 0]
    /\ alone' = [alone EXCEPT ![s] = FALSE] /\ cut' = cut \ {s}

\* checkLimit up to the pipeline.  A call takes longer than the clock's unit,
\* a nanosecond, so only requests in flight together can share a stamp.
Arrive(s) ==
    /\ s \notin Busy
    /\ clock \notin arrivals
    /\ at' = [at EXCEPT ![s] = "ZREMRANGEBYSCORE"]
    /\ stamp' = [stamp EXCEPT ![s] = clock]
    /\ alone' = [q \in Slots |-> IF q = s THEN Busy = {} ELSE alone[q] /\ q \notin Busy]
    /\ UNCHANGED <<clock, entries, expiresAt, count, cut, arrivals, recorded, abandoned>>

\* ZREMRANGEBYSCORE key 0 now-window; a key left empty goes away, and its
\* time to live with it.
Prune(s) ==
    /\ at[s] = "ZREMRANGEBYSCORE"
    /\ entries' = InWindow(stamp[s])
    /\ expiresAt' = IF entries' = {} THEN Never ELSE expiresAt
    /\ at' = [at EXCEPT ![s] = "ZCARD"]
    /\ UNCHANGED <<clock, stamp, count, alone, cut, arrivals, recorded, abandoned>>

Count(s) ==
    /\ at[s] = "ZCARD"
    /\ count' = [count EXCEPT ![s] = Cardinality(entries)]
    /\ at' = [at EXCEPT ![s] = "ZADD"]
    /\ UNCHANGED <<clock, entries, expiresAt, stamp, alone, cut, arrivals, recorded, abandoned>>

\* ZADD key now now: requests of one stamp are one member.
Add(s) ==
    /\ at[s] = "ZADD"
    /\ entries' = entries \cup {stamp[s]}
    /\ at' = [at EXCEPT ![s] = "EXPIRE"]
    /\ UNCHANGED <<clock, expiresAt, stamp, count, alone, cut, arrivals, recorded, abandoned>>

\* EXPIRE key window, and checkLimit returns.  EXPIRE of a missing key is 0.
Expire(s) ==
    /\ at[s] = "EXPIRE"
    /\ expiresAt' = IF entries = {} THEN Never ELSE Renewed(count[s])
    /\ Answer(s, IF Allowed(count[s]) THEN "admitted" ELSE "refused")
    /\ UNCHANGED <<clock, entries>>

\* The client lost the connection and repeats the pipeline.
Repeat(s) ==
    /\ s \in Busy
    /\ at' = [at EXCEPT ![s] = "ZREMRANGEBYSCORE"]
    /\ alone' = [alone EXCEPT ![s] = FALSE]
    /\ count' = [count EXCEPT ![s] = 0]
    /\ UNCHANGED <<clock, entries, expiresAt, stamp, cut, arrivals, recorded, abandoned>>

\* Exec returns an error: CreateMiddleware lets the request through.
GiveUp(s) ==
    /\ s \in Busy
    /\ Answer(s, "unchecked")
    /\ UNCHANGED <<clock, entries, expiresAt>>

LimiterTick ==
    /\ clock < MaxTime
    /\ clock' = clock + 1
    /\ IF entries # {} /\ expiresAt <= clock'
       THEN /\ entries' = {} /\ expiresAt' = Never
            /\ cut' = Busy
       ELSE UNCHANGED <<entries, expiresAt, cut>>
    /\ UNCHANGED <<at, stamp, count, alone, arrivals, recorded, abandoned>>

LimiterNext ==
    \/ \E s \in Slots : \/ Arrive(s) \/ Prune(s) \/ Count(s) \/ Add(s) \/ Expire(s)
                        \/ Repeat(s) \/ GiveUp(s)
    \/ LimiterTick

LimiterSpec == LimiterInit /\ [][LimiterNext]_limiterVars
-----------------------------------------------------------------------------
(* A key without a time to live, which stays in Redis for ever when its    *)
(* client does not come back, holds nothing but requests still in flight   *)
(* and requests whose pipeline was given up after the ZADD.                *)
LimiterInv ==
    /\ LimiterTypeOK
    /\ expiresAt = Never =>
         entries \subseteq abandoned \cup {stamp[s] : s \in Busy}

(* A request that ran alone is judged exactly: it is admitted only when    *)
(* the window holds fewer than Rate recorded instants, refused only when   *)
(* it holds Rate arrivals, whatever became of those (a refused request and *)
(* one let through unchecked may count, one whose key expired under it     *)
(* may not).                                                               *)
ExactWhenAlone ==
    [][\A s \in Slots : alone[s] /\ s \notin cut /\ s \notin Busy' =>
            LET Since(times) == {u \in times : u > stamp[s] - Window} IN
            /\ at'[s] = "admitted" => Cardinality(Since(recorded)) < Rate
            /\ at'[s] = "refused" => Cardinality(Since(arrivals)) >= Rate
      ]_limiterVars
=============================================================================
