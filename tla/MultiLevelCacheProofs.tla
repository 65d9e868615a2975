------------------------ MODULE MultiLevelCacheProofs ------------------------
(***************************************************************************)
(* Theorems about MultiLevelCache, for every set of keys and callers and   *)
(* every configuration of the breaker.  The main one is that the cache     *)
(* uses the breaker as CircuitBreaker.tla says it is used, step by step;   *)
(* the theorems about the breaker then hold inside the cache, where the    *)
(* protected calls are no longer arbitrary.                                *)
(***************************************************************************)
EXTENDS MultiLevelCache, TLAPS

\* The theorems about the breaker, for the breaker of the cache.
CBP == INSTANCE CircuitBreakerProofs WITH call <- Calls, backend <- "flaky"

Shapes == [op : Ops \cup {"none"}, key : Keys \cup {"none"},
           at : {"idle", "ask", "exec", "promote", "report", "keys", "del"},
           mode : {"idle", "regular", "probe"}, ok : BOOLEAN,
           found : SUBSET Keys]

\* A request is known to the breaker from its admission to its report, and one
\* that is under way is about a key.
Requests == {r \in Shapes : /\ r.mode # "idle" <=> r.at \in {"exec", "promote", "report"}
                            /\ r.at # "idle" => r.key \in Keys}

\* The type invariant, with the shape of a request spelt out.
CacheInv == TypeOK /\ req \in [Callers -> Requests]

\* The idle request is a request.
LEMMA NoReqType == NoReq \in Requests /\ NoReq.mode = "idle" /\ NoReq.at = "idle"
BY DEF NoReq, Requests, Shapes, Ops

\* Replacing one request by another keeps the shape of the requests, and moves
\* the breaker's view of that caller only.
LEMMA PutType ==
    ASSUME CacheInv, NEW c \in Callers, NEW r \in Requests, Put(c, r)
    PROVE  /\ req' \in [Callers -> Requests]
           /\ Calls' = [Calls EXCEPT ![c] = r.mode]
           /\ Calls' \in [Callers -> {"idle", "regular", "probe"}]
           /\ \A d \in Callers :
                /\ req'[d].op \in Ops \cup {"none"}
                /\ req'[d].key \in Keys \cup {"none"}
                /\ req'[d].at \in {"idle", "ask", "exec", "promote", "report", "keys", "del"}
                /\ req'[d].found \subseteq Keys
                /\ req'[d].mode # "idle" <=> req'[d].at \in {"exec", "promote", "report"}
<1>1. req \in [Callers -> Requests] /\ req' = [req EXCEPT ![c] = r]
  BY DEF CacheInv, Put
<1>2. req' \in [Callers -> Requests]
  BY <1>1
<1>3. /\ Calls = [d \in Callers |-> req[d].mode]
      /\ Calls' = [d \in Callers |-> req'[d].mode]
  BY DEF Calls
<1>4. Calls' = [Calls EXCEPT ![c] = r.mode]
  BY <1>1, <1>3
<1>5. \A d \in Callers : req'[d] \in Requests
  BY <1>2
<1>6. Calls' \in [Callers -> {"idle", "regular", "probe"}]
  BY <1>3, <1>5 DEF Requests, Shapes
<1> QED BY <1>2, <1>4, <1>5, <1>6 DEF Requests, Shapes

\* A request that stays in the same breaker mode is invisible to the breaker.
LEMMA SameMode ==
    ASSUME CacheInv, NEW c \in Callers, NEW r \in Requests, Put(c, r),
           r.mode = req[c].mode
    PROVE  Calls' = Calls
<1>1. req \in [Callers -> Requests] /\ req' = [req EXCEPT ![c] = r]
  BY DEF CacheInv, Put
<1> QED BY <1>1 DEF Calls

\* The cache starts with the breaker in its initial state and everybody idle.
LEMMA CacheStarts == Init => CacheInv /\ CB!Init
<1> SUFFICES ASSUME Init PROVE CacheInv /\ CB!Init
  OBVIOUS
<1>1. req \in [Callers -> Requests] /\ Calls = [c \in Callers |-> "idle"]
  BY NoReqType DEF Init, Calls
<1>2. CB!Init
  BY <1>1 DEF Init, CB!Init, CB!Backends
<1>3. CB!TypeOK
  BY <1>1, CacheConstants DEF Init, CB!TypeOK, CB!States, CB!CallStates, CB!Backends
<1>4. TypeOK
  BY <1>1, <1>3, NoReqType DEF Init, TypeOK, Requests, Shapes
<1> QED BY <1>1, <1>2, <1>4 DEF CacheInv

-----------------------------------------------------------------------------
(***************************************************************************)
(* What a report does to the breaker.                                      *)
(***************************************************************************)
LEMMA FailureTypes ==
    ASSUME CB!TypeOK, CB!RecordFailure
    PROVE  /\ state' \in CB!States /\ failureCount' \in 0..FailureCap
           /\ successCount' \in 0..HalfOpenMaxCalls /\ sinceFailure' \in 0..Timeout
           /\ failRun' \in 0..MaxFailures /\ okRun' \in 0..HalfOpenMaxCalls
<1>1. failureCount' \in 0..FailureCap /\ failRun' \in 0..MaxFailures
  BY CacheConstants DEF CB!RecordFailure, CB!TypeOK, CB!AtMost
<1>2. sinceFailure' \in 0..Timeout /\ okRun' \in 0..HalfOpenMaxCalls
  BY CacheConstants DEF CB!RecordFailure
<1>3. state' \in CB!States /\ successCount' \in 0..HalfOpenMaxCalls
  BY CacheConstants
     DEF CB!RecordFailure, CB!TypeOK, CB!States, CB!ReopenOnFailure
<1> QED BY <1>1, <1>2, <1>3

LEMMA SuccessTypes ==
    ASSUME CB!TypeOK, CB!RecordSuccess
    PROVE  /\ state' \in CB!States /\ failureCount' \in 0..FailureCap
           /\ successCount' \in 0..HalfOpenMaxCalls /\ sinceFailure' \in 0..Timeout
           /\ failRun' \in 0..MaxFailures /\ okRun' \in 0..HalfOpenMaxCalls
<1>1. sinceFailure' \in 0..Timeout /\ failRun' \in 0..MaxFailures
  BY CacheConstants DEF CB!RecordSuccess, CB!TypeOK
<1>2. okRun' \in 0..HalfOpenMaxCalls
  BY CacheConstants DEF CB!RecordSuccess, CB!TypeOK, CB!AtMost
<1>3. state' \in CB!States /\ failureCount' \in 0..FailureCap
      /\ successCount' \in 0..HalfOpenMaxCalls
  BY CacheConstants
     DEF CB!RecordSuccess, CB!TypeOK, CB!States, CB!ForgiveFailures, CB!Closes
<1> QED BY <1>1, <1>2, <1>3

-----------------------------------------------------------------------------
(***************************************************************************)
(* The steps of the cache.  Each preserves the invariant, and each is a    *)
(* step of the breaker's specification or invisible to it.                 *)
(***************************************************************************)
\* What the breaker may see of a step.
Seen == [CB!Next]_(CB!vars)

\* A step that leaves the breaker's variables and the callers' modes alone.
LEMMA Unseen ==
    ASSUME CacheInv, UNCHANGED breaker, Calls' = Calls
    PROVE  Seen /\ CB!TypeOK'
<1>1. UNCHANGED CB!vars
  BY DEF breaker, CB!vars
<1>2. CB!TypeOK'
  BY DEF CacheInv, TypeOK, CB!TypeOK, breaker
<1> QED BY <1>1, <1>2 DEF Seen

\* One caller's step that is invisible to the breaker.
LEMMA QuietStep ==
    ASSUME CacheInv, NEW c \in Callers, NEW r \in Requests, Put(c, r),
           r.mode = req[c].mode,
           UNCHANGED breaker,
           l1' \subseteq Keys, l2' \subseteq Keys, redis' \in {"up", "down"},
           outage' \in BOOLEAN
    PROVE  Seen /\ CacheInv'
<1>1. Calls' = Calls
  BY SameMode
<1>2. Seen /\ CB!TypeOK'
  BY <1>1, Unseen
<1> QED BY <1>2, PutType DEF CacheInv, TypeOK

LEMMA BeginStep ==
    ASSUME CacheInv, NEW c \in Callers, NEW op \in Ops, NEW k \in Keys,
           Begin(c, op, k)
    PROVE  Seen /\ CacheInv'
<1> DEFINE r == [NoReq EXCEPT !.op = op, !.key = k,
                              !.at = IF op = "DeletePattern" THEN "keys" ELSE "ask"]
<1>1. /\ req \in [Callers -> Requests] /\ At(c, "idle")
      /\ req[c].mode = "idle" /\ Put(c, r)
      /\ UNCHANGED breaker /\ UNCHANGED <<l2, redis, outage>>
      /\ l1' \subseteq Keys
  BY DEF Begin, CacheInv, TypeOK, At, Requests, Shapes
<1>2. /\ r \in Requests /\ r.mode = "idle"
      /\ r.at \in {"ask", "keys"}
  BY DEF NoReq, Requests, Shapes, Ops
<1> HIDE DEF r
<1>3. /\ l2' \subseteq Keys /\ redis' \in {"up", "down"} /\ outage' \in BOOLEAN
  BY <1>1 DEF CacheInv, TypeOK
<1> QED BY <1>1, <1>2, <1>3, QuietStep

LEMMA AskStep ==
    ASSUME CacheInv, NEW c \in Callers, Ask(c)
    PROVE  Seen /\ CacheInv'
<1> DEFINE r == [req[c] EXCEPT !.at = "exec",
                               !.mode = IF state = "Closed" THEN "regular" ELSE "probe"]
<1>1. /\ req \in [Callers -> Requests] /\ req[c] \in Requests
      /\ req[c].at = "ask" /\ req[c].mode = "idle"
      /\ UNCHANGED breaker /\ UNCHANGED <<l1, l2, redis, outage>>
  BY DEF Ask, CacheInv, TypeOK, At
<1>2. /\ l1' \subseteq Keys /\ l2' \subseteq Keys /\ redis' \in {"up", "down"}
      /\ outage' \in BOOLEAN
  BY <1>1 DEF CacheInv, TypeOK
<1>3. CASE ~Admitted
  <2>1. Put(c, NoReq)
    BY <1>3 DEF Ask
  <2> QED BY <1>1, <1>2, <2>1, NoReqType, QuietStep
<1>4. CASE Admitted
  <2>1. Put(c, r)
    BY <1>4 DEF Ask
  <2>2. /\ r \in Requests /\ r.at = "exec"
        /\ r.mode = IF state = "Closed" THEN "regular" ELSE "probe"
    BY <1>1 DEF Requests, Shapes
  <2> HIDE DEF r
  <2>3. /\ Calls' = [Calls EXCEPT ![c] = IF state = "Closed" THEN "regular" ELSE "probe"]
        /\ Calls' \in [Callers -> {"idle", "regular", "probe"}]
    BY <2>1, <2>2, PutType
  <2>4. Calls[c] = "idle"
    BY <1>1 DEF Calls
  <2>5. CB!Admit(c)
    BY <1>1, <1>4, <2>3, <2>4
       DEF CB!Admit, Admitted, breaker, CB!breakerVars, CB!history
  <2>6. CB!TypeOK'
    BY <1>1, <2>3 DEF CacheInv, TypeOK, CB!TypeOK, breaker, CB!CallStates
  <2>7. CacheInv'
    BY <1>2, <2>1, <2>2, <2>6, PutType DEF CacheInv, TypeOK
  <2> QED BY <2>5, <2>7 DEF Seen, CB!Next
<1> QED BY <1>3, <1>4

\* The record of a call about to report.
LEMMA DoneType ==
    ASSUME CacheInv, NEW c \in Callers, NEW ok \in BOOLEAN,
           req[c].at \in {"exec", "promote"}
    PROVE  /\ Done(c, ok) \in Requests /\ Done(c, ok).at = "report"
           /\ Done(c, ok).mode = req[c].mode
BY DEF CacheInv, Done, Requests, Shapes

LEMMA AnswerStep ==
    ASSUME CacheInv, NEW c \in Callers, Answer(c) \/ TimeOut(c)
    PROVE  Seen /\ CacheInv'
<1> DEFINE p == [req[c] EXCEPT !.at = "promote"]
<1>1. /\ req \in [Callers -> Requests] /\ req[c] \in Requests
      /\ req[c].at = "exec" /\ req[c].mode # "idle"
      /\ UNCHANGED breaker /\ UNCHANGED <<l1, redis>>
      /\ req[c].key \in Keys
  BY DEF Answer, TimeOut, CacheInv, TypeOK, At, Requests, Shapes
<1>2. p \in Requests /\ p.at = "promote" /\ p.mode = req[c].mode
  BY <1>1 DEF Requests, Shapes
<1>3. Put(c, p) \/ \E ok \in BOOLEAN : Put(c, Done(c, ok))
  BY DEF Answer, TimeOut
<1>4. l2' \subseteq Keys
  BY <1>1 DEF Answer, TimeOut, CacheInv, TypeOK
<1> HIDE DEF p
<1>5. /\ l1' \subseteq Keys /\ redis' \in {"up", "down"} /\ outage' \in BOOLEAN
  BY <1>1 DEF Answer, TimeOut, CacheInv, TypeOK
<1> QED BY <1>1, <1>2, <1>3, <1>4, <1>5, DoneType, QuietStep

LEMMA PromoteStep ==
    ASSUME CacheInv, NEW c \in Callers, Promote(c)
    PROVE  Seen /\ CacheInv'
<1>1. /\ req \in [Callers -> Requests] /\ req[c] \in Requests
      /\ req[c].at = "promote" /\ req[c].mode # "idle"
      /\ UNCHANGED breaker /\ UNCHANGED <<l2, redis, outage>>
      /\ Put(c, Done(c, TRUE)) /\ l1' = l1 \cup {req[c].key}
  BY DEF Promote, CacheInv, TypeOK, At
<1>2. /\ l1' \subseteq Keys /\ l2' \subseteq Keys /\ redis' \in {"up", "down"}
      /\ outage' \in BOOLEAN
  BY <1>1 DEF CacheInv, TypeOK, Requests, Shapes
<1> QED BY <1>1, <1>2, DoneType, QuietStep

LEMMA ReportStep ==
    ASSUME CacheInv, NEW c \in Callers, Report(c)
    PROVE  Seen /\ CacheInv'
<1>1. /\ req \in [Callers -> Requests] /\ req[c] \in Requests
      /\ req[c].at = "report" /\ req[c].mode # "idle"
      /\ UNCHANGED <<l1, l2, redis, outage>>
      /\ Put(c, NoReq) /\ CB!TypeOK
  BY DEF Report, CacheInv, TypeOK, At, Requests
<1>2. /\ l1' \subseteq Keys /\ l2' \subseteq Keys /\ redis' \in {"up", "down"}
      /\ outage' \in BOOLEAN
  BY <1>1 DEF CacheInv, TypeOK
<1>3. /\ Calls' = [Calls EXCEPT ![c] = "idle"] /\ Calls[c] # "idle"
      /\ Calls' \in [Callers -> {"idle", "regular", "probe"}]
  BY <1>1, NoReqType, PutType DEF Calls
<1>4. CASE req[c].ok
  <2>1. CB!RecordSuccess
    BY <1>4 DEF Report
  <2>2. CB!Succeed(c)
    BY <1>3, <2>1 DEF CB!Succeed
  <2>3. CB!TypeOK'
    BY <1>1, <1>3, <2>1, SuccessTypes DEF CB!TypeOK, CB!CallStates
  <2>4. CacheInv'
    BY <1>1, <1>2, <2>3, NoReqType, PutType DEF CacheInv, TypeOK
  <2> QED BY <2>2, <2>4 DEF Seen, CB!Next
<1>5. CASE ~req[c].ok
  <2>1. CB!RecordFailure
    BY <1>5 DEF Report
  <2>2. CB!Fail(c)
    BY <1>3, <2>1 DEF CB!Fail
  <2>3. CB!TypeOK'
    BY <1>1, <1>3, <2>1, FailureTypes DEF CB!TypeOK, CB!CallStates
  <2>4. CacheInv'
    BY <1>1, <1>2, <2>3, NoReqType, PutType DEF CacheInv, TypeOK
  <2> QED BY <2>2, <2>4 DEF Seen, CB!Next
<1> QED BY <1>4, <1>5

\* DeletePattern passes the breaker by.
LEMMA PatternStep ==
    ASSUME CacheInv, NEW c \in Callers, SendKeys(c) \/ SendDel(c)
    PROVE  Seen /\ CacheInv'
<1> DEFINE d == [req[c] EXCEPT !.at = "del", !.found = {req[c].key}]
<1>1. /\ req \in [Callers -> Requests] /\ req[c] \in Requests
      /\ req[c].at \in {"keys", "del"} /\ req[c].mode = "idle"
      /\ UNCHANGED breaker /\ UNCHANGED <<l1, redis, outage>>
      /\ req[c].key \in Keys
  BY DEF SendKeys, SendDel, CacheInv, TypeOK, At, Requests
<1>2. d \in Requests /\ d.mode = "idle"
  BY <1>1 DEF Requests, Shapes
<1>3. Put(c, d) \/ Put(c, NoReq)
  BY DEF SendKeys, SendDel
<1> HIDE DEF d
<1>4. /\ l1' \subseteq Keys /\ l2' \subseteq Keys /\ redis' \in {"up", "down"}
      /\ outage' \in BOOLEAN
  BY <1>1 DEF SendKeys, SendDel, CacheInv, TypeOK
<1> QED BY <1>1, <1>2, <1>3, <1>4, NoReqType, QuietStep

\* The environment: entries expire, time passes, Redis comes and goes.
LEMMA EnvironmentStep ==
    ASSUME CacheInv, Tick \/ RedisChanges \/ (\E k \in Keys : Expire(k))
    PROVE  Seen /\ CacheInv'
<1>1. req' = req /\ Calls' = Calls
  BY DEF Tick, RedisChanges, Expire, Calls
<1>2. /\ l1' \subseteq Keys /\ l2' \subseteq Keys /\ redis' \in {"up", "down"}
      /\ outage' \in BOOLEAN
  BY DEF Tick, RedisChanges, Expire, CacheInv, TypeOK
<1>3. CASE Tick
  <2>1. CB!Tick
    BY <1>1, <1>3 DEF Tick, CB!Tick, CB!history
  <2>2. CB!TypeOK'
    BY <1>1, <1>3, CacheConstants DEF Tick, CacheInv, TypeOK, CB!TypeOK
  <2> QED BY <1>1, <1>2, <2>1, <2>2 DEF Seen, CB!Next, CacheInv, TypeOK
<1>4. CASE ~Tick
  <2>1. UNCHANGED breaker
    BY <1>4 DEF RedisChanges, Expire
  <2>2. Seen /\ CB!TypeOK'
    BY <1>1, <2>1, Unseen
  <2> QED BY <1>1, <1>2, <2>2 DEF CacheInv, TypeOK
<1> QED BY <1>3, <1>4

LEMMA CacheStep == CacheInv /\ [Next]_vars => Seen /\ CacheInv'
<1> SUFFICES ASSUME CacheInv, [Next]_vars PROVE Seen /\ CacheInv'
  OBVIOUS
<1>1. ASSUME NEW c \in Callers, Continue(c) PROVE Seen /\ CacheInv'
  BY <1>1, AskStep, AnswerStep, PromoteStep, ReportStep, PatternStep DEF Continue
<1>2. ASSUME NEW c \in Callers, NEW op \in Ops, NEW k \in Keys, Begin(c, op, k)
      PROVE  Seen /\ CacheInv'
  BY <1>2, BeginStep
<1>3. CASE Tick \/ RedisChanges \/ (\E k \in Keys : Expire(k))
  BY <1>3, EnvironmentStep
<1>4. CASE UNCHANGED vars
  <2>1. UNCHANGED breaker /\ Calls' = Calls /\ UNCHANGED <<l1, l2, redis, req, outage>>
    BY <1>4 DEF vars, Calls
  <2>2. Seen /\ CB!TypeOK'
    BY <2>1, Unseen
  <2> QED BY <2>1, <2>2 DEF CacheInv, TypeOK
<1> QED BY <1>1, <1>2, <1>3, <1>4 DEF Next

-----------------------------------------------------------------------------
(***************************************************************************)
(* The theorems.                                                           *)
(***************************************************************************)
\* Requests keep their shape: one is known to the breaker exactly between its
\* admission and its report.
LEMMA CacheInvariant == Spec => []CacheInv
BY CacheStarts, CacheStep, PTL DEF Spec

\* The type invariant of the cache: the breaker's counters stay in their
\* ranges, and a caller holds an admission exactly from Execute's allow to its
\* report (backend/internal/cache/circuit_breaker.go, Execute).
THEOREM TypeCorrect == Spec => []TypeOK
<1>1. CacheInv => TypeOK
  BY DEF CacheInv
<1> QED BY <1>1, CacheInvariant, PTL

\* Every step of Get, Set, Delete and DeletePattern is a step of the
\* breaker's specification or none at all: each protected call is admitted
\* first and reported once, whether Redis answers, misses or fails.
THEOREM BreakerUsedProperly == Spec => UsesBreakerProperly
<1>1. Init => CB!Init
  BY CacheStarts
<1>2. CacheInv /\ [Next]_vars => [CB!Next]_(CB!vars)
  BY CacheStep DEF Seen
<1> QED BY <1>1, <1>2, CacheInvariant, PTL DEF Spec, UsesBreakerProperly, CB!Spec

\* The breaker the theorems of CircuitBreakerProofs are about is this one.
LEMMA SameBreaker == CB!Spec => CBP!Spec
<1>1. CB!Init => CBP!Init
  BY DEF CB!Init, CBP!Init, CB!Backends, CBP!Backends
<1>2. CB!vars = CBP!vars
  BY DEF CB!vars, CBP!vars
<1>3. CB!Next => CBP!Next
  BY DEF CB!Next, CB!Admit, CB!Fail, CB!Succeed, CB!Tick, CB!BackendChanges,
         CB!Allow, CB!MayAttemptReset, CB!HalfOpenAdmits, CB!RecordFailure,
         CB!RecordSuccess, CB!Trips, CB!Closes, CB!ReopenOnFailure,
         CB!ForgiveFailures, CB!AtMost, CB!breakerVars, CB!history, CB!Backends,
         CBP!Next, CBP!Admit, CBP!Fail, CBP!Succeed, CBP!Tick, CBP!BackendChanges,
         CBP!Allow, CBP!MayAttemptReset, CBP!HalfOpenAdmits, CBP!RecordFailure,
         CBP!RecordSuccess, CBP!Trips, CBP!Closes, CBP!ReopenOnFailure,
         CBP!ForgiveFailures, CBP!AtMost, CBP!breakerVars, CBP!history, CBP!Backends
<1>4. [CB!Next]_(CB!vars) => [CBP!Next]_(CBP!vars)
  BY <1>3 DEF CB!vars, CBP!vars
<1> QED BY <1>1, <1>4, PTL DEF CB!Spec, CBP!Spec

\* In the cache, too, a half-open breaker has waited out its timeout, a closed
\* one is below its threshold, and no counter claims more than was reported in
\* a row, with cache misses among the failures.
THEOREM BreakerInvariantInCache == Spec => []CB!BreakerInv
<1>1. CBP!BreakerInv => CB!BreakerInv
  BY DEF CB!BreakerInv, CB!TypeOK, CB!FailuresMatchState, CB!SuccessesOnlyHalfOpen,
         CB!HalfOpenIsCooled, CB!CountersAreEvidence, CB!States, CB!CallStates,
         CB!Backends,
         CBP!BreakerInv, CBP!TypeOK, CBP!FailuresMatchState,
         CBP!SuccessesOnlyHalfOpen, CBP!HalfOpenIsCooled, CBP!CountersAreEvidence,
         CBP!States, CBP!CallStates, CBP!Backends
<1>2. CB!Spec => []CBP!BreakerInv
  BY SameBreaker, CBP!BreakerInvariant, CacheConstants
<1>3. CB!Spec => []CB!BreakerInv
  BY <1>1, <1>2, PTL
<1> QED BY <1>3, BreakerUsedProperly DEF UsesBreakerProperly

\* While the breaker is hot, no cache call goes to Redis through it: with fewer
\* than Timeout ticks since the last reported failure, a miss included, only a
\* closed breaker admits a Get, a Set or a Delete.
THEOREM CacheFailsFast ==
    Spec => [][\A c \in Callers : At(c, "ask") /\ At(c, "exec")'
                => state = "Closed" \/ sinceFailure >= Timeout]_vars
<1>1. CacheInv /\ CB!BreakerInv /\ [Next]_vars
        => [\A c \in Callers : At(c, "ask") /\ At(c, "exec")'
                => state = "Closed" \/ sinceFailure >= Timeout]_vars
  <2> SUFFICES ASSUME CacheInv, CB!BreakerInv, Next,
                      NEW c \in Callers, At(c, "ask"), At(c, "exec")'
               PROVE  state = "Closed" \/ sinceFailure >= Timeout
    BY DEF vars
  <2>1. req \in [Callers -> Requests] /\ req[c].at = "ask" /\ req'[c].at = "exec"
    BY DEF CacheInv, At
  <2>2. ASSUME NEW d \in Callers, NEW r, Put(d, r), d # c PROVE FALSE
    <3>1. req'[c] = req[c]
      BY <2>1, <2>2 DEF Put
    <3> QED BY <2>1, <3>1
  <2>3. ASSUME NEW d \in Callers, NEW op \in Ops, NEW k \in Keys, Begin(d, op, k)
        PROVE  FALSE
    <3>1. d # c
      BY <2>1, <2>3 DEF Begin, At
    <3> QED BY <2>2, <2>3, <3>1 DEF Begin
  <2>4. ASSUME NEW d \in Callers, Continue(d) PROVE d = c
    BY <2>2, <2>4
       DEF Continue, Ask, Answer, TimeOut, Promote, Report, SendKeys, SendDel
  <2>5. Continue(c)
    BY <2>1, <2>3, <2>4 DEF Next, Tick, RedisChanges, Expire
  <2>6. Ask(c)
    BY <2>1, <2>5
       DEF Continue, Answer, TimeOut, Promote, Report, SendKeys, SendDel, At
  <2>7. CB!Allow
    <3>1. NoReq.at = "idle"
      BY DEF NoReq
    <3> QED BY <2>1, <2>6, <3>1 DEF Ask, Put, Admitted
  <2> QED
    BY <2>7 DEF CB!Allow, CB!MayAttemptReset, CB!BreakerInv, CB!HalfOpenIsCooled
<1> QED BY <1>1, CacheInvariant, BreakerInvariantInCache, PTL DEF Spec
=============================================================================
