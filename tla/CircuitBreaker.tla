--------------------------- MODULE CircuitBreaker ---------------------------
(***************************************************************************)
(* The circuit breaker in front of the Redis cache                         *)
(* (backend/internal/cache/circuit_breaker.go).                            *)
(*                                                                         *)
(* Execute() takes the breaker's lock twice: once to ask for admission     *)
(* (allow, a read lock) and once to report the outcome (recordFailure or   *)
(* recordSuccess, the write lock).  The protected call runs in between     *)
(* without the lock, so the breaker may trip, cool down, recover and trip  *)
(* again while a call it admitted long ago is still in flight.  Each       *)
(* caller is therefore a process with two steps, Admit and Complete.       *)
(*                                                                         *)
(* A rejected call (ErrCircuitBreakerOpen) changes nothing at all: it is a *)
(* stuttering step and has no action.                                      *)
(***************************************************************************)
EXTENDS Integers

CONSTANTS Callers,           \* goroutines that go through Execute
          MaxFailures,       \* CircuitBreakerConfig.MaxFailures
          HalfOpenMaxCalls,  \* CircuitBreakerConfig.HalfOpenMaxCalls
          Timeout,           \* CircuitBreakerConfig.Timeout, in clock ticks
          FailureCap         \* bound: failureCount saturates here

ASSUME BreakerConstants ==
    /\ MaxFailures \in Nat \ {0}
    /\ HalfOpenMaxCalls \in Nat \ {0}
    /\ Timeout \in Nat
    /\ FailureCap \in Nat /\ FailureCap >= MaxFailures

VARIABLES
    state,         \* cb.state
    failureCount,  \* cb.failureCount, saturating at FailureCap
    successCount,  \* cb.successCount
    sinceFailure,  \* time.Since(cb.lastFailureTime), saturating at Timeout
    call,          \* call[c]: what caller c is doing
    backend,       \* environment: how the protected service behaves
    failRun,       \* history: failures reported since the last success
    okRun          \* history: successes reported since the last failure

breakerVars == <<state, failureCount, successCount, sinceFailure>>
history == <<failRun, okRun>>
vars == <<state, failureCount, successCount, sinceFailure, call, backend,
          failRun, okRun>>

States == {"Closed", "Open", "HalfOpen"}
Backends == {"up", "down", "flaky"}

AtMost(n, bound) == IF n <= bound THEN n ELSE bound

\* A call in flight is "regular" when it was admitted by a closed breaker and
\* a "probe" when it was admitted by an open or half-open one.
CallStates == {"idle", "regular", "probe"}

TypeOK ==
    /\ state \in States
    /\ failureCount \in 0..FailureCap
    /\ successCount \in 0..HalfOpenMaxCalls
    /\ sinceFailure \in 0..Timeout
    /\ call \in [Callers -> CallStates]
    /\ backend \in Backends
    /\ failRun \in 0..MaxFailures
    /\ okRun \in 0..HalfOpenMaxCalls

\* NewCircuitBreaker: closed, zero counters, and a zero lastFailureTime that
\* lies further back than any timeout.
Init ==
    /\ state = "Closed"
    /\ failureCount = 0
    /\ successCount = 0
    /\ sinceFailure = Timeout
    /\ call = [c \in Callers |-> "idle"]
    /\ backend \in Backends
    /\ failRun = 0
    /\ okRun = 0
-----------------------------------------------------------------------------
(***************************************************************************)
(* Mutants: plausible slips in the operators that follow.                  *)
(***************************************************************************)
TripsEarly(n) == n + 1 >= MaxFailures
TripsNever(n) == FALSE
HalfOpenAdmitsOneLess == successCount + 1 < HalfOpenMaxCalls
ReopenForgotten == UNCHANGED <<state, successCount>>
ForgiveForgotten == UNCHANGED <<state, failureCount, successCount>>
ClosesEarly(n) == n + 1 >= HalfOpenMaxCalls
ClosesNever(n) == FALSE
-----------------------------------------------------------------------------
\* shouldAttemptReset
MayAttemptReset == sinceFailure >= Timeout

\* The half-open branch of allow.
HalfOpenAdmits == successCount < HalfOpenMaxCalls

\* allow: what Execute asks before it makes the call.
Allow == \/ state = "Closed"
         \/ state = "Open" /\ MayAttemptReset
         \/ state = "HalfOpen" /\ HalfOpenAdmits

\* Execute up to the call of fn.
Admit(c) ==
    /\ call[c] = "idle"
    /\ Allow
    /\ call' = [call EXCEPT ![c] = IF state = "Closed" THEN "regular" ELSE "probe"]
    /\ UNCHANGED <<breakerVars, backend, history>>

\* The closed branch of recordFailure: does this many failures trip it.
Trips(n) == n >= MaxFailures

\* The half-open branch of recordFailure.
ReopenOnFailure == state' = "Open" /\ successCount' = 0

\* recordFailure.  In the open state (a call admitted before the trip, or a
\* failed probe) only the counter and the time of the last failure move.
RecordFailure ==
    /\ failureCount' = AtMost(failureCount + 1, FailureCap)
    /\ sinceFailure' = 0
    /\ \/ /\ state = "Closed"
          /\ state' = IF Trips(failureCount + 1) THEN "Open" ELSE "Closed"
          /\ UNCHANGED successCount
       \/ /\ state = "HalfOpen"
          /\ ReopenOnFailure
       \/ /\ state = "Open"
          /\ UNCHANGED <<state, successCount>>
    /\ failRun' = AtMost(failRun + 1, MaxFailures)
    /\ okRun' = 0

\* The closed branch of recordSuccess.
ForgiveFailures == failureCount' = 0 /\ UNCHANGED <<state, successCount>>

\* The half-open branch of recordSuccess: do this many successes close it.
Closes(n) == n >= HalfOpenMaxCalls

\* recordSuccess
RecordSuccess ==
    /\ \/ state = "Closed" /\ ForgiveFailures
       \/ /\ state = "HalfOpen"
          /\ IF Closes(successCount + 1)
             THEN state' = "Closed" /\ failureCount' = 0 /\ successCount' = 0
             ELSE /\ successCount' = successCount + 1
                  /\ UNCHANGED <<state, failureCount>>
       \/ /\ state = "Open" /\ MayAttemptReset
          /\ state' = "HalfOpen" /\ successCount' = 1
          /\ UNCHANGED failureCount
       \/ /\ state = "Open" /\ ~MayAttemptReset
          /\ UNCHANGED <<state, successCount, failureCount>>
    /\ okRun' = AtMost(okRun + 1, HalfOpenMaxCalls)
    /\ failRun' = 0
    /\ UNCHANGED sinceFailure

\* Execute from the return of fn on.
Fail(c) ==
    /\ call[c] # "idle"
    /\ backend # "up"
    /\ RecordFailure
    /\ call' = [call EXCEPT ![c] = "idle"]
    /\ UNCHANGED backend

Succeed(c) ==
    /\ call[c] # "idle"
    /\ backend # "down"
    /\ RecordSuccess
    /\ call' = [call EXCEPT ![c] = "idle"]
    /\ UNCHANGED backend

Complete(c) == Fail(c) \/ Succeed(c)

\* The clock, as far as shouldAttemptReset can tell.
Tick ==
    /\ sinceFailure < Timeout
    /\ sinceFailure' = sinceFailure + 1
    /\ UNCHANGED <<state, failureCount, successCount, call, backend, history>>

\* Environment: Redis goes down, comes back, or answers erratically.
BackendChanges(b) ==
    /\ b # backend
    /\ backend' = b
    /\ UNCHANGED <<breakerVars, call, history>>

Next ==
    \/ \E c \in Callers : Admit(c) \/ Fail(c) \/ Succeed(c)
    \/ Tick
    \/ \E b \in Backends : BackendChanges(b)

Spec == Init /\ [][Next]_vars

\* Time passes, every admitted call returns (the Redis client has read, write
\* and dial timeouts), and requests keep arriving.  Nothing is assumed of Redis.
Fairness ==
    /\ WF_vars(Tick)
    /\ \A c \in Callers : WF_vars(Admit(c)) /\ WF_vars(Complete(c))

FairSpec == Spec /\ Fairness
-----------------------------------------------------------------------------
(***************************************************************************)
(* Safety.                                                                 *)
(***************************************************************************)
\* Whatever calls are in flight and whenever they report, a closed breaker has
\* never counted its way to the threshold, and a breaker that is not closed
\* still holds the failures that tripped it (recordSuccess in the half-open
\* state is the only place that may forget them).
FailuresMatchState ==
    (state = "Closed") <=> (failureCount < MaxFailures)

\* successCount is live in the half-open state only, where it never reaches
\* the number that makes allow() refuse: with two or more half-open calls
\* configured the breaker cannot wedge half-open.
SuccessesMatchState ==
    /\ state # "HalfOpen" => successCount = 0
    /\ state = "HalfOpen" => successCount \in 1..(HalfOpenMaxCalls - 1)

\* Half-open means the whole timeout has passed without one reported failure,
\* also for failures of calls admitted before the trip.
HalfOpenIsCooled == state = "HalfOpen" => sinceFailure >= Timeout

\* The counters never claim more evidence than was reported in a row.
CountersAreEvidence ==
    /\ state = "Closed" => failureCount <= failRun
    /\ successCount <= okRun

\* A half-open breaker has counted a success, and only a half-open one has.
SuccessesOnlyHalfOpen ==
    (state = "HalfOpen") <=> (successCount > 0)

\* The state and the counters agree in every interleaving of late reports: the
\* breaker is closed exactly below the threshold, half-open exactly with
\* successes counted and the timeout over, and no counter exceeds what was
\* reported in a row.  (Inductive.)
BreakerInv ==
    /\ TypeOK
    /\ FailuresMatchState
    /\ SuccessesOnlyHalfOpen
    /\ HalfOpenIsCooled
    /\ CountersAreEvidence

\* Fast-fail (README.md:688): while fewer than Timeout ticks have passed since
\* the last reported failure, only a closed breaker admits a call.
FastFailWhileHot ==
    [][\A c \in Callers : call[c] = "idle" /\ call'[c] # "idle"
            => state = "Closed" \/ sinceFailure >= Timeout]_vars

\* The breaker trips only on an unbroken run of MaxFailures failures: stale
\* results that arrive out of order never make up the difference.
TripsOnlyOnEvidence ==
    [][state = "Closed" /\ state' # "Closed"
            => state' = "Open" /\ failRun' >= MaxFailures]_vars

\* The breaker closes only on an unbroken run of HalfOpenMaxCalls successes,
\* the last failure being at least Timeout ticks old.
ClosesOnlyOnEvidence ==
    [][state # "Closed" /\ state' = "Closed"
            => okRun' >= HalfOpenMaxCalls /\ sinceFailure >= Timeout]_vars

(***************************************************************************)
(* The breaker implements the state machine its users are promised.  The   *)
(* failures still counted by an open or half-open breaker are invisible.   *)
(***************************************************************************)
CountedFailures == IF state = "Closed" THEN failureCount ELSE 0

BP == INSTANCE BreakerPromise
        WITH mode <- state, fails <- CountedFailures, oks <- successCount

ImplementsPromise == BP!Promise

(***************************************************************************)
(* Liveness.                                                               *)
(***************************************************************************)
\* Once Redis stays up the breaker ends up closed for good, whatever failures
\* of older calls were still to be reported.
RecoversWhenUp == <>[](backend = "up") => <>[](state = "Closed")

\* Once Redis stays down the breaker leaves the closed state for good.
TripsWhenDown == <>[](backend = "down") => <>[](state # "Closed")
=============================================================================
