------------------------ MODULE CircuitBreakerProofs ------------------------
(***************************************************************************)
(* Theorems about CircuitBreaker, for every set of callers and every       *)
(* configuration.  BreakerInv is inductive; it is what trips and           *)
(* recoveries rest on, since it ties the counters to the failures and      *)
(* successes that were reported in a row.                                  *)
(***************************************************************************)
EXTENDS CircuitBreaker, TLAPS

\* The breaker starts within the invariant.
LEMMA InitInv == Init => BreakerInv
BY BreakerConstants
   DEF Init, BreakerInv, TypeOK, FailuresMatchState, SuccessesOnlyHalfOpen,
       HalfOpenIsCooled, CountersAreEvidence, States, CallStates

\* A reported failure preserves the invariant, whoever reports it and however
\* late it comes.
LEMMA FailKeepsInv ==
    ASSUME BreakerInv, NEW c \in Callers, Fail(c)
    PROVE  BreakerInv'
<1> USE BreakerConstants DEF BreakerInv, TypeOK, States, CallStates
<1>1. /\ failureCount' \in 0..FailureCap
      /\ failureCount + 1 < MaxFailures => failureCount' = failureCount + 1
      /\ failureCount + 1 >= MaxFailures => failureCount' >= MaxFailures
  BY DEF Fail, RecordFailure, AtMost
<1>2. /\ failRun' \in 0..MaxFailures
      /\ \A m \in Nat : m <= failRun /\ m + 1 <= MaxFailures => m + 1 <= failRun'
      /\ okRun' = 0 /\ sinceFailure' = 0
  BY DEF Fail, RecordFailure, AtMost
<1>3. call' \in [Callers -> CallStates] /\ backend' = backend
  BY DEF Fail
<1>4. CASE state = "Closed"
  <2>1. /\ state' = IF Trips(failureCount + 1) THEN "Open" ELSE "Closed"
        /\ successCount' = successCount
    BY <1>4 DEF Fail, RecordFailure
  <2>2. FailuresMatchState'
    BY <1>1, <2>1 DEF FailuresMatchState, Trips
  <2>3. SuccessesOnlyHalfOpen' /\ HalfOpenIsCooled'
    BY <1>4, <2>1 DEF SuccessesOnlyHalfOpen, HalfOpenIsCooled
  <2>4. CountersAreEvidence'
    <3>1. state' = "Closed" => failureCount' = failureCount + 1
      BY <1>1, <2>1 DEF Trips
    <3>2. state' = "Closed" => failureCount + 1 <= failRun'
      BY <1>2, <1>4, <2>1 DEF Trips, CountersAreEvidence
    <3>3. successCount' <= okRun'
      BY <1>2, <1>4, <2>1 DEF SuccessesOnlyHalfOpen
    <3> QED BY <3>1, <3>2, <3>3 DEF CountersAreEvidence
  <2> QED BY <1>1, <1>2, <1>3, <2>1, <2>2, <2>3, <2>4
<1>5. CASE state # "Closed"
  <2>1. state' = "Open" /\ successCount' = 0
    BY <1>5 DEF Fail, RecordFailure, ReopenOnFailure, SuccessesOnlyHalfOpen
  <2>2. failureCount' >= MaxFailures
    BY <1>1, <1>5 DEF FailuresMatchState
  <2> QED
    BY <1>1, <1>2, <1>3, <2>1, <2>2
       DEF FailuresMatchState, SuccessesOnlyHalfOpen, HalfOpenIsCooled,
           CountersAreEvidence
<1> QED BY <1>4, <1>5

\* So does a reported success.
LEMMA SucceedKeepsInv ==
    ASSUME BreakerInv, NEW c \in Callers, Succeed(c)
    PROVE  BreakerInv'
<1> USE BreakerConstants DEF BreakerInv, TypeOK, States, CallStates
<1>1. /\ okRun' \in 0..HalfOpenMaxCalls
      /\ \A m \in Nat : m <= okRun /\ m + 1 <= HalfOpenMaxCalls => m + 1 <= okRun'
      /\ failRun' = 0 /\ sinceFailure' = sinceFailure
  BY DEF Succeed, RecordSuccess, AtMost
<1>2. call' \in [Callers -> CallStates] /\ backend' = backend
  BY DEF Succeed
<1>3. CASE state = "Closed"
  <2>1. failureCount' = 0 /\ state' = state /\ successCount' = successCount
    BY <1>3 DEF Succeed, RecordSuccess, ForgiveFailures
  <2> QED
    BY <1>1, <1>2, <1>3, <2>1
       DEF FailuresMatchState, SuccessesOnlyHalfOpen, HalfOpenIsCooled,
           CountersAreEvidence
<1>4. CASE state = "HalfOpen" /\ Closes(successCount + 1)
  <2>1. state' = "Closed" /\ failureCount' = 0 /\ successCount' = 0
    BY <1>4 DEF Succeed, RecordSuccess
  <2> QED
    BY <1>1, <1>2, <2>1
       DEF FailuresMatchState, SuccessesOnlyHalfOpen, HalfOpenIsCooled,
           CountersAreEvidence
<1>5. CASE state = "HalfOpen" /\ ~Closes(successCount + 1)
  <2>1. /\ successCount' = successCount + 1
        /\ state' = state /\ failureCount' = failureCount
    BY <1>5 DEF Succeed, RecordSuccess
  <2>2. successCount' \in 0..HalfOpenMaxCalls /\ successCount' <= okRun'
    BY <1>1, <1>5, <2>1 DEF Closes, CountersAreEvidence
  <2> QED
    BY <1>1, <1>2, <1>5, <2>1, <2>2
       DEF FailuresMatchState, SuccessesOnlyHalfOpen, HalfOpenIsCooled,
           CountersAreEvidence
<1>6. CASE state = "Open" /\ MayAttemptReset
  <2>1. state' = "HalfOpen" /\ successCount' = 1 /\ failureCount' = failureCount
    BY <1>6 DEF Succeed, RecordSuccess
  <2>2. 1 <= okRun'
    BY <1>1
  <2> QED
    BY <1>1, <1>2, <1>6, <2>1, <2>2
       DEF FailuresMatchState, SuccessesOnlyHalfOpen, HalfOpenIsCooled,
           CountersAreEvidence, MayAttemptReset
<1>7. CASE state = "Open" /\ ~MayAttemptReset
  <2>1. UNCHANGED <<state, successCount, failureCount>>
    BY <1>7 DEF Succeed, RecordSuccess
  <2> QED
    BY <1>1, <1>2, <1>7, <2>1
       DEF FailuresMatchState, SuccessesOnlyHalfOpen, HalfOpenIsCooled,
           CountersAreEvidence
<1> QED BY <1>3, <1>4, <1>5, <1>6, <1>7

\* Every step preserves the invariant.
LEMMA NextKeepsInv == BreakerInv /\ [Next]_vars => BreakerInv'
<1> SUFFICES ASSUME BreakerInv, [Next]_vars PROVE BreakerInv'
  OBVIOUS
<1> USE BreakerConstants
<1>1. ASSUME NEW c \in Callers, Admit(c) PROVE BreakerInv'
  BY <1>1
     DEF Admit, breakerVars, history, BreakerInv, TypeOK, States, CallStates,
         FailuresMatchState, SuccessesOnlyHalfOpen, HalfOpenIsCooled,
         CountersAreEvidence
<1>2. CASE Tick
  BY <1>2
     DEF Tick, history, BreakerInv, TypeOK, FailuresMatchState,
         SuccessesOnlyHalfOpen, HalfOpenIsCooled, CountersAreEvidence
<1>3. ASSUME NEW b \in Backends, BackendChanges(b) PROVE BreakerInv'
  BY <1>3
     DEF BackendChanges, breakerVars, history, BreakerInv, TypeOK,
         FailuresMatchState, SuccessesOnlyHalfOpen, HalfOpenIsCooled,
         CountersAreEvidence
<1>4. CASE UNCHANGED vars
  BY <1>4
     DEF vars, BreakerInv, TypeOK, FailuresMatchState, SuccessesOnlyHalfOpen,
         HalfOpenIsCooled, CountersAreEvidence
<1> QED
  BY <1>1, <1>2, <1>3, <1>4, FailKeepsInv, SucceedKeepsInv DEF Next

\* The inductive invariant of the breaker.
THEOREM BreakerInvariant == Spec => []BreakerInv
BY InitInv, NextKeepsInv, PTL DEF Spec

\* The variables keep their types in every behaviour.
THEOREM TypeCorrect == Spec => []TypeOK
<1>1. BreakerInv => TypeOK
  BY DEF BreakerInv
<1> QED BY <1>1, BreakerInvariant, PTL

\* Whatever is in flight: closed exactly while below the failure threshold.
THEOREM ClosedIffBelowThreshold == Spec => []FailuresMatchState
<1>1. BreakerInv => FailuresMatchState
  BY DEF BreakerInv
<1> QED BY <1>1, BreakerInvariant, PTL

\* A half-open breaker has seen no failure for the whole timeout.
THEOREM HalfOpenCooled == Spec => []HalfOpenIsCooled
<1>1. BreakerInv => HalfOpenIsCooled
  BY DEF BreakerInv
<1> QED BY <1>1, BreakerInvariant, PTL
-----------------------------------------------------------------------------
\* With at least two half-open calls configured, a half-open breaker never
\* reaches the count at which allow() refuses everybody.
THEOREM NeverWedgedHalfOpen ==
    ASSUME HalfOpenMaxCalls >= 2
    PROVE  Spec => []SuccessesMatchState
<1>1. TypeOK /\ SuccessesOnlyHalfOpen /\ successCount < HalfOpenMaxCalls
        => SuccessesMatchState
  BY BreakerConstants DEF TypeOK, SuccessesOnlyHalfOpen, SuccessesMatchState
<1> DEFINE Below == successCount < HalfOpenMaxCalls
<1>2. Init => Below
  BY BreakerConstants DEF Init
<1>3. BreakerInv /\ Below /\ [Next]_vars => Below'
  <2> SUFFICES ASSUME BreakerInv, Below, [Next]_vars PROVE Below'
    OBVIOUS
  <2> USE BreakerConstants DEF BreakerInv, TypeOK
  <2>1. ASSUME NEW c \in Callers, Fail(c) PROVE Below'
    BY <2>1 DEF Fail, RecordFailure, ReopenOnFailure
  <2>2. ASSUME NEW c \in Callers, Succeed(c) PROVE Below'
    BY <2>2 DEF Succeed, RecordSuccess, ForgiveFailures, Closes
  <2>3. ASSUME NEW c \in Callers, Admit(c) PROVE Below'
    BY <2>3 DEF Admit, breakerVars
  <2>4. CASE Tick
    BY <2>4 DEF Tick
  <2>5. ASSUME NEW b \in Backends, BackendChanges(b) PROVE Below'
    BY <2>5 DEF BackendChanges, breakerVars
  <2>6. CASE UNCHANGED vars
    BY <2>6 DEF vars
  <2> QED BY <2>1, <2>2, <2>3, <2>4, <2>5, <2>6 DEF Next
<1>4. BreakerInv /\ Below => SuccessesMatchState
  BY <1>1 DEF BreakerInv
<1> HIDE DEF Below
<1> QED BY <1>2, <1>3, <1>4, BreakerInvariant, PTL DEF Spec

\* Only Fail and Succeed touch the breaker's state.
LEMMA StateMovesOnReport ==
    ASSUME [Next]_vars, state' # state
    PROVE  \E c \in Callers : Fail(c) \/ Succeed(c)
BY DEF Next, vars, Admit, Tick, BackendChanges, breakerVars

\* Every trip is backed by MaxFailures failures reported in a row.
THEOREM TripsOnlyOnEvidenceHolds == Spec => TripsOnlyOnEvidence
<1>1. ASSUME BreakerInv, [Next]_vars, state = "Closed", state' # "Closed"
      PROVE  state' = "Open" /\ failRun' >= MaxFailures
  <2>1. PICK c \in Callers : Fail(c) \/ Succeed(c)
    BY <1>1, StateMovesOnReport
  <2>2. ~Succeed(c)
    BY <1>1 DEF Succeed, RecordSuccess, ForgiveFailures
  <2>3. Fail(c)
    BY <2>1, <2>2
  <2>4. state' = "Open" /\ failureCount + 1 >= MaxFailures
    BY <1>1, <2>3 DEF Fail, RecordFailure, Trips
  <2>5. failRun + 1 >= MaxFailures
    BY <1>1, <2>4, BreakerConstants
       DEF BreakerInv, CountersAreEvidence, TypeOK
  <2>6. failRun' >= MaxFailures
    BY <1>1, <2>3, <2>5, BreakerConstants
       DEF Fail, RecordFailure, AtMost, BreakerInv, TypeOK
  <2> QED BY <2>4, <2>6
<1>2. BreakerInv /\ [Next]_vars
        => [state = "Closed" /\ state' # "Closed"
              => state' = "Open" /\ failRun' >= MaxFailures]_vars
  BY <1>1
<1> QED BY <1>2, BreakerInvariant, PTL DEF Spec, TripsOnlyOnEvidence

\* Every recovery is backed by HalfOpenMaxCalls successes reported in a row,
\* none of them within Timeout of a failure.
THEOREM ClosesOnlyOnEvidenceHolds == Spec => ClosesOnlyOnEvidence
<1>1. ASSUME BreakerInv, [Next]_vars, state # "Closed", state' = "Closed"
      PROVE  okRun' >= HalfOpenMaxCalls /\ sinceFailure >= Timeout
  <2>1. PICK c \in Callers : Fail(c) \/ Succeed(c)
    BY <1>1, StateMovesOnReport
  <2>2. ~Fail(c)
    BY <1>1 DEF Fail, RecordFailure, ReopenOnFailure
  <2>3. Succeed(c)
    BY <2>1, <2>2
  <2>4. state = "HalfOpen" /\ successCount + 1 >= HalfOpenMaxCalls
    BY <1>1, <2>3 DEF Succeed, RecordSuccess, Closes
  <2>5. okRun' >= HalfOpenMaxCalls
    BY <1>1, <2>3, <2>4, BreakerConstants
       DEF Succeed, RecordSuccess, AtMost, BreakerInv, TypeOK,
           CountersAreEvidence
  <2>6. sinceFailure >= Timeout
    BY <1>1, <2>4 DEF BreakerInv, HalfOpenIsCooled
  <2> QED BY <2>5, <2>6
<1>2. BreakerInv /\ [Next]_vars
        => [state # "Closed" /\ state' = "Closed"
              => okRun' >= HalfOpenMaxCalls /\ sinceFailure >= Timeout]_vars
  BY <1>1
<1> QED BY <1>2, BreakerInvariant, PTL DEF Spec, ClosesOnlyOnEvidence

\* Within Timeout of a reported failure only a closed breaker lets calls through.
THEOREM FastFailWhileHotHolds == Spec => FastFailWhileHot
<1> DEFINE Goal == \A c \in Callers : call[c] = "idle" /\ call'[c] # "idle"
                      => state = "Closed" \/ sinceFailure >= Timeout
<1>1. ASSUME BreakerInv, [Next]_vars PROVE Goal
  <2> SUFFICES ASSUME NEW d \in Callers, call[d] = "idle", call'[d] # "idle"
               PROVE  state = "Closed" \/ sinceFailure >= Timeout
    OBVIOUS
  <2> USE <1>1 DEF BreakerInv, TypeOK
  <2>1. ASSUME NEW c \in Callers, Admit(c)
        PROVE  state = "Closed" \/ sinceFailure >= Timeout
    BY <2>1 DEF Admit, Allow, MayAttemptReset, HalfOpenIsCooled
  <2>2. ASSUME NEW c \in Callers, Fail(c) \/ Succeed(c) PROVE FALSE
    BY <2>2 DEF Fail, Succeed
  <2>3. ASSUME Tick \/ UNCHANGED vars PROVE FALSE
    BY <2>3 DEF Tick, vars
  <2>4. ASSUME NEW b \in Backends, BackendChanges(b) PROVE FALSE
    BY <2>4 DEF BackendChanges
  <2> QED BY <2>1, <2>2, <2>3, <2>4 DEF Next
<1>2. BreakerInv /\ [Next]_vars => [Goal]_vars
  BY <1>1
<1> QED BY <1>2, BreakerInvariant, PTL DEF Spec, FastFailWhileHot
-----------------------------------------------------------------------------
(***************************************************************************)
(* The breaker implements the promised state machine.                      *)
(***************************************************************************)
\* A reported failure is CountFailure, Trip, Reopen or, in the open state,
\* invisible.
LEMMA FailRefines ==
    ASSUME BreakerInv, NEW c \in Callers, Fail(c)
    PROVE  [BP!PromiseNext]_(BP!promiseVars)
<1> USE BreakerConstants
    DEF BreakerInv, TypeOK, BP!PromiseNext, BP!promiseVars, CountedFailures
<1>1. CASE state = "Closed" /\ ~Trips(failureCount + 1)
  <2>1. /\ state' = "Closed" /\ successCount' = successCount
        /\ failureCount' = failureCount + 1 /\ failureCount + 1 < MaxFailures
    BY <1>1 DEF Fail, RecordFailure, Trips, AtMost
  <2> QED BY <1>1, <2>1 DEF BP!CountFailure
<1>2. CASE state = "Closed" /\ Trips(failureCount + 1)
  <2>1. state' = "Open" /\ successCount' = successCount
    BY <1>2 DEF Fail, RecordFailure
  <2>2. failureCount + 1 = MaxFailures
    BY <1>2 DEF Trips, FailuresMatchState
  <2> QED BY <1>2, <2>1, <2>2 DEF BP!Trip
<1>3. CASE state = "HalfOpen"
  <2>1. state' = "Open" /\ successCount' = 0
    BY <1>3 DEF Fail, RecordFailure, ReopenOnFailure
  <2> QED BY <1>3, <2>1 DEF BP!Reopen
<1>4. CASE state = "Open"
  BY <1>4 DEF Fail, RecordFailure
<1> QED BY <1>1, <1>2, <1>3, <1>4 DEF States

\* A reported success is Forgive, FirstProbe, NextProbe, Recover or invisible.
LEMMA SucceedRefines ==
    ASSUME BreakerInv, SuccessesMatchState, NEW c \in Callers, Succeed(c)
    PROVE  [BP!PromiseNext]_(BP!promiseVars)
<1> USE BreakerConstants
    DEF BreakerInv, TypeOK, BP!PromiseNext, BP!promiseVars, CountedFailures
<1>1. CASE state = "Closed"
  <2>1. failureCount' = 0 /\ state' = state /\ successCount' = successCount
    BY <1>1 DEF Succeed, RecordSuccess, ForgiveFailures
  <2> QED BY <1>1, <2>1 DEF BP!Forgive
<1>2. CASE state = "HalfOpen" /\ Closes(successCount + 1)
  <2>1. state' = "Closed" /\ failureCount' = 0 /\ successCount' = 0
    BY <1>2 DEF Succeed, RecordSuccess
  <2>2. successCount + 1 = HalfOpenMaxCalls
    BY <1>2 DEF Closes, SuccessesMatchState
  <2> QED BY <1>2, <2>1, <2>2 DEF BP!Recover
<1>3. CASE state = "HalfOpen" /\ ~Closes(successCount + 1)
  <2>1. state' = "HalfOpen" /\ successCount' = successCount + 1
    BY <1>3 DEF Succeed, RecordSuccess
  <2>2. successCount + 1 < HalfOpenMaxCalls
    BY <1>3 DEF Closes
  <2> QED BY <1>3, <2>1, <2>2 DEF BP!NextProbe
<1>4. CASE state = "Open"
  BY <1>4 DEF Succeed, RecordSuccess, BP!FirstProbe
<1> QED BY <1>1, <1>2, <1>3, <1>4 DEF States

\* For two or more half-open calls, what callers see of the breaker is exactly
\* the state machine of the documentation.
THEOREM BreakerImplementsPromise ==
    ASSUME HalfOpenMaxCalls >= 2
    PROVE  Spec => ImplementsPromise
<1>1. Init => BP!PromiseInit
  BY DEF Init, BP!PromiseInit, CountedFailures
<1>2. BreakerInv /\ SuccessesMatchState /\ [Next]_vars
        => [BP!PromiseNext]_(BP!promiseVars)
  <2> SUFFICES ASSUME BreakerInv, SuccessesMatchState, [Next]_vars
               PROVE  [BP!PromiseNext]_(BP!promiseVars)
    OBVIOUS
  <2>1. ASSUME UNCHANGED <<state, failureCount, successCount>>
        PROVE  UNCHANGED BP!promiseVars
    BY <2>1 DEF BP!promiseVars, CountedFailures
  <2>2. CASE \E c \in Callers : Fail(c) \/ Succeed(c)
    BY <2>2, FailRefines, SucceedRefines
  <2>3. CASE \/ \E c \in Callers : Admit(c)
             \/ Tick
             \/ \E b \in Backends : BackendChanges(b)
             \/ UNCHANGED vars
    BY <2>1, <2>3 DEF Admit, Tick, BackendChanges, breakerVars, vars
  <2> QED BY <2>2, <2>3 DEF Next
<1> QED
  BY <1>1, <1>2, BreakerInvariant, NeverWedgedHalfOpen, PTL
     DEF Spec, ImplementsPromise, BP!Promise
=============================================================================
