---------------------------- MODULE HttpBreaker ----------------------------
(***************************************************************************)
(* The circuit breaker for outgoing calls of the middleware package        *)
(* (backend/internal/middleware/rate_limiter.go, CircuitBreaker).          *)
(*                                                                         *)
(* Call takes its lock three times: to read state and lastFailure, to move *)
(* from open to half-open, and to report.  What it read may be out of date *)
(* at the second and at the third.  Half-open lets every caller through,   *)
(* and takes maxFailures failures to open again.                           *)
(***************************************************************************)
EXTENDS Integers

CONSTANTS
    Callers,
    MaxFailures,  \* maxFailures
    ResetTime,    \* resetTime, in clock ticks
    FailureCap    \* bound: failures saturates here

ASSUME HttpBreakerConstants ==
    /\ MaxFailures \in Nat \ {0} /\ ResetTime \in Nat
    /\ FailureCap \in Nat /\ FailureCap >= MaxFailures

VARIABLES
    state,         \* cb.state
    failures,      \* cb.failures, saturating at FailureCap
    sinceFailure,  \* time since cb.lastFailure, saturating at ResetTime + 1
    call,          \* call[c]: what caller c is doing
    age,           \* age[c]: time since the lastFailure that c read
    outrun,        \* history: callers a failure was reported since they read the state
    reset,         \* history: callers the counter was set to 0 since they read it
    up             \* environment: the called service answers

breakerVars == <<state, failures, sinceFailure, call, age, outrun, reset, up>>

Late == ResetTime + 1
Older(t) == IF t < Late THEN t + 1 ELSE Late
OneMore == IF failures < FailureCap THEN failures + 1 ELSE FailureCap

BreakerTypeOK ==
    /\ state \in {"closed", "open", "half-open"}
    /\ failures \in 0..FailureCap
    /\ sinceFailure \in 0..Late
    /\ call \in [Callers -> {"idle", "saw open", "calling"}]
    /\ age \in [Callers -> 0..Late]
    /\ outrun \subseteq Callers /\ reset \subseteq Callers
    /\ up \in BOOLEAN

\* NewCircuitBreaker: lastFailure is the zero time.
BreakerInit ==
    /\ state = "closed" /\ failures = 0 /\ sinceFailure = Late
    /\ call = [c \in Callers |-> "idle"]
    /\ age = [c \in Callers |-> 0]
    /\ outrun = {} /\ reset = {}
    /\ up \in BOOLEAN
-----------------------------------------------------------------------------
(* Mutants: the cool-down is never over or always, and the counter         *)
(* survives a reset.                                                       *)
NeverCool(t) == FALSE
AlwaysCool(t) == TRUE
NotCleared == UNCHANGED failures

Cool(t) == t > ResetTime
Trips(n) == n >= MaxFailures
Cleared == failures' = 0

Leave(c) == call' = [call EXCEPT ![c] = "idle"] /\ age' = [age EXCEPT ![c] = 0]
UnderWay == {q \in Callers : call[q] # "idle"}
NoticeReset == reset' = UnderWay

\* The first critical section.
ReadState(c) ==
    /\ call[c] = "idle"
    /\ call' = [call EXCEPT ![c] = IF state = "open" THEN "saw open" ELSE "calling"]
    /\ age' = [age EXCEPT ![c] = IF state = "open" THEN sinceFailure ELSE 0]
    /\ outrun' = outrun \ {c}
    /\ reset' = reset \ {c}
    /\ UNCHANGED <<state, failures, sinceFailure, up>>

Refuse(c) ==
    /\ call[c] = "saw open" /\ ~Cool(age[c])
    /\ Leave(c)
    /\ UNCHANGED <<state, failures, sinceFailure, outrun, reset, up>>

\* The second critical section.
TryAgain(c) ==
    /\ call[c] = "saw open" /\ Cool(age[c])
    /\ state' = "half-open" /\ Cleared
    /\ call' = [call EXCEPT ![c] = "calling"] /\ age' = [age EXCEPT ![c] = 0]
    /\ NoticeReset
    /\ UNCHANGED <<sinceFailure, outrun, up>>

\* The third critical section after an error of fn.
Fail(c) ==
    /\ call[c] = "calling" /\ ~up
    /\ failures' = OneMore /\ sinceFailure' = 0
    /\ state' = IF Trips(failures + 1) THEN "open" ELSE state
    /\ outrun' = UnderWay
    /\ Leave(c)
    /\ UNCHANGED <<reset, up>>

\* The third critical section after a success of fn.
Succeed(c) ==
    /\ call[c] = "calling" /\ up
    /\ Cleared /\ state' = "closed"
    /\ NoticeReset
    /\ Leave(c)
    /\ UNCHANGED <<sinceFailure, outrun, up>>

BreakerTick ==
    /\ sinceFailure' = Older(sinceFailure)
    /\ age' = [c \in Callers |-> IF call[c] = "saw open" THEN Older(age[c]) ELSE 0]
    /\ UNCHANGED <<state, failures, call, outrun, reset, up>>

ServiceChanges == up' = ~up /\ UNCHANGED <<state, failures, sinceFailure, call, age, outrun, reset>>

Act(c) == ReadState(c) \/ Refuse(c) \/ TryAgain(c) \/ Fail(c) \/ Succeed(c)
BreakerNext == (\E c \in Callers : Act(c)) \/ BreakerTick \/ ServiceChanges

\* Requests keep coming, every call returns, time passes; the service may
\* change its mind for ever.
BreakerFairness == /\ \A c \in Callers : WF_breakerVars(Act(c))
                   /\ WF_breakerVars(BreakerTick)

BreakerSpec == BreakerInit /\ [][BreakerNext]_breakerVars /\ BreakerFairness
-----------------------------------------------------------------------------
(* The three fields agree: the breaker is open exactly when the counter    *)
(* has reached maxFailures, whatever interleaving of late reports and      *)
(* resets led there.                                                       *)
HttpBreakerInv ==
    /\ BreakerTypeOK
    /\ state = "open" <=> Trips(failures)

(* Only a caller with an outdated view departs from the textbook: a        *)
(* cool-down is cut short only by one that read the breaker before the     *)
(* failure the cool-down counts from, and failures counted while the       *)
(* breaker is not open are dropped only by a success or by one that read   *)
(* the breaker before another caller reset it.                             *)
TextbookUnlessOutrun ==
    [][/\ state = "open" /\ state' # "open" /\ sinceFailure <= ResetTime =>
            \E c \in Callers : call'[c] # call[c] /\ c \in outrun
       /\ state # "open" /\ failures' < failures =>
            \E c \in Callers : call'[c] # call[c] /\ (call[c] = "calling" \/ c \in reset)
      ]_breakerVars

(* A service that comes back for good gets its calls again: the breaker    *)
(* closes and stays closed, though every probe works on an old view.       *)
HttpBreakerRecovers == <>[]up => <>[](state = "closed")
=============================================================================
