--------------------------- MODULE BreakerPromise ---------------------------
(***************************************************************************)
(* What the cache circuit breaker promises its users: the finite state     *)
(* machine of README.md:685-699, seen as a function of the stream of       *)
(* outcomes reported to it.  There are no callers, no clock and no         *)
(* interleaving here: "mode" is the state of the diagram, "fails" the      *)
(* failures counted towards a trip and "oks" the successes counted towards *)
(* a recovery.  CircuitBreaker.tla implements this specification.          *)
(***************************************************************************)
EXTENDS Integers

CONSTANTS MaxFailures,       \* failures that trip the breaker
          HalfOpenMaxCalls   \* successes that close it again

VARIABLES mode, fails, oks

promiseVars == <<mode, fails, oks>>

PromiseInit == mode = "Closed" /\ fails = 0 /\ oks = 0

\* CLOSED --> CLOSED: a failure below the threshold is counted.
CountFailure ==
    /\ mode = "Closed" /\ fails + 1 < MaxFailures
    /\ fails' = fails + 1
    /\ UNCHANGED <<mode, oks>>

\* CLOSED --> OPEN: failures >= MaxFailures.
Trip ==
    /\ mode = "Closed" /\ fails + 1 = MaxFailures
    /\ mode' = "Open" /\ fails' = 0
    /\ UNCHANGED oks

\* CLOSED --> CLOSED: success resets the counter.
Forgive ==
    /\ mode = "Closed"
    /\ fails' = 0
    /\ UNCHANGED <<mode, oks>>

\* OPEN --> HALF_OPEN: the first success after the timeout.
FirstProbe ==
    /\ mode = "Open"
    /\ mode' = "HalfOpen" /\ oks' = 1
    /\ UNCHANGED fails

\* HALF_OPEN --> HALF_OPEN: a further success, not yet enough of them.
NextProbe ==
    /\ mode = "HalfOpen" /\ oks + 1 < HalfOpenMaxCalls
    /\ oks' = oks + 1
    /\ UNCHANGED <<mode, fails>>

\* HALF_OPEN --> CLOSED: exactly HalfOpenMaxCalls successes.
Recover ==
    /\ mode = "HalfOpen" /\ oks + 1 = HalfOpenMaxCalls
    /\ mode' = "Closed" /\ oks' = 0
    /\ UNCHANGED fails

\* HALF_OPEN --> OPEN: any failure.
Reopen ==
    /\ mode = "HalfOpen"
    /\ mode' = "Open" /\ oks' = 0
    /\ UNCHANGED fails

PromiseNext ==
    \/ CountFailure \/ Trip \/ Forgive
    \/ FirstProbe \/ NextProbe \/ Recover \/ Reopen

Promise == PromiseInit /\ [][PromiseNext]_promiseVars
=============================================================================
