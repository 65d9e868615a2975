---------------------------- MODULE MCMiddleware ----------------------------
(***************************************************************************)
(* The three guards of a request - the Redis rate limiter, the HTTP        *)
(* circuit breaker and the authorization service - in one instance for     *)
(* TLC.  They share no state, so a behaviour shows one of them, chosen at  *)
(* the start, and the other two rest.                                      *)
(***************************************************************************)
EXTENDS RateLimiter, HttpBreaker, Authorization

VARIABLE part

mcVars == <<limiterVars, breakerVars, authorizationVars, part>>

\* Every way through the policies: the task of a colleague or of a stranger
\* read or changed, one's own, a new one, another's profile, anything else.
MCRequests ==
    { [resource |-> "task", action |-> "read", target |-> "foreign"],
      [resource |-> "task", action |-> "update", target |-> "foreign"],
      [resource |-> "task", action |-> "update", target |-> "own"],
      [resource |-> "task", action |-> "create", target |-> "none"],
      [resource |-> "profile", action |-> "update", target |-> "foreign"],
      [resource |-> "other", action |-> "read", target |-> "none"] }

MCInit ==
    /\ part \in {"limiter", "breaker", "authorization"}
    /\ LimiterInit /\ BreakerInit /\ AuthorizationInit
    /\ part # "breaker" => up
    /\ part # "authorization" => request = CHOOSE r \in Requests : TRUE

Limiter == part = "limiter" /\ LimiterNext
           /\ UNCHANGED <<breakerVars, authorizationVars, part>>
Breaker == part = "breaker" /\ BreakerNext
           /\ UNCHANGED <<limiterVars, authorizationVars, part>>
Authorizer == part = "authorization" /\ AuthorizationNext
              /\ UNCHANGED <<limiterVars, breakerVars, part>>

\* BreakerFairness, where the breaker is what runs.
MCFairness ==
    /\ \A c \in Callers :
          WF_breakerVars(part = "breaker" /\ Act(c)
                         /\ UNCHANGED <<limiterVars, authorizationVars, part>>)
    /\ WF_breakerVars(part = "breaker" /\ BreakerTick
                      /\ UNCHANGED <<limiterVars, authorizationVars, part>>)

MCSpec == MCInit /\ [][Limiter \/ Breaker \/ Authorizer]_mcVars /\ MCFairness
=============================================================================
