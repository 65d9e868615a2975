SPECIFICATION FairSpec
CONSTANTS
    Callers = {c1, c2, c3}
    MaxFailures = 2
    HalfOpenMaxCalls = 3
    Timeout = 2
    FailureCap = 3
INVARIANTS
    BreakerInv
PROPERTIES
    FastFailWhileHot
    TripsOnlyOnEvidence
    ClosesOnlyOnEvidence
    ImplementsPromise
    RecoversWhenUp
    TripsWhenDown
