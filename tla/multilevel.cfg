SPECIFICATION FairSpec
CONSTANTS
    Keys = {k1}
    Callers = {c1, c2}
    MaxFailures = 2
    HalfOpenMaxCalls = 2
    Timeout = 1
    FailureCap = 2
INVARIANTS
    TypeOK
PROPERTIES
    UsesBreakerProperly
    
