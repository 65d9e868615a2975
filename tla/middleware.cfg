SPECIFICATION MCSpec
CONSTANTS
    Slots = {s1, s2}
    Rate = 2
    Window = 3
    MaxTime = 4
    Callers = {c1, c2, c3}
    MaxFailures = 2
    ResetTime = 1
    FailureCap = 3
    Roles = {"admin", "user"}
    Departments = {"sales", "legal"}
    OwnDepartment = "sales"
    Administrators = {1, 2}
    Requests <- MCRequests
INVARIANTS
    LimiterInv
    HttpBreakerInv
    AuthorizationInv
PROPERTIES
    
    TextbookUnlessOutrun
    HttpBreakerRecovers
\* The limiter stops at MaxTime and the authorization tables are full some day.
CHECK_DEADLOCK FALSE
