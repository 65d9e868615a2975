SPECIFICATION Spec
CONSTANTS
    r1 = r1
    r2 = r2
    Keys = {"task", "page"}
    Replicas = {r1, r2}
    Clients = {1, 2}
    Home <- OwnReplica
    Ttl <- MCTtl
    PromoteTtl = 1
    MaxOp = 1
    MaxVersion = 2
INVARIANTS
    CacheInv
    StaleNeedsCause
