SPECIFICATION FairSpec
CONSTANTS
    Jobs = {j1, j2, j3}
    Sizes = {1, 2}
    MaxSize = 2
    FirstSize = 1
    MaxLives = 2
CHECK_DEADLOCK FALSE
INVARIANTS
    PoolInv
PROPERTIES
    StopDrains
    StopReturns
    FirstLifeJobsRun
