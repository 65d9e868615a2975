SPECIFICATION FairSpec
CONSTANTS
    Jobs = {1, 2}
    Kind <- JobKind
    Key <- JobKey
    Priority <- JobPriority
    Delay <- JobDelay
    MaxTries = 2
    Workers = {w1, w2}
    RedisAtStart = TRUE
    MaxTime = 2
    LastEnqueue = 1
    MaxFaults = 1
CHECK_DEADLOCK FALSE
INVARIANTS
    QueueInv
    LossNeedsFault
    DoubleNeedsOverlap
PROPERTIES
    JobsEnd
