SPECIFICATION FairSpec
CONSTANTS
    Jobs = {1, 2, 3}
    Goroutines = {g1, g2}
    Served <- BothQueues
    Handled = {1, 2}
    Delay <- DueLater
    MaxTries = 2
    MaxTime = 2
    MaxFaults = 1
CHECK_DEADLOCK FALSE

    
    
PROPERTIES
    JobsEnd
