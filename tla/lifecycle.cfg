SPECIFICATION Spec
CONSTANTS
    Processes = {"one", "other"}
    NoOne = "-"
    Latest = 2
    MaxRetries = 2
    Workers <- MCWorkers
    MaxInFlight <- MCInFlight
    MaxFaults = 1
INVARIANTS
    LifecycleInv
    ClosedAfterUse
PROPERTIES
    BootsUnlessDirty
    CleanupEnds
