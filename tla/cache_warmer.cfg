SPECIFICATION FairSpec
CONSTANTS
    Jobs = {1, 2, 3}
    Priority <- Numbered
    Initial = {1}
    Capacity = 2
CHECK_DEADLOCK FALSE
INVARIANTS
    WarmerInv
    NothingMissed
    DropNeedsCause

    
