SPECIFICATION MCSpec
CONSTANTS
    MaxEvents = 2
    MaxId = 2
    MaxDepth = 2
    MaxRegister = 3
    DropMasked = FALSE
    FailCrowded = FALSE
    ReuseOnCancel = FALSE
    Sizes <- MCSizes
    StoreOnDead = FALSE
    CloseRetrying = FALSE
    Faults <- MCFaults
    Racing = FALSE
    ShortLog = FALSE
    WriteFails = FALSE
    Counts = {1, 4, 9}
    ShortWrites = FALSE
INVARIANTS
    SchedulerSafe
    QueueSafe
    RateSafe
    LeafSafe
    ChangesLogged
    CacheRight
    StreamExact
PROPERTY DriversAnswer
CHECK_DEADLOCK FALSE
