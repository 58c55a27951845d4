SPECIFICATION FairSpec
CONSTANTS
    d1 = d1
    d2 = d2
    None = None
    Pvts <- OneDa
    RetryMax = 1
    QueueCap = 2
    ParseJson = TRUE
    Faults <- Running
INVARIANTS SingleOwner AudioAfterInit
PROPERTIES StopDrains PauseTakesEffect
CHECK_DEADLOCK FALSE
