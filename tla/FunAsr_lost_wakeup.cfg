SPECIFICATION FairSpec
CONSTANTS
    d1 = d1
    d2 = d2
    None = None
    Pvts <- OneDa
    RetryMax = 0
    QueueCap = 1
    ParseJson = TRUE
    Faults <- NoFaults
PROPERTIES HangupFrees
CHECK_DEADLOCK FALSE
