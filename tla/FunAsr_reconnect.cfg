SPECIFICATION Spec
CONSTANTS
    d1 = d1
    d2 = d2
    None = None
    Pvts <- OneDa
    RetryMax = 1
    QueueCap = 1
    ParseJson = TRUE
    Faults <- NoFaults
INVARIANTS StreamingIsFed
CHECK_DEADLOCK FALSE
