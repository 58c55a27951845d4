SPECIFICATION Spec
CONSTANTS
    d1 = d1
    d2 = d2
    None = None
    Pvts <- TwoDas
    RetryMax = 0
    QueueCap = 1
    ParseJson = TRUE
    Faults <- Setup
SYMMETRY DaSymmetry
INVARIANTS SessionSeesLivePvt CallbacksSeeLivePvt StreamingIsFed
CHECK_DEADLOCK FALSE
