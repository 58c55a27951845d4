SPECIFICATION Spec
CONSTANTS
    MaxTexts = 2
    MaxFrames = 1
    QueueCap = 2
    BufferCap = 1
    Faults <- NoFaults
INVARIANTS OneOutstanding
CHECK_DEADLOCK FALSE
