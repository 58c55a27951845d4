SPECIFICATION FairSpec
CONSTANTS
    MaxTexts = 2
    MaxFrames = 1
    QueueCap = 2
    BufferCap = 1
    Faults <- Outages
INVARIANTS SessionSeesLivePvt CallbacksSeeLivePvt QueueFaithful PlaybackEventsPaired
PROPERTIES QueueDrains CloseDestroys
CHECK_DEADLOCK FALSE
