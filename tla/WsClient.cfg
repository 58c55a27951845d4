SPECIFICATION FairSpec
CONSTANTS
    PingLimit = 1
    MaxQueue = 4
    MaxSend = 1
INVARIANTS
    TypeOK
    EventsAccounted
    FramesWhole
    QueueIsWatched
    ClosedWhenEnded
PROPERTIES
    ImplementsSession
    PingAnswered
    CloseHeard
