SPECIFICATION IvrFairSpec
CONSTANTS
    TtsNames <- None
    MaxCalls = 1
    Faults <- None
    MaxFiles = 1
    MediaFaults <- None
    MaxDial = 1
    MaxEvents = 2
    MaxTries = 1
    Recognizer <- NoMatch
PROPERTY ResultEndsWait
CHECK_DEADLOCK FALSE
