SPECIFICATION IvrFairSpec
CONSTANTS
    TtsNames <- Engines
    MaxCalls = 2
    Faults <- Failures
    MaxFiles = 2
    MediaFaults <- MediaFailures
    MaxDial = 2
    MaxEvents = 2
    MaxTries = 2
    Recognizer <- Results
INVARIANTS
    SpeaksOpenHandle CallLeavesNothing
    CommanderSeesOpenFile SessionPointsAtLive ReturnsClean
    FirstFileKeepsSpeed DigitsInOrder TextKept AcceptedDigits
PROPERTIES HangupReleases AskEnds
CHECK_DEADLOCK FALSE
