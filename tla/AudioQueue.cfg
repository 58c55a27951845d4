SPECIFICATION FairSpec
CONSTANTS
    session = session
    ws = ws
    Nobody = Nobody
    Reader = ws
    Writers <- OneWriter
    Clearers <- ReaderClears
    Capacity = 5
    Frame = 2
    WriteSizes <- MCWriteSizes
    MaxBytes = 8
    Spurious = TRUE
INVARIANTS TypeOK NoLostWakeup TotalsMatch
PROPERTIES ImplementsPipe ReadReturns
