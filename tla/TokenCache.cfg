SPECIFICATION FairSpec
CONSTANTS
    c1 = c1
    c2 = c2
    Callers <- TwoCallers
    Nobody = Nobody
    Margin = 2
    Life = 4
    MaxTime = 7
INVARIANTS FreshEnough
PROPERTIES RenewedOnce LockReleased
CHECK_DEADLOCK FALSE
