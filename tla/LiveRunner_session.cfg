SPECIFICATION Spec
CONSTANTS
    a = a
    b = b
    NoCandle = NoCandle
    Symbols <- TwoSymbols
    Buckets = {1, 2}
    LateTicks = TRUE
    Raises = TRUE
    MaxTicks = 3
    MaxSignals = 2
CHECK_DEADLOCK FALSE
INVARIANTS
    CandlesComplete
    NothingLost
PROPERTIES
    WaitEnds
