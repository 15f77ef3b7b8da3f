SPECIFICATION Spec
CHECK_DEADLOCK FALSE
CONSTANTS
    Portfolio <- MCPortfolio
    LastDay = 4
    Weekends <- MCWeekends
    YearEnd = 2
    Moves <- MCMoves
    MaxTrades = 3
    Experiments <- AllExperiments
    Capital = 6
    Chunk = 2
    SweptChunks = {3}
    SweptRanks <- MCRanks
    FixedChunk = 2
    EntryCap = 3
    GoldChunk = 2
    GainGuard = 10
    Trigger = 20
    ResetDays = 1
    FlipDays = {2, 4}
    Splits <- MCSplits
INVARIANTS
    CapitalConserved
    SlotsClose
PROPERTIES
    OverdrawnByDearShare
    BreakersRelease
