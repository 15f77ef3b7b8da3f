SPECIFICATION FairSpec
CONSTANTS
    swanAB = swanAB
    squeezeB = squeezeB
    pullbackA = pullbackA
    trendA = trendA
    trendB = trendB
    trendC = trendC
    A = A
    B = B
    C = C
    None = None
    StrategyOf <- MCStrategyOf
    Symbols <- MCSymbols
    Parts <- MCParts
    Place <- MCPlace
    Keys = {swanAB, pullbackA, trendB}
    Legacy = {}
    EntryPrices = {3}
    ExitPrices = {3}
    MaxHold = 1
    MaxTrades = 2
    TotalCapital = 11
    MinChunk = 3
    OwnCapital = 3
    Jobs = {1}
    MaxMissed = 0
    Faults = {}
INVARIANTS
    TypeOK
    BuyAnnouncedOnce
PROPERTIES
    CapitalRecycles
    ImplementsAccount
