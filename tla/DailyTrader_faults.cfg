SPECIFICATION Spec
CONSTANTS
    swanAB = swanAB
    squeezeB = squeezeB
    pullbackA = pullbackA
    trendA = trendA
    trendB = trendB
    trendC = trendC
    A = A
    B = B
    C = C
    None = None
    StrategyOf <- MCStrategyOf
    Symbols <- MCSymbols
    Parts <- MCParts
    Place <- MCPlace
    Keys = {swanAB, pullbackA, trendB}
    Legacy = {trendB}
    EntryPrices = {2}
    ExitPrices = {2}
    MaxHold = 1
    MaxTrades = 1
    TotalCapital = 7
    MinChunk = 3
    OwnCapital = 3
    Jobs = {1}
    MaxMissed = 1
    Faults = {"rerun", "fetch", "push", "send", "partial"}
INVARIANTS
    NoOverAllocation
    UntrustedRunOnlyCloses
    OneBuyPerTicker
