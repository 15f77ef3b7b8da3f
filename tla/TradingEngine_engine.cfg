SPECIFICATION Spec
CONSTANTS
    INFY = INFY
    TCS = TCS
    NoBar = NoBar
    Kinds = {"ORB", "GAP_FADE", "GAP_CONTINUATION", "VWAP", "FIRST_HOUR", "SUPERTREND", "RSI2", "MA_PULLBACK", "PAIRS", "BLACK_SWAN", "LONG_SWAN", "ANY"}
    RiskModes = {"on", "off"}
    Orders <- MCOrders
    Universe <- MCUniverse
    Calendar <- MCCalendar
    Facts <- MCFacts
    Prices = {1200, 2400}
    InitialCash = 24000
    MaxFills = 4
    Times = {0, 1, 2, 3, 4}
    SessionStart = 1
    RangeEnd = 2
    EntryStart = 1
    LatestEntry = 3
    SquareOff = 4
    WindowBars = 1
    SlopeBars = 2
    MinBars = 2
    DailyEntries = 1
    AllowReentry = TRUE
    AllowLong = TRUE
    AllowShort = TRUE
    Quantity = 1
    Warmup = 2
    MaxHoldDays = 2
    Capital = 2400
    LegQuantity = 1
    CloseOut = 3
    Brokerage = 1
    BuyRate = 1
    SellRate = 2
    SlipRate = 1
    RateUnit = 20
    MaxDailyLoss = 100
    MaxOrderValue = 2400
    MaxOpenPositions = 1
    MaxTradesPerDay = 3
    MaxOrdersPerSecond = 1
    AllowedSymbols <- MCSymbols
    AllowedTypes = {"MARKET", "LIMIT"}
    MinTrades = 2
    MinProfitFactor <- ProfitFactor
CHECK_DEADLOCK FALSE
INVARIANTS
    InStep
    SquaredOff
    RiskedRunsStayFlat
    WithinLimits
    BooksBalance
    ReportAgrees
