SPECIFICATION Spec
CONSTANTS
    x = x
    y = y
    unlisted = unlisted
    Torn = Torn
    NoFile = NoFile
    Target <- MCTarget
    Listed <- MCListed
    Bad <- MCBad
    Slots = 1
    LastDay = 4
    Arguments <- MCArguments
    MaxRuns = 2
CHECK_DEADLOCK FALSE
INVARIANTS
    Accounted
    OneRowPerStamp
    CoversInnerDays
PROPERTIES
    RowsStay
