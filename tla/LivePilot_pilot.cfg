SPECIFICATION Spec
CONSTANTS
    listed = listed
    other = other
    Settings <- MCSettings
    Intents <- MCIntents
    GateModes = {"AUTO_PAPER", "MANUAL_APPROVE", "AUTO_LIVE"}
    Timeout = 1
    Retries = 2
    WarnQuantity = 5
    MaxClock = 1
    MaxRequests = 1
    MaxOrders = 2
    MaxEdits = 1
    MaxConfirms = 1
CHECK_DEADLOCK FALSE
INVARIANTS
    OrdersAuthorised
    PreflightEnough
    OneOrderPerPhrase
    RecordsAgree
PROPERTIES
    DecisionsFinal
    RequestsSettle
