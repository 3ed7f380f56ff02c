SPECIFICATION FairSpec
CONSTANTS
    None = None
    Positions <- MCPositions
    PendingEntries <- MCPendingEntries
    InheritedRows <- NoRows
    CooldownHours = 2
    Faults = {}
    RunnerFaults = {"no_prices", "bar_error"}
    Endless = {}
    MaxFaults = 2
    MaxOid = 4
    MaxAttempts = 2
    MarketAttempts = 2
    Qty = 1
    Directions = {"LongEthShortBtc", "ShortEthLongBtc"}
    OrderType = "PostOnly"
    PendingTtl = 1
    MaxBar = 6
    LastEntryBar = 3
PROPERTIES
    HedgedPairKept
    PendingResolved
    SettlesAgain
