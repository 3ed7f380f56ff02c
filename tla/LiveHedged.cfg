SPECIFICATION FairSpec
CONSTANTS
    None = None
    Positions <- MCPositions
    PendingEntries <- MCPendingEntries
    InheritedRows <- PairRows
    CooldownHours = 2
    Faults = {"transient", "reject", "no_match"}
    RunnerFaults = {"crash", "save_fails", "no_prices", "bar_error"}
    Endless = {}
    MaxFaults = 3
    MaxOid = 0
    MaxAttempts = 2
    MarketAttempts = 3
    Qty = 1
    Directions = {"ShortEthLongBtc"}
    OrderType = "Market"
    PendingTtl = 1
    MaxBar = 6
    LastEntryBar = 4
PROPERTIES
    HedgedPairKept
