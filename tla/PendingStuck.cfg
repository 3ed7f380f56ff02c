SPECIFICATION FairSpec
CONSTANTS
    None = None
    Positions <- MCPositions
    PendingEntries <- MCPendingEntries
    InheritedRows <- NoRows
    CooldownHours = 2
    Faults = {"transient"}
    RunnerFaults = {}
    Endless = {}
    MaxFaults = 2
    MaxOid = 2
    MaxAttempts = 2
    MarketAttempts = 2
    Qty = 1
    Directions = {"LongEthShortBtc"}
    OrderType = "PostOnly"
    PendingTtl = 1
    MaxBar = 5
    LastEntryBar = 1
PROPERTIES
    PendingResolved
