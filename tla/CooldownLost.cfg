SPECIFICATION Spec
CONSTANTS
    None = None
    Positions <- MCPositions
    PendingEntries <- MCPendingEntries
    InheritedRows <- NoRows
    CooldownHours = 2
    Faults = {"partial"}
    RunnerFaults = {}
    Endless = {}
    MaxFaults = 1
    MaxOid = 0
    MaxAttempts = 2
    MarketAttempts = 2
    Qty = 2
    Directions = {"LongEthShortBtc"}
    OrderType = "Market"
    PendingTtl = 1
    MaxBar = 5
    LastEntryBar = 3
PROPERTIES
    NoEntryInCooldown
