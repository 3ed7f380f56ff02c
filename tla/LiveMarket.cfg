SPECIFICATION FairSpec
CONSTANTS
    None = None
    Positions <- MCPositions
    PendingEntries <- MCPendingEntries
    InheritedRows <- ResidualRows
    CooldownHours = 2
    Faults = {"transient", "lost_response", "garbled", "reject", "no_match", "partial"}
    RunnerFaults = {"crash", "save_fails", "no_prices", "bar_error", "no_position"}
    Endless = {}
    MaxFaults = 2
    MaxOid = 0
    MaxAttempts = 2
    MarketAttempts = 2
    Qty = 2
    Directions = {"LongEthShortBtc", "ShortEthLongBtc"}
    OrderType = "Market"
    PendingTtl = 1
    MaxBar = 5
    LastEntryBar = 3
INVARIANTS
    TypeOK
    SavedMatchesAccount
    EntryNeverRefused
PROPERTIES
    OrdersFitAccount
    CooldownRespected
    ResidualRepaired
