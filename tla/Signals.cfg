SPECIFICATION FairSpec
CONSTANTS
    None = None
    Positions <- MCPositions
    PendingEntries <- MCPendingEntries
    CooldownHours = 2
    EntryZ = 2
    TpZ = 0
    SlZ = 4
    ZBars = 2
    StaleCross <- StaleCrossOn
    PersistentExtreme <- PersistentShort
    MaxHold = 3
    ConfirmBarsTp = 2
    Zs <- MCZs
    WarmupBars = 2
    Modes = {"loop", "once", "backtest"}
    Rests = TRUE
    MaxBar = 7
    LastEntryBar = 4
    MaxLate = 1
INVARIANTS
    TypeOK
    TakeProfitConfirmed
    StaleCrossWindow
PROPERTIES
    CrossingNotMissed
    HeldWithinLimits
    RecoveryFires
    PositionsEnd
