SPECIFICATION Spec
CONSTANTS
    None = None
    Positions <- MCPositions
    PendingEntries <- MCPendingEntries
    CooldownHours = 2
    EntryZ = 2
    TpZ = 0
    SlZ = 4
    ZBars = 2
    StaleCross <- StaleCrossOn
    PersistentExtreme <- PersistentShort
    MaxHold = 3
    ConfirmBarsTp = 2
    Zs <- MCZs
    WarmupBars = 3
    Modes = {"once", "backtest"}
    Rests = FALSE
    MaxBar = 6
    LastEntryBar = 4
    MaxLate = 0
PROPERTIES
    EntriesResume
