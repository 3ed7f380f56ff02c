SPECIFICATION Spec
CONSTANTS
    None = None
    Files <- MCFiles
    Bars <- MCBars
    Leftovers <- MCLeftovers
    Moves <- MCMoves
    Lots <- MCLots
    MaxAttempts = 4
    BaseDelay = 1
    MinInterval = 4
    Latencies = {1}
    LoadTimes = {5}
    Setback = 30
    Faults = {"transient", "fatal", "crash", "clock_back"}
    MaxFaults = 2
    MaxCalls = 2
INVARIANTS
    TypeOK
    ValidatedRuns
    EntryWithinCapital
    SentWithinReach
    GivesUpBeyondReach
PROPERTIES
    RequestsOrdered
CHECK_DEADLOCK FALSE
