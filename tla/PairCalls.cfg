SPECIFICATION FairSpec
CONSTANTS
    None = None
    Faults = {"transient", "lost_response", "garbled", "reject", "no_match", "partial"}
    Endless = {"transient", "no_match", "reject"}
    MaxFaults = 1
    MaxOid = 2
    MaxAttempts = 2
    MarketAttempts = 2
    Qty = 2
    MaxHeld = 0
    Directions = {"LongEthShortBtc", "ShortEthLongBtc"}
    OpenTypes = {"Market", "Limit", "PostOnly"}
    CloseTypes = {"Market", "Limit"}
INVARIANTS
    PairTypeOK
    OpenFillsMatch
    CloseFillsMatch
    OpenErrorIsClean
    OpenRolledBack
    RepairOnlyReduces
PROPERTIES
    CallReturns
