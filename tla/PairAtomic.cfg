SPECIFICATION Spec
CONSTANTS
    None = None
    Faults = {"reject"}
    MaxFaults = 1
    MaxOid = 0
    Endless = {}
    MaxAttempts = 2
    MarketAttempts = 2
    Qty = 1
    MaxHeld = 0
    Directions = {"LongEthShortBtc"}
    OpenTypes = {"Market"}
    CloseTypes = {"Market"}
INVARIANTS
    PairAtomic
