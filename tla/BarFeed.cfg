SPECIFICATION Spec
CONSTANTS
    BarSlots = 3
    WarmupBars = 3
    Interval = 3
    OnceModes = {TRUE, FALSE}
    MaxDownloads = 1
    StartupSlots = 7
    MaxClock = 11
INVARIANTS
    TypeOK
    FirstRunWarm
    EveryBarOnce
    NeverBack
