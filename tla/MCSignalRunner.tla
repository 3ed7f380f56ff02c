--------------------------- MODULE MCSignalRunner ---------------------------
\* Constants for TLC: snapshots over the bounds of the run, and the optional
\* entry controls switched on.
EXTENDS SignalRunner

MCPositions == [direction : TradeDirections, entry_time : 0..MaxBar]

MCPendingEntries == [direction : TradeDirections, submitted_at : 0..MaxBar]

\* Below tp_z, twice in the entry zone, beyond sl_z; one of them negative.
MCZs == {-4, 0, 2, 3}

StaleCrossOn ==
    [enabled |-> TRUE, max_age_bars |-> 2, require_reverting |-> TRUE]

PersistentShort ==
    [enabled |-> TRUE, min_abs_z |-> 3, directions |-> {"ShortEthLongBtc"}]
=============================================================================
