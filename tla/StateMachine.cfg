SPECIFICATION Spec
CONSTANTS
    None = None
    p1 = p1
    Positions = {p1}
    PendingEntries <- MCPendingEntries
    ForeignRows <- MCForeignRows
    CooldownHours = 2
    MaxHour = 5
INVARIANTS
    TypeOK
    OwnRowAccepted
    StateHydratable
    FlatHasNoDeadline
PROPERTIES
    EntryAfterCooldown
    RestartLikeUpdate
