--------------------------- MODULE MCStateMachine ---------------------------
\* Constants for TLC: one position, pending entries submitted at any hour of
\* the bounded clock, and every type-correct row over them as a foreign row.
EXTENDS StateMachine

CONSTANTS p1

MCPendingEntries == [submitted_at : 0..MaxHour]

MCForeignRows ==
    [status         : Statuses,
     position       : {p1, None},
     pending_entry  : {[submitted_at |-> 0], None},
     cooldown_until : {0, 2, None}]
=============================================================================
