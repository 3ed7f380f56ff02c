--------------------------- MODULE StrategyState ---------------------------
(***************************************************************************)
(* The strategy's persisted record and the transitions the state machine   *)
(* of src/state/mod.rs makes on it, as pure operators: each takes a record *)
(* and returns the record the method leaves, and each Can... operator is   *)
(* the condition under which the method does not return an error.  The     *)
(* modules that give the record a life (StateMachine, LiveRunner) use      *)
(* these operators for their actions.                                      *)
(*                                                                         *)
(* Timestamps are naturals.  Prices and realized pnl are left out: no      *)
(* transition of this machine reads them.                                  *)
(***************************************************************************)
EXTENDS PairTypes

CONSTANTS
    Positions,        \* position snapshots
    PendingEntries,   \* pending-entry snapshots, records with a submitted_at
    CooldownHours     \* risk.cooldown_hours

ASSUME CooldownAssumption == CooldownHours \in Nat

ASSUME NoneAssumption ==
    /\ None \notin Positions
    /\ None \notin PendingEntries
    /\ None \notin Nat

ASSUME PendingAssumption == \A q \in PendingEntries : q.submitted_at \in Nat

Statuses == {"Flat", "PendingEntry", "InPosition", "Cooldown"}

ExitReasons == {"TakeProfit", "StopLoss", "TimeStop"}

StrategyStates ==
    [status         : Statuses,
     position       : Positions \cup {None},
     pending_entry  : PendingEntries \cup {None},
     cooldown_until : Nat \cup {None}]

\* StrategyState::default, the state of a new StateMachine.
DefaultState ==
    [status |-> "Flat", position |-> None, pending_entry |-> None,
     cooldown_until |-> None]

\* force_flat clears the status and everything that hangs on it, the cooldown
\* deadline included.
ForceFlat(s) ==
    [s EXCEPT !.status = "Flat", !.position = None, !.pending_entry = None,
              !.cooldown_until = None]

----------------------------------------------------------------------------
\* What hydrate accepts.  A Flat record may carry a deadline and an InPosition
\* record too: only the Option fields named in the match are looked at.
HydrateAccepts(s) ==
    /\ s.status = "Flat" => s.position = None /\ s.pending_entry = None
    /\ s.status = "PendingEntry" =>
          s.pending_entry # None /\ s.position = None
    /\ s.status = "InPosition" =>
          s.position # None /\ s.pending_entry = None
    /\ s.status = "Cooldown" =>
          /\ s.cooldown_until # None
          /\ s.position = None
          /\ s.pending_entry = None

\* The deadline of a cooldown has not been reached.
DeadlineAhead(s, now) == s.cooldown_until # None /\ now < s.cooldown_until

CanEnter(s, now) == s.status = "Flat" /\ ~DeadlineAhead(s, now)

Enter(s, p) ==
    [s EXCEPT !.status = "InPosition", !.position = p, !.pending_entry = None,
              !.cooldown_until = None]

CanEnterPending(s, q) == s.status = "Flat" /\ ~DeadlineAhead(s, q.submitted_at)

EnterPending(s, q) ==
    [s EXCEPT !.status = "PendingEntry", !.position = None,
              !.pending_entry = q, !.cooldown_until = None]

CanConfirm(s) == s.status = "PendingEntry"

\* confirm_pending_entry that leaves the pending snapshot behind (a mutant).
ConfirmKeepsPending(s, p) ==
    [s EXCEPT !.status = "InPosition", !.position = p, !.cooldown_until = None]

ConfirmPendingEntry(s, p) ==
    [s EXCEPT !.status = "InPosition", !.position = p, !.pending_entry = None,
              !.cooldown_until = None]

CanExit(s) == s.status = "InPosition"

\* exit without the arm that clears the snapshots (a mutant).
ExitKeepsPosition(s, reason, now) ==
    IF reason = "StopLoss"
    THEN [s EXCEPT !.status = "Cooldown",
                   !.cooldown_until = now + CooldownHours]
    ELSE [s EXCEPT !.status = "Flat", !.cooldown_until = None]

\* exit that subtracts the cooldown from the clock (a mutant).
ExitDeadlineBehind(s, reason, now) ==
    [s EXCEPT !.status = IF reason = "StopLoss" THEN "Cooldown" ELSE "Flat",
              !.cooldown_until = IF reason = "StopLoss"
                                 THEN now - CooldownHours ELSE None,
              !.position = None,
              !.pending_entry = None]

\* A stop loss starts the cooldown; the other reasons go straight to Flat.
Exit(s, reason, now) ==
    [s EXCEPT !.status = IF reason = "StopLoss" THEN "Cooldown" ELSE "Flat",
              !.cooldown_until = IF reason = "StopLoss"
                                 THEN now + CooldownHours ELSE None,
              !.position = None,
              !.pending_entry = None]

----------------------------------------------------------------------------
CooldownOver(s, now) ==
    s.status = "Cooldown" /\ s.cooldown_until # None /\ now >= s.cooldown_until

\* update that forgets to clear the deadline (a mutant).
UpdateKeepsDeadline(s, now) ==
    IF CooldownOver(s, now) THEN [s EXCEPT !.status = "Flat"] ELSE s

\* update releases a cooldown whose deadline has passed.
Update(s, now) ==
    IF CooldownOver(s, now)
    THEN [s EXCEPT !.status = "Flat", !.cooldown_until = None]
    ELSE s

\* recover_state that always ends the cooldown (a mutant).
RecoverReleasesCooldown(s, now) ==
    IF s.status = "Cooldown"
    THEN [s EXCEPT !.status = "Flat", !.pending_entry = None,
                   !.cooldown_until = None]
    ELSE s

\* recover_state that holds the cooldown one tick longer than update (a mutant).
RecoverLate(s, now) ==
    IF CooldownOver(s, now) /\ now > s.cooldown_until
    THEN [s EXCEPT !.status = "Flat", !.pending_entry = None,
                   !.cooldown_until = None]
    ELSE s

\* recover_state, applied to the stored record at start-up, before hydrate: it
\* releases a cooldown that ended while the process was down and turns an
\* InPosition record without a position into Flat (its deadline is kept).
Recover(s, now) ==
    LET released ==
          IF CooldownOver(s, now)
          THEN [s EXCEPT !.status = "Flat", !.pending_entry = None,
                         !.cooldown_until = None]
          ELSE s
    IN  IF released.status = "InPosition" /\ released.position = None
        THEN [released EXCEPT !.status = "Flat", !.pending_entry = None]
        ELSE released
=============================================================================
