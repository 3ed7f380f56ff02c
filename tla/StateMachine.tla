---------------------------- MODULE StateMachine ----------------------------
(***************************************************************************)
(* The state machine of src/state/mod.rs with the one-row store that       *)
(* persists it, under every caller: any method may be called at any time,  *)
(* the process may save or not before it dies, and a restart goes through  *)
(* load, recover_state and hydrate as main.rs does.                        *)
(*                                                                         *)
(* The database may already hold a row when the process is first started:  *)
(* ForeignRows are the rows another version, a test or a hand edit left.   *)
(***************************************************************************)
EXTENDS StrategyState

CONSTANTS
    ForeignRows,  \* rows the store may hold before this program ever ran
    MaxHour       \* bound: the clock stops here

ASSUME RowAssumption ==
    /\ ForeignRows \subseteq StrategyStates
    /\ None \notin StrategyStates

ASSUME MaxHourAssumption == MaxHour \in Nat

VARIABLES
    now,      \* the clock, in hours
    process,  \* "up", "down", or "refused": hydrate rejected the row
    state,    \* StateMachine.state of the running process
    row,      \* the strategy_state row, None when the table is empty
    foreign,  \* history: the row or the state descends from a foreign row
    barred    \* history: hour until which the last known stop loss bars entry

vars == <<now, process, state, row, foreign, barred>>

TypeOK ==
    /\ now \in Nat
    /\ process \in {"up", "down", "refused"}
    /\ state \in StrategyStates
    /\ row \in StrategyStates \cup {None}
    /\ foreign \in BOOLEAN
    /\ barred \in Nat

Init ==
    /\ now = 0
    /\ process = "down"
    /\ state = DefaultState
    /\ row \in ForeignRows \cup {None}
    /\ foreign = (row # None)
    /\ barred = 0

----------------------------------------------------------------------------
Tick ==
    /\ now < MaxHour
    /\ now' = now + 1
    /\ UNCHANGED <<process, state, row, foreign, barred>>

CallForceFlat ==
    /\ process = "up"
    /\ state' = ForceFlat(state)
    /\ barred' = 0
    /\ UNCHANGED <<now, process, row, foreign>>

CallEnter(p) ==
    /\ process = "up"
    /\ CanEnter(state, now)
    /\ state' = Enter(state, p)
    /\ UNCHANGED <<now, process, row, foreign, barred>>

CallEnterPending(q) ==
    /\ process = "up"
    /\ q.submitted_at = now
    /\ CanEnterPending(state, q)
    /\ state' = EnterPending(state, q)
    /\ UNCHANGED <<now, process, row, foreign, barred>>

CallConfirm(p) ==
    /\ process = "up"
    /\ CanConfirm(state)
    /\ state' = ConfirmPendingEntry(state, p)
    /\ UNCHANGED <<now, process, row, foreign, barred>>

CallExit(reason) ==
    /\ process = "up"
    /\ CanExit(state)
    /\ state' = Exit(state, reason, now)
    /\ barred' = IF reason = "StopLoss" THEN now + CooldownHours ELSE barred
    /\ UNCHANGED <<now, process, row, foreign>>

CallUpdate ==
    /\ process = "up"
    /\ state' = Update(state, now)
    /\ UNCHANGED <<now, process, row, foreign, barred>>

\* StateStore::save replaces the single row (id = 1).
Save ==
    /\ process = "up"
    /\ row' = state
    /\ UNCHANGED <<now, process, state, foreign, barred>>

\* The hour until which the stored row bars entry.
RowBar ==
    IF row # None /\ row.status = "Cooldown" /\ row.cooldown_until # None
    THEN row.cooldown_until ELSE 0

\* The process dies and the record in memory with it.  What it knew of a stop
\* loss survives only as far as the row says.
Crash ==
    /\ process = "up"
    /\ process' = "down"
    /\ state' = DefaultState
    /\ barred' = RowBar
    /\ UNCHANGED <<now, row, foreign>>

\* main.rs, 538-550: load; with no row the machine keeps its default, otherwise
\* recover_state and apply_state, whose error ends the process.  cron launches
\* the program again after a refusal too.
Restart ==
    /\ process # "up"
    /\ \/ /\ row = None
          /\ process' = "up"
          /\ state' = DefaultState
       \/ /\ row # None
          /\ HydrateAccepts(Recover(row, now))
          /\ process' = "up"
          /\ state' = Recover(row, now)
       \/ /\ row # None
          /\ ~HydrateAccepts(Recover(row, now))
          /\ process' = "refused"
          /\ UNCHANGED state
    /\ UNCHANGED <<now, row, foreign, barred>>

Next ==
    \/ Tick
    \/ CallForceFlat
    \/ \E p \in Positions : CallEnter(p) \/ CallConfirm(p)
    \/ \E q \in PendingEntries : CallEnterPending(q)
    \/ \E reason \in ExitReasons : CallExit(reason)
    \/ CallUpdate
    \/ Save
    \/ Crash
    \/ Restart

Spec == Init /\ [][Next]_vars

----------------------------------------------------------------------------
\* A row this program wrote is never refused at start-up: recover_state of a
\* saved state is a state hydrate accepts, whatever the hour of the restart.
OwnRowAccepted == process = "refused" => foreign

\* The machine never holds a combination of status and snapshots that hydrate
\* would refuse, whichever methods were called in whichever order.
StateHydratable == process = "up" => HydrateAccepts(state)

\* Flat never carries a deadline once the record is this program's own, so the
\* "cannot enter during cooldown" error of enter and enter_pending cannot meet
\* an entry whose orders have already been sent.
FlatHasNoDeadline ==
    process = "up" /\ ~foreign /\ state.status = "Flat"
      => state.cooldown_until = None

\* An entry is accepted only once the cooldown of the last stop loss is over,
\* across any number of saves, crashes and restarts, as long as nobody forced
\* the machine flat and the stop loss reached the row.
EntryAfterCooldown ==
    [][state.status = "Flat" /\ state'.status \in {"InPosition", "PendingEntry"}
         /\ process = "up"
       => now >= barred]_vars

\* A restart that finds the row unchanged gives back the state that was saved,
\* up to a cooldown that ended meanwhile: the start-up path (recover_state) and
\* the running path (update) release a cooldown alike.
RestartLikeUpdate ==
    [][process # "up" /\ process' = "up" /\ row # None /\ HydrateAccepts(row)
       => state' = Update(row, now)]_vars
=============================================================================
