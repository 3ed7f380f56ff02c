----------------------------- MODULE LiveRunner -----------------------------
(***************************************************************************)
(* The live trading process: LiveRunner::run_once_at (src/runtime/mod.rs)  *)
(* with the strategy engine it drives (reconcile_exchange_position and     *)
(* process_bar of src/core/strategy.rs), the execution engine, the         *)
(* exchange, the state store and the start-up path of src/main.rs.         *)
(*                                                                         *)
(* A step ends at an await: the exchange may take a resting order, and the *)
(* process may die, between any two steps.  pc says where the run is.      *)
(* Which entry or exit the signals ask for is a free choice (Signals are   *)
(* another module's matter), and so is every gate that makes process_bar   *)
(* skip an entry.                                                          *)
(***************************************************************************)
EXTENDS ExecutionEngine, StrategyState

CONSTANTS
    InheritedRows, \* InPosition rows the process may be first started with
    Qty,           \* size of an opening order, in smallest fills
    Directions,    \* directions the signals ask for
    OrderType,     \* execution.order_type
    PendingTtl,    \* execution.post_only_ttl_secs, in bars
    RunnerFaults,  \* which faults of the process itself happen
    MaxBar,        \* bound: the clock stops here
    LastEntryBar   \* bound: no entry after this bar

\* crash:       the process dies between two awaits
\* save_fails:  StateWriter::save returns an error
\* no_prices:   every price fetch of the run fails
\* no_position: the position fetch fails
\* bar_error:   process_bar returns early with an error of its own
\* mid_run:     a resting order is taken while a run is under way, not only
\*              between runs (no fault of anybody; not counted by MaxFaults)
RunnerFaultKinds ==
    {"crash", "save_fails", "no_prices", "no_position", "bar_error", "mid_run"}

ASSUME RunnerFaultsAssumption == RunnerFaults \subseteq RunnerFaultKinds

ASSUME RunnerAssumption ==
    /\ Qty \in Nat \ {0}
    /\ Directions \subseteq TradeDirections
    /\ OrderType \in OrderTypes
    /\ PendingTtl \in Nat
    /\ MaxBar \in Nat /\ LastEntryBar \in Nat

\* What an earlier process may leave is what it may save while it holds a
\* position, and no record and no answer looks like the absence of one.
ASSUME RowsAssumption ==
    /\ InheritedRows \subseteq StrategyStates
    /\ \A r \in InheritedRows :
         /\ r.status = "InPosition" /\ HydrateAccepts(r)
         /\ r.position.eth # 0 \/ r.position.btc # 0
    /\ None \notin StrategyStates
    /\ None \notin [Legs -> Int]

VARIABLES
    pc,      \* where the run is
    bar,     \* timestamp of the bar, StrategyBar.timestamp
    state,   \* StateMachine.state
    row,     \* the persisted record
    seen,    \* the PairExposure the run fetched
    plan,    \* the direction being entered or the reason of the exit
    barred   \* history: bar until which completed stop losses bar entry

runner_vars == <<pc, bar, state, row, seen, plan, barred>>

vars == <<engine_vars, runner_vars>>

\* Awaiting the execution engine.
CallPoints ==
    {"drop_eth", "drop_btc", "reconcile_repair", "expire_eth", "expire_btc",
     "local_repair", "entering", "exiting"}

Points ==
    {"down", "idle", "fetch", "reconcile", "expiry", "update",
     "residual", "signals", "saving", "failing"} \cup CallPoints

IsFlat(qty) == \A leg \in Legs : qty[leg] = 0

HasResidual(qty) == ~IsFlat(qty) /\ \E leg \in Legs : qty[leg] = 0

PositionQty(p) == [leg \in Legs |-> IF leg = "eth" THEN p.eth ELSE p.btc]

TypeOK ==
    /\ ExchangeTypeOK
    /\ met \subseteq FaultKinds \cup RunnerFaultKinds
    /\ pc \in Points
    /\ pc \in CallPoints <=> call # Idle
    /\ bar \in 0..MaxBar
    /\ state \in StrategyStates
    /\ row \in StrategyStates \cup {None}
    /\ barred \in Nat

\* The database is empty and the account flat, or both hold the position an
\* earlier process left.
Init ==
    /\ row \in InheritedRows \cup {None}
    /\ ExchangeInit(IF row = None THEN [leg \in Legs |-> 0]
                                 ELSE PositionQty(row.position))
    /\ call = Idle
    /\ pc = "down"
    /\ bar = 0
    /\ state = DefaultState
    /\ seen = None
    /\ plan = None
    /\ barred = 0

----------------------------------------------------------------------------
(* Helpers.                                                                 *)

RunnerFault(kind) ==
    /\ kind \in RunnerFaults
    /\ faults < MaxFaults
    /\ faults' = faults + 1
    /\ met' = met \cup {kind}

NoFault == UNCHANGED <<faults, met>>

Account == <<exposure, book, next_oid>>

\* The engine's future is ready and gives this result.
Ready(point) == pc = point /\ call.stage = "returned"

GoOn(point) == pc' = point /\ UNCHANGED <<bar, seen, plan, row, barred>>

\* Await a call of the execution engine at a point of the run.
Await(point, c) ==
    /\ call' = c
    /\ GoOn(point)
    /\ UNCHANGED <<exchange_vars, state>>

\* A step that takes the engine's result and makes no new call.
TakeResult == call' = Idle /\ UNCHANGED exchange_vars

Synchronous == UNCHANGED engine_vars

\* exposure_to_position infers the direction from the signs.
Position(qty) ==
    [direction |-> IF qty["eth"] > 0 \/ qty["btc"] < 0
                   THEN "LongEthShortBtc" ELSE "ShortEthLongBtc",
     eth |-> qty["eth"], btc |-> qty["btc"]]

\* exit_order_type: a post-only strategy exits with market orders.
ExitOrderType == IF OrderType = "PostOnly" THEN "Market" ELSE OrderType

----------------------------------------------------------------------------
(* run_once_at up to the reconciliation.                                    *)

\* Time passes between two runs; a run belongs to one bar.
NextBar ==
    /\ pc \in {"idle", "down"}
    /\ bar < MaxBar
    /\ bar' = bar + 1
    /\ UNCHANGED <<engine_vars, pc, state, row, seen, plan, barred>>

\* The price fetch, three attempts; without prices the run returns an error,
\* which ends the loop and the process, and nothing is saved.
StartBar ==
    /\ pc = "idle"
    /\ \/ pc' = "fetch" /\ NoFault /\ UNCHANGED state
       \/ pc' = "down" /\ RunnerFault("no_prices") /\ state' = DefaultState
    /\ UNCHANGED <<Account, call, bar, row, seen, plan, barred>>

\* fetch_pair_exposure; a failure is tolerated and skips the reconciliation.
FetchExposure ==
    /\ pc = "fetch"
    /\ \/ /\ seen' = exposure
          /\ pc' = "reconcile"
          /\ NoFault
       \/ /\ seen' = None
          /\ pc' = "expiry"
          /\ RunnerFault("no_position")
    /\ UNCHANGED <<Account, call, state, bar, row, plan, barred>>

----------------------------------------------------------------------------
(* reconcile_exchange_position.                                             *)

\* A flat exchange forces a local position flat; a pending entry is left alone.
ReconcileFlat ==
    /\ pc = "reconcile"
    /\ IsFlat(seen)
    /\ state' = IF state.position # None THEN ForceFlat(state) ELSE state
    /\ GoOn("expiry")
    /\ Synchronous

\* Closes the leg without cancelling the pending orders first (a mutant).
ReconcileResidualKeepsOrders ==
    /\ pc = "reconcile"
    /\ HasResidual(seen)
    /\ Await("reconcile_repair", RepairResidual(seen))

\* Leaves a residual of a held position to its exit (a mutant).
ReconcileResidualWaits ==
    /\ pc = "reconcile"
    /\ HasResidual(seen)
    /\ IF state.status = "InPosition"
       THEN GoOn("expiry") /\ Synchronous /\ UNCHANGED state
       ELSE IF state.status = "PendingEntry"
       THEN Await("drop_eth", CancelOrder("eth", state.pending_entry.eth_order_id))
       ELSE Await("reconcile_repair", RepairResidual(seen))

\* One leg: cancel a pending entry's orders first, then close the leg.
ReconcileResidual ==
    /\ pc = "reconcile"
    /\ HasResidual(seen)
    /\ IF state.status = "PendingEntry"
       THEN Await("drop_eth", CancelOrder("eth", state.pending_entry.eth_order_id))
       ELSE Await("reconcile_repair", RepairResidual(seen))

\* cancel_pending_entry_orders: errors are logged and ignored.
DropEth ==
    /\ Ready("drop_eth")
    /\ Await("drop_btc", CancelOrder("btc", state.pending_entry.btc_order_id))

DropBtc ==
    /\ Ready("drop_btc")
    /\ Await("reconcile_repair", RepairResidual(seen))

ReconcileRepaired ==
    /\ Ready("reconcile_repair")
    /\ IF Failed(call.result)
       THEN GoOn("failing") /\ UNCHANGED state
       ELSE GoOn("expiry") /\ state' = ForceFlat(state)
    /\ TakeResult

\* Both legs while an entry is pending: the entry filled, with the quantities
\* the exchange reports.
ReconcileConfirm ==
    /\ pc = "reconcile"
    /\ ~IsFlat(seen) /\ ~HasResidual(seen)
    /\ CanConfirm(state)
    /\ state' = ConfirmPendingEntry(state, Position(seen))
    /\ GoOn("expiry")
    /\ Synchronous

\* Tolerates a mismatch (a mutant).
ReconcileHeldTolerant ==
    /\ pc = "reconcile"
    /\ ~IsFlat(seen) /\ ~HasResidual(seen)
    /\ state.status = "InPosition"
    /\ GoOn("expiry")
    /\ UNCHANGED state
    /\ Synchronous

\* Both legs while InPosition: the quantities must be the recorded ones.
ReconcileHeld ==
    /\ pc = "reconcile"
    /\ ~IsFlat(seen) /\ ~HasResidual(seen)
    /\ state.status = "InPosition"
    /\ GoOn(IF seen = PositionQty(state.position) THEN "expiry" ELSE "failing")
    /\ UNCHANGED state
    /\ Synchronous

\* Goes on with a position nobody recorded (a mutant).
ReconcileUnknownTolerant ==
    /\ pc = "reconcile"
    /\ ~IsFlat(seen) /\ ~HasResidual(seen)
    /\ state.status \in {"Flat", "Cooldown"}
    /\ GoOn("expiry")
    /\ UNCHANGED state
    /\ Synchronous

\* Both legs while Flat or in Cooldown: an error on every bar.
ReconcileUnknown ==
    /\ pc = "reconcile"
    /\ ~IsFlat(seen) /\ ~HasResidual(seen)
    /\ state.status \in {"Flat", "Cooldown"}
    /\ GoOn("failing")
    /\ UNCHANGED state
    /\ Synchronous

----------------------------------------------------------------------------
(* process_bar up to the signals.                                           *)

PendingExpired ==
    state.status = "PendingEntry" /\ bar >= state.pending_entry.expires_at

CheckExpiry ==
    /\ pc = "expiry"
    /\ IF PendingExpired
       THEN Await("expire_eth", CancelOrder("eth", state.pending_entry.eth_order_id))
       ELSE GoOn("update") /\ Synchronous /\ UNCHANGED state

\* A cancel error leaves process_bar with the entry still pending.
ExpireEth ==
    /\ Ready("expire_eth")
    /\ IF Failed(call.result)
       THEN GoOn("failing") /\ TakeResult /\ UNCHANGED state
       ELSE Await("expire_btc", CancelOrder("btc", state.pending_entry.btc_order_id))

\* Cancels both orders and keeps the entry pending (a mutant).
ExpireBtcKeepsPending ==
    /\ Ready("expire_btc")
    /\ GoOn(IF Failed(call.result) THEN "failing" ELSE "update")
    /\ UNCHANGED state
    /\ TakeResult

ExpireBtc ==
    /\ Ready("expire_btc")
    /\ IF Failed(call.result)
       THEN GoOn("failing") /\ UNCHANGED state
       ELSE GoOn("update") /\ state' = ForceFlat(state)
    /\ TakeResult

\* The cooldown is released by the bar's timestamp.
UpdateState ==
    /\ pc = "update"
    /\ state' = Update(state, bar)
    /\ GoOn("residual")
    /\ Synchronous

\* A recorded position with one leg at zero is repaired like an exchange
\* residual; the repair error leaves process_bar.
CheckResidual ==
    /\ pc = "residual"
    /\ IF state.position # None /\ HasResidual(PositionQty(state.position))
       THEN Await("local_repair", RepairResidual(PositionQty(state.position)))
       ELSE GoOn("signals") /\ Synchronous /\ UNCHANGED state

\* Repairs the leg and keeps the position (a mutant).
LocalRepairedKeepsPosition ==
    /\ Ready("local_repair")
    /\ GoOn(IF Failed(call.result) THEN "failing" ELSE "signals")
    /\ UNCHANGED state
    /\ TakeResult

LocalRepaired ==
    /\ Ready("local_repair")
    /\ IF Failed(call.result)
       THEN GoOn("failing") /\ UNCHANGED state
       ELSE GoOn("signals") /\ state' = ForceFlat(state)
    /\ TakeResult

----------------------------------------------------------------------------
(* process_bar from the signals on.                                         *)

NoTrade ==
    /\ pc = "signals"
    /\ GoOn("saving")
    /\ UNCHANGED state
    /\ Synchronous

\* An error before any order: equity unavailable, capital above max_notional,
\* an indicator or sizing error.
BarError ==
    /\ pc = "signals"
    /\ GoOn("failing")
    /\ RunnerFault("bar_error")
    /\ UNCHANGED <<Account, call, state>>

\* Enters in a cooldown too (a mutant).
TryEntryInCooldown(direction) ==
    /\ pc = "signals"
    /\ state.status \in {"Flat", "Cooldown"}
    /\ bar <= LastEntryBar
    /\ call' = OpenPair(
         Order("eth", EntrySide(direction, "eth"), Qty, OrderType, FALSE),
         Order("btc", EntrySide(direction, "btc"), Qty, OrderType, FALSE))
    /\ plan' = direction
    /\ pc' = "entering"
    /\ UNCHANGED <<exchange_vars, bar, state, row, seen, barred>>

TryEntry(direction) ==
    /\ pc = "signals"
    /\ state.status = "Flat"
    /\ bar <= LastEntryBar
    /\ call' = OpenPair(
         Order("eth", EntrySide(direction, "eth"), Qty, OrderType, FALSE),
         Order("btc", EntrySide(direction, "btc"), Qty, OrderType, FALSE))
    /\ plan' = direction
    /\ pc' = "entering"
    /\ UNCHANGED <<exchange_vars, bar, state, row, seen, barred>>

\* The fills or orders of an entry carry the signs of its direction.
Signed(direction, eth, btc) ==
    [direction |-> direction,
     eth |-> Sign(EntrySide(direction, "eth")) * eth,
     btc |-> Sign(EntrySide(direction, "btc")) * btc]

PendingSnapshot(result) ==
    [direction |-> plan,
     eth_order_id |-> result.eth,
     btc_order_id |-> result.btc,
     submitted_at |-> bar,
     expires_at |-> bar + PendingTtl]

EntryFilled ==
    /\ Ready("entering")
    /\ call.result.kind = "PairFilled"
    /\ IF CanEnter(state, bar)
       THEN /\ state' = Enter(state, Signed(plan, call.result.eth, call.result.btc))
            /\ pc' = "saving"
       ELSE pc' = "failing" /\ UNCHANGED state
    /\ plan' = None
    /\ TakeResult
    /\ UNCHANGED <<bar, row, seen, barred>>

EntryResting ==
    /\ Ready("entering")
    /\ call.result.kind = "PairResting"
    /\ LET pending == PendingSnapshot(call.result)
       IN  IF CanEnterPending(state, pending)
           THEN state' = EnterPending(state, pending) /\ pc' = "saving"
           ELSE pc' = "failing" /\ UNCHANGED state
    /\ plan' = None
    /\ TakeResult
    /\ UNCHANGED <<bar, row, seen, barred>>

\* A Fatal "post only would take" is an entry that did not happen; any other
\* error leaves process_bar.
EntryFailed ==
    /\ Ready("entering")
    /\ Failed(call.result)
    /\ pc' = IF call.result.class = "Fatal" /\ call.result.why = "would_take"
             THEN "saving" ELSE "failing"
    /\ plan' = None
    /\ TakeResult
    /\ UNCHANGED <<bar, state, row, seen, barred>>

TryExit(reason) ==
    /\ pc = "signals"
    /\ state.status = "InPosition"
    /\ call' = LET p == state.position
               IN  ClosePair(
                     Order("eth", CloseForQty(p.eth), Abs(p.eth), ExitOrderType, TRUE),
                     Order("btc", CloseForQty(p.btc), Abs(p.btc), ExitOrderType, TRUE))
    /\ plan' = reason
    /\ pc' = "exiting"
    /\ UNCHANGED <<exchange_vars, bar, state, row, seen, barred>>

\* The estimate of what funding cost, after the close, is an error for an interval
\* of no hours only, and never gets one: it ends no run.
ExitDone ==
    /\ Ready("exiting")
    /\ IF Failed(call.result)
       THEN pc' = "failing" /\ UNCHANGED <<state, barred>>
       ELSE /\ state' = Exit(state, plan, bar)
            /\ barred' = IF plan = "StopLoss" THEN bar + CooldownHours ELSE barred
            /\ pc' = "saving"
    /\ plan' = None
    /\ TakeResult
    /\ UNCHANGED <<bar, row, seen>>

----------------------------------------------------------------------------
(* The end of a run, and the life of the process.                           *)

Stopped == state' = DefaultState /\ seen' = None /\ plan' = None

\* The state is saved before the logs are written; a save error is returned,
\* and the process ends with the state of this run unsaved.  After the save the
\* loop waits for its next tick, or the process ends: a --once run is over, or
\* the shutdown signal came, which is only looked at between runs.
Save ==
    /\ pc = "saving"
    /\ \/ /\ row' = state
          /\ \/ pc' = "idle" /\ seen' = None /\ UNCHANGED <<state, plan>>
             \/ pc' = "down" /\ Stopped
          /\ NoFault
       \/ /\ pc' = "down"
          /\ RunnerFault("save_fails")
          /\ Stopped
          /\ UNCHANGED row
    /\ UNCHANGED <<Account, call, bar, barred>>

\* record_strategy_failure saves too, but ignores a save error; then the error
\* ends the loop and the process.
Fail ==
    /\ pc = "failing"
    /\ \/ row' = state /\ NoFault
       \/ RunnerFault("save_fails") /\ UNCHANGED row
    /\ pc' = "down"
    /\ Stopped
    /\ UNCHANGED <<Account, call, bar, barred>>

Crash ==
    /\ pc # "down"
    /\ RunnerFault("crash")
    /\ pc' = "down"
    /\ call' = Idle
    /\ Stopped
    /\ UNCHANGED <<Account, bar, row, barred>>

\* cron or the operator starts the program again: load, recover_state, hydrate.
\* Warm-up then replays earlier bars only, which release nothing more.
Start ==
    /\ pc = "down"
    /\ IF row = None
       THEN state' = DefaultState
       ELSE HydrateAccepts(Recover(row, bar)) /\ state' = Recover(row, bar)
    /\ pc' = "idle"
    /\ UNCHANGED <<engine_vars, bar, row, seen, plan, barred>>

OrderTaken ==
    /\ pc \in {"idle", "down"} \/ "mid_run" \in RunnerFaults
    /\ TakeResting
    /\ UNCHANGED <<call, runner_vars>>

RunStep ==
    \/ StartBar
    \/ FetchExposure
    \/ ReconcileFlat
    \/ ReconcileResidual
    \/ DropEth
    \/ DropBtc
    \/ ReconcileRepaired
    \/ ReconcileConfirm
    \/ ReconcileHeld
    \/ ReconcileUnknown
    \/ CheckExpiry
    \/ ExpireEth
    \/ ExpireBtc
    \/ UpdateState
    \/ CheckResidual
    \/ LocalRepaired
    \/ NoTrade
    \/ BarError
    \/ \E direction \in Directions : TryEntry(direction)
    \/ EntryFilled
    \/ EntryResting
    \/ EntryFailed
    \/ \E reason \in ExitReasons : TryExit(reason)
    \/ ExitDone
    \/ Save
    \/ Fail
    \/ Start
    \/ EngineStep /\ UNCHANGED runner_vars

Next ==
    \/ RunStep
    \/ NextBar
    \/ Crash
    \/ OrderTaken

Spec == Init /\ [][Next]_vars

\* The loop ticks and cron launches: an unfinished run, or a process that is
\* down, always gets its next step, and time passes between runs.
FairSpec == Spec /\ WF_vars(RunStep) /\ SF_vars(NextBar)

----------------------------------------------------------------------------
\* The record in memory agrees with the account: a position is the exposure,
\* Flat and Cooldown mean no exposure and nothing on the book.
RecordMatchesAccount ==
    /\ state.status = "InPosition" =>
          exposure = PositionQty(state.position) /\ book = {}
    /\ state.status \in {"Flat", "Cooldown"} => IsFlat(exposure) /\ book = {}

\* A run that fetched the exposure and reaches its save, whatever failed before
\* and in whatever run, saves a record that agrees with the account.  Lost,
\* garbled and partial answers break this.
SavedMatchesAccount ==
    pc = "saving" /\ seen # None
      /\ Spared({"lost_response", "garbled", "partial"})
      => RecordMatchesAccount

\* An entry that filled or rests is never refused by the state machine, which
\* would leave it on the exchange without a record.
EntryNeverRefused ==
    /\ Ready("entering") /\ call.result.kind = "PairFilled"
         => CanEnter(state, bar)
    /\ Ready("entering") /\ call.result.kind = "PairResting"
         => CanEnterPending(state, PendingSnapshot(call.result))

\* What a run that looked at the account sends fits what the account holds when
\* it is sent, whatever went wrong in this run or before it: an entry is opened
\* on nothing (unless a repair that filled in part was believed), and an exit
\* closes exactly what is held.
OrdersFitAccount ==
    [][pc = "signals" /\ seen # None =>
         /\ pc' = "entering" /\ Spared({"partial"})
              => IsFlat(exposure) /\ book = {}
         /\ pc' = "exiting" => exposure = PositionQty(state.position)]_vars

\* No entry is sent before the cooldown of a completed stop loss is over, if
\* the stop loss was saved and every run looked at the account.  Whatever hides
\* a leg breaks this, for the repair of that leg clears the cooldown: an answer
\* that is lost or wrong, and an entry sent without a look on top of a leg that
\* a failed rollback left.
CooldownRespected ==
    [][pc = "signals" /\ pc' = "entering"
         /\ Spared({"crash", "save_fails", "no_position"})
         /\ Spared({"lost_response", "garbled", "partial"})
         => bar >= barred]_vars

\* What the documentation says of it: no entry in any stop loss's cooldown.
NoEntryInCooldown ==
    [][pc = "signals" /\ pc' = "entering" => bar >= barred]_vars

\* A single leg left by a failed order does not stay: some later run closes it.
ResidualRepaired == HasResidual(exposure) ~> ~HasResidual(exposure)

\* Whatever went wrong, the record and the account agree again.
SettlesAgain == []<>RecordMatchesAccount

\* A persisted pending entry is eventually confirmed, cancelled or repaired.
RowPending == row # None /\ row.status = "PendingEntry"

PendingResolved == RowPending ~> ~RowPending

\* The promise to whoever looks at the account and the database (HedgedPair):
\* only what is held and the direction in the row are visible to them.  Lost,
\* garbled and partial answers break it, and so do an entry sent without a look
\* at the account, a fill in the middle of a run, and, for a long-ETH pair, the
\* rollback of a close.
RecordedDirection ==
    IF row # None /\ row.status = "InPosition"
    THEN row.position.direction ELSE None

Promise == INSTANCE HedgedPair
             WITH Size <- Qty, holding <- exposure, record <- RecordedDirection

HedgedPairKept == Promise!PairSpec
=============================================================================
