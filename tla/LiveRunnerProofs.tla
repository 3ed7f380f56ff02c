-------------------------- MODULE LiveRunnerProofs --------------------------
(***************************************************************************)
(* What the live process owes whoever runs it (LiveRunner), proved for any *)
(* size of the orders, any number of attempts, any number and kind of      *)
(* faults, any number of bars and any deadlines.                           *)
(***************************************************************************)
EXTENDS LiveRunner, EngineProofs

\* The legs of a snapshot or of an order id are whatever the exchange reported.
Snapshots ==
    /\ Positions = [direction : TradeDirections, eth : Int, btc : Int]
    /\ PendingEntries =
         [direction : TradeDirections, eth_order_id : Nat, btc_order_id : Nat,
          submitted_at : Nat, expires_at : Nat]

\* A record the program itself can hold or has saved.
Sound(s) ==
    /\ s \in StrategyStates
    /\ HydrateAccepts(s)
    /\ s.status = "Flat" => s.cooldown_until = None
    /\ s.status = "InPosition" => s.position.eth # 0 \/ s.position.btc # 0

\* Which stages of the engine a point of the run awaits.
StagesAt(point) ==
    CASE point \in {"drop_eth", "drop_btc", "expire_eth", "expire_btc"} ->
           {"cancel", "returned"}
      [] point \in {"reconcile_repair", "local_repair"} -> {"repair", "returned"}
      [] point = "entering" -> OpenStages \cup {"returned"}
      [] point = "exiting" -> CloseStages \cup {"returned"}
      [] OTHER -> {"idle"}

\* What an awaited operation may return.
KindsAt(point) ==
    CASE point \in {"drop_eth", "drop_btc", "expire_eth", "expire_btc"} ->
           {"OrderCancelled", "Error"}
      [] point \in {"reconcile_repair", "local_repair"} -> {"LegFilled", "Error"}
      [] point = "entering" -> {"PairFilled", "PairResting", "Error"}
      [] OTHER -> {"PairFilled", "Error"}

\* The type invariant, strong enough to be inductive.
LiveInv ==
    /\ EngineInv
    /\ met \subseteq Faults \cup RunnerFaults
    /\ pc \in Points
    /\ call.stage \in StagesAt(pc)
    /\ call.stage = "idle" => call = Idle
    /\ call.stage = "returned" => call.result.kind \in KindsAt(pc)
    /\ bar \in 0..MaxBar
    /\ Sound(state)
    /\ row # None => Sound(row)
    /\ seen \in [Legs -> Int] \cup {None}
    /\ barred \in Nat
    /\ pc \in {"reconcile", "drop_eth", "drop_btc"} => seen \in [Legs -> Int]
    /\ pc \in {"drop_eth", "drop_btc"} => HasResidual(seen)
    /\ pc \in {"drop_eth", "drop_btc", "expire_eth", "expire_btc"} =>
         state.status = "PendingEntry"
    /\ pc = "signals" /\ state.status = "InPosition" =>
         state.position.eth # 0 /\ state.position.btc # 0
    /\ pc = "entering" => state.status = "Flat" /\ plan \in Directions
    /\ pc = "exiting" => state.status = "InPosition" /\ plan \in ExitReasons

\* With market orders nothing ever rests and no entry is ever pending.
MarketInv ==
    /\ MarketCall
    /\ book = {} /\ next_oid = 1
    /\ state.status # "PendingEntry"
    /\ row # None => row.status # "PendingEntry"

\* The repair of a leg that the run saw.
RepairingInv ==
    /\ pc = "reconcile_repair" /\ call.stage = "repair" =>
         \E leg \in Legs :
           /\ seen[leg] # 0 /\ ClosesLeg(call.request, leg, seen[leg])
           /\ Within(exposure[leg], seen[leg])
           /\ \A other \in Legs : other # leg => exposure[other] = 0
    /\ pc = "reconcile_repair" /\ call.stage = "returned"
         /\ call.result.kind = "LegFilled" /\ Spared({"partial"}) => IsFlat(exposure)

\* After the reconciliation the run decides on what it saw, and that is still
\* what the account holds.
LookedInv ==
    /\ pc = "reconcile" => seen = exposure
    /\ pc \in {"reconcile", "reconcile_repair"} => seen \in [Legs -> Int]
    /\ pc = "local_repair" => seen = None
    /\ pc \in {"expiry", "update", "residual", "signals"} /\ seen # None =>
         /\ state.status = "InPosition" =>
              /\ exposure = PositionQty(state.position)
              /\ \A leg \in Legs : exposure[leg] # 0
         /\ state.status # "InPosition" /\ Spared({"partial"}) => IsFlat(exposure)

\* What an entry on an empty account finds on it.
EnteringInv ==
    pc = "entering" /\ seen # None /\ Clean =>
      /\ call.stage = "open_eth" =>
           /\ IsFlat(exposure)
           /\ call.request.leg = "eth" /\ call.request.side = EntrySide(plan, "eth")
           /\ call.second.leg = "btc" /\ call.second.side = EntrySide(plan, "btc")
      /\ call.stage = "open_btc" =>
           /\ exposure["btc"] = 0
           /\ exposure["eth"] = Sign(EntrySide(plan, "eth")) * call.first.qty
           /\ call.request.leg = "btc" /\ call.request.side = EntrySide(plan, "btc")
      /\ call.stage = "returned" /\ call.result.kind = "PairFilled" =>
           /\ exposure["eth"] = Sign(EntrySide(plan, "eth")) * call.result.eth
           /\ exposure["btc"] = Sign(EntrySide(plan, "btc")) * call.result.btc
      /\ call.stage = "returned" /\ Failed(call.result)
           /\ call.result.class # "PartialFill" => IsFlat(exposure)

\* What an exit finds on the account.
ExitingInv ==
    pc = "exiting" /\ seen # None /\ Clean =>
      /\ call.stage = "close_eth" =>
           /\ ClosesLeg(call.request, "eth", exposure["eth"])
           /\ ClosesLeg(call.second, "btc", exposure["btc"])
           /\ exposure["eth"] # 0 /\ exposure["btc"] # 0
      /\ call.stage = "close_btc" =>
           /\ exposure["eth"] = 0 /\ exposure["btc"] # 0
           /\ ClosesLeg(call.request, "btc", exposure["btc"])
      /\ call.stage = "returned" /\ ~Failed(call.result) => IsFlat(exposure)

\* The stop loss is saved, and every run looks at the account.
Careful == Clean /\ Spared({"crash", "save_fails", "no_position"})

Barring(s) == s.status = "Cooldown" /\ s.cooldown_until = barred

\* While a completed stop loss bars entry the account is empty, nothing is asked
\* of the engine, and the record says so, in memory and, once the run has ended,
\* in the database.
CooldownInv ==
    Careful =>
      /\ pc \notin {"down", "idle", "fetch"} => seen # None
      /\ bar < barred =>
           /\ IsFlat(exposure) /\ pc \notin CallPoints
           /\ pc # "down" => Barring(state)
           /\ pc # "saving" => row # None /\ Barring(row)

USE DEF EngineInv

----------------------------------------------------------------------------
(* The record: what the state machine's methods make of a sound one.        *)

\* force_flat.
LEMMA ForceFlatSound ==
    ASSUME NEW s, Sound(s)
    PROVE  Sound(ForceFlat(s)) /\ ForceFlat(s).status = "Flat"
  BY NoneAssumption
     DEF Sound, ForceFlat, StrategyStates, HydrateAccepts, Statuses

\* enter and confirm_pending_entry, with a position of any size.
LEMMA EnterSound ==
    ASSUME NEW s, Sound(s), NEW p \in Positions, p.eth # 0 \/ p.btc # 0
    PROVE  /\ Sound(Enter(s, p)) /\ Enter(s, p).status = "InPosition"
           /\ Enter(s, p).position = p
           /\ ConfirmPendingEntry(s, p) = Enter(s, p)
  BY NoneAssumption
     DEF Sound, Enter, ConfirmPendingEntry, StrategyStates, HydrateAccepts, Statuses

\* enter_pending.
LEMMA EnterPendingSound ==
    ASSUME NEW s, Sound(s), NEW q \in PendingEntries
    PROVE  Sound(EnterPending(s, q)) /\ EnterPending(s, q).status = "PendingEntry"
  BY NoneAssumption
     DEF Sound, EnterPending, StrategyStates, HydrateAccepts, Statuses

\* exit.
LEMMA ExitSound ==
    ASSUME NEW s, Sound(s), NEW reason, NEW now \in Nat
    PROVE  /\ Sound(Exit(s, reason, now))
           /\ reason = "StopLoss" =>
                /\ Exit(s, reason, now).status = "Cooldown"
                /\ Exit(s, reason, now).cooldown_until = now + CooldownHours
           /\ reason # "StopLoss" => Exit(s, reason, now).status = "Flat"
  <1>0. now + CooldownHours \in Nat /\ now + CooldownHours # None
    BY CooldownAssumption, NoneAssumption
  <1>1. CASE reason = "StopLoss"
    <2>1. Exit(s, reason, now) =
            [s EXCEPT !.status = "Cooldown", !.cooldown_until = now + CooldownHours,
                      !.position = None, !.pending_entry = None]
      BY <1>1 DEF Exit
    <2> QED
      BY <1>0, <1>1, <2>1 DEF Sound, StrategyStates, HydrateAccepts, Statuses
  <1>2. CASE reason # "StopLoss"
    <2>1. Exit(s, reason, now) =
            [s EXCEPT !.status = "Flat", !.cooldown_until = None,
                      !.position = None, !.pending_entry = None]
      BY <1>2 DEF Exit
    <2> QED
      BY <1>2, <2>1 DEF Sound, StrategyStates, HydrateAccepts, Statuses
  <1> QED
    BY <1>1, <1>2

\* update and recover_state change a record only to release its cooldown.
LEMMA UpdateSound ==
    ASSUME NEW s, Sound(s), NEW now \in Nat
    PROVE  /\ Sound(Update(s, now)) /\ Recover(s, now) = Update(s, now)
           /\ Update(s, now) = s
              \/ /\ s.status = "Cooldown" /\ now >= s.cooldown_until
                 /\ Update(s, now).status = "Flat"
  <1>1. CASE CooldownOver(s, now)
    <2>1. /\ s.status = "Cooldown" /\ s.pending_entry = None /\ s.position = None
          /\ now >= s.cooldown_until
      BY <1>1 DEF CooldownOver, Sound, HydrateAccepts
    <2> DEFINE released == [s EXCEPT !.status = "Flat", !.cooldown_until = None]
    <2>2. [s EXCEPT !.status = "Flat", !.pending_entry = None, !.cooldown_until = None]
            = released
      BY <2>1 DEF Sound, StrategyStates
    <2>3. Update(s, now) = released
      BY <1>1 DEF Update
    <2>4. released.status = "Flat"
      BY DEF Sound, StrategyStates
    <2>5. Recover(s, now) = released
      BY <1>1, <2>2, <2>4 DEF Recover
    <2>6. Sound(released)
      BY <2>1, NoneAssumption DEF Sound, StrategyStates, HydrateAccepts, Statuses
    <2> QED
      BY <2>1, <2>3, <2>4, <2>5, <2>6
  <1>2. CASE ~CooldownOver(s, now)
    <2>1. Update(s, now) = s
      BY <1>2 DEF Update
    <2>2. Recover(s, now) = s
      BY <1>2 DEF Recover, Sound, HydrateAccepts
    <2> QED
      BY <2>1, <2>2
  <1> QED
    BY <1>1, <1>2

\* A new state machine.
LEMMA DefaultSound == Sound(DefaultState) /\ DefaultState.status = "Flat"
  BY NoneAssumption DEF Sound, DefaultState, StrategyStates, HydrateAccepts, Statuses

\* The snapshots that the run makes of what it was told.
LEMMA SnapshotsMade ==
    ASSUME Snapshots
    PROVE  /\ \A qty \in [Legs -> Int] :
                /\ Position(qty) \in Positions
                /\ Position(qty).eth = qty["eth"] /\ Position(qty).btc = qty["btc"]
           /\ \A direction \in TradeDirections, eth, btc \in Nat \ {0} :
                /\ Signed(direction, eth, btc) \in Positions
                /\ Signed(direction, eth, btc).eth # 0
           /\ \A p \in Positions :
                /\ PositionQty(p) \in [Legs -> Int]
                /\ PositionQty(p)["eth"] = p.eth /\ PositionQty(p)["btc"] = p.btc
                /\ p.eth \in Int /\ p.btc \in Int
  <1>1. \A qty \in [Legs -> Int] :
          /\ Position(qty) \in Positions
          /\ Position(qty).eth = qty["eth"] /\ Position(qty).btc = qty["btc"]
    BY DEF Snapshots, Position, TradeDirections, Legs
  <1>2. \A direction \in TradeDirections, eth, btc \in Nat \ {0} :
          /\ Signed(direction, eth, btc) \in Positions
          /\ Signed(direction, eth, btc).eth # 0
    BY DEF Snapshots, Signed, Sign
  <1>3. \A p \in Positions :
          /\ PositionQty(p) \in [Legs -> Int]
          /\ PositionQty(p)["eth"] = p.eth /\ PositionQty(p)["btc"] = p.btc
          /\ p.eth \in Int /\ p.btc \in Int
    BY DEF Snapshots, PositionQty, Legs
  <1> QED
    BY <1>1, <1>2, <1>3

----------------------------------------------------------------------------
(* Types.                                                                   *)

\* A step that leaves the account alone keeps the exchange well formed, with or
\* without a fault of the process.
LEMMA AccountKept ==
    ASSUME LiveInv, UNCHANGED Account,
           NoFault \/ \E kind : RunnerFault(kind)
    PROVE  /\ ExchangeTypeOK' /\ met \subseteq met'
           /\ met' \subseteq Faults \cup RunnerFaults
  BY FaultBoundAssumption DEF LiveInv, Account, NoFault, RunnerFault, ExchangeTypeOK

\* Nothing of the call changes.
LEMMA CallKept ==
    ASSUME CallOK, UNCHANGED call
    PROVE  CallOK'
  BY DEF CallOK

\* The stages and results that a point awaits.
LEMMA PointFields ==
    /\ \A point \in {"drop_eth", "drop_btc", "expire_eth", "expire_btc"} :
         /\ StagesAt(point) = {"cancel", "returned"}
         /\ KindsAt(point) = {"OrderCancelled", "Error"}
    /\ \A point \in {"reconcile_repair", "local_repair"} :
         /\ StagesAt(point) = {"repair", "returned"}
         /\ KindsAt(point) = {"LegFilled", "Error"}
    /\ StagesAt("entering") = OpenStages \cup {"returned"}
    /\ KindsAt("entering") = {"PairFilled", "PairResting", "Error"}
    /\ StagesAt("exiting") = CloseStages \cup {"returned"}
    /\ KindsAt("exiting") = {"PairFilled", "Error"}
    /\ \A point \in Points \ CallPoints : StagesAt(point) = {"idle"}
  BY DEF StagesAt, KindsAt, Points, CallPoints

\* A run that awaits nothing: what is left to show of the invariant.
LEMMA NotAwaiting ==
    ASSUME LiveInv, pc' \in Points \ CallPoints, call' = Idle,
           ExchangeTypeOK', met' \subseteq Faults \cup RunnerFaults,
           bar' \in 0..MaxBar, Sound(state'), row' # None => Sound(row'),
           seen' \in [Legs -> Int] \cup {None}, barred' \in Nat,
           pc' = "reconcile" => seen' \in [Legs -> Int],
           pc' = "signals" /\ state'.status = "InPosition" =>
             state'.position.eth # 0 /\ state'.position.btc # 0
    PROVE  LiveInv'
  <1>1. CallOK' /\ call'.stage = "idle"
    BY IdleOK
  <1>2. call'.stage \in StagesAt(pc')
    BY <1>1, PointFields
  <1>3. pc' \in Points /\ pc' \notin {"drop_eth", "drop_btc", "expire_eth",
                                      "expire_btc", "entering", "exiting"}
    BY DEF Points, CallPoints
  <1> QED
    BY <1>1, <1>2, <1>3 DEF LiveInv

\* Between two requests the run is at no call point.
LEMMA IdlePoint ==
    ASSUME LiveInv
    PROVE  /\ pc \in Points \ CallPoints => call = Idle
           /\ pc \in CallPoints => call.stage # "idle"
  BY PointFields DEF LiveInv, CallPoints, OpenStages, CloseStages

\* The quantities of a result.
LEMMA PairResults ==
    ASSUME NEW r \in Results, r.kind \in {"PairFilled", "PairResting"}
    PROVE  /\ r.eth \in Nat /\ r.btc \in Nat
           /\ r.kind = "PairFilled" => r.eth \in Nat \ {0} /\ r.btc \in Nat \ {0}
  BY DEF Results, OrderCancelled

\* What a record holds in each status.
LEMMA RecordFields ==
    ASSUME Snapshots, NEW s, Sound(s)
    PROVE  /\ s.status \in Statuses
           /\ s.status = "PendingEntry" =>
                /\ s.position = None /\ s.pending_entry \in PendingEntries
                /\ s.pending_entry.eth_order_id \in Nat
                /\ s.pending_entry.btc_order_id \in Nat
           /\ s.status = "InPosition" => s.position \in Positions
           /\ s.position # None => s.status = "InPosition"
  BY DEF Snapshots, Sound, StrategyStates, HydrateAccepts, Statuses

\* The steps of a run that neither await nor end a call.
LEMMA SynchronousSteps ==
    ASSUME Snapshots, LiveInv,
           \/ NextBar \/ StartBar \/ FetchExposure \/ ReconcileFlat \/ ReconcileConfirm
           \/ ReconcileHeld \/ ReconcileUnknown \/ UpdateState \/ NoTrade \/ BarError
           \/ Save \/ Fail \/ Crash \/ Start
    PROVE  LiveInv' /\ UNCHANGED Account /\ met \subseteq met'
  <1> USE DEF GoOn, Synchronous, engine_vars, exchange_vars, Account, NoFault, Stopped
  <1>a. exposure \in [Legs -> Int] /\ bar \in Nat /\ pc \in Points
    BY RunnerAssumption DEF LiveInv, ExchangeTypeOK
  <1>b. /\ UNCHANGED Account
        /\ NoFault \/ \E kind : RunnerFault(kind)
    <2>1. UNCHANGED Account
      BY DEF NextBar, StartBar, FetchExposure, ReconcileFlat, ReconcileConfirm,
             ReconcileHeld, ReconcileUnknown, UpdateState, NoTrade, BarError, Save,
             Fail, Crash, Start
    <2>2. CASE NextBar \/ ReconcileFlat \/ ReconcileConfirm \/ ReconcileHeld
                 \/ ReconcileUnknown \/ UpdateState \/ NoTrade \/ Start
      BY <2>2 DEF NextBar, ReconcileFlat, ReconcileConfirm, ReconcileHeld,
                  ReconcileUnknown, UpdateState, NoTrade, Start
    <2>3. CASE StartBar \/ FetchExposure \/ BarError \/ Save \/ Fail \/ Crash
      BY <2>3 DEF StartBar, FetchExposure, BarError, Save, Fail, Crash
    <2> QED
      BY <2>1, <2>2, <2>3
  <1>c. /\ ExchangeTypeOK' /\ met \subseteq met'
        /\ met' \subseteq Faults \cup RunnerFaults
    BY <1>b, AccountKept
  <1>d. ASSUME pc \in Points \ CallPoints, UNCHANGED call PROVE call' = Idle
    BY <1>d, IdlePoint
  <1>e. {"down", "idle", "fetch", "reconcile", "expiry", "update", "residual",
         "signals", "saving", "failing"} \subseteq Points \ CallPoints
    BY DEF Points, CallPoints
  <1>r. /\ bar \in 0..MaxBar /\ Sound(state)
        /\ row # None => Sound(row)
        /\ seen \in [Legs -> Int] \cup {None} /\ barred \in Nat
        /\ pc = "reconcile" => seen \in [Legs -> Int]
    BY DEF LiveInv
  <1>1. CASE NextBar
    <2>1. bar' \in 0..MaxBar /\ pc' \in Points \ CallPoints /\ call' = Idle
          /\ pc' \notin {"reconcile", "signals"}
      BY <1>1, <1>d, <1>e, <1>r, RunnerAssumption DEF NextBar
    <2>2. UNCHANGED <<state, row, seen, barred>>
      BY <1>1 DEF NextBar
    <2> QED
      BY <1>b, <1>c, <1>r, <2>1, <2>2, NotAwaiting
  <1>2. CASE StartBar
    <2>1. /\ pc' \in {"fetch", "down"} /\ call' = call /\ pc = "idle"
          /\ state' = state \/ state' = DefaultState
          /\ UNCHANGED <<bar, row, seen, barred>>
      BY <1>2 DEF StartBar
    <2>2. call' = Idle /\ pc' \in Points \ CallPoints /\ Sound(state')
      BY <1>d, <1>e, <1>r, <2>1, DefaultSound
    <2> QED
      BY <1>b, <1>c, <1>r, <2>1, <2>2, NotAwaiting
  <1>3. CASE FetchExposure
    <2>1. /\ pc' \in {"reconcile", "expiry"} /\ call' = call /\ pc = "fetch"
          /\ seen' = exposure \/ (seen' = None /\ pc' = "expiry")
          /\ UNCHANGED <<state, bar, row, barred>>
      BY <1>3 DEF FetchExposure
    <2>2. call' = Idle /\ pc' \in Points \ CallPoints
      BY <1>d, <1>e, <2>1
    <2> QED
      BY <1>a, <1>b, <1>c, <1>r, <2>1, <2>2, NotAwaiting
  <1>4. CASE ReconcileFlat \/ ReconcileConfirm \/ ReconcileHeld \/ ReconcileUnknown
    <2>1. /\ pc = "reconcile" /\ call' = call /\ pc' \in {"expiry", "failing"}
          /\ UNCHANGED <<bar, row, seen, barred>>
      BY <1>4 DEF ReconcileFlat, ReconcileConfirm, ReconcileHeld, ReconcileUnknown
    <2>2. Sound(state')
      <3>1. CASE ReconcileFlat
        BY <1>r, <3>1, ForceFlatSound DEF ReconcileFlat
      <3>2. CASE ReconcileConfirm
        <4>1. /\ seen \in [Legs -> Int] /\ seen["eth"] # 0
              /\ state' = ConfirmPendingEntry(state, Position(seen))
          BY <1>r, <3>2 DEF ReconcileConfirm, IsFlat, HasResidual, Legs
        <4> QED
          BY <1>r, <4>1, EnterSound, SnapshotsMade
      <3>3. CASE ReconcileHeld \/ ReconcileUnknown
        BY <1>r, <3>3 DEF ReconcileHeld, ReconcileUnknown
      <3> QED
        BY <1>4, <3>1, <3>2, <3>3
    <2>3. call' = Idle /\ pc' \in Points \ CallPoints
      BY <1>d, <1>e, <2>1
    <2> QED
      BY <1>b, <1>c, <1>r, <2>1, <2>2, <2>3, NotAwaiting
  <1>5. CASE UpdateState
    <2>1. /\ pc = "update" /\ call' = call /\ pc' = "residual"
          /\ UNCHANGED <<bar, row, seen, barred>> /\ Sound(state')
      BY <1>5, <1>a, <1>r, UpdateSound DEF UpdateState
    <2>2. call' = Idle /\ pc' \in Points \ CallPoints
      BY <1>d, <1>e, <2>1
    <2> QED
      BY <1>b, <1>c, <1>r, <2>1, <2>2, NotAwaiting
  <1>6. CASE NoTrade \/ BarError
    <2>1. /\ pc = "signals" /\ call' = call /\ pc' \in {"saving", "failing"}
          /\ UNCHANGED <<state, bar, row, seen, barred>>
      BY <1>6 DEF NoTrade, BarError
    <2>2. call' = Idle /\ pc' \in Points \ CallPoints
      BY <1>d, <1>e, <2>1
    <2> QED
      BY <1>b, <1>c, <1>r, <2>1, <2>2, NotAwaiting
  <1>7. CASE Save \/ Fail
    <2>1. /\ pc \in {"saving", "failing"} /\ call' = call
          /\ pc' \in {"idle", "down"}
          /\ row' = state \/ row' = row
          /\ state' = state \/ state' = DefaultState
          /\ seen' = None
          /\ UNCHANGED <<bar, barred>>
      BY <1>7 DEF Save, Fail
    <2>2. call' = Idle /\ pc' \in Points \ CallPoints /\ Sound(state')
      BY <1>d, <1>e, <1>r, <2>1, DefaultSound
    <2> QED
      BY <1>b, <1>c, <1>r, <2>1, <2>2, NotAwaiting
  <1>8. CASE Crash
    <2>1. /\ call' = Idle /\ pc' = "down" /\ state' = DefaultState /\ seen' = None
          /\ UNCHANGED <<bar, row, barred>>
      BY <1>8 DEF Crash
    <2>2. pc' \in Points \ CallPoints
      BY <1>e, <2>1
    <2> QED
      BY <1>b, <1>c, <1>r, <2>1, <2>2, DefaultSound, NotAwaiting
  <1>9. CASE Start
    <2>1. /\ call' = call /\ pc = "down" /\ pc' = "idle"
          /\ IF row = None THEN state' = DefaultState ELSE state' = Recover(row, bar)
          /\ UNCHANGED <<bar, row, seen, barred>>
      BY <1>9 DEF Start
    <2>2. Sound(state')
      BY <1>a, <1>r, <2>1, DefaultSound, UpdateSound
    <2>3. call' = Idle /\ pc' \in Points \ CallPoints
      BY <1>d, <1>e, <2>1
    <2> QED
      BY <1>b, <1>c, <1>r, <2>1, <2>2, <2>3, NotAwaiting
  <1> QED
    BY <1>1, <1>2, <1>3, <1>4, <1>5, <1>6, <1>7, <1>8, <1>9

\* A run that awaits a call: what is left to show of the invariant.
LEMMA Awaiting ==
    ASSUME LiveInv, UNCHANGED <<exchange_vars, bar, row, seen, state, barred>>,
           CallOK', call'.stage # "idle", call'.stage # "returned",
           pc' \in CallPoints, call'.stage \in StagesAt(pc'),
           pc' \in {"drop_eth", "drop_btc"} =>
             seen \in [Legs -> Int] /\ HasResidual(seen),
           pc' \in {"drop_eth", "drop_btc", "expire_eth", "expire_btc"} =>
             state.status = "PendingEntry",
           pc' = "entering" => state.status = "Flat" /\ plan' \in Directions,
           pc' = "exiting" => state.status = "InPosition" /\ plan' \in ExitReasons
    PROVE  LiveInv'
  BY DEF LiveInv, Points, CallPoints, exchange_vars, ExchangeTypeOK

\* The steps of a run that await a call of the engine.
LEMMA StartingSteps ==
    ASSUME Snapshots, LiveInv, UNCHANGED exchange_vars, call'.stage # "idle",
           \/ ReconcileResidual \/ DropEth \/ DropBtc \/ CheckExpiry \/ ExpireEth
           \/ CheckResidual
           \/ \E direction \in Directions : TryEntry(direction)
           \/ \E reason \in ExitReasons : TryExit(reason)
    PROVE  LiveInv' /\ call'.stage \in {"open_eth", "close_eth", "repair", "cancel"}
  <1> USE DEF GoOn, Await, Synchronous, engine_vars
  <1>f. /\ Sound(state) /\ "eth" \in Legs /\ "btc" \in Legs
        /\ pc \in {"reconcile", "drop_eth", "drop_btc"} => seen \in [Legs -> Int]
        /\ pc \in {"drop_eth", "drop_btc"} => HasResidual(seen)
        /\ pc \in {"drop_eth", "drop_btc", "expire_eth", "expire_btc"} =>
             state.status = "PendingEntry"
    BY DEF LiveInv, Legs
  <1>n. ASSUME pc \in {"expiry", "residual"}, UNCHANGED call PROVE FALSE
    BY <1>n, IdlePoint, CallFields DEF Points, CallPoints
  <1>t. ASSUME call' = Idle PROVE FALSE
    BY <1>t, CallFields
  <1>c. ASSUME NEW point \in {"drop_eth", "drop_btc", "expire_eth", "expire_btc"},
               NEW leg \in Legs, NEW oid \in Nat, Await(point, CancelOrder(leg, oid)),
               state.status = "PendingEntry",
               point \in {"drop_eth", "drop_btc"} =>
                 seen \in [Legs -> Int] /\ HasResidual(seen)
        PROVE  LiveInv' /\ call'.stage \in {"open_eth", "close_eth", "repair", "cancel"}
    <2>1. CallOK' /\ call'.stage = "cancel" /\ pc' = point
      BY <1>c, CancelOrderOK
    <2>2. call'.stage \in StagesAt(pc') /\ pc' \in CallPoints
      BY <2>1, PointFields DEF CallPoints
    <2> QED
      BY <1>c, <2>1, <2>2, Awaiting
  <1>p. ASSUME NEW point \in {"reconcile_repair", "local_repair"},
               NEW qty \in [Legs -> Int], HasResidual(qty),
               Await(point, RepairResidual(qty))
        PROVE  LiveInv' /\ call'.stage \in {"open_eth", "close_eth", "repair", "cancel"}
    <2>1. \E leg \in Legs : qty[leg] # 0
      BY <1>p DEF HasResidual, IsFlat
    <2>2. CallOK' /\ call'.stage = "repair" /\ pc' = point
      BY <1>p, <2>1, RepairOK
    <2>3. call'.stage \in StagesAt(pc') /\ pc' \in CallPoints
      BY <2>2, PointFields DEF CallPoints
    <2> QED
      BY <1>p, <2>2, <2>3, Awaiting
  <1>1. CASE ReconcileResidual
    <2>1. CASE state.status = "PendingEntry"
      <3>1. Await("drop_eth", CancelOrder("eth", state.pending_entry.eth_order_id))
        BY <1>1, <2>1 DEF ReconcileResidual
      <3>2. /\ state.pending_entry.eth_order_id \in Nat
            /\ seen \in [Legs -> Int] /\ HasResidual(seen)
        BY <1>1, <1>f, <2>1, RecordFields DEF ReconcileResidual
      <3> HIDE DEF Await
      <3> QED
        BY <1>c, <1>f, <2>1, <3>1, <3>2
    <2>2. CASE state.status # "PendingEntry"
      <3>1. /\ Await("reconcile_repair", RepairResidual(seen))
            /\ seen \in [Legs -> Int] /\ HasResidual(seen)
        BY <1>1, <1>f, <2>2 DEF ReconcileResidual
      <3> HIDE DEF Await
      <3> QED
        BY <1>p, <3>1
    <2> QED
      BY <2>1, <2>2
  <1>2. CASE DropEth
    <2>1. /\ Await("drop_btc", CancelOrder("btc", state.pending_entry.btc_order_id))
          /\ pc = "drop_eth"
      BY <1>2 DEF DropEth, Ready
    <2>2. /\ state.pending_entry.btc_order_id \in Nat /\ state.status = "PendingEntry"
          /\ seen \in [Legs -> Int] /\ HasResidual(seen)
      BY <1>f, <2>1, RecordFields
    <2> HIDE DEF Await
    <2> QED
      BY <1>c, <1>f, <2>1, <2>2
  <1>3. CASE DropBtc
    <2>1. /\ Await("reconcile_repair", RepairResidual(seen))
          /\ seen \in [Legs -> Int] /\ HasResidual(seen)
      BY <1>3, <1>f DEF DropBtc, Ready
    <2> HIDE DEF Await
    <2> QED
      BY <1>p, <2>1
  <1>4. CASE CheckExpiry
    <2>1. PendingExpired
      BY <1>4, <1>n DEF CheckExpiry
    <2>2. /\ Await("expire_eth", CancelOrder("eth", state.pending_entry.eth_order_id))
          /\ state.status = "PendingEntry"
      BY <1>4, <2>1 DEF CheckExpiry, PendingExpired
    <2>3. state.pending_entry.eth_order_id \in Nat
      BY <1>f, <2>2, RecordFields
    <2> HIDE DEF Await
    <2> QED
      BY <1>c, <1>f, <2>2, <2>3
  <1>5. CASE ExpireEth
    <2>1. ~Failed(call.result) /\ pc = "expire_eth"
      BY <1>5, <1>t DEF ExpireEth, TakeResult, Ready
    <2>2. Await("expire_btc", CancelOrder("btc", state.pending_entry.btc_order_id))
      BY <1>5, <2>1 DEF ExpireEth
    <2>3. state.pending_entry.btc_order_id \in Nat /\ state.status = "PendingEntry"
      BY <1>f, <2>1, RecordFields
    <2> HIDE DEF Await
    <2> QED
      BY <1>c, <1>f, <2>2, <2>3
  <1>6. CASE CheckResidual
    <2>1. state.position # None /\ HasResidual(PositionQty(state.position))
      BY <1>6, <1>n DEF CheckResidual
    <2>2. Await("local_repair", RepairResidual(PositionQty(state.position)))
      BY <1>6, <2>1 DEF CheckResidual
    <2>3. PositionQty(state.position) \in [Legs -> Int]
      BY <1>f, <2>1, RecordFields, SnapshotsMade
    <2> HIDE DEF Await
    <2> QED
      BY <1>p, <2>1, <2>2, <2>3
  <1>7. ASSUME NEW direction \in Directions, TryEntry(direction)
        PROVE  LiveInv' /\ call'.stage \in {"open_eth", "close_eth", "repair", "cancel"}
    <2> DEFINE eth == Order("eth", EntrySide(direction, "eth"), Qty, OrderType, FALSE)
               btc == Order("btc", EntrySide(direction, "btc"), Qty, OrderType, FALSE)
    <2>1. eth \in Orders /\ btc \in Orders
      BY RunnerAssumption DEF Order, Orders, Legs, Sides, EntrySide
    <2>2. /\ call' = OpenPair(eth, btc) /\ pc' = "entering" /\ plan' = direction
          /\ state.status = "Flat"
          /\ UNCHANGED <<exchange_vars, bar, row, seen, state, barred>>
      BY <1>7 DEF TryEntry
    <2> HIDE DEF eth, btc
    <2>3. CallOK' /\ call'.stage = "open_eth"
      BY <2>1, <2>2, OpenPairOK
    <2>4. call'.stage \in StagesAt(pc') /\ pc' \in CallPoints
      BY <2>2, <2>3, PointFields DEF CallPoints, OpenStages
    <2> QED
      BY <2>2, <2>3, <2>4, Awaiting
  <1>8. ASSUME NEW reason \in ExitReasons, TryExit(reason)
        PROVE  LiveInv' /\ call'.stage \in {"open_eth", "close_eth", "repair", "cancel"}
    <2>1. /\ call' = ClosePair(
                Order("eth", CloseForQty(state.position.eth), Abs(state.position.eth),
                      ExitOrderType, TRUE),
                Order("btc", CloseForQty(state.position.btc), Abs(state.position.btc),
                      ExitOrderType, TRUE))
          /\ pc' = "exiting" /\ plan' = reason /\ state.status = "InPosition"
          /\ UNCHANGED <<exchange_vars, bar, row, seen, state, barred>>
      BY <1>8 DEF TryExit
    <2>2. state.position.eth \in Int \ {0} /\ state.position.btc \in Int \ {0}
      BY <1>8, <1>f, RecordFields, SnapshotsMade DEF TryExit, LiveInv
    <2>3. ExitOrderType \in OrderTypes
      BY RunnerAssumption DEF ExitOrderType, OrderTypes
    <2>4. CallOK' /\ call'.stage = "close_eth"
      BY <2>1, <2>2, <2>3, ClosePairOK
    <2>5. call'.stage \in StagesAt(pc') /\ pc' \in CallPoints
      BY <2>1, <2>4, PointFields DEF CallPoints, CloseStages
    <2> QED
      BY <2>1, <2>4, <2>5, Awaiting
  <1> QED
    BY <1>1, <1>2, <1>3, <1>4, <1>5, <1>6, <1>7, <1>8

\* The steps of a run that take the engine's result, or find nothing to ask of it.
LEMMA ResultSteps ==
    ASSUME Snapshots, LiveInv, UNCHANGED exchange_vars, call' = Idle,
           \/ ReconcileRepaired \/ ExpireEth \/ ExpireBtc \/ CheckExpiry
           \/ CheckResidual \/ LocalRepaired \/ EntryFilled \/ EntryResting
           \/ EntryFailed \/ ExitDone
    PROVE  LiveInv'
  <1> USE DEF GoOn, Await
  <1>a. /\ ExchangeTypeOK' /\ met' \subseteq Faults \cup RunnerFaults
        /\ bar \in Nat
    BY RunnerAssumption DEF LiveInv, ExchangeTypeOK, exchange_vars
  <1>c. ASSUME NEW leg, NEW oid, call' = CancelOrder(leg, oid) PROVE FALSE
    BY <1>c, CallFields DEF CancelOrder, Idle
  <1>p. ASSUME NEW qty, call' = RepairResidual(qty) PROVE FALSE
    BY <1>p, CallFields DEF RepairResidual, Idle
  <1>e. {"down", "idle", "fetch", "reconcile", "expiry", "update", "residual",
         "signals", "saving", "failing"} \subseteq Points \ CallPoints
    BY DEF Points, CallPoints
  <1>r. /\ bar \in 0..MaxBar /\ Sound(state)
        /\ row # None => Sound(row)
        /\ seen \in [Legs -> Int] \cup {None} /\ barred \in Nat
        /\ pc = "reconcile" => seen \in [Legs -> Int]
    BY DEF LiveInv
  <1>w. call.stage = "returned" => call.result \in Results
    BY DEF LiveInv, CallOK
  <1>q. ASSUME UNCHANGED <<bar, row, seen, barred>>,
               pc' \in {"expiry", "update", "signals", "saving", "failing"},
               Sound(state'),
               pc' = "signals" /\ state'.status = "InPosition" =>
                 state'.position.eth # 0 /\ state'.position.btc # 0
        PROVE  LiveInv'
    <2>1. pc' \in Points \ CallPoints /\ pc' # "reconcile"
      BY <1>e, <1>q
    <2> QED
      BY <1>a, <1>r, <1>q, <2>1, NotAwaiting
  <1>1. CASE ReconcileRepaired \/ LocalRepaired \/ ExpireBtc
    <2>1. /\ \/ state' = state /\ pc' = "failing"
             \/ state' = ForceFlat(state) /\ pc' \in {"expiry", "signals", "update"}
          /\ UNCHANGED <<bar, row, seen, barred>>
      BY <1>1 DEF ReconcileRepaired, LocalRepaired, ExpireBtc
    <2> QED
      BY <1>q, <1>r, <2>1, ForceFlatSound
  <1>2. CASE ExpireEth \/ CheckExpiry
    <2>1. /\ state' = state /\ pc' \in {"failing", "update"}
          /\ UNCHANGED <<bar, row, seen, barred>>
      BY <1>2, <1>c DEF ExpireEth, CheckExpiry
    <2> QED
      BY <1>q, <1>r, <2>1
  <1>3. CASE CheckResidual
    <2>1. /\ state' = state /\ pc' = "signals"
          /\ ~(state.position # None /\ HasResidual(PositionQty(state.position)))
          /\ UNCHANGED <<bar, row, seen, barred>>
      BY <1>3, <1>p DEF CheckResidual
    <2>2. state.status = "InPosition" =>
            state.position.eth # 0 /\ state.position.btc # 0
      <3> SUFFICES ASSUME state.status = "InPosition"
                   PROVE  state.position.eth # 0 /\ state.position.btc # 0
        OBVIOUS
      <3>1. state.position # None /\ state.position \in Positions
        BY <1>r, RecordFields, NoneAssumption
      <3>2. state.position.eth # 0 \/ state.position.btc # 0
        BY <1>r DEF Sound
      <3> QED
        BY <2>1, <3>1, <3>2, SnapshotsMade DEF HasResidual, IsFlat, Legs
    <2> QED
      BY <1>q, <1>r, <2>1, <2>2
  <1>4. CASE EntryFilled
    <2>1. /\ call.stage = "returned" /\ call.result.kind = "PairFilled"
          /\ pc = "entering" /\ pc' \in {"saving", "failing"}
          /\ \/ state' = state
             \/ state' = Enter(state, Signed(plan, call.result.eth, call.result.btc))
          /\ UNCHANGED <<bar, row, seen, barred>>
      BY <1>4 DEF EntryFilled, Ready
    <2>2. plan \in TradeDirections
      BY <2>1, RunnerAssumption DEF LiveInv
    <2>3. call.result.eth \in Nat \ {0} /\ call.result.btc \in Nat \ {0}
      BY <1>w, <2>1, PairResults
    <2>4. Sound(state')
      <3> DEFINE p == Signed(plan, call.result.eth, call.result.btc)
      <3>1. p \in Positions /\ p.eth # 0
        BY <2>2, <2>3, SnapshotsMade
      <3>2. state' = state \/ state' = Enter(state, p)
        BY <2>1
      <3> HIDE DEF p
      <3> QED
        BY <1>r, <3>1, <3>2, EnterSound
    <2> QED
      BY <1>q, <2>1, <2>4
  <1>5. CASE EntryResting
    <2>1. /\ call.stage = "returned" /\ call.result.kind = "PairResting"
          /\ pc = "entering" /\ pc' \in {"saving", "failing"}
          /\ \/ state' = state
             \/ state' = EnterPending(state, PendingSnapshot(call.result))
          /\ UNCHANGED <<bar, row, seen, barred>>
      BY <1>5 DEF EntryResting, Ready
    <2>2. PendingSnapshot(call.result) \in PendingEntries
      <3>1. plan \in TradeDirections
        BY <2>1, RunnerAssumption DEF LiveInv
      <3>2. call.result.eth \in Nat /\ call.result.btc \in Nat
        BY <1>w, <2>1, PairResults
      <3>3. bar + PendingTtl \in Nat
        BY <1>a, RunnerAssumption
      <3> QED
        BY <1>a, <3>1, <3>2, <3>3 DEF PendingSnapshot, Snapshots
    <2>3. Sound(state')
      BY <1>r, <2>1, <2>2, EnterPendingSound
    <2> QED
      BY <1>q, <2>1, <2>3
  <1>6. CASE EntryFailed
    <2>1. /\ pc' \in {"saving", "failing"}
          /\ UNCHANGED <<state, bar, row, seen, barred>>
      BY <1>6 DEF EntryFailed
    <2> QED
      BY <1>q, <1>r, <2>1
  <1>7. CASE ExitDone
    <2>1. /\ pc' \in {"saving", "failing"}
          /\ state' = state \/ state' = Exit(state, plan, bar)
          /\ UNCHANGED <<bar, row, seen>>
          /\ barred' = barred \/ barred' = bar + CooldownHours
      BY <1>7 DEF ExitDone
    <2>2. Sound(state') /\ barred' \in Nat
      BY <1>a, <1>r, <2>1, ExitSound, CooldownAssumption
    <2>3. pc' \in Points \ CallPoints /\ pc' \notin {"reconcile", "signals"}
      BY <1>e, <2>1
    <2> QED
      BY <1>a, <1>r, <2>1, <2>2, <2>3, NotAwaiting
  <1> QED
    BY <1>1, <1>2, <1>3, <1>4, <1>5, <1>6, <1>7

\* The steps of the engine, and of the exchange on its own, during a run.
LEMMA EngineSteps ==
    ASSUME LiveInv,
           \/ EngineStep /\ UNCHANGED runner_vars
           \/ OrderTaken
    PROVE  LiveInv' /\ met \subseteq met'
  <1>1. CASE EngineStep /\ UNCHANGED runner_vars
    <2>1. ExchangeTypeOK' /\ CallOK'
      BY <1>1, EngineOK, EngineKeepsExchange DEF LiveInv
    <2>2. met \subseteq met' /\ met' \subseteq Faults \cup RunnerFaults
      BY <1>1, EngineKeepsExchange DEF LiveInv
    <2>3. /\ call'.stage # "idle"
          /\ call'.stage \in StagesAt(pc)
          /\ call'.stage = "returned" => call'.result.kind \in KindsAt(pc)
      <3>1. call.stage \in StagesAt(pc) /\ pc \in Points
        BY DEF LiveInv
      <3>2. call.stage \in OpenStages \cup CloseStages \cup {"repair", "cancel"}
            /\ call.stage \notin {"idle", "returned"}
        BY <1>1, Attempted DEF OrderStages, CancelStages, OpenStages, CloseStages
      <3>3. /\ call.stage \in OpenStages => call'.stage \in OpenStages \cup {"returned"}
            /\ call.stage \in CloseStages => call'.stage \in CloseStages \cup {"returned"}
            /\ call.stage \in {"repair", "cancel"} => call'.stage \in {call.stage, "returned"}
        BY <1>1, EngineStages DEF LiveInv, OpenStages, CloseStages
      <3>4. CASE pc \in {"drop_eth", "drop_btc", "expire_eth", "expire_btc"}
        BY <1>1, <3>1, <3>2, <3>3, <3>4, PointFields, ResultKinds DEF LiveInv
      <3>5. CASE pc \in {"reconcile_repair", "local_repair"}
        BY <1>1, <3>1, <3>2, <3>3, <3>5, PointFields, ResultKinds DEF LiveInv
      <3>6. CASE pc = "entering"
        BY <1>1, <3>1, <3>2, <3>3, <3>6, PointFields, ResultKinds
           DEF LiveInv, OpenStages
      <3>7. CASE pc = "exiting"
        BY <1>1, <3>1, <3>2, <3>3, <3>7, PointFields, ResultKinds
           DEF LiveInv, CloseStages
      <3>8. CASE pc \in Points \ CallPoints
        BY <3>1, <3>2, <3>8, PointFields
      <3> QED
        BY <3>1, <3>4, <3>5, <3>6, <3>7, <3>8 DEF Points, CallPoints
    <2> QED
      BY <1>1, <2>1, <2>2, <2>3 DEF LiveInv, runner_vars
  <1>2. CASE OrderTaken
    <2>1. ExchangeTypeOK' /\ met \subseteq met' /\ met' \subseteq met \cup Faults
      BY <1>2, TakingKeepsType DEF OrderTaken, LiveInv
    <2>2. CallOK'
      BY <1>2, CallKept DEF OrderTaken, LiveInv
    <2> QED
      BY <1>2, <2>1, <2>2 DEF OrderTaken, runner_vars, LiveInv
  <1> QED
    BY <1>1, <1>2

\* The process as it is first started.
LEMMA LiveInit ==
    ASSUME Snapshots, Init
    PROVE  LiveInv
  <1>1. row # None => Sound(row) /\ row.position \in Positions
    BY RowsAssumption
       DEF Init, Sound, HydrateAccepts, StrategyStates
  <1>2. exposure \in [Legs -> Int]
    <2>1. CASE row = None
      BY <2>1 DEF Init, ExchangeInit
    <2>2. CASE row # None
      BY <1>1, <2>2, SnapshotsMade DEF Init, ExchangeInit
    <2> QED
      BY <2>1, <2>2
  <1>3. ExchangeTypeOK /\ met = {}
    BY <1>2, FaultBoundAssumption DEF Init, ExchangeInit, ExchangeTypeOK
  <1>4. CallOK /\ call = Idle /\ call.stage = "idle"
    BY CallFields, AttemptsAssumption, NoResultAssumption
       DEF Init, CallOK, Stages, OrderStages, CancelStages
  <1>5. pc = "down" /\ "down" \in Points \ CallPoints
    BY DEF Init, Points, CallPoints
  <1>6. call.stage \in StagesAt(pc)
    BY <1>4, <1>5, PointFields
  <1>7. /\ bar \in 0..MaxBar /\ Sound(state) /\ seen = None /\ barred \in Nat
    BY DefaultSound, RunnerAssumption DEF Init
  <1> QED
    BY <1>1, <1>3, <1>4, <1>5, <1>6, <1>7 DEF LiveInv

\* Every step of it, the engine's and the exchange's included.
LEMMA LiveStep ==
    ASSUME Snapshots, LiveInv, [Next]_vars
    PROVE  LiveInv' /\ met \subseteq met'
  <1>1. CASE \/ NextBar \/ StartBar \/ FetchExposure \/ ReconcileFlat
             \/ ReconcileConfirm \/ ReconcileHeld \/ ReconcileUnknown \/ UpdateState
             \/ NoTrade \/ BarError \/ Save \/ Fail \/ Crash \/ Start
    BY <1>1, SynchronousSteps
  <1>2. CASE \/ ReconcileResidual \/ DropEth \/ DropBtc \/ CheckExpiry \/ ExpireEth
             \/ CheckResidual \/ ReconcileRepaired \/ ExpireBtc \/ LocalRepaired
             \/ EntryFilled \/ EntryResting \/ EntryFailed \/ ExitDone
             \/ \E direction \in Directions : TryEntry(direction)
             \/ \E reason \in ExitReasons : TryExit(reason)
    <2>1. UNCHANGED exchange_vars
      BY <1>2 DEF ReconcileResidual, DropEth, DropBtc, CheckExpiry, ExpireEth,
                  CheckResidual, ReconcileRepaired, ExpireBtc, LocalRepaired,
                  EntryFilled, EntryResting, EntryFailed, ExitDone, TryEntry, TryExit,
                  Await, TakeResult, Synchronous, engine_vars
    <2>2. /\ \A eth, btc : /\ OpenPair(eth, btc).stage = "open_eth"
                           /\ ClosePair(eth, btc).stage = "close_eth"
          /\ \A qty : RepairResidual(qty).stage = "repair"
          /\ \A leg, oid : CancelOrder(leg, oid).stage = "cancel"
          /\ Idle.stage = "idle"
      <3>1. \A eth, btc : OpenPair(eth, btc).stage = "open_eth"
        BY DEF OpenPair, Idle
      <3>2. \A eth, btc : ClosePair(eth, btc).stage = "close_eth"
        BY DEF ClosePair, Idle
      <3>3. \A qty : RepairResidual(qty).stage = "repair"
        BY DEF RepairResidual, Idle
      <3>4. \A leg, oid : CancelOrder(leg, oid).stage = "cancel"
        BY DEF CancelOrder, Idle
      <3> QED
        BY <3>1, <3>2, <3>3, <3>4, CallFields
    <2>3. CASE call' = Idle
      <3>1. ~\/ ReconcileResidual \/ DropEth \/ DropBtc
             \/ \E direction \in Directions : TryEntry(direction)
             \/ \E reason \in ExitReasons : TryExit(reason)
        BY <2>2, <2>3 DEF ReconcileResidual, DropEth, DropBtc, TryEntry, TryExit, Await
      <3>2. LiveInv'
        BY <1>2, <2>1, <2>3, <3>1, ResultSteps
      <3> QED
        BY <2>1, <3>2 DEF exchange_vars
    <2>4. CASE call' # Idle
      <3>1. ~\/ ReconcileRepaired \/ ExpireBtc \/ LocalRepaired \/ EntryFilled
             \/ EntryResting \/ EntryFailed \/ ExitDone
        BY <2>4 DEF ReconcileRepaired, ExpireBtc, LocalRepaired, EntryFilled,
                    EntryResting, EntryFailed, ExitDone, TakeResult
      <3>2. pc \in {"expiry", "residual"} => call = Idle
        BY IdlePoint DEF Points, CallPoints
      <3>3. call'.stage # "idle"
        BY <1>2, <2>2, <2>4, <3>1, <3>2
           DEF ReconcileResidual, DropEth, DropBtc, CheckExpiry, ExpireEth,
               CheckResidual, TryEntry, TryExit, Await, TakeResult, Synchronous,
               engine_vars
      <3>4. LiveInv'
        BY <1>2, <2>1, <3>1, <3>3, StartingSteps
      <3> QED
        BY <2>1, <3>4 DEF exchange_vars
    <2> QED
      BY <2>3, <2>4
  <1>3. CASE (EngineStep /\ UNCHANGED runner_vars) \/ OrderTaken
    BY <1>3, EngineSteps
  <1>4. CASE UNCHANGED vars
    BY <1>4 DEF vars, engine_vars, exchange_vars, runner_vars, LiveInv, CallOK,
                ExchangeTypeOK
  <1> QED
    BY <1>1, <1>2, <1>3, <1>4 DEF Next, RunStep

\* Everything the process holds stays well formed, through any number of runs,
\* faults, crashes and restarts.
LEMMA LiveInductive == ASSUME Snapshots PROVE Spec => []LiveInv
  <1>1. Init => LiveInv
    BY LiveInit
  <1>2. LiveInv /\ [Next]_vars => LiveInv'
    BY LiveStep
  <1> QED
    BY <1>1, <1>2, PTL DEF Spec

\* The type invariant of the runs (run_once_at and everything it calls).
THEOREM LiveTypes == ASSUME Snapshots PROVE Spec => []TypeOK
  <1>1. LiveInv => TypeOK
    <2> SUFFICES ASSUME LiveInv PROVE TypeOK
      OBVIOUS
    <2>1. pc \in CallPoints <=> call # Idle
      BY IdlePoint, CallFields DEF LiveInv
    <2>2. state \in StrategyStates /\ row \in StrategyStates \cup {None}
      BY DEF LiveInv, Sound
    <2> QED
      BY <2>1, <2>2, FaultsAssumption, RunnerFaultsAssumption DEF LiveInv, TypeOK
  <1> QED
    BY <1>1, LiveInductive, PTL

\* No order of an entry, filled or resting, meets a state machine that refuses the
\* entry (process_bar against enter and enter_pending): the record is Flat since
\* before the orders were sent, and a Flat record of this program has no deadline.
THEOREM EntryAccepted == ASSUME Snapshots PROVE Spec => []EntryNeverRefused
  <1>1. LiveInv => EntryNeverRefused
    <2> SUFFICES ASSUME LiveInv, Ready("entering")
                 PROVE  /\ CanEnter(state, bar)
                        /\ CanEnterPending(state, PendingSnapshot(call.result))
      BY DEF EntryNeverRefused
    <2>1. state.status = "Flat" /\ state.cooldown_until = None
      BY DEF LiveInv, Ready, Sound
    <2> QED
      BY <2>1 DEF CanEnter, CanEnterPending, DeadlineAhead
  <1> QED
    BY <1>1, LiveInductive, PTL

----------------------------------------------------------------------------
(* Market orders: nothing rests and no entry is pending, so a run looks at  *)
(* the account, repairs what it finds, and then trades or does not.         *)

\* What is left of the next-state relation.
MarketNext ==
    \/ NextBar
    \/ StartBar
    \/ FetchExposure
    \/ ReconcileFlat
    \/ ReconcileResidual /\ Await("reconcile_repair", RepairResidual(seen))
    \/ ReconcileRepaired
    \/ ReconcileHeld
    \/ ReconcileUnknown
    \/ CheckExpiry /\ GoOn("update") /\ Synchronous /\ UNCHANGED state
    \/ UpdateState
    \/ CheckResidual
    \/ LocalRepaired
    \/ NoTrade
    \/ BarError
    \/ \E direction \in Directions : TryEntry(direction)
    \/ EntryFilled
    \/ EntryFailed
    \/ \E reason \in ExitReasons : TryExit(reason)
    \/ ExitDone
    \/ Save
    \/ Fail
    \/ Crash
    \/ Start
    \/ EngineStep /\ UNCHANGED runner_vars
    \/ UNCHANGED vars

LEMMA MarketSteps ==
    ASSUME LiveInv, MarketInv, [Next]_vars
    PROVE  MarketNext
  <1>1. ~TakeResting
    BY DEF MarketInv, TakeResting
  <1>2. /\ pc \notin {"drop_eth", "drop_btc", "expire_eth", "expire_btc"}
        /\ ~CanConfirm(state) /\ ~PendingExpired /\ state.status # "PendingEntry"
    BY DEF LiveInv, MarketInv, CanConfirm, PendingExpired
  <1>3. ~DropEth /\ ~DropBtc /\ ~ExpireEth /\ ~ExpireBtc
    BY <1>2 DEF DropEth, DropBtc, ExpireEth, ExpireBtc, Ready
  <1>4. ~EntryResting
    BY DEF EntryResting, Ready, MarketInv, MarketCall
  <1>5. ~ReconcileConfirm /\ ~OrderTaken
    BY <1>1, <1>2 DEF ReconcileConfirm, OrderTaken
  <1>6. ReconcileResidual => Await("reconcile_repair", RepairResidual(seen))
    BY <1>2 DEF ReconcileResidual
  <1>7. CheckExpiry => GoOn("update") /\ Synchronous /\ UNCHANGED state
    BY <1>2 DEF CheckExpiry
  <1>8. Next \/ UNCHANGED vars
    OBVIOUS
  <1>9. Next => RunStep \/ NextBar \/ Crash \/ OrderTaken
    BY DEF Next
  <1>10. CASE RunStep
    BY <1>3, <1>4, <1>5, <1>6, <1>7, <1>10 DEF RunStep, MarketNext
  <1> QED
    BY <1>5, <1>8, <1>9, <1>10 DEF MarketNext

\* The process's own steps leave the account alone, and leave the call alone,
\* take its result or make a new one.
LEMMA OwnSteps ==
    ASSUME MarketNext, ~EngineStep
    PROVE  /\ UNCHANGED Account
           /\ \/ UNCHANGED call \/ call' = Idle
              \/ \E qty : call' = RepairResidual(qty)
              \/ \E direction \in Directions : TryEntry(direction)
              \/ \E reason \in ExitReasons : TryExit(reason)
  <1> USE DEF GoOn, Synchronous, engine_vars, exchange_vars, Account, TakeResult, Await
  <1>1. CASE \/ NextBar \/ StartBar \/ FetchExposure \/ ReconcileFlat \/ ReconcileHeld
             \/ ReconcileUnknown
             \/ CheckExpiry /\ Synchronous
             \/ UpdateState
             \/ NoTrade \/ BarError \/ Save \/ Fail \/ Crash \/ Start \/ UNCHANGED vars
    BY <1>1 DEF NextBar, StartBar, FetchExposure, ReconcileFlat, ReconcileHeld,
                ReconcileUnknown, UpdateState, NoTrade, BarError, Save, Fail, Crash,
                Start, vars
  <1>2. CASE \/ ReconcileRepaired \/ LocalRepaired \/ EntryFilled \/ EntryFailed
             \/ ExitDone
    BY <1>2 DEF ReconcileRepaired, LocalRepaired, EntryFilled, EntryFailed, ExitDone
  <1>3. CASE \/ Await("reconcile_repair", RepairResidual(seen))
             \/ CheckResidual
    BY <1>3 DEF CheckResidual
  <1>4. CASE \/ \E direction \in Directions : TryEntry(direction)
             \/ \E reason \in ExitReasons : TryExit(reason)
    BY <1>4 DEF TryEntry, TryExit
  <1> HIDE DEF GoOn, Synchronous, engine_vars, exchange_vars, Account, TakeResult, Await
  <1> QED
    BY <1>1, <1>2, <1>3, <1>4 DEF MarketNext

\* How the market orders of an entry and of an exit start.
LEMMA MarketStarts ==
    ASSUME Snapshots, LiveInv, OrderType = "Market"
    PROVE  /\ \A direction \in Directions : TryEntry(direction) =>
                /\ call'.stage = "open_eth"
                /\ call'.request = Order("eth", EntrySide(direction, "eth"), Qty, "Market", FALSE)
                /\ call'.second = Order("btc", EntrySide(direction, "btc"), Qty, "Market", FALSE)
           /\ \A reason \in ExitReasons : TryExit(reason) =>
                /\ call'.stage = "close_eth"
                /\ call'.request.type = "Market" /\ call'.second.type = "Market"
                /\ ClosesLeg(call'.request, "eth", state.position.eth)
                /\ ClosesLeg(call'.second, "btc", state.position.btc)
                /\ state.position \in Positions
                /\ state.position.eth # 0 /\ state.position.btc # 0
  <1>1. ASSUME NEW direction \in Directions, TryEntry(direction)
        PROVE  /\ call'.stage = "open_eth"
               /\ call'.request = Order("eth", EntrySide(direction, "eth"), Qty, "Market", FALSE)
               /\ call'.second = Order("btc", EntrySide(direction, "btc"), Qty, "Market", FALSE)
    <2> DEFINE eth == Order("eth", EntrySide(direction, "eth"), Qty, "Market", FALSE)
               btc == Order("btc", EntrySide(direction, "btc"), Qty, "Market", FALSE)
    <2>1. eth \in Orders /\ btc \in Orders
      BY RunnerAssumption DEF Order, Orders, Legs, Sides, EntrySide, OrderTypes
    <2>2. call' = OpenPair(eth, btc)
      BY <1>1 DEF TryEntry
    <2> HIDE DEF eth, btc
    <2>3. call'.stage = "open_eth" /\ call'.request = eth /\ call'.second = btc
      BY <2>1, <2>2, OpenPairOK
    <2> QED
      BY <2>3 DEF eth, btc
  <1>2. ASSUME NEW reason \in ExitReasons, TryExit(reason)
        PROVE  /\ call'.stage = "close_eth"
               /\ call'.request.type = "Market" /\ call'.second.type = "Market"
               /\ ClosesLeg(call'.request, "eth", state.position.eth)
               /\ ClosesLeg(call'.second, "btc", state.position.btc)
               /\ state.position \in Positions
               /\ state.position.eth # 0 /\ state.position.btc # 0
    <2>1. ExitOrderType = "Market" /\ "Market" \in OrderTypes
      BY DEF ExitOrderType, OrderTypes
    <2>2. call' = ClosePair(
             Order("eth", CloseForQty(state.position.eth), Abs(state.position.eth),
                   "Market", TRUE),
             Order("btc", CloseForQty(state.position.btc), Abs(state.position.btc),
                   "Market", TRUE))
      BY <1>2, <2>1 DEF TryExit
    <2>3. /\ state.position.eth \in Int \ {0} /\ state.position.btc \in Int \ {0}
          /\ state.position \in Positions
      BY <1>2, RecordFields, SnapshotsMade DEF TryExit, LiveInv
    <2> QED
      BY <2>1, <2>2, <2>3, ClosePairOK
  <1> QED
    BY <1>1, <1>2

\* A record that is not pending stays so, and so does what is saved of it.
LEMMA NeverPending ==
    ASSUME Snapshots, LiveInv, MarketInv, MarketNext
    PROVE  /\ state'.status # "PendingEntry"
           /\ row' # None => row'.status # "PendingEntry"
  <1> USE DEF GoOn, Synchronous, Await, Stopped
  <1>r. /\ Sound(state) /\ bar \in Nat
        /\ row # None => Sound(row)
        /\ state.status # "PendingEntry"
        /\ row # None => row.status # "PendingEntry"
    BY RunnerAssumption DEF LiveInv, MarketInv
  <1>1. CASE \/ StartBar \/ Save \/ Fail \/ Crash
    BY <1>1, <1>r, DefaultSound DEF StartBar, Save, Fail, Crash
  <1>2. CASE \/ ReconcileFlat \/ ReconcileRepaired \/ LocalRepaired
    BY <1>2, <1>r, ForceFlatSound DEF ReconcileFlat, ReconcileRepaired, LocalRepaired
  <1>3. CASE UpdateState
    BY <1>3, <1>r, UpdateSound DEF UpdateState
  <1>4. CASE Start
    BY <1>4, <1>r, UpdateSound, DefaultSound DEF Start
  <1>5. CASE EntryFilled
    <2>1. /\ row' = row
          /\ state' = state
             \/ state' = Enter(state, Signed(plan, call.result.eth, call.result.btc))
      BY <1>5 DEF EntryFilled
    <2>2. \A p : Enter(state, p).status = "InPosition"
      BY <1>r DEF Enter, Sound, StrategyStates
    <2> QED
      BY <1>r, <2>1, <2>2
  <1>6. CASE ExitDone
    <2>1. row' = row /\ (state' = state \/ state' = Exit(state, plan, bar))
      BY <1>6 DEF ExitDone
    <2> QED
      BY <1>r, <2>1, ExitSound
  <1>7. CASE \/ NextBar \/ FetchExposure \/ ReconcileHeld \/ ReconcileUnknown
             \/ GoOn("update") /\ UNCHANGED state
             \/ Await("reconcile_repair", RepairResidual(seen))
             \/ CheckResidual \/ NoTrade \/ BarError \/ EntryFailed
             \/ \E direction \in Directions : TryEntry(direction)
             \/ \E reason \in ExitReasons : TryExit(reason)
             \/ UNCHANGED runner_vars \/ UNCHANGED vars
    BY <1>7, <1>r DEF NextBar, FetchExposure, ReconcileHeld, ReconcileUnknown,
         CheckResidual, NoTrade, BarError, EntryFailed, TryEntry, TryExit, runner_vars,
         vars
  <1> HIDE DEF GoOn, Synchronous, Await, Stopped
  <1> QED
    BY <1>1, <1>2, <1>3, <1>4, <1>5, <1>6, <1>7 DEF MarketNext

\* Every step keeps what market orders rest on.
LEMMA MarketStep ==
    ASSUME Snapshots, OrderType = "Market", LiveInv, MarketInv, [Next]_vars
    PROVE  MarketInv' /\ MarketNext
  <1>1. MarketNext
    BY MarketSteps
  <1>2. MarketCall' /\ UNCHANGED <<book, next_oid>>
    <2>1. CASE EngineStep
      BY <2>1, MarketEngine DEF LiveInv, MarketInv
    <2>2. CASE ~EngineStep
      <3>1. UNCHANGED <<book, next_oid>>
        BY <1>1, <2>2, OwnSteps DEF Account
      <3> SUFFICES MarketCall'
        BY <3>1
      <3>2. CASE UNCHANGED call
        BY <3>2 DEF MarketInv, MarketCall
      <3>3. CASE call' = Idle
        BY <3>3, CallFields DEF MarketCall, OrderStages, CancelStages
      <3>4. ASSUME NEW qty, call' = RepairResidual(qty) PROVE MarketCall'
        BY <3>4 DEF RepairResidual, Order, Idle, MarketCall, OrderStages, CancelStages
      <3>r. \A leg, side, qty, flag : Order(leg, side, qty, "Market", flag).type = "Market"
        BY DEF Order
      <3>5. CASE \/ \E direction \in Directions : TryEntry(direction)
                 \/ \E reason \in ExitReasons : TryExit(reason)
        BY <3>5, <3>r, MarketStarts DEF MarketCall, CancelStages
      <3> QED
        BY <1>1, <2>2, <3>2, <3>3, <3>4, <3>5, OwnSteps
    <2> QED
      BY <2>1, <2>2
  <1>3. book' = {} /\ next_oid' = 1
    BY <1>2 DEF MarketInv
  <1> QED
    BY <1>1, <1>2, <1>3, NeverPending DEF MarketInv

LEMMA MarketInit ==
    ASSUME Init
    PROVE  MarketInv
  <1>1. MarketCall
    BY CallFields DEF Init, MarketCall, OrderStages, CancelStages
  <1>2. state.status = "Flat"
    BY DEF Init, DefaultState
  <1>3. row # None => row.status = "InPosition"
    BY RowsAssumption DEF Init
  <1> QED
    BY <1>1, <1>2, <1>3 DEF MarketInv, Init, ExchangeInit

----------------------------------------------------------------------------
(* Looking at the account and repairing what is found.                      *)

\* A history that a step only adds to spared before what it spares after.
LEMMA SparedBefore ==
    ASSUME met \subseteq met', NEW kinds
    PROVE  met' \cap kinds = {} => met \cap kinds = {}
  OBVIOUS

\* A well-formed exposure is not the absence of one.
LEMMA SeenExposure ==
    ASSUME LiveInv
    PROVE  exposure \in [Legs -> Int] /\ exposure # None
  BY RowsAssumption DEF LiveInv, ExchangeTypeOK

\* The legs of a position that agrees with the account.
LEMMA HeldLegs ==
    ASSUME Snapshots, NEW s, Sound(s), s.status = "InPosition"
    PROVE  /\ s.position \in Positions /\ s.position # None
           /\ PositionQty(s.position) \in [Legs -> Int]
           /\ PositionQty(s.position)["eth"] = s.position.eth
           /\ PositionQty(s.position)["btc"] = s.position.btc
  <1>1. s.position \in Positions
    BY RecordFields
  <1> QED
    BY <1>1, SnapshotsMade, NoneAssumption

\* One attempt of the repair.
LEMMA RepairAttempt ==
    ASSUME LiveInv, MarketInv, RepairingInv, LookedInv, met \subseteq met',
           EngineStep, UNCHANGED runner_vars, pc = "reconcile_repair"
    PROVE  RepairingInv'
  <1>1. /\ call.stage = "repair" /\ UNCHANGED <<pc, seen>>
        /\ seen \in [Legs -> Int] /\ call.stage \in OrderStages
    BY Attempted, PointFields
       DEF LiveInv, LookedInv, OrderStages, CancelStages, runner_vars
  <1>2. PICK leg \in Legs :
          /\ seen[leg] # 0 /\ ClosesLeg(call.request, leg, seen[leg])
          /\ Within(exposure[leg], seen[leg])
          /\ \A other \in Legs : other # leg => exposure[other] = 0
    BY <1>1 DEF RepairingInv
  <1>3. seen[leg] \in Int \ {0}
    BY <1>1, <1>2
  <1>4. ASSUME NEW o \in Outcomes(call), Apply(o)
        PROVE  /\ Within(exposure'[leg], seen[leg])
               /\ \A other \in Legs : other # leg => exposure'[other] = 0
               /\ o.reply.kind = "Filled" /\ "partial" \notin met' => exposure'[leg] = 0
    BY <1>1, <1>2, <1>3, <1>4, ClosingAttempt DEF LiveInv, MarketInv
  <1>5. CASE Retry
    <2>1. call'.stage = "repair" /\ call'.request = call.request
      BY <1>1, <1>5, RetryFields DEF LiveInv
    <2>2. \E o \in Outcomes(call) : Apply(o)
      BY Attempted
    <2> QED
      BY <1>1, <1>2, <1>4, <2>1, <2>2 DEF RepairingInv
  <1>6. CASE Repair
    <2>1. PICK o \in Final("repair") :
            /\ Apply(o)
            /\ call' = Return(IF IsError(ExpectFilled(o.reply))
                              THEN PassedOn(ExpectFilled(o.reply))
                              ELSE LegFilled(ExpectFilled(o.reply).qty))
      BY <1>6 DEF Repair
    <2>2. o \in Outcomes(call) /\ o.reply.kind # "Resting"
      BY <1>1, <2>1, MarketAttempt DEF Final, LiveInv, MarketInv
    <2>3. call'.stage = "returned"
      BY <2>1, CallFields
    <2>4. o.reply.kind # "Filled" => call'.result.kind = "Error"
      <3>1. o.reply.kind # "Filled" => IsError(ExpectFilled(o.reply))
        BY <1>1, <2>2, OrderAttempt, OrderReply, ReplyKinds
           DEF IsError, ExpectFilled, LiveInv
      <3> QED
        BY <2>1, <3>1, CallFields, ResultFields
    <2>5. ASSUME o.reply.kind = "Filled", "partial" \notin met'
          PROVE  IsFlat(exposure')
      <3>1. \A l \in Legs : exposure'[l] = 0
        BY <1>4, <2>1, <2>2, <2>5
      <3> QED
        BY <3>1 DEF IsFlat
    <2> QED
      BY <2>3, <2>4, <2>5 DEF RepairingInv, Spared, IsFlat
  <1> QED
    BY <1>1, <1>5, <1>6, EngineStages DEF LiveInv

\* What a run saw stays what the account holds until it trades.
LEMMA LookStep ==
    ASSUME Snapshots, LiveInv, MarketInv, met \subseteq met', MarketNext,
           RepairingInv, LookedInv
    PROVE  RepairingInv' /\ LookedInv'
  <1> USE DEF GoOn, Synchronous, Await, Account, exchange_vars, engine_vars, NoFault,
              TakeResult, Ready
  <1>r. /\ Sound(state) /\ bar \in Nat /\ state.status # "PendingEntry"
        /\ exposure \in [Legs -> Int] /\ exposure # None
        /\ "eth" \in Legs /\ "btc" \in Legs
    BY SeenExposure, RunnerAssumption DEF LiveInv, MarketInv, Legs
  <1>s. Spared({"partial"})' => Spared({"partial"})
    BY SparedBefore DEF Spared
  <1>q. ASSUME pc' \in Points \ {"reconcile", "reconcile_repair", "local_repair", "expiry",
                                 "update", "residual", "signals"}
        PROVE  RepairingInv' /\ LookedInv'
    BY <1>q DEF RepairingInv, LookedInv
  <1>1. CASE EngineStep /\ UNCHANGED runner_vars
    <2>1. call.stage \notin {"idle", "returned"}
      BY <1>1, Attempted DEF OrderStages, CancelStages
    <2>2. pc \in CallPoints /\ pc' = pc
      BY <1>1, <2>1, IdlePoint, CallFields DEF LiveInv, runner_vars
    <2>3. LookedInv'
      BY <1>1, <2>2 DEF LookedInv, runner_vars, CallPoints
    <2>4. CASE pc = "reconcile_repair"
      BY <1>1, <2>3, <2>4, RepairAttempt
    <2>5. CASE pc # "reconcile_repair"
      BY <2>2, <2>3, <2>5 DEF RepairingInv
    <2> QED
      BY <2>4, <2>5
  <1>2. CASE \/ NextBar \/ StartBar \/ ReconcileUnknown \/ NoTrade \/ BarError
             \/ EntryFilled \/ EntryFailed \/ ExitDone \/ Save \/ Fail \/ Crash \/ Start
             \/ \E direction \in Directions : TryEntry(direction)
             \/ \E reason \in ExitReasons : TryExit(reason)
    <2>1. pc' \in {"down", "idle", "fetch", "failing", "saving", "entering", "exiting"}
      BY <1>2 DEF NextBar, StartBar, ReconcileUnknown, NoTrade, BarError, EntryFilled,
                  EntryFailed, ExitDone, Save, Fail, Crash, Start, TryEntry, TryExit
    <2> QED
      BY <1>q, <2>1 DEF Points, CallPoints
  <1>3. CASE FetchExposure
    <2>1. \/ seen' = exposure /\ pc' = "reconcile" /\ exposure' = exposure
          \/ seen' = None /\ pc' = "expiry"
      BY <1>3 DEF FetchExposure
    <2> QED
      BY <1>r, <2>1 DEF RepairingInv, LookedInv
  <1>4. CASE ReconcileFlat
    <2>1. /\ pc' = "expiry" /\ seen' = exposure /\ exposure' = exposure /\ IsFlat(exposure)
      BY <1>4 DEF ReconcileFlat, LookedInv
    <2>2. state'.status # "InPosition"
      <3>1. CASE state.position # None
        BY <1>4, <1>r, <3>1, ForceFlatSound DEF ReconcileFlat
      <3>2. CASE state.position = None
        BY <1>4, <1>r, <3>2 DEF ReconcileFlat, Sound, HydrateAccepts
      <3> QED
        BY <3>1, <3>2
    <2> QED
      BY <2>1, <2>2 DEF RepairingInv, LookedInv, IsFlat
  <1>5. CASE ReconcileResidual /\ Await("reconcile_repair", RepairResidual(seen))
    <2>1. /\ pc = "reconcile" /\ pc' = "reconcile_repair" /\ HasResidual(seen)
          /\ seen = exposure /\ seen' = seen /\ exposure' = exposure
          /\ call' = RepairResidual(exposure)
      BY <1>5 DEF ReconcileResidual, LookedInv
    <2>2. \E leg \in Legs : exposure[leg] # 0
      BY <2>1 DEF HasResidual, IsFlat
    <2>3. /\ call'.stage = "repair"
          /\ \E leg \in Legs :
               exposure[leg] # 0 /\ ClosesLeg(call'.request, leg, exposure[leg])
      BY <1>r, <2>1, <2>2, RepairOK
    <2>4. PICK leg \in Legs :
            exposure[leg] # 0 /\ ClosesLeg(call'.request, leg, exposure[leg])
      BY <2>3
    <2>5. \A other \in Legs : other # leg => exposure[other] = 0
      BY <2>1, <2>4 DEF HasResidual, IsFlat, Legs
    <2>6. Within(exposure[leg], exposure[leg])
      BY <1>r DEF Within
    <2> QED
      BY <1>r, <2>1, <2>3, <2>4, <2>5, <2>6 DEF RepairingInv, LookedInv
  <1>6. CASE ReconcileRepaired
    <2>1. /\ pc = "reconcile_repair" /\ exposure' = exposure
          /\ call.stage = "returned"
          /\ \/ pc' = "failing"
             \/ /\ ~Failed(call.result) /\ pc' = "expiry"
                /\ state' = ForceFlat(state)
      BY <1>6 DEF ReconcileRepaired
    <2>2. ~Failed(call.result) => call.result.kind = "LegFilled"
      BY <2>1, PointFields DEF LiveInv, Failed
    <2>3. ~Failed(call.result) /\ Spared({"partial"}) => IsFlat(exposure)
      BY <2>1, <2>2 DEF RepairingInv
    <2>4. state' = ForceFlat(state) => state'.status = "Flat"
      BY <1>r, ForceFlatSound
    <2> QED
      BY <1>s, <2>1, <2>3, <2>4 DEF RepairingInv, LookedInv, IsFlat
  <1>7. CASE ReconcileHeld
    <2>1. /\ seen = exposure /\ UNCHANGED <<seen, state, exposure>>
          /\ ~IsFlat(exposure) /\ ~HasResidual(exposure)
          /\ state.status = "InPosition"
          /\ \/ pc' = "failing"
             \/ pc' = "expiry" /\ exposure = PositionQty(state.position)
      BY <1>7 DEF ReconcileHeld, LookedInv
    <2>2. \A leg \in Legs : exposure[leg] # 0
      BY <2>1 DEF HasResidual
    <2> QED
      BY <2>1, <2>2 DEF RepairingInv, LookedInv
  <1>8. CASE CheckExpiry /\ GoOn("update") /\ Synchronous /\ UNCHANGED state
    <2>1. /\ pc = "expiry" /\ pc' = "update"
          /\ UNCHANGED <<seen, state, exposure>>
      BY <1>8 DEF CheckExpiry
    <2> QED
      BY <1>s, <2>1 DEF RepairingInv, LookedInv
  <1>9. CASE UpdateState
    <2>1. /\ pc = "update" /\ pc' = "residual" /\ UNCHANGED <<seen, exposure>>
          /\ state' = Update(state, bar)
      BY <1>9 DEF UpdateState
    <2>2. \/ state' = state
          \/ state.status = "Cooldown" /\ state'.status = "Flat"
      BY <1>r, <2>1, UpdateSound
    <2> QED
      BY <1>s, <2>1, <2>2 DEF RepairingInv, LookedInv
  <1>10. CASE CheckResidual
    <2>1. CASE state.position # None /\ HasResidual(PositionQty(state.position))
      <3>1. pc = "residual" /\ pc' = "local_repair" /\ seen' = seen
        BY <1>10, <2>1 DEF CheckResidual
      <3>2. seen = None
        <4>1. state.status = "InPosition"
          BY <1>r, <2>1, RecordFields
        <4> QED
          BY <2>1, <3>1, <4>1 DEF LookedInv, HasResidual
      <3> QED
        BY <3>1, <3>2 DEF RepairingInv, LookedInv
    <2>2. CASE ~(state.position # None /\ HasResidual(PositionQty(state.position)))
      <3>1. pc = "residual" /\ pc' = "signals" /\ UNCHANGED <<seen, state, exposure>>
        BY <1>10, <2>2 DEF CheckResidual
      <3> QED
        BY <1>s, <3>1 DEF RepairingInv, LookedInv
    <2> QED
      BY <2>1, <2>2
  <1>11. CASE LocalRepaired
    <2>1. pc = "local_repair" /\ pc' \in {"failing", "signals"} /\ seen' = seen
      BY <1>11 DEF LocalRepaired
    <2> QED
      BY <2>1 DEF RepairingInv, LookedInv
  <1>12. CASE UNCHANGED vars
    BY <1>12, <1>s DEF RepairingInv, LookedInv, vars, runner_vars, IsFlat, Spared
  <1> HIDE DEF GoOn, Synchronous, Await, Account, exchange_vars, engine_vars, NoFault,
               TakeResult, Ready
  <1> QED
    BY <1>1, <1>2, <1>3, <1>4, <1>5, <1>6, <1>7, <1>8, <1>9, <1>10, <1>11, <1>12
       DEF MarketNext

\* The inductive invariant of the market orders.
MarketLook == LiveInv /\ MarketInv /\ RepairingInv /\ LookedInv

\* Every step keeps it, and is one of the steps that market orders leave.
LEMMA MarketLookStep ==
    ASSUME Snapshots, OrderType = "Market", MarketLook, [Next]_vars
    PROVE  MarketLook' /\ MarketNext /\ met \subseteq met'
  <1>1. LiveInv' /\ met \subseteq met'
    BY LiveStep DEF MarketLook
  <1>2. MarketInv' /\ MarketNext
    BY MarketStep DEF MarketLook
  <1>3. RepairingInv' /\ LookedInv'
    BY <1>1, <1>2, LookStep DEF MarketLook
  <1> QED
    BY <1>1, <1>2, <1>3 DEF MarketLook

LEMMA MarketLookInit ==
    ASSUME Snapshots, Init
    PROVE  MarketLook
  <1>1. RepairingInv /\ LookedInv
    BY DEF Init, RepairingInv, LookedInv
  <1> QED
    BY <1>1, LiveInit, MarketInit DEF MarketLook

LEMMA MarketInductive ==
    ASSUME Snapshots, OrderType = "Market"
    PROVE  Spec => []MarketLook
  <1>1. Init => MarketLook
    BY MarketLookInit
  <1>2. MarketLook /\ [Next]_vars => MarketLook'
    BY MarketLookStep
  <1> QED
    BY <1>1, <1>2, PTL DEF Spec

\* Only a decision of process_bar sends an entry or an exit.
LEMMA Decisions ==
    ASSUME MarketNext, pc = "signals"
    PROVE  /\ pc' = "entering" => \E direction \in Directions : TryEntry(direction)
           /\ pc' = "exiting" => \E reason \in ExitReasons : TryExit(reason)
  <1>1. CASE \/ NextBar \/ StartBar \/ FetchExposure \/ ReconcileFlat
             \/ ReconcileResidual \/ ReconcileRepaired \/ ReconcileHeld
             \/ ReconcileUnknown \/ CheckExpiry \/ UpdateState \/ CheckResidual
             \/ LocalRepaired \/ EntryFilled \/ EntryFailed \/ ExitDone \/ Save \/ Fail
             \/ Start
    BY <1>1 DEF NextBar, StartBar, FetchExposure, ReconcileFlat, ReconcileResidual,
                ReconcileRepaired, ReconcileHeld, ReconcileUnknown, CheckExpiry,
                UpdateState, CheckResidual, LocalRepaired, EntryFilled, EntryFailed,
                ExitDone, Save, Fail, Start, Ready
  <1>2. CASE \/ NoTrade \/ BarError \/ Crash \/ UNCHANGED vars
             \/ EngineStep /\ UNCHANGED runner_vars
    BY <1>2 DEF NoTrade, BarError, Crash, GoOn, vars, runner_vars
  <1>3. /\ \A direction \in Directions : TryEntry(direction) => pc' = "entering"
        /\ \A reason \in ExitReasons : TryExit(reason) => pc' = "exiting"
    BY DEF TryEntry, TryExit
  <1> QED
    BY <1>1, <1>2, <1>3 DEF MarketNext

\* What a run that looked at the account sends fits what the account holds
\* (process_bar after reconcile_exchange_position, with market orders): nothing
\* that went wrong before it, in this process or in one that died, makes it open
\* a pair on top of another or close something else than what is held.
THEOREM OrdersFit ==
    ASSUME Snapshots, OrderType = "Market"
    PROVE  Spec => OrdersFitAccount
  <1>1. MarketLook /\ [Next]_vars =>
          [pc = "signals" /\ seen # None =>
             /\ pc' = "entering" /\ Spared({"partial"})
                  => IsFlat(exposure) /\ book = {}
             /\ pc' = "exiting" => exposure = PositionQty(state.position)]_vars
    <2> SUFFICES ASSUME MarketLook, [Next]_vars, pc = "signals", seen # None
                 PROVE  /\ pc' = "entering" /\ Spared({"partial"})
                             => IsFlat(exposure) /\ book = {}
                        /\ pc' = "exiting" => exposure = PositionQty(state.position)
      OBVIOUS
    <2>1. MarketNext
      BY MarketLookStep
    <2>2. pc' = "entering" => state.status = "Flat"
      BY <2>1, Decisions DEF TryEntry
    <2>3. pc' = "exiting" => state.status = "InPosition"
      BY <2>1, Decisions DEF TryExit
    <2>4. book = {}
      BY DEF MarketLook, MarketInv
    <2>5. /\ state.status = "InPosition" => exposure = PositionQty(state.position)
          /\ state.status # "InPosition" /\ Spared({"partial"}) => IsFlat(exposure)
      BY DEF MarketLook, LookedInv
    <2> QED
      BY <2>2, <2>3, <2>4, <2>5
  <1> QED
    BY <1>1, MarketInductive, PTL DEF Spec, OrdersFitAccount

----------------------------------------------------------------------------
(* What is saved agrees with the account.                                   *)

\* One attempt of an entry that began on an empty account.
LEMMA EnteringAttempt ==
    ASSUME MarketLook, EnteringInv, met \subseteq met',
           EngineStep, UNCHANGED runner_vars, pc = "entering", seen # None, Clean'
    PROVE  EnteringInv'
  <1>1. /\ call.stage \in OrderStages /\ call.stage \in OpenStages \ {"open_cancel"}
        /\ UNCHANGED <<pc, seen, plan>> /\ Clean
        /\ EngineInv /\ MarketCall /\ exposure \in [Legs -> Int]
        /\ "eth" \in Legs /\ "btc" \in Legs
    BY Attempted, PointFields, CleanMet
       DEF MarketLook, LiveInv, MarketInv, MarketCall, OpenStages, OrderStages,
           CancelStages, runner_vars, ExchangeTypeOK, Legs
  <1> DEFINE ethSign == Sign(EntrySide(plan, "eth"))
             btcSign == Sign(EntrySide(plan, "btc"))
  <1>2. /\ call.stage = "open_eth" =>
             /\ IsFlat(exposure)
             /\ call.request.leg = "eth" /\ call.request.side = EntrySide(plan, "eth")
             /\ call.second.leg = "btc" /\ call.second.side = EntrySide(plan, "btc")
        /\ call.stage = "open_btc" =>
             /\ exposure["btc"] = 0
             /\ exposure["eth"] = ethSign * call.first.qty
             /\ call.request.leg = "btc" /\ call.request.side = EntrySide(plan, "btc")
    BY <1>1 DEF EnteringInv
  <1>s. ethSign \in Int /\ btcSign \in Int
    BY DEF Sign
  <1> HIDE DEF ethSign, btcSign
  <1>r. \A result : call' = Return(result) =>
          call'.stage = "returned" /\ call'.result = result
    BY CallFields
  <1>3. CASE Retry
    <2>1. UNCHANGED exposure
      BY <1>1, <1>3, RetryChangesNothing, CleanMet
    <2>2. /\ call'.stage = call.stage /\ call'.request = call.request
          /\ call'.second = call.second /\ call'.first = call.first
      BY <1>1, <1>3, RetryFields
    <2> QED
      BY <1>1, <1>2, <2>1, <2>2 DEF EnteringInv, OpenStages, IsFlat, ethSign
  <1>4. CASE OpenEth
    <2>1. PICK o \in Outcomes(call) :
            /\ Apply(o)
            /\ IsError(o.reply) => call' = Return(PassedOn(o.reply))
            /\ ~IsError(o.reply) =>
                 /\ call'.stage = "open_btc" /\ call'.request = call.second
                 /\ call'.first = o.reply
      BY <1>1, <1>4, OpenEthCases
    <2>2. call.stage = "open_eth"
      BY <1>1, <1>4, OpenEthCases
    <2>3. CASE IsError(o.reply)
      <3>1. exposure' = exposure
        BY <1>1, <2>1, <2>3, CleanAttempt
      <3>2. call'.stage = "returned" /\ call'.result.kind = "Error"
        BY <1>r, <2>1, <2>3, ResultFields
      <3> QED
        BY <1>2, <2>2, <3>1, <3>2 DEF EnteringInv, IsFlat
    <2>4. CASE ~IsError(o.reply)
      <3> DEFINE qty == Fillable(call.request)
      <3>1. /\ qty \in Nat /\ o.reply = Filled(qty)
            /\ exposure' = [exposure EXCEPT ![call.request.leg] =
                              @ + Sign(call.request.side) * qty]
        BY <1>1, <2>1, <2>4, CleanAttempt
      <3> HIDE DEF qty
      <3>2. exposure["eth"] = 0 /\ exposure["btc"] = 0
        BY <1>1, <1>2, <2>2 DEF IsFlat
      <3>3. exposure' = [exposure EXCEPT !["eth"] = @ + ethSign * qty]
        BY <1>2, <2>2, <3>1 DEF ethSign
      <3>4. ethSign * qty \in Int
        BY <1>s, <3>1
      <3>5. exposure'["eth"] = ethSign * qty /\ exposure'["btc"] = 0
        BY <1>1, <3>2, <3>3, <3>4
      <3>6. call'.first.qty = qty
        BY <2>1, <2>4, <3>1, ReplyKinds
      <3>7. /\ exposure'["eth"] = Sign(EntrySide(plan', "eth")) * call'.first.qty
            /\ exposure'["btc"] = 0
        BY <1>1, <3>5, <3>6 DEF ethSign
      <3> QED
        BY <1>1, <1>2, <2>1, <2>2, <2>4, <3>7 DEF EnteringInv
    <2> QED
      BY <2>3, <2>4
  <1>5. CASE OpenBtc
    <2>1. /\ call.stage = "open_btc" /\ call.first.kind = "Filled"
          /\ call.stage \in OrderStages
      BY <1>1, <1>5, OpenBtcCases DEF MarketCall, OrderStages
    <2>2. PICK o \in Final("open_btc") :
            /\ Apply(o)
            /\ call.first.kind = "Filled" /\ o.reply.kind = "Filled" =>
                 call' = Return(PairFilled(call.first.qty, o.reply.qty))
            /\ call.first.kind = "Filled" /\ o.reply.kind # "Filled" =>
                 /\ call'.stage = "open_rollback"
                 /\ call'.request = Rollback("eth", call.first)
      BY <1>1, <1>5, OpenBtcCases
    <2>3. o \in Outcomes(call)
      BY <2>1, <2>2 DEF Final
    <2>4. CASE o.reply.kind # "Filled"
      BY <2>1, <2>2, <2>4 DEF EnteringInv
    <2>5. CASE o.reply.kind = "Filled"
      <3> DEFINE qty == Fillable(call.request)
      <3>1. /\ qty \in Nat /\ o.reply = Filled(qty)
            /\ exposure' = [exposure EXCEPT ![call.request.leg] =
                              @ + Sign(call.request.side) * qty]
        BY <1>1, <2>1, <2>2, <2>3, <2>5, CleanAttempt
      <3> HIDE DEF qty
      <3>2. exposure' = [exposure EXCEPT !["btc"] = @ + btcSign * qty]
        BY <1>2, <2>1, <3>1 DEF btcSign
      <3>3. btcSign * qty \in Int
        BY <1>s, <3>1
      <3>4. exposure'["btc"] = btcSign * qty /\ exposure'["eth"] = exposure["eth"]
        BY <1>1, <1>2, <2>1, <3>2, <3>3
      <3>5. o.reply.qty = qty
        BY <3>1, ReplyKinds
      <3>6. /\ call'.stage = "returned" /\ call'.result.kind = "PairFilled"
            /\ call'.result.eth = call.first.qty /\ call'.result.btc = qty
        BY <1>r, <2>1, <2>2, <2>5, <3>5, ResultFields
      <3>7. exposure'["eth"] = ethSign * call.first.qty
        BY <1>2, <2>1, <3>4
      <3>8. /\ exposure'["eth"] = Sign(EntrySide(plan', "eth")) * call'.result.eth
            /\ exposure'["btc"] = Sign(EntrySide(plan', "btc")) * call'.result.btc
        BY <1>1, <3>4, <3>6, <3>7 DEF ethSign, btcSign
      <3> QED
        BY <3>6, <3>8 DEF EnteringInv, Failed
    <2> QED
      BY <2>4, <2>5
  <1>6. CASE OpenRollback
    <2>1. PICK why : call' = Return(Error("PartialFill", why))
      BY <1>6 DEF OpenRollback
    <2>2. /\ call'.stage = "returned" /\ call'.result.kind = "Error"
          /\ call'.result.class = "PartialFill"
      BY <1>r, <2>1, ResultFields
    <2> QED
      BY <2>2 DEF EnteringInv
  <1> QED
    BY <1>1, <1>3, <1>4, <1>5, <1>6, EngineStages DEF OpenStages

\* One attempt of an exit of what the account holds.
LEMMA ExitingAttempt ==
    ASSUME MarketLook, ExitingInv, met \subseteq met',
           EngineStep, UNCHANGED runner_vars, pc = "exiting", seen # None, Clean'
    PROVE  ExitingInv'
  <1>1. /\ call.stage \in OrderStages /\ call.stage \in CloseStages
        /\ UNCHANGED <<pc, seen, plan>> /\ Clean
        /\ EngineInv /\ MarketCall /\ exposure \in [Legs -> Int]
        /\ "eth" \in Legs /\ "btc" \in Legs
    BY Attempted, PointFields, CleanMet
       DEF MarketLook, LiveInv, MarketInv, CloseStages, OrderStages, CancelStages,
           runner_vars, ExchangeTypeOK, Legs
  <1>2. /\ call.stage = "close_eth" =>
             /\ ClosesLeg(call.request, "eth", exposure["eth"])
             /\ ClosesLeg(call.second, "btc", exposure["btc"])
             /\ exposure["eth"] # 0 /\ exposure["btc"] # 0
        /\ call.stage = "close_btc" =>
             /\ exposure["eth"] = 0 /\ exposure["btc"] # 0
             /\ ClosesLeg(call.request, "btc", exposure["btc"])
    BY <1>1 DEF ExitingInv
  <1>3. CASE Retry
    <2>1. UNCHANGED exposure
      BY <1>1, <1>3, RetryChangesNothing, CleanMet
    <2>2. /\ call'.stage = call.stage /\ call'.request = call.request
          /\ call'.second = call.second
      BY <1>1, <1>3, RetryFields
    <2> QED
      BY <1>1, <1>2, <2>1, <2>2 DEF ExitingInv, CloseStages
  <1>4. CASE CloseEth
    <2>1. PICK o \in Outcomes(call) :
            /\ Apply(o)
            /\ o.reply.kind # "Filled" =>
                 call'.stage = "returned" /\ Failed(call'.result)
            /\ o.reply.kind = "Filled" =>
                 call'.stage = "close_btc" /\ call'.request = call.second
      BY <1>1, <1>4, CloseEthCases
    <2>2. call.stage = "close_eth"
      BY <1>1, <1>4, CloseEthCases
    <2>3. CASE o.reply.kind # "Filled"
      BY <2>1, <2>3 DEF ExitingInv
    <2>4. CASE o.reply.kind = "Filled"
      <3>1. exposure'["eth"] = 0 /\ exposure'["btc"] = exposure["btc"]
        BY <1>1, <1>2, <2>1, <2>2, <2>4, WholeClose
      <3> QED
        BY <1>2, <2>1, <2>2, <2>4, <3>1 DEF ExitingInv
    <2> QED
      BY <2>3, <2>4
  <1>5. CASE CloseBtc
    <2>1. PICK o \in Outcomes(call) :
            /\ Apply(o)
            /\ o.reply.kind # "Filled" => call'.stage = "close_rollback"
            /\ o.reply.kind = "Filled" => call'.stage = "returned"
      BY <1>1, <1>5, CloseBtcCases
    <2>2. call.stage = "close_btc"
      BY <1>1, <1>5, CloseBtcCases
    <2>3. CASE o.reply.kind # "Filled"
      BY <2>1, <2>3 DEF ExitingInv
    <2>4. CASE o.reply.kind = "Filled"
      <3>1. exposure'["btc"] = 0 /\ exposure'["eth"] = exposure["eth"]
        BY <1>1, <1>2, <2>1, <2>2, <2>4, WholeClose
      <3>2. \A leg \in Legs : exposure'[leg] = 0
        BY <1>2, <2>2, <3>1 DEF Legs
      <3> QED
        BY <2>1, <2>4, <3>2 DEF ExitingInv, IsFlat
    <2> QED
      BY <2>3, <2>4
  <1>6. CASE CloseRollback
    <2>1. PICK why : call' = Return(Error("PartialFill", why))
      BY <1>6 DEF CloseRollback
    <2>2. call'.stage = "returned" /\ call'.result.kind = "Error"
      BY <2>1, CallFields, ResultFields
    <2> QED
      BY <2>2 DEF ExitingInv, Failed
  <1> QED
    BY <1>1, <1>3, <1>4, <1>5, <1>6, EngineStages DEF CloseStages

\* What trading finds and leaves on the account.
TradeInv == MarketLook /\ EnteringInv /\ ExitingInv /\ SavedMatchesAccount

\* A decision to trade, after a look at the account.
LEMMA DecisionSteps ==
    ASSUME Snapshots, OrderType = "Market", MarketLook,
           \/ \E direction \in Directions : TryEntry(direction)
           \/ \E reason \in ExitReasons : TryExit(reason)
    PROVE  EnteringInv' /\ ExitingInv' /\ SavedMatchesAccount'
  <1>0. Sound(state) /\ LiveInv
    BY DEF MarketLook, LiveInv
  <1>1. ASSUME NEW direction \in Directions, TryEntry(direction)
        PROVE  EnteringInv' /\ ExitingInv' /\ SavedMatchesAccount'
    <2>0. /\ call'.stage = "open_eth"
          /\ call'.request = Order("eth", EntrySide(direction, "eth"), Qty, "Market", FALSE)
          /\ call'.second = Order("btc", EntrySide(direction, "btc"), Qty, "Market", FALSE)
      BY <1>0, <1>1, MarketStarts
    <2>1. /\ call'.stage = "open_eth"
          /\ call'.request.leg = "eth" /\ call'.request.side = EntrySide(direction, "eth")
          /\ call'.second.leg = "btc" /\ call'.second.side = EntrySide(direction, "btc")
      BY <2>0 DEF Order
    <2>2. /\ pc = "signals" /\ pc' = "entering" /\ plan' = direction
          /\ state.status = "Flat" /\ UNCHANGED <<exposure, seen, met>>
      BY <1>1 DEF TryEntry, exchange_vars
    <2>3. seen # None /\ Clean => IsFlat(exposure)
      BY <2>2, CleanMet DEF MarketLook, LookedInv, Spared
    <2>4. Clean' => Clean
      BY <2>2, CleanMet
    <2>5. IsFlat(exposure) => IsFlat(exposure')
      BY <2>2
    <2> QED
      BY <2>1, <2>2, <2>3, <2>4, <2>5 DEF EnteringInv, ExitingInv, SavedMatchesAccount
  <1>2. ASSUME NEW reason \in ExitReasons, TryExit(reason)
        PROVE  EnteringInv' /\ ExitingInv' /\ SavedMatchesAccount'
    <2>1. /\ call'.stage = "close_eth"
          /\ ClosesLeg(call'.request, "eth", state.position.eth)
          /\ ClosesLeg(call'.second, "btc", state.position.btc)
          /\ state.position.eth # 0 /\ state.position.btc # 0
      BY <1>0, <1>2, MarketStarts
    <2>2. /\ pc = "signals" /\ pc' = "exiting"
          /\ state.status = "InPosition" /\ UNCHANGED <<exposure, seen>>
      BY <1>2 DEF TryExit, exchange_vars
    <2>3. seen # None => exposure = PositionQty(state.position)
      BY <2>2 DEF MarketLook, LookedInv
    <2>4. seen # None => /\ exposure'["eth"] = state.position.eth
                         /\ exposure'["btc"] = state.position.btc
      BY <1>0, <2>2, <2>3, HeldLegs
    <2> QED
      BY <2>1, <2>2, <2>4 DEF EnteringInv, ExitingInv, SavedMatchesAccount
  <1> QED
    BY <1>1, <1>2

\* What every step of the process does to this.
LEMMA TradeStep ==
    ASSUME Snapshots, OrderType = "Market", TradeInv, [Next]_vars
    PROVE  TradeInv'
  <1>1. MarketLook' /\ MarketNext /\ met \subseteq met'
    BY MarketLookStep DEF TradeInv
  <1>2. /\ Sound(state) /\ bar \in Nat /\ LiveInv /\ book = {} /\ MarketLook
        /\ state.status \in {"Flat", "InPosition", "Cooldown"}
        /\ EnteringInv /\ ExitingInv /\ SavedMatchesAccount
    BY RunnerAssumption, RecordFields
       DEF TradeInv, MarketLook, LiveInv, MarketInv, Statuses
  <1>3. Clean' => Clean
    BY <1>1, CleanMet
  <1>4. SavedMatchesAccount <=>
          (pc = "saving" /\ seen # None /\ Clean => RecordMatchesAccount)
    BY DEF SavedMatchesAccount, Clean
  <1>5. SavedMatchesAccount' <=>
          (pc' = "saving" /\ seen' # None /\ Clean' => RecordMatchesAccount')
    BY DEF SavedMatchesAccount, Clean
  <1> SUFFICES EnteringInv' /\ ExitingInv' /\ SavedMatchesAccount'
    BY <1>1 DEF TradeInv
  <1>6. CASE EngineStep /\ UNCHANGED runner_vars
    <2>1. call.stage \notin {"idle", "returned"} /\ UNCHANGED <<pc, seen>>
      BY <1>6, Attempted DEF OrderStages, CancelStages, runner_vars
    <2>2. pc # "saving"
      BY <1>2, <2>1, IdlePoint, CallFields DEF Points, CallPoints
    <2>3. EnteringInv'
      <3>1. CASE pc = "entering" /\ seen # None /\ Clean'
        BY <1>1, <1>2, <1>6, <3>1, EnteringAttempt
      <3>2. CASE ~(pc = "entering" /\ seen # None /\ Clean')
        BY <2>1, <3>2 DEF EnteringInv
      <3> QED
        BY <3>1, <3>2
    <2>4. ExitingInv'
      <3>1. CASE pc = "exiting" /\ seen # None /\ Clean'
        BY <1>1, <1>2, <1>6, <3>1, ExitingAttempt
      <3>2. CASE ~(pc = "exiting" /\ seen # None /\ Clean')
        BY <2>1, <3>2 DEF ExitingInv
      <3> QED
        BY <3>1, <3>2
    <2> QED
      BY <1>5, <2>1, <2>2, <2>3, <2>4
  <1>7. CASE \/ \E direction \in Directions : TryEntry(direction)
             \/ \E reason \in ExitReasons : TryExit(reason)
    BY <1>2, <1>7, DecisionSteps
  <1>q. ASSUME pc' \notin {"entering", "exiting", "saving"}
        PROVE  EnteringInv' /\ ExitingInv' /\ SavedMatchesAccount'
    BY <1>5, <1>q DEF EnteringInv, ExitingInv
  <1>8. CASE \/ NextBar \/ StartBar \/ FetchExposure \/ ReconcileFlat
             \/ Await("reconcile_repair", RepairResidual(seen))
             \/ ReconcileRepaired \/ ReconcileHeld \/ ReconcileUnknown
             \/ GoOn("update") \/ UpdateState \/ CheckResidual \/ LocalRepaired
             \/ BarError \/ Save \/ Fail \/ Crash \/ Start
    <2>1. pc' \notin {"entering", "exiting", "saving"}
      BY <1>8 DEF NextBar, StartBar, FetchExposure, ReconcileFlat, Await, GoOn,
                  ReconcileRepaired, ReconcileHeld, ReconcileUnknown, UpdateState,
                  CheckResidual, LocalRepaired, BarError, Save, Fail, Crash, Start
    <2> QED
      BY <1>q, <2>1
  <1>s. ASSUME pc' = "saving",
               seen # None /\ Clean /\ seen' = seen => RecordMatchesAccount',
               seen' = seen
        PROVE  EnteringInv' /\ ExitingInv' /\ SavedMatchesAccount'
    BY <1>3, <1>5, <1>s DEF EnteringInv, ExitingInv
  <1>9. CASE NoTrade
    <2>1. /\ pc = "signals" /\ pc' = "saving"
          /\ UNCHANGED <<state, seen, exposure, book, met>>
      BY <1>9 DEF NoTrade, GoOn, Synchronous, engine_vars, exchange_vars
    <2>2. seen # None /\ Clean => RecordMatchesAccount
      BY <1>2, <2>1, CleanMet DEF MarketLook, LookedInv, Spared, RecordMatchesAccount
    <2>3. RecordMatchesAccount => RecordMatchesAccount'
      BY <2>1 DEF RecordMatchesAccount
    <2> QED
      BY <1>s, <2>1, <2>2, <2>3
  <1>10. CASE EntryFilled
    <2> DEFINE p == Signed(plan, call.result.eth, call.result.btc)
    <2>1. /\ pc = "entering" /\ call.stage = "returned"
          /\ call.result.kind = "PairFilled"
          /\ UNCHANGED <<seen, exposure, book, met>>
      BY <1>10 DEF EntryFilled, Ready, TakeResult, exchange_vars
    <2>2. state.status = "Flat" /\ state.cooldown_until = None /\ plan \in TradeDirections
      BY <1>2, <2>1, RunnerAssumption DEF LiveInv, Sound
    <2>3. CanEnter(state, bar)
      BY <2>2 DEF CanEnter, DeadlineAhead
    <2>4. state' = Enter(state, p) /\ pc' = "saving"
      BY <1>10, <2>3 DEF EntryFilled
    <2>5. call.result \in Results
      BY <1>2, <2>1 DEF LiveInv, CallOK
    <2>6. p \in Positions /\ p.eth # 0
      BY <2>1, <2>2, <2>5, PairResults, SnapshotsMade
    <2>7. /\ p.eth = Sign(EntrySide(plan, "eth")) * call.result.eth
          /\ p.btc = Sign(EntrySide(plan, "btc")) * call.result.btc
      BY DEF Signed
    <2> HIDE DEF p
    <2>8. state'.status = "InPosition" /\ state'.position = p
      BY <1>2, <2>4, <2>6, EnterSound
    <2>9. ASSUME seen # None, Clean PROVE RecordMatchesAccount'
      <3>1. exposure["eth"] = p.eth /\ exposure["btc"] = p.btc
        BY <1>2, <2>1, <2>7, <2>9 DEF EnteringInv
      <3>2. exposure \in [Legs -> Int] /\ exposure = PositionQty(p)
        BY <1>2, <3>1, SeenExposure DEF PositionQty, Legs
      <3> QED
        BY <1>2, <2>1, <2>8, <3>2 DEF RecordMatchesAccount
    <2> QED
      BY <1>s, <2>1, <2>4, <2>9
  <1>11. CASE EntryFailed
    <2>1. /\ pc = "entering" /\ call.stage = "returned" /\ Failed(call.result)
          /\ UNCHANGED <<state, seen, exposure, book, met>>
          /\ \/ pc' = "failing"
             \/ pc' = "saving" /\ call.result.class = "Fatal"
      BY <1>11 DEF EntryFailed, Ready, TakeResult, exchange_vars
    <2>2. state.status = "Flat"
      BY <1>2, <2>1 DEF LiveInv
    <2>3. ASSUME pc' = "saving", seen # None, Clean PROVE RecordMatchesAccount'
      <3>1. IsFlat(exposure)
        BY <1>2, <2>1, <2>3 DEF EnteringInv
      <3> QED
        BY <1>2, <2>1, <2>2, <3>1 DEF RecordMatchesAccount, IsFlat
    <2> QED
      BY <1>q, <1>s, <2>1, <2>3
  <1>12. CASE ExitDone
    <2>1. /\ pc = "exiting" /\ call.stage = "returned"
          /\ UNCHANGED <<seen, exposure, book, met>>
          /\ \/ pc' = "failing"
             \/ /\ pc' = "saving" /\ ~Failed(call.result)
                /\ state' = Exit(state, plan, bar)
      BY <1>12 DEF ExitDone, Ready, TakeResult, exchange_vars
    <2>2. state' = Exit(state, plan, bar) => state'.status \in {"Flat", "Cooldown"}
      BY <1>2, ExitSound
    <2>3. ASSUME pc' = "saving", seen # None, Clean PROVE RecordMatchesAccount'
      <3>1. IsFlat(exposure)
        BY <1>2, <2>1, <2>3 DEF ExitingInv
      <3> QED
        BY <1>2, <2>1, <2>2, <2>3, <3>1 DEF RecordMatchesAccount, IsFlat
    <2> QED
      BY <1>q, <1>s, <2>1, <2>3
  <1>13. CASE UNCHANGED vars
    <2>1. UNCHANGED <<exposure, book, met, call, pc, state, seen, plan>>
      BY <1>13 DEF vars, engine_vars, exchange_vars, runner_vars
    <2> QED
      BY <1>2, <1>3, <2>1
         DEF EnteringInv, ExitingInv, SavedMatchesAccount, RecordMatchesAccount,
             Clean, Spared, IsFlat
  <1> QED
    BY <1>1, <1>6, <1>7, <1>8, <1>9, <1>10, <1>11, <1>12, <1>13 DEF MarketNext

LEMMA TradeInductive ==
    ASSUME Snapshots, OrderType = "Market"
    PROVE  Spec => []TradeInv
  <1>1. Init => MarketLook
    BY MarketLookInit
  <1>2. Init => TradeInv
    BY <1>1 DEF Init, TradeInv, EnteringInv, ExitingInv, SavedMatchesAccount
  <1>3. TradeInv /\ [Next]_vars => TradeInv'
    BY TradeStep
  <1> QED
    BY <1>2, <1>3, PTL DEF Spec

\* A run that looked at the account saves what the account holds (run_once_at,
\* from reconcile_exchange_position to StateWriter::save), whatever failed before
\* in this run and in every run and process before it, if market orders are
\* answered and filled whole.
THEOREM SavesWhatIsHeld ==
    ASSUME Snapshots, OrderType = "Market"
    PROVE  Spec => []SavedMatchesAccount
  <1>1. TradeInv => SavedMatchesAccount
    BY DEF TradeInv
  <1> QED
    BY <1>1, TradeInductive, PTL

----------------------------------------------------------------------------
(* The cooldown.                                                            *)

\* The kinds of faults that Careful excludes, one by one.
LEMMA CarefulMet ==
    /\ Careful <=> /\ Clean /\ "crash" \notin met /\ "save_fails" \notin met
                   /\ "no_position" \notin met
    /\ Careful' <=> /\ Clean' /\ "crash" \notin met' /\ "save_fails" \notin met'
                    /\ "no_position" \notin met'
  BY DEF Careful, Spared

\* The barring record is one that no step but a decision can change.
LEMMA BarringRecord ==
    ASSUME NEW s, Sound(s), Barring(s), bar \in Nat, bar < barred
    PROVE  /\ s.status = "Cooldown" /\ s.position = None
           /\ Update(s, bar) = s /\ Recover(s, bar) = s
  <1>1. s.status = "Cooldown" /\ s.position = None
    BY DEF Barring, Sound, HydrateAccepts
  <1>2. barred \in Nat
    BY NoneAssumption DEF Barring, Sound, StrategyStates, HydrateAccepts
  <1>3. ~CooldownOver(s, bar)
    BY <1>2 DEF CooldownOver, Barring
  <1> QED
    BY <1>1, <1>3, UpdateSound DEF Update

\* Every step keeps a bar on entry in force.
LEMMA CooldownStep ==
    ASSUME Snapshots, OrderType = "Market", TradeInv, CooldownInv, [Next]_vars
    PROVE  CooldownInv'
  <1>1. MarketNext /\ met \subseteq met'
    BY MarketLookStep DEF TradeInv
  <1>2. /\ Sound(state) /\ bar \in Nat /\ LiveInv /\ barred \in Nat
        /\ exposure # None
        /\ row # None => Sound(row)
        /\ pc = "reconcile" => seen = exposure
        /\ ExitingInv /\ pc \in Points
    BY RunnerAssumption, SeenExposure
       DEF TradeInv, MarketLook, LiveInv, LookedInv
  <1>3. Careful' => Careful
    BY <1>1, CarefulMet, CleanMet
  <1> SUFFICES ASSUME Careful'
               PROVE  /\ pc' \notin {"down", "idle", "fetch"} => seen' # None
                      /\ bar' < barred' =>
                           /\ IsFlat(exposure') /\ pc' \notin CallPoints
                           /\ pc' # "down" => Barring(state)'
                           /\ pc' # "saving" => row' # None /\ Barring(row)'
    BY DEF CooldownInv, IsFlat
  <1>4. /\ pc \notin {"down", "idle", "fetch"} => seen # None
        /\ bar < barred =>
             /\ IsFlat(exposure) /\ pc \notin CallPoints
             /\ pc # "down" => Barring(state)
             /\ pc # "saving" => row # None /\ Barring(row)
        /\ "crash" \notin met' /\ "save_fails" \notin met'
        /\ "no_position" \notin met' /\ Clean
    BY <1>3, CarefulMet, CleanMet DEF CooldownInv
  <1>5. ASSUME bar < barred
        PROVE  /\ pc # "down" =>
                    /\ state.status = "Cooldown" /\ state.position = None
                    /\ Update(state, bar) = state
               /\ pc = "down" => Recover(row, bar) = row
    BY <1>2, <1>4, <1>5, BarringRecord
  <1>6. bar < barred => pc \notin CallPoints
    BY <1>4
  <1>p. /\ pc \in CallPoints => pc \notin {"down", "idle", "fetch", "saving"}
        /\ {"drop_eth", "drop_btc", "reconcile_repair", "expire_eth", "expire_btc",
            "local_repair", "entering", "exiting"} = CallPoints
    BY DEF CallPoints
  \* A step that keeps clock, account and records.
  <1>k. ASSUME UNCHANGED <<bar, barred, exposure, row>>,
               bar < barred => state' = state /\ pc' \notin CallPoints,
               pc' \in {"down", "idle", "fetch"} \/ seen' # None,
               pc # "down" \/ pc' = "down",
               pc # "saving" \/ pc' = "saving"
        PROVE  /\ pc' \notin {"down", "idle", "fetch"} => seen' # None
               /\ bar' < barred' =>
                    /\ IsFlat(exposure') /\ pc' \notin CallPoints
                    /\ pc' # "down" => Barring(state)'
                    /\ pc' # "saving" => row' # None /\ Barring(row)'
    BY <1>4, <1>k DEF Barring, IsFlat
  <1> USE DEF GoOn, Synchronous, Await, Account, exchange_vars, engine_vars,
              TakeResult, Ready
  <1>7. CASE EngineStep /\ UNCHANGED runner_vars
    <2>1. call.stage \notin {"idle", "returned"}
      BY <1>7, Attempted DEF OrderStages, CancelStages
    <2>2. pc \in CallPoints /\ UNCHANGED <<pc, seen, bar, barred>>
      BY <1>2, <1>7, <2>1, IdlePoint, CallFields DEF runner_vars
    <2> QED
      BY <1>4, <1>6, <1>p, <2>2
  <1>8. CASE NextBar
    <2>1. /\ bar' = bar + 1 /\ pc \in {"idle", "down"}
          /\ UNCHANGED <<pc, state, row, seen, barred, exposure>>
      BY <1>8 DEF NextBar
    <2>2. bar' < barred' => bar < barred
      BY <1>2, <2>1
    <2> QED
      BY <1>4, <2>1, <2>2 DEF Barring, IsFlat
  <1>9. CASE StartBar
    <2>1. /\ pc = "idle" /\ \/ pc' = "fetch" /\ UNCHANGED state
                            \/ pc' = "down"
          /\ UNCHANGED <<bar, barred, exposure, row>>
      BY <1>9 DEF StartBar
    <2> QED
      BY <1>4, <1>p, <2>1 DEF Barring, IsFlat
  <1>10. CASE FetchExposure
    <2>1. ~RunnerFault("no_position")
      BY <1>4 DEF RunnerFault
    <2>2. /\ pc = "fetch" /\ pc' = "reconcile" /\ seen' = exposure
          /\ UNCHANGED <<bar, barred, exposure, row, state>>
      BY <1>10, <2>1 DEF FetchExposure
    <2> QED
      BY <1>2, <1>k, <1>p, <2>2
  <1>11. CASE ReconcileFlat \/ ReconcileHeld \/ ReconcileUnknown
    <2>1. /\ pc = "reconcile" /\ pc' \in {"expiry", "failing"}
          /\ state' = state \/ state.position # None
          /\ UNCHANGED <<bar, barred, exposure, row, seen>>
      BY <1>11 DEF ReconcileFlat, ReconcileHeld, ReconcileUnknown
    <2> QED
      BY <1>2, <1>4, <1>5, <1>k, <1>p, <2>1
  <1>12. CASE ReconcileResidual /\ Await("reconcile_repair", RepairResidual(seen))
    <2>1. /\ pc = "reconcile" /\ pc' = "reconcile_repair" /\ ~IsFlat(exposure)
          /\ UNCHANGED <<bar, barred, exposure, row, seen>>
      BY <1>2, <1>12 DEF ReconcileResidual, HasResidual
    <2> QED
      BY <1>4, <1>k, <1>p, <2>1
  <1>13. CASE \/ ReconcileRepaired \/ LocalRepaired \/ EntryFilled \/ EntryFailed
    <2>1. /\ pc \in CallPoints /\ pc' \in {"expiry", "signals", "failing", "saving"}
          /\ UNCHANGED <<bar, barred, exposure, row, seen>>
      BY <1>13, <1>p DEF ReconcileRepaired, LocalRepaired, EntryFilled, EntryFailed
    <2> QED
      BY <1>4, <1>6, <1>p, <2>1
  <1>14. CASE CheckExpiry /\ GoOn("update") /\ Synchronous /\ UNCHANGED state
    <2>1. pc = "expiry" /\ pc' = "update" /\ UNCHANGED <<bar, barred, exposure, row, seen>>
      BY <1>14 DEF CheckExpiry
    <2> QED
      BY <1>4, <1>14, <1>k, <1>p, <2>1
  <1>15. CASE UpdateState
    <2>1. /\ pc = "update" /\ pc' = "residual" /\ state' = Update(state, bar)
          /\ UNCHANGED <<bar, barred, exposure, row, seen>>
      BY <1>15 DEF UpdateState
    <2> QED
      BY <1>4, <1>5, <1>k, <1>p, <2>1
  <1>16. CASE CheckResidual
    <2>1. /\ pc = "residual" /\ pc' \in {"local_repair", "signals"} /\ state' = state
          /\ state.position # None \/ pc' = "signals"
          /\ UNCHANGED <<bar, barred, exposure, row, seen>>
      BY <1>16 DEF CheckResidual
    <2> QED
      BY <1>4, <1>5, <1>k, <1>p, <2>1
  <1>17. CASE NoTrade \/ BarError
    <2>1. /\ pc = "signals" /\ pc' \in {"saving", "failing"} /\ state' = state
          /\ UNCHANGED <<bar, barred, exposure, row, seen>>
      BY <1>17 DEF NoTrade, BarError
    <2> QED
      BY <1>4, <1>k, <1>p, <2>1
  <1>18. CASE \/ \E direction \in Directions : TryEntry(direction)
              \/ \E reason \in ExitReasons : TryExit(reason)
    <2>1. /\ pc = "signals" /\ pc' \in {"entering", "exiting"}
          /\ state.status \in {"Flat", "InPosition"}
          /\ UNCHANGED <<bar, barred, exposure, row, seen>>
      BY <1>18 DEF TryEntry, TryExit
    <2> QED
      BY <1>4, <1>5, <1>p, <2>1
  <1>19. CASE ExitDone
    <2>1. /\ pc = "exiting" /\ call.stage = "returned" /\ pc' \in {"failing", "saving"}
          /\ UNCHANGED <<bar, exposure, row, seen>>
          /\ \/ barred' = barred
             \/ /\ barred' = bar + CooldownHours /\ plan = "StopLoss" /\ pc' = "saving"
                /\ ~Failed(call.result) /\ state' = Exit(state, plan, bar)
      BY <1>19 DEF ExitDone
    <2>2. CASE barred' = barred
      BY <1>4, <1>6, <1>p, <2>1, <2>2
    <2>3. CASE /\ barred' = bar + CooldownHours /\ plan = "StopLoss" /\ pc' = "saving"
               /\ ~Failed(call.result) /\ state' = Exit(state, plan, bar)
      <3>1. seen # None /\ IsFlat(exposure)
        BY <1>2, <1>4, <2>1, <2>3 DEF ExitingInv
      <3>2. Barring(state)'
        BY <1>2, <2>3, ExitSound DEF Barring
      <3> QED
        BY <1>p, <2>1, <2>3, <3>1, <3>2 DEF IsFlat
    <2> QED
      BY <2>1, <2>2, <2>3
  <1>20. CASE Save
    <2>1. ~RunnerFault("save_fails")
      BY <1>4 DEF RunnerFault
    <2>2. /\ pc = "saving" /\ row' = state /\ state # None
          /\ \/ pc' = "idle" /\ state' = state
             \/ pc' = "down"
          /\ UNCHANGED <<bar, barred, exposure>>
      BY <1>2, <1>20, <2>1, RowsAssumption DEF Save, Sound
    <2> QED
      BY <1>4, <1>p, <2>2 DEF Barring, IsFlat
  <1>21. CASE Fail
    <2>1. ~RunnerFault("save_fails")
      BY <1>4 DEF RunnerFault
    <2>2. /\ pc = "failing" /\ row' = state /\ state # None /\ pc' = "down"
          /\ UNCHANGED <<bar, barred, exposure>>
      BY <1>2, <1>21, <2>1, RowsAssumption DEF Fail, Sound
    <2> QED
      BY <1>4, <1>p, <2>2 DEF Barring, IsFlat
  <1>22. CASE Crash
    BY <1>4, <1>22 DEF Crash, RunnerFault
  <1>23. CASE Start
    <2>1. /\ pc = "down" /\ pc' = "idle"
          /\ row # None => state' = Recover(row, bar)
          /\ UNCHANGED <<bar, barred, exposure, row>>
      BY <1>23 DEF Start
    <2> QED
      BY <1>4, <1>5, <1>p, <2>1 DEF Barring, IsFlat
  <1>24. CASE UNCHANGED vars
    BY <1>4, <1>24 DEF vars, runner_vars, Barring, IsFlat
  <1> HIDE DEF GoOn, Synchronous, Await, Account, exchange_vars, engine_vars,
               TakeResult, Ready
  <1> QED
    BY <1>1, <1>7, <1>8, <1>9, <1>10, <1>11, <1>12, <1>13, <1>14, <1>15, <1>16, <1>17,
       <1>18, <1>19, <1>20, <1>21, <1>22, <1>23, <1>24 DEF MarketNext

\* No entry is sent before the cooldown of a completed stop loss is over
\* (StateMachine::exit, update and recover_state together with what run_once_at
\* and the start-up do between them), if answers are whole and arrive, the stop
\* loss was saved and every run looked at the account.
THEOREM CooldownKept ==
    ASSUME Snapshots, OrderType = "Market"
    PROVE  Spec => CooldownRespected
  <1>1. Init => CooldownInv
    BY RunnerAssumption DEF Init, CooldownInv
  <1>2. TradeInv /\ CooldownInv /\ [Next]_vars => CooldownInv'
    BY CooldownStep
  <1>3. TradeInv /\ CooldownInv /\ [Next]_vars =>
          [pc = "signals" /\ pc' = "entering"
             /\ Spared({"crash", "save_fails", "no_position"})
             /\ Spared({"lost_response", "garbled", "partial"})
             => bar >= barred]_vars
    <2> SUFFICES ASSUME TradeInv, CooldownInv, [Next]_vars, pc = "signals",
                        pc' = "entering", Careful
                 PROVE  bar >= barred
      BY DEF Careful, Clean
    <2>1. MarketNext
      BY MarketLookStep DEF TradeInv
    <2>2. state.status = "Flat"
      BY <2>1, Decisions DEF TryEntry
    <2>3. ~(bar < barred)
      BY <2>2 DEF CooldownInv, Barring
    <2>4. bar \in Nat /\ barred \in Nat
      BY RunnerAssumption DEF TradeInv, MarketLook, LiveInv
    <2> QED
      BY <2>3, <2>4
  <1> QED
    BY <1>1, <1>2, <1>3, TradeInductive, PTL DEF Spec, CooldownRespected

----------------------------------------------------------------------------
(* The promise (HedgedPair).                                                *)

\* The only position the process is asked to open.
PairPosition == [direction |-> "ShortEthLongBtc", eth |-> -Qty, btc |-> Qty]

\* What the process is asked to do, and what goes wrong with it, when it keeps
\* the promise HedgedPair makes: market orders whose answers arrive, parse and
\* report whole fills, a look at the account in every run, short-ETH pairs only
\* (the rollback of a close sells ETH whatever the pair was), and nothing in the
\* database it is first started with but the row of a held pair.
Promising ==
    /\ Snapshots
    /\ OrderType = "Market"
    /\ Faults \subseteq {"transient", "reject", "no_match"}
    /\ "no_position" \notin RunnerFaults
    /\ Directions \subseteq {"ShortEthLongBtc"}
    /\ \A r \in InheritedRows : r.position = PairPosition

\* An order that opens a leg of the pair.
Opens(order, leg, side) ==
    order.leg = leg /\ order.side = side /\ order.qty = Qty /\ ~order.reduce_only

\* What the two legs hold.
Holds(eth, btc) == exposure["eth"] = eth /\ exposure["btc"] = btc

\* What the requests of an entry find.
OpeningPair ==
    /\ call.stage = "open_eth" =>
         /\ Holds(0, 0)
         /\ Opens(call.request, "eth", "Sell") /\ Opens(call.second, "btc", "Buy")
    /\ call.stage = "open_btc" =>
         /\ Holds(-Qty, 0)
         /\ Opens(call.request, "btc", "Buy") /\ call.first.qty = Qty
    /\ call.stage = "open_rollback" =>
         /\ Holds(-Qty, 0)
         /\ call.request.leg = "eth" /\ call.request.side = "Sell"
         /\ call.request.reduce_only
    /\ call.stage = "returned" /\ call.result.kind = "PairFilled" =>
         call.result.eth = Qty /\ call.result.btc = Qty
    /\ call.stage = "returned" /\ Failed(call.result) => exposure["btc"] = 0

\* What the requests of an exit find.
ClosingPair ==
    /\ call.stage = "close_eth" => Holds(-Qty, Qty)
    /\ call.stage = "close_btc" => Holds(0, Qty) /\ call.first.qty = Qty
    /\ call.stage = "close_rollback" =>
         Holds(0, Qty) /\ Opens(call.request, "eth", "Sell")

\* A record of a position is a record of the pair.
OfPair(s) == s.status = "InPosition" => s.position = PairPosition

RowHolds == row # None /\ row.status = "InPosition"

Unpaired == exposure["eth"] = 0 \/ exposure["btc"] = 0

\* The record in memory, the row and the account on the way from one pair to the
\* next: a position is remembered only with its row, and a row that is no longer
\* remembered is the row of a pair that is gone.
PromiseInv ==
    /\ pc \notin {"down", "idle", "fetch"} => seen # None
    /\ OfPair(state)
    /\ row # None => OfPair(row)
    /\ state.status = "InPosition" /\ pc # "saving" => RowHolds
    /\ state.status # "InPosition" /\ RowHolds /\ pc \notin {"down", "entering"}
         => Unpaired
    /\ pc = "entering" => OpeningPair
    /\ pc = "exiting" => ClosingPair

USE DEF Holds, Opens

\* The pair of the promise, in the quantities the account holds.
LEMMA PairShapes ==
    /\ Promise!Pair("LongEthShortBtc") = [leg \in Legs |-> IF leg = "eth" THEN Qty ELSE -Qty]
    /\ Promise!Pair("ShortEthLongBtc") = [leg \in Legs |-> IF leg = "eth" THEN -Qty ELSE Qty]
    /\ Qty \in Nat \ {0}
  BY RunnerAssumption
     DEF Promise!Pair, Promise!Legs, Promise!EntrySide, Promise!Sign, Legs

\* A fill that opens a leg of the pair next to nothing or next to the other leg.
LEMMA LegOpened ==
    ASSUME exposure \in [Legs -> Int], UNCHANGED row,
           \/ /\ exposure["eth"] = 0 /\ exposure["btc"] \in {0, Qty}
              /\ exposure' = [exposure EXCEPT !["eth"] = @ + (-Qty)]
           \/ /\ exposure["btc"] = 0 /\ exposure["eth"] \in {0, -Qty}
              /\ exposure' = [exposure EXCEPT !["btc"] = @ + Qty]
    PROVE  Promise!PairNext
  <1> DEFINE pair == Promise!Pair("ShortEthLongBtc")
  <1>1. pair["eth"] = -Qty /\ pair["btc"] = Qty /\ Qty \in Nat
    BY PairShapes DEF Legs
  <1> HIDE DEF pair
  <1>2. UNCHANGED RecordedDirection
    BY DEF RecordedDirection
  <1>3. PICK leg \in Legs :
          /\ exposure[leg] = 0
          /\ \A other \in Legs : exposure[other] \in {0, pair[other]}
          /\ exposure' = [exposure EXCEPT ![leg] = pair[leg]]
    <2>1. CASE exposure' = [exposure EXCEPT !["eth"] = @ + (-Qty)] /\ exposure["eth"] = 0
                 /\ exposure["btc"] \in {0, Qty}
      <3>1. exposure["eth"] + (-Qty) = pair["eth"]
        BY <1>1, <2>1
      <3>2. exposure' = [exposure EXCEPT !["eth"] = pair["eth"]]
        BY <2>1, <3>1
      <3>3. \A other \in Legs : exposure[other] \in {0, pair[other]}
        BY <1>1, <2>1 DEF Legs
      <3>4. "eth" \in Legs
        BY DEF Legs
      <3> QED
        BY <2>1, <3>2, <3>3, <3>4
    <2>2. CASE exposure' = [exposure EXCEPT !["btc"] = @ + Qty] /\ exposure["btc"] = 0
                 /\ exposure["eth"] \in {0, -Qty}
      <3>1. exposure["btc"] + Qty = pair["btc"]
        BY <1>1, <2>2
      <3>2. exposure' = [exposure EXCEPT !["btc"] = pair["btc"]]
        BY <2>2, <3>1
      <3>3. \A other \in Legs : exposure[other] \in {0, pair[other]}
        BY <1>1, <2>2 DEF Legs
      <3>4. "btc" \in Legs
        BY DEF Legs
      <3> QED
        BY <2>2, <3>2, <3>3, <3>4
    <2> QED
      BY <2>1, <2>2
  <1>4. Promise!OpenLeg(leg, "ShortEthLongBtc")
    BY <1>2, <1>3 DEF Promise!OpenLeg, Promise!Legs, Legs, pair
  <1> QED
    BY <1>4 DEF Promise!PairNext, Promise!TradeDirections, Promise!Legs, Legs

\* A fill that closes a leg.
LEMMA LegClosed ==
    ASSUME exposure \in [Legs -> Int], exposure' \in [Legs -> Int],
           NEW leg \in Legs, exposure[leg] # 0, exposure'[leg] = 0,
           \A other \in Legs : other # leg => exposure'[other] = exposure[other],
           UNCHANGED row
    PROVE  Promise!PairNext
  <1>1. exposure' = [exposure EXCEPT ![leg] = 0]
    OBVIOUS
  <1>2. UNCHANGED RecordedDirection
    BY DEF RecordedDirection
  <1>3. Promise!CloseLeg(leg)
    BY <1>1, <1>2 DEF Promise!CloseLeg
  <1> QED
    BY <1>3 DEF Promise!PairNext, Promise!Legs, Legs

\* Nothing that is lost, garbled or filled in part, in any state.
LEMMA PromiseClean ==
    ASSUME Promising
    PROVE  (LiveInv => Clean) /\ (LiveInv' => Clean')
  <1>1. /\ "lost_response" \notin RunnerFaultKinds /\ "garbled" \notin RunnerFaultKinds
        /\ "partial" \notin RunnerFaultKinds
    BY DEF RunnerFaultKinds
  <1> QED
    BY <1>1, CleanMet, RunnerFaultsAssumption DEF Promising, LiveInv

\* An order that opens a leg fills whole or does nothing.
LEMMA OpeningAttempt ==
    ASSUME EngineInv, MarketCall, call.stage \in OrderStages, Clean',
           NEW leg, NEW side, Opens(call.request, leg, side),
           NEW o \in Outcomes(call), Apply(o)
    PROVE  \/ /\ exposure' = exposure
              /\ IsError(o.reply) /\ o.reply.kind # "Filled"
           \/ /\ exposure' = [exposure EXCEPT ![leg] = @ + Sign(side) * Qty]
              /\ ~IsError(o.reply) /\ o.reply.kind = "Filled" /\ o.reply.qty = Qty
  <1>1. Fillable(call.request) = Qty
    BY OrderAttempt DEF Fillable
  <1> QED
    BY <1>1, CleanAttempt, ReplyKinds

\* One attempt of an entry.
LEMMA OpeningStep ==
    ASSUME Promising, MarketLook, LiveInv', OpeningPair,
           EngineStep, UNCHANGED runner_vars, pc = "entering"
    PROVE  OpeningPair' /\ (UNCHANGED exposure \/ Promise!PairNext)
  <1>1. /\ call.stage \in OrderStages /\ call.stage \in OpenStages \ {"open_cancel"}
        /\ EngineInv /\ MarketCall /\ exposure \in [Legs -> Int] /\ UNCHANGED row
        /\ "eth" \in Legs /\ "btc" \in Legs /\ LiveInv
    BY Attempted, PointFields
       DEF MarketLook, LiveInv, MarketInv, MarketCall, OpenStages, OrderStages,
           CancelStages, runner_vars, ExchangeTypeOK, Legs
  <1>2. Clean /\ Clean'
    BY <1>1, PromiseClean DEF Promising
  <1>3. Qty \in Nat \ {0} /\ Sign("Sell") * Qty = -Qty /\ Sign("Buy") * Qty = Qty
    BY RunnerAssumption DEF Sign
  <1>r. \A result : call' = Return(result) =>
          call'.stage = "returned" /\ call'.result = result
    BY CallFields
  <1>4. CASE Retry
    <2>1. UNCHANGED exposure
      BY <1>1, <1>2, <1>4, RetryChangesNothing, CleanMet
    <2>2. /\ call'.stage = call.stage /\ call'.request = call.request
          /\ call'.second = call.second /\ call'.first = call.first
      BY <1>1, <1>4, RetryFields
    <2> QED
      BY <1>1, <2>1, <2>2 DEF OpeningPair, OpenStages
  <1>5. CASE OpenEth
    <2>1. PICK o \in Outcomes(call) :
            /\ Apply(o)
            /\ IsError(o.reply) => call' = Return(PassedOn(o.reply))
            /\ ~IsError(o.reply) =>
                 /\ call'.stage = "open_btc" /\ call'.request = call.second
                 /\ call'.first = o.reply
      BY <1>1, <1>5, OpenEthCases
    <2>2. /\ call.stage = "open_eth"
          /\ Holds(0, 0)
          /\ Opens(call.request, "eth", "Sell") /\ Opens(call.second, "btc", "Buy")
      BY <1>1, <1>5, OpenEthCases DEF OpeningPair
    <2>3. \/ /\ exposure' = exposure
             /\ IsError(o.reply) /\ o.reply.kind # "Filled"
          \/ /\ exposure' = [exposure EXCEPT !["eth"] = @ + Sign("Sell") * Qty]
             /\ ~IsError(o.reply) /\ o.reply.kind = "Filled" /\ o.reply.qty = Qty
      BY <1>1, <1>2, <2>1, <2>2, OpeningAttempt
    <2>4. CASE IsError(o.reply)
      <3>1. call'.stage = "returned" /\ call'.result.kind = "Error"
        BY <1>r, <2>1, <2>4, ResultFields
      <3> QED
        BY <2>2, <2>3, <2>4, <3>1 DEF OpeningPair
    <2>5. CASE ~IsError(o.reply)
      <3>1. exposure' = [exposure EXCEPT !["eth"] = @ + (-Qty)]
        BY <1>3, <2>3, <2>5
      <3>2. Promise!PairNext
        BY <1>1, <1>3, <2>2, <3>1, LegOpened
      <3>3. exposure'["eth"] = -Qty /\ exposure'["btc"] = 0
        BY <1>1, <1>3, <2>2, <3>1
      <3> QED
        BY <2>1, <2>2, <2>3, <2>5, <3>2, <3>3 DEF OpeningPair
    <2> QED
      BY <2>4, <2>5
  <1>6. CASE OpenBtc
    <2>1. /\ call.stage = "open_btc" /\ call.first.kind = "Filled"
          /\ Holds(-Qty, 0)
          /\ Opens(call.request, "btc", "Buy") /\ call.first.qty = Qty
      BY <1>1, <1>6, OpenBtcCases DEF MarketCall, OpeningPair
    <2>2. PICK o \in Final("open_btc") :
            /\ Apply(o)
            /\ call.first.kind = "Filled" /\ o.reply.kind = "Filled" =>
                 call' = Return(PairFilled(call.first.qty, o.reply.qty))
            /\ call.first.kind = "Filled" /\ o.reply.kind # "Filled" =>
                 /\ call'.stage = "open_rollback"
                 /\ call'.request = Rollback("eth", call.first)
      BY <1>1, <1>6, OpenBtcCases
    <2>3. o \in Outcomes(call)
      BY <2>1, <2>2 DEF Final
    <2>4. \/ /\ exposure' = exposure
             /\ IsError(o.reply) /\ o.reply.kind # "Filled"
          \/ /\ exposure' = [exposure EXCEPT !["btc"] = @ + Sign("Buy") * Qty]
             /\ ~IsError(o.reply) /\ o.reply.kind = "Filled" /\ o.reply.qty = Qty
      BY <1>1, <1>2, <2>1, <2>2, <2>3, OpeningAttempt
    <2>5. CASE o.reply.kind # "Filled"
      <3>1. /\ call'.stage = "open_rollback" /\ call'.request = Rollback("eth", call.first)
            /\ exposure' = exposure
        BY <2>1, <2>2, <2>4, <2>5
      <3>2. /\ call'.request.leg = "eth" /\ call'.request.side = "Sell"
            /\ call'.request.reduce_only
        BY <1>3, <2>1, <3>1 DEF Rollback, Order, CloseForQty
      <3> QED
        BY <2>1, <3>1, <3>2 DEF OpeningPair
    <2>6. CASE o.reply.kind = "Filled"
      <3>1. exposure' = [exposure EXCEPT !["btc"] = @ + Qty]
        BY <1>3, <2>4, <2>6
      <3>2. Promise!PairNext
        BY <1>1, <1>3, <2>1, <3>1, LegOpened
      <3>3. call' = Return(PairFilled(Qty, Qty))
        BY <2>1, <2>2, <2>4, <2>6
      <3>4. /\ call'.stage = "returned" /\ call'.result.kind = "PairFilled"
            /\ call'.result.eth = Qty /\ call'.result.btc = Qty
        BY <1>r, <3>3, ResultFields
      <3> QED
        BY <3>2, <3>4 DEF OpeningPair, Failed
    <2> QED
      BY <2>5, <2>6
  <1>7. CASE OpenRollback
    <2>1. call.stage = "open_rollback"
      BY <1>1, <1>7, EngineStages DEF OpenRollback, Final
    <2>2. /\ Holds(-Qty, 0)
          /\ call.request.leg = "eth" /\ call.request.side = "Sell"
          /\ call.request.reduce_only
      BY <2>1 DEF OpeningPair
    <2>3. Fillable(call.request) = 0
      BY <1>1, <1>3, <2>2, OrderAttempt, Attempted DEF Fillable, Reducible, Sign, Orders
    <2>4. UNCHANGED exposure
      BY <1>1, <1>2, <2>3, Attempted, CleanAttempt
    <2>5. PICK why : call' = Return(Error("PartialFill", why))
      BY <1>7 DEF OpenRollback
    <2>6. call'.stage = "returned" /\ call'.result.kind = "Error"
      BY <1>r, <2>5, ResultFields
    <2> QED
      BY <2>2, <2>4, <2>6 DEF OpeningPair
  <1> QED
    BY <1>1, <1>4, <1>5, <1>6, <1>7, EngineStages DEF OpenStages

\* One attempt of an exit.
LEMMA ClosingStep ==
    ASSUME Promising, MarketLook, LiveInv', ExitingInv, ClosingPair, seen # None,
           EngineStep, UNCHANGED runner_vars, pc = "exiting"
    PROVE  ClosingPair' /\ (UNCHANGED exposure \/ Promise!PairNext)
  <1>1. /\ call.stage \in OrderStages /\ call.stage \in CloseStages
        /\ EngineInv /\ MarketCall /\ exposure \in [Legs -> Int] /\ UNCHANGED row
        /\ exposure' \in [Legs -> Int]
        /\ "eth" \in Legs /\ "btc" \in Legs /\ LiveInv
    BY Attempted, PointFields
       DEF MarketLook, LiveInv, MarketInv, MarketCall, CloseStages, OrderStages,
           CancelStages, runner_vars, ExchangeTypeOK, Legs
  <1>2. Clean /\ Clean'
    BY <1>1, PromiseClean DEF Promising
  <1>3. Qty \in Nat \ {0} /\ Sign("Sell") * Qty = -Qty /\ Sign("Buy") = 1
    BY RunnerAssumption DEF Sign
  <1>4. /\ call.stage = "close_eth" =>
             /\ ClosesLeg(call.request, "eth", exposure["eth"])
             /\ exposure["eth"] = -Qty /\ exposure["btc"] = Qty
        /\ call.stage = "close_btc" =>
             /\ ClosesLeg(call.request, "btc", exposure["btc"])
             /\ exposure["eth"] = 0 /\ exposure["btc"] = Qty /\ call.first.qty = Qty
    BY <1>2 DEF ExitingInv, ClosingPair
  <1>5. CASE Retry
    <2>1. UNCHANGED exposure
      BY <1>1, <1>2, <1>5, RetryChangesNothing, CleanMet
    <2>2. /\ call'.stage = call.stage /\ call'.request = call.request
          /\ call'.first = call.first
      BY <1>1, <1>5, RetryFields
    <2> QED
      BY <1>1, <2>1, <2>2 DEF ClosingPair, CloseStages
  <1>6. CASE CloseEth
    <2>1. PICK o \in Outcomes(call) :
            /\ Apply(o)
            /\ o.reply.kind # "Filled" => call'.stage = "returned"
            /\ o.reply.kind = "Filled" =>
                 call'.stage = "close_btc" /\ call'.first = o.reply
      BY <1>1, <1>6, CloseEthCases
    <2>2. /\ call.stage = "close_eth" /\ exposure["eth"] = -Qty /\ exposure["btc"] = Qty
          /\ ClosesLeg(call.request, "eth", exposure["eth"])
      BY <1>1, <1>4, <1>6, CloseEthCases
    <2>3. CASE o.reply.kind # "Filled"
      <3>1. exposure' = exposure
        BY <1>1, <1>2, <1>3, <2>1, <2>2, <2>3, WholeClose
      <3> QED
        BY <2>1, <2>3, <3>1 DEF ClosingPair
    <2>4. CASE o.reply.kind = "Filled"
      <3>1. /\ exposure'["eth"] = 0
            /\ \A other \in Legs : other # "eth" => exposure'[other] = exposure[other]
        BY <1>1, <1>2, <1>3, <2>1, <2>2, <2>4, WholeClose
      <3> DEFINE qty == Fillable(call.request)
      <3>2. /\ qty \in Nat /\ o.reply = Filled(qty)
            /\ exposure' = [exposure EXCEPT ![call.request.leg] =
                              @ + Sign(call.request.side) * qty]
        BY <1>1, <1>2, <2>1, <2>4, CleanAttempt
      <3> HIDE DEF qty
      <3>3. call.request.leg = "eth" /\ Sign(call.request.side) = 1
        BY <1>3, <2>2 DEF ClosesLeg, CloseForQty
      <3>4. exposure' = [exposure EXCEPT !["eth"] = @ + 1 * qty]
        BY <3>2, <3>3
      <3>5. qty = Qty
        <4>1. exposure'["eth"] = exposure["eth"] + 1 * qty
          BY <1>1, <3>4
        <4> QED
          BY <1>3, <2>2, <3>1, <3>2, <4>1
      <3>6. o.reply.qty = Qty
        BY <3>2, <3>5, ReplyKinds
      <3>7. Promise!PairNext
        BY <1>1, <1>3, <2>2, <3>1, LegClosed
      <3> QED
        BY <1>1, <2>1, <2>2, <2>4, <3>1, <3>6, <3>7 DEF ClosingPair
    <2> QED
      BY <2>3, <2>4
  <1>7. CASE CloseBtc
    <2>1. PICK o \in Outcomes(call) :
            /\ Apply(o)
            /\ o.reply.kind # "Filled" =>
                 /\ call'.stage = "close_rollback"
                 /\ call'.request = Reopen(call, call.cause)
            /\ o.reply.kind = "Filled" => call'.stage = "returned"
      BY <1>1, <1>7, CloseBtcCases
    <2>2. /\ call.stage = "close_btc" /\ exposure["eth"] = 0 /\ exposure["btc"] = Qty
          /\ call.first.qty = Qty
          /\ ClosesLeg(call.request, "btc", exposure["btc"])
      BY <1>1, <1>4, <1>7, CloseBtcCases
    <2>3. CASE o.reply.kind # "Filled"
      <3>1. exposure' = exposure
        BY <1>1, <1>2, <1>3, <2>1, <2>2, <2>3, WholeClose
      <3> DEFINE order == Reopen(call, call.cause)
      <3>2. Opens(order, "eth", "Sell")
        <4>1. CloseForQty(Qty) = "Sell" /\ Abs(Qty) = Qty
          BY <1>3 DEF CloseForQty, Abs
        <4> QED
          BY <2>2, <4>1 DEF Reopen, Order
      <3> HIDE DEF order
      <3>3. call'.request = order
        BY <2>1, <2>3 DEF order
      <3> QED
        BY <2>1, <2>2, <2>3, <3>1, <3>2, <3>3 DEF ClosingPair
    <2>4. CASE o.reply.kind = "Filled"
      <3>1. /\ exposure'["btc"] = 0
            /\ \A other \in Legs : other # "btc" => exposure'[other] = exposure[other]
        BY <1>1, <1>2, <1>3, <2>1, <2>2, <2>4, WholeClose
      <3>2. Promise!PairNext
        BY <1>1, <1>3, <2>2, <3>1, LegClosed
      <3> QED
        BY <2>1, <2>4, <3>2 DEF ClosingPair
    <2> QED
      BY <2>3, <2>4
  <1>8. CASE CloseRollback
    <2>1. call.stage = "close_rollback"
      BY <1>1, <1>8, EngineStages DEF CloseRollback, Final
    <2>2. /\ exposure["eth"] = 0 /\ exposure["btc"] = Qty
          /\ Opens(call.request, "eth", "Sell")
      BY <2>1 DEF ClosingPair
    <2>3. PICK o \in Outcomes(call) : Apply(o)
      BY Attempted
    <2>4. PICK why : call' = Return(Error("PartialFill", why))
      BY <1>8 DEF CloseRollback
    <2>5. call'.stage = "returned"
      BY <2>4, CallFields
    <2>6. ClosingPair'
      BY <2>5 DEF ClosingPair
    <2>7. \/ exposure' = exposure
          \/ exposure' = [exposure EXCEPT !["eth"] = @ + Sign("Sell") * Qty]
      BY <1>1, <1>2, <2>2, <2>3, OpeningAttempt
    <2>8. \/ exposure' = exposure
          \/ exposure' = [exposure EXCEPT !["eth"] = @ + (-Qty)]
      BY <1>3, <2>7
    <2>9. exposure' = exposure \/ Promise!PairNext
      BY <1>1, <2>2, <2>8, LegOpened
    <2> QED
      BY <2>6, <2>9
  <1> QED
    BY <1>1, <1>5, <1>6, <1>7, <1>8, EngineStages DEF CloseStages

\* One attempt of the repair of a lone leg.
LEMMA RepairStep ==
    ASSUME Promising, MarketLook, LiveInv', EngineStep, UNCHANGED runner_vars,
           pc = "reconcile_repair"
    PROVE  /\ UNCHANGED exposure \/ Promise!PairNext
           /\ Unpaired'
  <1>1. /\ call.stage = "repair" /\ seen \in [Legs -> Int] /\ call.stage \in OrderStages
        /\ EngineInv /\ MarketCall /\ exposure \in [Legs -> Int] /\ UNCHANGED row
        /\ exposure' \in [Legs -> Int] /\ LiveInv /\ RepairingInv
    BY Attempted, PointFields
       DEF MarketLook, LiveInv, MarketInv, MarketCall, LookedInv, OrderStages,
           CancelStages, runner_vars, ExchangeTypeOK
  <1>2. Clean /\ Clean' /\ "partial" \notin met'
    BY <1>1, PromiseClean, CleanMet DEF Promising
  <1>3. PICK leg \in Legs :
          /\ seen[leg] # 0 /\ ClosesLeg(call.request, leg, seen[leg])
          /\ Within(exposure[leg], seen[leg])
          /\ \A other \in Legs : other # leg => exposure[other] = 0
    BY <1>1 DEF RepairingInv
  <1>4. PICK o \in Outcomes(call) : Apply(o)
    BY Attempted
  <1>5. seen[leg] \in Int \ {0}
    BY <1>1, <1>3
  <1>6. /\ \A other \in Legs : other # leg => exposure'[other] = exposure[other]
        /\ o.reply.kind = "Filled" => exposure'[leg] = 0
    BY <1>1, <1>2, <1>3, <1>4, <1>5, ClosingAttempt
  <1>7. o.reply.kind # "Filled" => exposure' = exposure
    BY <1>1, <1>2, <1>4, CleanAttempt
  <1>8. UNCHANGED exposure \/ Promise!PairNext
    <2>1. CASE o.reply.kind # "Filled"
      BY <1>7, <2>1
    <2>2. CASE o.reply.kind = "Filled" /\ exposure[leg] # 0
      BY <1>1, <1>6, <2>2, LegClosed
    <2>3. CASE o.reply.kind = "Filled" /\ exposure[leg] = 0
      <3>1. \A l \in Legs : exposure'[l] = exposure[l]
        BY <1>6, <2>3
      <3>2. exposure' = exposure
        BY <1>1, <3>1
      <3> QED
        BY <3>2
    <2> QED
      BY <2>1, <2>2, <2>3
  <1>9. exposure'["eth"] = 0 \/ exposure'["btc"] = 0
    BY <1>3, <1>6 DEF Legs
  <1> QED
    BY <1>8, <1>9 DEF Unpaired

\* What the row names, told from the row alone.
LEMMA DirectionKept ==
    ASSUME UNCHANGED row
    PROVE  UNCHANGED RecordedDirection /\ (RowHolds => RowHolds')
  BY DEF RecordedDirection, RowHolds

\* The pair position is what the two legs of the pair hold.
LEMMA PairHeld ==
    ASSUME exposure \in [Legs -> Int]
    PROVE  /\ exposure = PositionQty(PairPosition) <=> Holds(-Qty, Qty)
           /\ exposure = PositionQty(PairPosition) =>
                exposure = Promise!Pair("ShortEthLongBtc")
           /\ Unpaired => \A direction \in Promise!TradeDirections :
                            exposure # Promise!Pair(direction)
           /\ PairPosition.direction = "ShortEthLongBtc"
  <1>1. PairPosition.eth = -Qty /\ PairPosition.btc = Qty
        /\ PairPosition.direction = "ShortEthLongBtc"
    BY DEF PairPosition
  <1>2. /\ PositionQty(PairPosition)["eth"] = -Qty
        /\ PositionQty(PairPosition)["btc"] = Qty
        /\ PositionQty(PairPosition) \in [Legs -> Int]
    BY <1>1, RunnerAssumption DEF PositionQty, Legs
  <1> HIDE DEF PairPosition
  <1>3. exposure = PositionQty(PairPosition) <=> Holds(-Qty, Qty)
    BY <1>2 DEF Legs
  <1>4. PositionQty(PairPosition) = Promise!Pair("ShortEthLongBtc")
    BY <1>1, PairShapes DEF PositionQty
  <1>5. ASSUME Unpaired, NEW direction \in Promise!TradeDirections
        PROVE  exposure # Promise!Pair(direction)
    <2>1. Promise!Pair(direction)["eth"] # 0 /\ Promise!Pair(direction)["btc"] # 0
      BY PairShapes, <1>5 DEF Promise!TradeDirections, Legs
    <2> QED
      BY <1>5, <2>1 DEF Unpaired
  <1> QED
    BY <1>1, <1>3, <1>4, <1>5

LEMMA PromiseInit ==
    ASSUME Promising, Init
    PROVE  PromiseInv /\ Promise!PairInit
  <1>1. /\ pc = "down" /\ seen = None /\ state.status = "Flat"
        /\ row \in InheritedRows \cup {None}
        /\ row = None => exposure = [leg \in Legs |-> 0]
        /\ row # None => exposure = PositionQty(row.position)
    BY DefaultSound DEF Init, ExchangeInit
  <1>2. row # None => row.status = "InPosition" /\ row.position = PairPosition
    BY <1>1, RowsAssumption DEF Promising
  <1>3. PromiseInv
    BY <1>1, <1>2 DEF PromiseInv, OfPair
  <1>4. CASE row = None
    <2>1. exposure = Promise!Nothing /\ RecordedDirection = None
      BY <1>1, <1>4 DEF Promise!Nothing, Promise!Legs, Legs, RecordedDirection
    <2> QED
      BY <1>3, <2>1 DEF Promise!PairInit
  <1>5. CASE row # None
    <2>1. exposure = PositionQty(PairPosition)
      BY <1>1, <1>2, <1>5
    <2>2. exposure \in [Legs -> Int]
      <3>1. PairPosition.eth \in Int /\ PairPosition.btc \in Int
        BY RunnerAssumption DEF PairPosition
      <3> QED
        BY <2>1, <3>1 DEF PositionQty
    <2>3. /\ exposure = Promise!Pair("ShortEthLongBtc")
          /\ RecordedDirection = "ShortEthLongBtc"
      BY <1>2, <1>5, <2>1, <2>2, PairHeld DEF RecordedDirection
    <2> QED
      BY <1>3, <2>3 DEF Promise!PairInit, Promise!TradeDirections
  <1> QED
    BY <1>4, <1>5

\* The row is written: with the pair that is held, or with nothing once it is gone.
LEMMA RowWritten ==
    ASSUME exposure \in [Legs -> Int], UNCHANGED exposure, state # None, row' = state,
           OfPair(state), state.status = "InPosition" => exposure = PositionQty(PairPosition),
           state.status # "InPosition" => Unpaired
    PROVE  Promise!PairNext
  <1>1. CASE state.status = "InPosition"
    <2>1. RecordedDirection' = "ShortEthLongBtc"
      BY <1>1, PairHeld DEF RecordedDirection, OfPair
    <2>2. Promise!Record("ShortEthLongBtc")
      BY <1>1, <2>1, PairHeld DEF Promise!Record
    <2> QED
      BY <2>2 DEF Promise!PairNext, Promise!TradeDirections
  <1>2. CASE state.status # "InPosition"
    <2>1. RecordedDirection' = None
      BY <1>2 DEF RecordedDirection
    <2>2. Promise!Forget
      BY <1>2, <2>1, PairHeld DEF Promise!Forget
    <2> QED
      BY <2>2 DEF Promise!PairNext
  <1> QED
    BY <1>1, <1>2

\* One attempt of whatever the engine is asked.
LEMMA PromiseEngine ==
    ASSUME Promising, TradeInv, PromiseInv, LiveInv', EngineStep, UNCHANGED runner_vars
    PROVE  PromiseInv' /\ (UNCHANGED exposure \/ Promise!PairNext)
  <1>1. call.stage \notin {"idle", "returned"} /\ MarketLook /\ LiveInv
    BY Attempted DEF OrderStages, CancelStages, TradeInv, MarketLook
  <1>2. UNCHANGED <<pc, seen, state, row>> /\ pc # "saving"
    BY <1>1, IdlePoint, CallFields DEF runner_vars, CallPoints, Points
  <1>3. pc \in {"reconcile_repair", "entering", "exiting"}
    <2>1. pc \in CallPoints
      BY <1>1, IdlePoint, CallFields DEF LiveInv
    <2>2. pc \notin {"drop_eth", "drop_btc", "expire_eth", "expire_btc"}
      BY <1>1 DEF LiveInv, MarketLook, MarketInv
    <2>3. pc # "local_repair"
      BY <1>1 DEF MarketLook, LookedInv, PromiseInv
    <2> QED
      BY <2>1, <2>2, <2>3 DEF CallPoints
  <1>4. seen # None
    BY <1>3 DEF PromiseInv
  <1>5. RowHolds' <=> RowHolds
    BY <1>2 DEF RowHolds
  <1>6. OfPair(state)' /\ (row' # None => OfPair(row)')
    BY <1>2 DEF PromiseInv, OfPair
  <1>7. CASE pc = "entering"
    <2>1. OpeningPair' /\ (UNCHANGED exposure \/ Promise!PairNext)
      BY <1>1, <1>7, OpeningStep DEF PromiseInv
    <2> QED
      BY <1>2, <1>5, <1>6, <1>7, <2>1 DEF PromiseInv
  <1>8. CASE pc = "exiting"
    <2>1. ClosingPair' /\ (UNCHANGED exposure \/ Promise!PairNext)
      BY <1>1, <1>4, <1>8, ClosingStep DEF PromiseInv, TradeInv
    <2>2. state.status = "InPosition"
      BY <1>1, <1>8 DEF LiveInv
    <2> QED
      BY <1>2, <1>5, <1>6, <1>8, <2>1, <2>2 DEF PromiseInv
  <1>9. CASE pc = "reconcile_repair"
    <2>1. Unpaired' /\ (UNCHANGED exposure \/ Promise!PairNext)
      BY <1>1, <1>9, RepairStep
    <2> QED
      BY <1>2, <1>5, <1>6, <1>9, <2>1 DEF PromiseInv
  <1> QED
    BY <1>3, <1>7, <1>8, <1>9

\* What a run decides on what it saw.
LEMMA PromiseDecisions ==
    ASSUME Promising, TradeInv, PromiseInv,
           \/ \E direction \in Directions : TryEntry(direction)
           \/ \E reason \in ExitReasons : TryExit(reason)
    PROVE  PromiseInv' /\ UNCHANGED <<exposure, row>>
  <1>1. /\ LiveInv /\ Sound(state) /\ LookedInv /\ Snapshots /\ OrderType = "Market"
        /\ "partial" \notin met
    BY PromiseClean, CleanMet DEF TradeInv, MarketLook, LiveInv, Promising
  <1>2. /\ pc = "signals" /\ UNCHANGED <<exposure, row, state, seen>>
        /\ seen # None
    BY DEF TryEntry, TryExit, exchange_vars, PromiseInv
  <1>3. /\ OfPair(state)' /\ (row' # None => OfPair(row)')
        /\ RowHolds' <=> RowHolds
    BY <1>2 DEF PromiseInv, OfPair, RowHolds
  <1>4. ASSUME NEW direction \in Directions, TryEntry(direction) PROVE PromiseInv'
    <2>1. /\ pc' = "entering" /\ state.status = "Flat"
      BY <1>4 DEF TryEntry
    <2>2. /\ call'.stage = "open_eth"
          /\ call'.request = Order("eth", EntrySide(direction, "eth"), Qty, "Market", FALSE)
          /\ call'.second = Order("btc", EntrySide(direction, "btc"), Qty, "Market", FALSE)
      BY <1>1, <1>4, MarketStarts
    <2>3. EntrySide(direction, "eth") = "Sell" /\ EntrySide(direction, "btc") = "Buy"
      BY <1>4 DEF Promising, EntrySide
    <2>4. Opens(call'.request, "eth", "Sell") /\ Opens(call'.second, "btc", "Buy")
      BY <2>2, <2>3 DEF Order
    <2>5. exposure'["eth"] = 0 /\ exposure'["btc"] = 0
      BY <1>1, <1>2, <2>1 DEF LookedInv, Spared, IsFlat, Legs
    <2>6. OpeningPair'
      BY <2>2, <2>4, <2>5 DEF OpeningPair
    <2> QED
      BY <1>2, <1>3, <2>1, <2>6 DEF PromiseInv
  <1>5. ASSUME NEW reason \in ExitReasons, TryExit(reason) PROVE PromiseInv'
    <2>1. pc' = "exiting" /\ state.status = "InPosition"
      BY <1>5 DEF TryExit
    <2>2. call'.stage = "close_eth"
      BY <1>1, <1>5, MarketStarts
    <2>3. exposure = PositionQty(PairPosition)
      BY <1>1, <1>2, <2>1 DEF LookedInv, PromiseInv, OfPair
    <2>4. Holds(-Qty, Qty)
      BY <1>1, <2>3, PairHeld DEF LiveInv, ExchangeTypeOK
    <2>5. ClosingPair'
      BY <1>2, <2>2, <2>4 DEF ClosingPair
    <2> QED
      BY <1>2, <1>3, <2>1, <2>5 DEF PromiseInv
  <1> QED
    BY <1>2, <1>4, <1>5

\* What a run makes of the result of an entry or an exit.
LEMMA PromiseResults ==
    ASSUME Promising, TradeInv, PromiseInv, EntryFilled \/ EntryFailed \/ ExitDone
    PROVE  PromiseInv' /\ UNCHANGED <<exposure, row>>
  <1>1. /\ LiveInv /\ Sound(state) /\ Snapshots /\ Clean /\ bar \in Nat
        /\ ExitingInv
    BY PromiseClean, RunnerAssumption DEF TradeInv, MarketLook, LiveInv, Promising
  <1>2. /\ pc \in {"entering", "exiting"} /\ call.stage = "returned"
        /\ pc' \in {"saving", "failing"}
        /\ UNCHANGED <<exposure, row, seen>> /\ seen # None
    BY DEF EntryFilled, EntryFailed, ExitDone, Ready, TakeResult, exchange_vars,
           PromiseInv
  <1>3. /\ OfPair(state) /\ (row' # None => OfPair(row)')
        /\ RowHolds' <=> RowHolds
    BY <1>2 DEF PromiseInv, OfPair, RowHolds
  <1>4. CASE EntryFilled
    <2> DEFINE p == Signed(plan, call.result.eth, call.result.btc)
    <2>1. pc = "entering" /\ call.result.kind = "PairFilled"
      BY <1>4 DEF EntryFilled, Ready
    <2>2. /\ state.status = "Flat" /\ state.cooldown_until = None
          /\ plan = "ShortEthLongBtc"
      BY <1>1, <2>1 DEF LiveInv, Sound, Promising
    <2>3. CanEnter(state, bar)
      BY <2>2 DEF CanEnter, DeadlineAhead
    <2>4. state' = Enter(state, p) /\ pc' = "saving"
      BY <1>4, <2>3 DEF EntryFilled
    <2>5. call.result.eth = Qty /\ call.result.btc = Qty
      BY <1>2, <2>1 DEF PromiseInv, OpeningPair
    <2>6. p = PairPosition
      <3>1. Sign(EntrySide(plan, "eth")) = -1 /\ Sign(EntrySide(plan, "btc")) = 1
        BY <2>2 DEF Sign, EntrySide
      <3>2. /\ Sign(EntrySide(plan, "eth")) * call.result.eth = -Qty
            /\ Sign(EntrySide(plan, "btc")) * call.result.btc = Qty
        BY <2>5, <3>1, RunnerAssumption
      <3> QED
        BY <2>2, <3>2 DEF Signed, PairPosition
    <2>7. p \in Positions /\ p.eth # 0
      BY <1>1, <2>2, <2>5, SnapshotsMade, RunnerAssumption DEF TradeDirections
    <2> HIDE DEF p
    <2>8. state'.status = "InPosition" /\ state'.position = p
      BY <1>1, <2>4, <2>7, EnterSound
    <2>9. OfPair(state)'
      BY <2>6, <2>8 DEF OfPair
    <2> QED
      BY <1>2, <1>3, <2>4, <2>8, <2>9 DEF PromiseInv
  <1>5. CASE EntryFailed
    <2>1. pc = "entering" /\ Failed(call.result) /\ state' = state
      BY <1>5 DEF EntryFailed, Ready
    <2>2. state.status = "Flat"
      BY <1>1, <2>1 DEF LiveInv
    <2>3. exposure["btc"] = 0
      BY <1>2, <2>1 DEF PromiseInv, OpeningPair
    <2>4. Unpaired' /\ OfPair(state)'
      BY <1>2, <2>1, <2>2, <2>3 DEF Unpaired, OfPair
    <2> QED
      BY <1>2, <1>3, <2>1, <2>2, <2>4 DEF PromiseInv
  <1>6. CASE ExitDone
    <2>1. /\ pc = "exiting" /\ state.status = "InPosition"
      BY <1>1, <1>6 DEF ExitDone, Ready, LiveInv
    <2>2. CASE Failed(call.result)
      <3>1. pc' = "failing" /\ state' = state
        BY <1>6, <2>2 DEF ExitDone
      <3>2. OfPair(state)' /\ RowHolds'
        BY <1>2, <1>3, <2>1, <3>1 DEF PromiseInv, OfPair
      <3> QED
        BY <1>2, <1>3, <2>1, <3>1, <3>2 DEF PromiseInv
    <2>3. CASE ~Failed(call.result)
      <3>1. pc' = "saving" /\ state' = Exit(state, plan, bar)
        BY <1>6, <2>3 DEF ExitDone
      <3>2. state'.status \in {"Flat", "Cooldown"}
        BY <1>1, <3>1, ExitSound
      <3>3. IsFlat(exposure)
        BY <1>1, <1>2, <2>1, <2>3 DEF ExitingInv
      <3>4. Unpaired' /\ OfPair(state)'
        BY <1>2, <3>2, <3>3 DEF IsFlat, Legs, Unpaired, OfPair
      <3> QED
        BY <1>2, <1>3, <3>1, <3>2, <3>4 DEF PromiseInv
    <2> QED
      BY <2>2, <2>3
  <1> QED
    BY <1>2, <1>4, <1>5, <1>6

\* One step of the process is one step of the promise, or none.
LEMMA PromiseStep ==
    ASSUME Promising, TradeInv, PromiseInv, [Next]_vars
    PROVE  PromiseInv' /\ [Promise!PairNext]_(Promise!pair_vars)
  <1> USE DEF GoOn, Synchronous, Account, exchange_vars, engine_vars, Stopped
  <1>1. /\ LiveInv' /\ MarketNext
        /\ LiveInv /\ Sound(state) /\ Snapshots /\ OrderType = "Market" /\ Clean
        /\ exposure \in [Legs -> Int] /\ bar \in Nat
        /\ state.status # "PendingEntry" /\ MarketLook
        /\ row # None => Sound(row)
    BY PromiseClean, MarketLookStep, RunnerAssumption
       DEF TradeInv, MarketLook, MarketInv, LiveInv, ExchangeTypeOK, Promising
  <1> SUFFICES PromiseInv' /\ (UNCHANGED <<exposure, RecordedDirection>>
                                \/ Promise!PairNext)
    BY DEF Promise!pair_vars
  <1>k. UNCHANGED row => UNCHANGED RecordedDirection
    BY DirectionKept
  <1>2. OfPair(DefaultState) /\ DefaultState.status = "Flat"
    BY DefaultSound DEF OfPair
  <1>p. /\ OfPair(state) /\ (row # None => OfPair(row))
        /\ pc \notin {"down", "idle", "fetch"} => seen # None
        /\ state.status = "InPosition" /\ pc # "saving" => RowHolds
        /\ state.status # "InPosition" /\ RowHolds /\ pc \notin {"down", "entering"}
             => Unpaired
    BY DEF PromiseInv
  \* A step that leaves the account and the row alone and asks the engine nothing.
  <1>q. ASSUME UNCHANGED <<exposure, row>>, pc' \notin {"entering", "exiting"},
               OfPair(state'), pc' \notin {"down", "idle", "fetch"} => seen' # None,
               state'.status = "InPosition" /\ pc' # "saving" => RowHolds,
               state'.status # "InPosition" /\ RowHolds /\ pc' # "down" => Unpaired
        PROVE  PromiseInv' /\ UNCHANGED <<exposure, RecordedDirection>>
    <2>1. /\ RowHolds' <=> RowHolds
          /\ Unpaired' <=> Unpaired
          /\ row' # None => OfPair(row')
      BY <1>p, <1>q DEF RowHolds, Unpaired
    <2> QED
      BY <1>k, <1>q, <2>1 DEF PromiseInv, OfPair
  <1>3. CASE EngineStep /\ UNCHANGED runner_vars
    <2>1. PromiseInv' /\ (UNCHANGED exposure \/ Promise!PairNext)
      BY <1>1, <1>3, PromiseEngine
    <2> QED
      BY <1>3, <1>k, <2>1 DEF runner_vars
  <1>4. CASE \/ \E direction \in Directions : TryEntry(direction)
             \/ \E reason \in ExitReasons : TryExit(reason)
    BY <1>4, <1>k, PromiseDecisions
  <1>5. CASE EntryFilled \/ EntryFailed \/ ExitDone
    BY <1>5, <1>k, PromiseResults
  <1>6. CASE \/ ReconcileResidual /\ Await("reconcile_repair", RepairResidual(seen))
             \/ ReconcileHeld \/ ReconcileUnknown
             \/ CheckExpiry /\ GoOn("update") /\ Synchronous /\ UNCHANGED state
             \/ CheckResidual \/ NoTrade \/ BarError
    <2>1. /\ UNCHANGED <<exposure, row, state, seen>>
          /\ pc \in {"reconcile", "expiry", "residual", "signals"}
          /\ pc' \in {"reconcile_repair", "expiry", "failing", "update", "local_repair",
                      "signals", "saving"}
      BY <1>6 DEF ReconcileResidual, Await, ReconcileHeld, ReconcileUnknown, CheckExpiry,
                  CheckResidual, NoTrade, BarError
    <2> QED
      BY <1>p, <1>q, <2>1
  <1>7. CASE NextBar
    <2>1. /\ UNCHANGED <<exposure, row, state, seen, pc>> /\ pc \in {"idle", "down"}
      BY <1>7 DEF NextBar
    <2> QED
      BY <1>p, <1>q, <2>1
  <1>8. CASE StartBar
    <2>1. /\ UNCHANGED <<exposure, row>> /\ pc = "idle"
          /\ \/ pc' = "fetch" /\ state' = state
             \/ pc' = "down" /\ state' = DefaultState
      BY <1>8 DEF StartBar
    <2> QED
      BY <1>2, <1>p, <1>q, <2>1
  <1>9. CASE FetchExposure
    <2>1. /\ UNCHANGED <<exposure, row, state>> /\ pc = "fetch"
          /\ pc' = "reconcile" /\ seen' = exposure
      BY <1>9 DEF FetchExposure, RunnerFault, Promising
    <2>2. seen' # None
      BY <1>1, <2>1, SeenExposure
    <2> QED
      BY <1>p, <1>q, <2>1, <2>2
  <1>10. CASE ReconcileFlat
    <2>1. /\ UNCHANGED <<exposure, row, seen>> /\ pc = "reconcile" /\ pc' = "expiry"
          /\ IsFlat(exposure)
          /\ state' = state \/ state' = ForceFlat(state)
      BY <1>1, <1>10 DEF ReconcileFlat, MarketLook, LookedInv
    <2>2. state' = state \/ state'.status = "Flat"
      BY <1>1, <2>1, ForceFlatSound
    <2>3. Unpaired /\ OfPair(state')
      BY <1>p, <2>1, <2>2 DEF IsFlat, Legs, Unpaired, OfPair
    <2> QED
      BY <1>p, <1>q, <2>1, <2>2, <2>3
  <1>11. CASE ReconcileRepaired
    <2>1. /\ UNCHANGED <<exposure, row, seen>> /\ pc = "reconcile_repair"
          /\ \/ pc' = "failing" /\ state' = state
             \/ pc' = "expiry" /\ state' = ForceFlat(state)
      BY <1>11 DEF ReconcileRepaired, Ready, TakeResult
    <2>2. state' = state \/ state'.status = "Flat"
      BY <1>1, <2>1, ForceFlatSound
    <2>3. pc' = "expiry" => Unpaired
      <3>1. pc' = "expiry" => call.stage = "returned" /\ call.result.kind = "LegFilled"
        BY <1>1, <1>11, PointFields
           DEF ReconcileRepaired, Ready, LiveInv, Failed
      <3>2. pc' = "expiry" => IsFlat(exposure)
        BY <1>1, <2>1, <3>1, CleanMet DEF MarketLook, RepairingInv, Spared
      <3> QED
        BY <3>2 DEF IsFlat, Legs, Unpaired
    <2>4. OfPair(state')
      BY <1>p, <2>2 DEF OfPair
    <2> QED
      BY <1>1, <1>p, <1>q, <2>1, <2>2, <2>3, <2>4
  <1>12. CASE UpdateState
    <2>1. /\ UNCHANGED <<exposure, row, seen>> /\ pc = "update" /\ pc' = "residual"
          /\ state' = Update(state, bar)
      BY <1>12 DEF UpdateState
    <2>2. \/ state' = state
          \/ state.status = "Cooldown" /\ state'.status = "Flat"
      BY <1>1, <2>1, UpdateSound
    <2>3. OfPair(state')
      BY <1>p, <2>2 DEF OfPair
    <2> QED
      BY <1>p, <1>q, <2>1, <2>2, <2>3
  <1>13. CASE LocalRepaired
    BY <1>1, <1>13, <1>p DEF LocalRepaired, Ready, MarketLook, LookedInv
  <1>14. CASE Save
    <2>1. pc = "saving" /\ UNCHANGED exposure /\ pc' \in {"idle", "down"}
      BY <1>14 DEF Save
    <2>2. \/ row' = state
          \/ row' = row /\ pc' = "down" /\ state' = DefaultState
      BY <1>14 DEF Save
    <2>3. \/ state' = state
          \/ pc' = "down" /\ state' = DefaultState
      BY <1>14 DEF Save
    <2>4. RecordMatchesAccount
      BY <1>1, <1>p, <2>1 DEF TradeInv, SavedMatchesAccount, Clean
    <2>5. CASE row' = row /\ pc' = "down" /\ state' = DefaultState
      BY <1>2, <1>q, <2>1, <2>5
    <2>6. CASE row' = state
      <3>1. /\ state.status = "InPosition" => exposure = PositionQty(PairPosition)
            /\ state.status # "InPosition" => Unpaired
        BY <1>1, <1>p, <2>4, RecordFields
           DEF RecordMatchesAccount, OfPair, Statuses, IsFlat, Legs, Unpaired
      <3>2. state # None
        BY <1>1, RowsAssumption DEF Sound
      <3>3. Promise!PairNext
        BY <1>1, <1>p, <2>1, <2>6, <3>1, <3>2, RowWritten
      <3>4. /\ RowHolds' <=> state.status = "InPosition"
            /\ row' # None => OfPair(row')
        BY <1>p, <2>6, <3>2 DEF RowHolds
      <3>5. OfPair(state')
        BY <1>2, <1>p, <2>3
      <3>6. PromiseInv'
        BY <1>2, <2>1, <2>3, <3>4, <3>5 DEF PromiseInv, OfPair
      <3> QED
        BY <3>3, <3>6
    <2> QED
      BY <2>2, <2>5, <2>6
  <1>15. CASE Crash
    <2>1. UNCHANGED <<exposure, row>> /\ pc' = "down" /\ state' = DefaultState
      BY <1>15 DEF Crash
    <2> QED
      BY <1>2, <1>q, <2>1
  <1>16. CASE Start
    <2>1. /\ UNCHANGED <<exposure, row, seen>> /\ pc = "down" /\ pc' = "idle"
          /\ row = None => state' = DefaultState
          /\ row # None => state' = Recover(row, bar)
      BY <1>16 DEF Start
    <2>2. row # None =>
            \/ state' = row
            \/ row.status = "Cooldown" /\ state'.status = "Flat"
      BY <1>1, <2>1, UpdateSound
    <2>3. /\ OfPair(state')
          /\ state'.status = "InPosition" <=> RowHolds
      BY <1>2, <1>p, <2>1, <2>2 DEF OfPair, RowHolds
    <2> QED
      BY <1>q, <2>1, <2>3
  <1>17. CASE UNCHANGED vars
    <2>1. UNCHANGED <<exposure, row, call, pc, state, seen>>
      BY <1>17 DEF vars, runner_vars
    <2> QED
      BY <1>k, <2>1 DEF PromiseInv, OfPair, RowHolds, Unpaired, OpeningPair, ClosingPair
  <1>18. CASE Fail
    <2>1. /\ pc = "failing" /\ UNCHANGED exposure
          /\ pc' = "down" /\ state' = DefaultState
          /\ row' = state \/ row' = row
      BY <1>18 DEF Fail
    <2>2. CASE row' = row
      BY <1>2, <1>q, <2>1, <2>2
    <2>3. CASE row' = state
      <3>1. PromiseInv'
        BY <1>2, <1>p, <2>1, <2>3 DEF PromiseInv, OfPair
      <3>2. state # None
        BY <1>1, RowsAssumption DEF Sound
      <3>3. CASE RowHolds
        <4>1. CASE state.status = "InPosition"
          <5>1. UNCHANGED RecordedDirection
            BY <1>p, <2>3, <3>2, <3>3, <4>1 DEF RecordedDirection, RowHolds, OfPair
          <5> QED
            BY <2>1, <3>1, <5>1
        <4>2. CASE state.status # "InPosition"
          <5>1. Promise!PairNext
            BY <1>1, <1>p, <2>1, <2>3, <3>2, <3>3, <4>2, RowWritten
          <5> QED
            BY <3>1, <5>1
        <4> QED
          BY <4>1, <4>2
      <3>4. CASE ~RowHolds
        <4>1. state.status # "InPosition"
          BY <1>p, <2>1, <3>4
        <4>2. RecordedDirection = None /\ RecordedDirection' = None
          BY <2>3, <3>4, <4>1 DEF RecordedDirection, RowHolds
        <4> QED
          BY <2>1, <3>1, <4>2
      <3> QED
        BY <3>3, <3>4
    <2> QED
      BY <2>1, <2>2, <2>3
  <1> HIDE DEF GoOn, Synchronous, Account, exchange_vars, engine_vars, Stopped
  <1> QED
    BY <1>1, <1>3, <1>4, <1>5, <1>6, <1>7, <1>8, <1>9, <1>10, <1>11, <1>12, <1>13,
       <1>14, <1>15, <1>16, <1>17, <1>18 DEF MarketNext

LEMMA PromiseInductive ==
    ASSUME Promising
    PROVE  Spec => [](TradeInv /\ PromiseInv)
  <1>1. Snapshots /\ OrderType = "Market"
    BY DEF Promising
  <1>2. Spec => []TradeInv
    BY <1>1, TradeInductive
  <1>3. Init => PromiseInv
    BY PromiseInit
  <1>4. TradeInv /\ PromiseInv /\ [Next]_vars => PromiseInv'
    BY PromiseStep
  <1> QED
    BY <1>2, <1>3, <1>4, PTL DEF Spec

\* The live process keeps the promise of HedgedPair: what the account holds and the
\* direction in the database change only as the promise allows (the safety part of
\* HedgedPairKept), through every failed request, retry, rollback, failed save,
\* crash and restart, for any size of the orders and any number of faults.
THEOREM KeepsPromise ==
    ASSUME Promising
    PROVE  Spec => Promise!PairSafety
  <1>1. Init => Promise!PairInit
    BY PromiseInit
  <1>2. TradeInv /\ PromiseInv /\ [Next]_vars => [Promise!PairNext]_(Promise!pair_vars)
    BY PromiseStep
  <1> QED
    BY <1>1, <1>2, PromiseInductive, PTL DEF Spec, Promise!PairSafety
=============================================================================
