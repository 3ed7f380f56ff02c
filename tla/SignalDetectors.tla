--------------------------- MODULE SignalDetectors --------------------------
(***************************************************************************)
(* The entry and exit detectors of src/signals/mod.rs and the part of the  *)
(* pipeline of src/core/pipeline.rs they hang on, as pure operators.       *)
(*                                                                         *)
(* A z-score is an integer; it exists once the windows of the indicators   *)
(* are full.  Statistics are left out: which z-score a bar has is given.   *)
(***************************************************************************)
EXTENDS PairTypes, Sequences

CONSTANTS
    EntryZ, TpZ, SlZ,     \* strategy.entry_z, tp_z, sl_z
    ZBars,                \* bars until the first z-score: n_z, and the quantile
                          \* window on top of it in the QUANTILE and EWMA modes
    StaleCross,           \* stale_cross: [enabled, max_age_bars, require_reverting]
    PersistentExtreme,    \* persistent_extreme: [enabled, min_abs_z, directions]
    MaxHold,              \* risk.max_hold_hours, in bars
    ConfirmBarsTp         \* risk.confirm_bars_tp

\* Config::validate.
ASSUME ThresholdsAssumption ==
    /\ EntryZ \in Int /\ TpZ \in Int /\ SlZ \in Int
    /\ TpZ < EntryZ /\ EntryZ < SlZ

ASSUME ControlsAssumption ==
    /\ ZBars \in Nat \ {0} /\ MaxHold \in Nat /\ ConfirmBarsTp \in Nat
    /\ StaleCross.enabled \in BOOLEAN /\ StaleCross.require_reverting \in BOOLEAN
    /\ StaleCross.max_age_bars \in Nat
    /\ StaleCross.enabled => StaleCross.max_age_bars > 0
    /\ PersistentExtreme.enabled \in BOOLEAN
    /\ PersistentExtreme.enabled =>
          /\ PersistentExtreme.min_abs_z \in 1..(SlZ - 1)
          /\ PersistentExtreme.directions # {}
    /\ PersistentExtreme.directions \subseteq TradeDirections

----------------------------------------------------------------------------
(* EntrySignalDetector: [prev_z, last_status, age], age being               *)
(* cooldown_recovery_age.                                                   *)

NewEntryDetector == [prev_z |-> None, last_status |-> None, age |-> None]

InZone(z) == EntryZ <= Abs(z) /\ Abs(z) < SlZ

CrossedIntoZone(d, z) ==
    d.prev_z # None /\ Abs(d.prev_z) < EntryZ /\ InZone(z)

\* The recovery window never closes (a mutant).
RecoveryAgeKept(d, z, status) ==
    IF d.last_status = "Cooldown" THEN 1 ELSE d.age

\* Bars in the entry zone since a cooldown was released, None outside.  All ages
\* beyond max_age_bars are alike, and the count stops there.
RecoveryAge(d, z, status) ==
    IF status = "Flat" /\ InZone(z)
    THEN IF d.last_status = "Cooldown" THEN 1
         ELSE IF d.age = None THEN None
         ELSE IF d.age > StaleCross.max_age_bars THEN d.age ELSE d.age + 1
    ELSE None

StaleCrossRecovery(d, z, status) ==
    /\ StaleCross.enabled
    /\ ~CrossedIntoZone(d, z)
    /\ InZone(z)
    /\ status = "Flat"
    /\ d.prev_z # None
    /\ RecoveryAge(d, z, status) # None
    /\ RecoveryAge(d, z, status) <= StaleCross.max_age_bars
    /\ StaleCross.require_reverting => Abs(z) <= Abs(d.prev_z)

Persistent(d, z, status) ==
    /\ PersistentExtreme.enabled
    /\ ~CrossedIntoZone(d, z)
    /\ ~StaleCrossRecovery(d, z, status)
    /\ status = "Flat"
    /\ PersistentExtreme.min_abs_z <= Abs(z)
    /\ Abs(z) < SlZ

\* A dear ETH is sold, a cheap one bought.
SignalDirection(z) == IF z >= 0 THEN "ShortEthLongBtc" ELSE "LongEthShortBtc"

\* The direction update returns, or None.
EntrySignal(d, z, status) ==
    IF /\ z # None
       /\ status = "Flat"
       /\ \/ CrossedIntoZone(d, z)
          \/ StaleCrossRecovery(d, z, status)
          \/ /\ Persistent(d, z, status)
             /\ SignalDirection(z) \in PersistentExtreme.directions
    THEN SignalDirection(z)
    ELSE None

\* The detector sleeps while no entry is possible (a mutant).
EntryUpdatedWhenFlat(d, z, status) ==
    IF status = "Flat"
    THEN [prev_z |-> z, last_status |-> status,
          age |-> IF z = None THEN None ELSE RecoveryAge(d, z, status)]
    ELSE d

EntryUpdated(d, z, status) ==
    [prev_z |-> z, last_status |-> status,
     age |-> IF z = None THEN None ELSE RecoveryAge(d, z, status)]

----------------------------------------------------------------------------
(* ExitSignalDetector: its state is tp_count.                               *)

\* The count of confirmations survives a bar above tp_z (a mutant).
TpCountKept(count, z, status) ==
    IF status = "InPosition" /\ z # None /\ Abs(z) <= TpZ
         /\ count + 1 < ConfirmBarsTp
    THEN count + 1 ELSE count

TpCount(count, z, status) ==
    IF status = "InPosition" /\ z # None /\ Abs(z) <= TpZ
         /\ count + 1 < ConfirmBarsTp
    THEN count + 1 ELSE 0

TpConfirmed(count, z) == Abs(z) <= TpZ /\ count + 1 >= ConfirmBarsTp

\* A time stop that fires in one bar only (a mutant).
TimeStopOnce(count, z, status, held) ==
    IF status # "InPosition" \/ z = None THEN None
    ELSE IF Abs(z) >= SlZ THEN "StopLoss"
    ELSE IF TpConfirmed(count, z) THEN "TakeProfit"
    ELSE IF held = MaxHold THEN "TimeStop"
    ELSE None

\* The reason evaluate returns for a position held for so many bars, or None.
\* Without a z-score there is no exit at all.
ExitSignal(count, z, status, held) ==
    IF status # "InPosition" \/ z = None THEN None
    ELSE IF Abs(z) >= SlZ THEN "StopLoss"
    ELSE IF TpConfirmed(count, z) THEN "TakeProfit"
    ELSE IF held >= MaxHold THEN "TimeStop"
    ELSE None

----------------------------------------------------------------------------
(* SignalPipeline.                                                          *)

NewPipeline == [filled |-> 0, entry |-> NewEntryDetector, tp_count |-> 0]

\* The z-score the next bar gets.
Known(p, z) == IF p.filled + 1 >= ZBars THEN z ELSE None

Fed(p, z, status) ==
    [filled |-> IF p.filled < ZBars THEN p.filled + 1 ELSE ZBars,
     entry |-> EntryUpdated(p.entry, Known(p, z), status),
     tp_count |-> TpCount(p.tp_count, Known(p, z), status)]

\* A warm-up that leaves the last bar out (a mutant).
WarmedUpShort(zs, status) ==
    LET after[i \in 0..Len(zs)] ==
          IF i = 0 THEN NewPipeline ELSE Fed(after[i - 1], zs[i], status)
    IN  after[Len(zs) - 1]

\* warm_up_with_records: the recorded bars go through a new pipeline, with the
\* status the process starts with.  The signals they give are dropped, and the
\* update of the state machine with their timestamps, all of them before the
\* start, releases nothing recover_state has not released.
WarmedUp(zs, status) ==
    LET after[i \in 0..Len(zs)] ==
          IF i = 0 THEN NewPipeline ELSE Fed(after[i - 1], zs[i], status)
    IN  after[Len(zs)]
=============================================================================
