---------------------------- MODULE SignalRunner ----------------------------
(***************************************************************************)
(* Signals over the life of the process: bar by bar, the detectors, the    *)
(* state machine and the saved row, with runs that fail, ticks that come   *)
(* too late, bars that close while no process runs, and restarts that      *)
(* rebuild the detectors from recorded bars.                               *)
(*                                                                         *)
(* A run is one step, and so is an entry or an exit: the orders behind     *)
(* them are LiveRunner's matter and appear as their possible ends.  The    *)
(* detectors run in three programs: the live loop, a live process cron     *)
(* starts for every bar (runtime.once), and the backtest, which feeds them *)
(* recorded bars from a cold start and keeps a state machine of its own.   *)
(* Time is counted in bars.                                                *)
(***************************************************************************)
EXTENDS SignalDetectors, StrategyState

CONSTANTS
    Zs,            \* the z-scores a bar can have
    WarmupBars,    \* bars replayed at a start, max(n_z, n_vol, 384)
    Modes,         \* programs to look at
    Rests,         \* whether an entry may rest (POST_ONLY)
    MaxBar,        \* bound: the last bar; it is run again and again
    LastEntryBar,  \* bound: no entry and no fill of one after this bar
    MaxLate        \* bound: ticks that come too late

ASSUME SignalRunnerAssumption ==
    /\ Zs \subseteq Int
    /\ WarmupBars \in Nat
    /\ Modes \subseteq {"loop", "once", "backtest"}
    /\ Rests \in BOOLEAN
    /\ MaxBar \in Nat /\ LastEntryBar \in Nat /\ MaxLate \in Nat
    /\ None \notin Int \cup Statuses \cup TradeDirections \cup ExitReasons

\* A run can record what it enters, and a snapshot says when that was.
ASSUME SnapshotsAssumption ==
    /\ [direction : TradeDirections, entry_time : 0..MaxBar] \subseteq Positions
    /\ Positions \subseteq [direction : TradeDirections, entry_time : Nat]
    /\ [direction : TradeDirections, submitted_at : 0..MaxBar] \subseteq PendingEntries
    /\ PendingEntries \subseteq [direction : TradeDirections, submitted_at : Nat]

VARIABLES
    mode,      \* the program that runs
    bar,       \* the bar to be run next
    zs,        \* z-scores of the WarmupBars bars before it
    up,        \* a process is running
    state,     \* StateMachine.state
    row,       \* the persisted record
    pipeline,  \* SignalPipeline
    late,      \* the ticks that came too late
    signal,    \* history: what the process saw and signalled in the last bar
    seen,      \* history: what the process has been given, see Given
    since      \* history: runs since the last cooldown was over

vars == <<mode, bar, zs, up, state, row, pipeline, late, signal, seen, since>>

NoSignal == [ran |-> FALSE, entry |-> None, exit |-> None, z |-> None]

TypeOK ==
    /\ bar \in 0..MaxBar
    /\ zs \in Seq(Zs) /\ Len(zs) = WarmupBars
    /\ up \in BOOLEAN
    /\ state \in StrategyStates /\ HydrateAccepts(state)
    /\ row \in StrategyStates
    /\ pipeline.filled \in 0..ZBars
    /\ pipeline.tp_count \in Nat
    /\ late \in 0..MaxLate
    /\ seen.zs \in Seq(Zs) /\ Len(seen.zs) = WarmupBars
    /\ seen.status \in Statuses \cup {None}
    /\ since \in Nat \cup {None}

\* The z-scores of the last WarmupBars bars the process has been given, in its
\* warm-up or in a run, and the status it was in when it was given the last one.
Given(history, status) == [zs |-> history, status |-> status]

Init ==
    /\ mode \in Modes
    /\ bar = 0
    /\ zs \in [1..WarmupBars -> Zs]
    /\ up = FALSE
    /\ state = DefaultState
    /\ row = DefaultState
    /\ pipeline = NewPipeline
    /\ late = 0
    /\ signal = NoSignal
    /\ seen = Given(zs, None)
    /\ since = None

\* One z-score more, and the oldest of them dropped.
Slid(history, z) == IF WarmupBars = 0 THEN <<>> ELSE Append(Tail(history), z)

\* A bar is over, and its z-score is history.
BarOver(z) ==
    /\ bar' = IF bar < MaxBar THEN bar + 1 ELSE bar
    /\ zs' = Slid(zs, z)

\* The state a process that ended leaves to the next one.
Down == up' = FALSE /\ state' = DefaultState /\ pipeline' = NewPipeline

\* load, recover_state, hydrate, and the warm-up from the price store.
Launch ==
    /\ mode # "backtest"
    /\ ~up
    /\ up' = TRUE
    /\ state' = Recover(row, bar)
    /\ pipeline' = WarmedUp(zs, state'.status)
    /\ seen' = Given(zs, IF WarmupBars = 0 THEN None ELSE state'.status)
    /\ since' = IF CooldownOver(row, bar) THEN 0 ELSE since
    /\ signal' = NoSignal
    /\ UNCHANGED <<mode, bar, zs, row, late>>

\* No process runs when the bar closes.
SkipBar(z) ==
    /\ mode # "backtest"
    /\ ~up
    /\ BarOver(z)
    /\ signal' = NoSignal
    /\ UNCHANGED <<mode, up, state, row, pipeline, late, seen, since>>

\* The tick of the bar finds the loop busy and is served when the next bar is
\* the last one: run_once is given that one, and nobody this one.
MissTick(z) ==
    /\ mode = "loop"
    /\ up
    /\ late < MaxLate
    /\ late' = late + 1
    /\ BarOver(z)
    /\ signal' = NoSignal
    /\ UNCHANGED <<mode, up, state, row, pipeline, seen, since>>

\* The run ends before it reaches the pipeline, and the process with it: without
\* prices, when nothing is saved, or in the reconciliation, when the state is.
LoseBar(z) ==
    /\ mode # "backtest"
    /\ up
    /\ BarOver(z)
    /\ Down
    /\ row' \in {row, state}
    /\ signal' = NoSignal
    /\ UNCHANGED <<mode, late, seen, since>>

\* Between two runs a resting entry is filled, or it expires.
Settle ==
    /\ up
    /\ state.status = "PendingEntry"
    /\ \/ /\ bar <= LastEntryBar
          /\ state' = ConfirmPendingEntry(state,
                        [direction |-> state.pending_entry.direction,
                         entry_time |-> bar])
       \/ state' = ForceFlat(state)
    /\ UNCHANGED <<mode, bar, zs, up, row, pipeline, late, signal, seen, since>>

----------------------------------------------------------------------------
(* A bar through the pipeline.                                              *)

\* process_bar updates the state machine with the bar's time first,
\* BacktestEngine::run never does.
Judged == IF mode = "backtest" THEN state ELSE Update(state, bar)

Held == IF Judged.position = None THEN 0
        ELSE bar - Judged.position.entry_time

\* What the run sees and signals.
Signalled(z) ==
    [ran |-> TRUE,
     entry |-> EntrySignal(pipeline.entry, Known(pipeline, z), Judged.status),
     exit |-> ExitSignal(pipeline.tp_count, Known(pipeline, z),
                         Judged.status, Held),
     z |-> Known(pipeline, z)]

\* One run more, counted as far as max_age_bars is concerned.
RunsSince ==
    IF CooldownOver(state, bar) THEN 1
    ELSE IF since = None \/ since > StaleCross.max_age_bars THEN since
    ELSE since + 1

Run(z) ==
    /\ up
    /\ BarOver(z)
    /\ signal' = Signalled(z)
    /\ seen' = Given(Slid(seen.zs, z), Judged.status)
    /\ since' = RunsSince
    /\ UNCHANGED <<mode, late>>

Entered(z) == Enter(Judged, [direction |-> Signalled(z).entry,
                             entry_time |-> bar])

Exited(z) == Exit(Judged, Signalled(z).exit, bar)

MayEnter(z) == Signalled(z).entry # None /\ bar <= LastEntryBar

----------------------------------------------------------------------------
(* process_bar.                                                             *)

LiveRun(z) == mode # "backtest" /\ Run(z)

\* A completed run saves; a --once process is over then.
Completed(z, s) ==
    /\ row' = s
    /\ IF mode = "once" THEN Down
       ELSE /\ state' = s
            /\ pipeline' = Fed(pipeline, z, Judged.status)
            /\ up' = TRUE

\* A failed run saves too and ends the process.
Abandoned(s) == row' = s /\ Down

\* No signal, or an entry signal that a gate stops.
Quiet(z) ==
    /\ LiveRun(z)
    /\ Signalled(z).exit = None
    /\ Completed(z, Judged)

EnterPosition(z) ==
    /\ LiveRun(z)
    /\ MayEnter(z)
    /\ Completed(z, Entered(z))

EnterResting(z) ==
    /\ Rests
    /\ LiveRun(z)
    /\ MayEnter(z)
    /\ Completed(z, EnterPending(Judged,
                      [direction |-> Signalled(z).entry,
                       submitted_at |-> bar]))

ExitPosition(z) ==
    /\ LiveRun(z)
    /\ Signalled(z).exit # None
    /\ Completed(z, Exited(z))

\* The orders of an entry or an exit fail.
OrdersFail(z) ==
    /\ LiveRun(z)
    /\ Signalled(z).entry # None \/ Signalled(z).exit # None
    /\ Abandoned(Judged)

----------------------------------------------------------------------------
(* BacktestEngine::run: no warm-up, no record, no orders.                   *)

StartBacktest ==
    /\ mode = "backtest"
    /\ ~up
    /\ up' = TRUE
    /\ state' = DefaultState
    /\ pipeline' = NewPipeline
    /\ seen' = Given(zs, None)
    /\ since' = None
    /\ signal' = NoSignal
    /\ UNCHANGED <<mode, bar, zs, row, late>>

ReplayBar(z, s) ==
    /\ mode = "backtest"
    /\ Run(z)
    /\ state' = s
    /\ pipeline' = Fed(pipeline, z, Judged.status)
    /\ UNCHANGED <<up, row>>

\* No signal, or an entry whose sizes are below the minimum or whose
\* volatilities are not known yet.
ReplayQuiet(z) == Signalled(z).exit = None /\ ReplayBar(z, Judged)

ReplayEntry(z) == MayEnter(z) /\ ReplayBar(z, Entered(z))

ReplayExit(z) == Signalled(z).exit # None /\ ReplayBar(z, Exited(z))

\* Capital above max_notional, or a step size of zero: the run ends with the
\* error, and its results are lost.
ReplayFails(z) ==
    /\ mode = "backtest"
    /\ Run(z)
    /\ Signalled(z).entry # None
    /\ Down
    /\ UNCHANGED row

Next ==
    \/ Launch
    \/ Settle
    \/ StartBacktest
    \/ \E z \in Zs :
         \/ SkipBar(z)
         \/ MissTick(z)
         \/ LoseBar(z)
         \/ Quiet(z)
         \/ EnterPosition(z)
         \/ EnterResting(z)
         \/ ExitPosition(z)
         \/ OrdersFail(z)
         \/ ReplayQuiet(z)
         \/ ReplayEntry(z)
         \/ ReplayExit(z)
         \/ ReplayFails(z)

Spec == Init /\ [][Next]_vars

\* Whatever the z-score, this run closes the position.
ExitDue == up /\ \A z \in Zs : Signalled(z).exit # None

\* cron or the operator starts the program again, runs happen, and a close that
\* is due in run after run, the market having no say in it, succeeds once.
FairSpec ==
    /\ Spec
    /\ WF_vars(Launch)
    /\ WF_vars(\E z \in Zs : Quiet(z))
    /\ SF_vars(ExitDue /\ \E z \in Zs : ExitPosition(z))

----------------------------------------------------------------------------
\* The z-score of the last bar the process was given, and of the one before.
LastZ == seen.zs[WarmupBars]

PrevZ == seen.zs[WarmupBars - 1]

\* A take profit needs that many bars in a row at or below tp_z, restarts or
\* not: the last ones the process was given.
TakeProfitConfirmed ==
    signal.exit = "TakeProfit" =>
      \A i \in 1..WarmupBars :
        i > WarmupBars - ConfirmBarsTp => Abs(seen.zs[i]) <= TpZ

\* The last z-score is beyond the threshold of the level-triggered entries.
Extreme ==
    /\ PersistentExtreme.enabled
    /\ PersistentExtreme.min_abs_z <= Abs(LastZ)
    /\ SignalDirection(LastZ) \in PersistentExtreme.directions

\* Any other entry without a crossing comes in the first runs after a cooldown,
\* and only if every one of them has found the z-score in the zone.
StaleCrossWindow ==
    signal.entry # None /\ ~(Abs(PrevZ) < EntryZ) /\ ~Extreme
      => /\ since # None
         /\ since <= StaleCross.max_age_bars
         /\ \A i \in 1..WarmupBars :
              i > WarmupBars - since => InZone(seen.zs[i])

\* The backtest starts cold; a live run has full windows from its first bar on.
Warm == WarmupBars > 0 /\ (mode = "backtest" => pipeline.entry.prev_z # None)

\* The z-score of the bar just run has come into the zone since the last bar the
\* process was given, or is in it and reverting.
Crossed == Abs(LastZ) < EntryZ /\ InZone(zs'[WarmupBars])

Reverting ==
    /\ StaleCross.enabled
    /\ InZone(zs'[WarmupBars])
    /\ Abs(zs'[WarmupBars]) <= Abs(LastZ)

\* A run that is Flat when the z-score crosses into the zone signals the entry,
\* also when it is the first run of a process, and also when the crossing was in
\* a bar whose tick came too late.
CrossingNotMissed ==
    [][signal'.ran /\ Judged.status = "Flat" /\ Warm /\ Crossed
         => signal'.entry # None]_vars

\* A run that lets a position be saw the z-score below the stop and the position
\* in time, also in the first run of a process and after a late tick.
HeldWithinLimits ==
    [][signal'.ran /\ Judged.status = "InPosition" /\ signal'.exit = None
         => /\ Abs(zs'[WarmupBars]) < SlZ
            /\ bar - Judged.position.entry_time < MaxHold]_vars

\* Every position is closed in the end, also when the z-score stays in between
\* for ever and the first runs with the time stop due are missed or fail.
PositionsEnd == row.status = "InPosition" ~> row.status # "InPosition"

\* A live run that itself ends a cooldown takes the recovery path: a z-score that
\* crosses, or is in the zone and reverting, is an entry, whether the process
\* ran through the cooldown or was started in the middle of it.  It must have
\* been given a bar of the cooldown, though: late ticks that swallow all of them
\* close the path.
RecoveryFires ==
    [][signal'.ran /\ mode # "backtest" /\ CooldownOver(state, bar)
         /\ seen.status = "Cooldown" /\ (Crossed \/ Reverting)
         => signal'.entry # None]_vars

\* What the documentation says of every program: the first bar after a cooldown
\* is one like any other, and the recovery path is open.
EntriesResume ==
    [][signal'.ran /\ since' = 1 /\ Warm /\ (Crossed \/ Reverting)
         => signal'.entry # None]_vars
=============================================================================
