------------------------------- MODULE BarFeed ------------------------------
(***************************************************************************)
(* Which prices the pipeline is fed: the start-up of src/main.rs with its  *)
(* backfill (src/runtime/backfill.rs), the price store (src/storage), the  *)
(* catch-up of the bars that pass meanwhile, the first run, and the ticks  *)
(* of LiveRunner::run_loop.                                                *)
(*                                                                         *)
(* Time is counted in slots, BarSlots to a bar of 900 s.  A bar is named   *)
(* by the time its candle opens.  Of a price only the moment it was taken  *)
(* is kept: the close of a candle that is still open is the price of now.  *)
(* ETH and BTC are fetched and stored together and share a row.  The store *)
(* may be written by the operator's download command meanwhile.            *)
(***************************************************************************)
EXTENDS Integers, FiniteSets, Sequences, SequencesExt

CONSTANTS
    BarSlots,      \* slots of a bar
    WarmupBars,    \* max(n_z, n_vol, 384)
    Interval,      \* runtime.interval_secs, in slots
    OnceModes,     \* values of runtime.once to look at
    MaxDownloads,  \* bound: downloads per behaviour
    StartupSlots,  \* bound: slots between the bar of the launch and the catch-up
    MaxClock       \* bound: the clock stops here

ASSUME BarFeedAssumption ==
    /\ BarSlots \in Nat \ {0} /\ WarmupBars \in Nat \ {0}
    /\ Interval \in Nat \ {0}
    /\ OnceModes \subseteq BOOLEAN
    /\ StartupSlots \in Nat /\ MaxClock \in Nat /\ MaxDownloads \in Nat

\* The window that is filled again during a start-up is longer than the
\* start-up (four days of bars against minutes).
ASSUME StartupAssumption == StartupSlots <= WarmupBars * BarSlots

VARIABLES
    once,    \* runtime.once
    clock,   \* now
    store,   \* price_bars: the moment each stored bar's price was taken
    pc,      \* where the process is
    run_at,  \* first_run_at, later the bar of the run under way
    latest,  \* latest_run_at
    tick,    \* the interval's next tick, 0 outside run_loop
    downloads, \* how often the operator has downloaded history into the store
    fed,     \* the last bars fed to this process's pipeline
    late     \* history: a bar went by while this process was behind

vars == <<once, clock, store, pc, run_at, latest, tick, downloads, fed, late>>

Earlier(a, b) == IF a < b THEN a ELSE b

\* align_to_bar_close without the rounding (a mutant).
NotAligned(t) == t

AlignToBarClose(t) == t - (t % BarSlots)

LatestCompletedBar(now) == AlignToBarClose(now) - BarSlots

\* The bars from one to another, in order.
BarsBetween(first, last) ==
    [i \in 1..((last - first) \div BarSlots + 1) |-> first + (i - 1) * BarSlots]

WarmupStart(now) == LatestCompletedBar(now) - BarSlots * (WarmupBars - 1)

WarmupWindow(now) == BarsBetween(WarmupStart(now), LatestCompletedBar(now))

\* The moment the price of a bar is taken that is fetched now.
TakenNow(ts) == Earlier(clock, ts + BarSlots)

\* fetch_pair_bars: the candles of both symbols for the same bar, or an error.
PairBar(ts) == [ts |-> ts, taken |-> TakenNow(ts)]

\* INSERT OR REPLACE of bars, fetched now.
Replaced(bars) ==
    [ts \in DOMAIN store \cup bars |->
       IF ts \in bars THEN TakenNow(ts) ELSE store[ts]]

\* The first n bars of a window.
Saved(window, n) == Replaced({window[i] : i \in 1..n})

\* The store has every bar of the window.
HistoryComplete(window) ==
    Cardinality(DOMAIN store \cap ToSet(window)) >= WarmupBars

\* ensure_price_history: nothing to do, or the whole window is fetched and its
\* rows are replaced.
EnsurePriceHistory(now) ==
    store' = IF HistoryComplete(WarmupWindow(now)) THEN store
             ELSE Saved(WarmupWindow(now), WarmupBars)

\* A failed fetch, a candle that is missing or a failed save: the rows before
\* it are in the store.
EnsureFails(now) ==
    /\ ~HistoryComplete(WarmupWindow(now))
    /\ \E n \in 0..(WarmupBars - 1) : store' = Saved(WarmupWindow(now), n)

\* load_range, in the order of the timestamps, of the store as it is now.
LoadRange(rows, first, last) ==
    LET bars == {ts \in DOMAIN rows : first <= ts /\ ts <= last}
        count == Cardinality(bars)
        ordered == CHOOSE seq \in [1..count -> bars] :
                     \A i, j \in 1..count : i < j => seq[i] < seq[j]
    IN  [i \in 1..count |-> [ts |-> ordered[i], taken |-> rows[ordered[i]]]]

\* The windows of the pipeline; one more bar is kept to look at.
Fed(before, records) ==
    LET all == before \o records
        drop == Len(all) - (WarmupBars + 1)
    IN  IF drop <= 0 THEN all ELSE SubSeq(all, drop + 1, Len(all))

----------------------------------------------------------------------------
Points == {"down", "backfill", "catchup", "run", "running", "loop"}

TypeOK ==
    /\ once \in OnceModes
    /\ clock \in 0..MaxClock
    /\ \A ts \in DOMAIN store : ts % BarSlots = 0 /\ store[ts] \in ts..(ts + BarSlots)
    /\ pc \in Points
    /\ run_at % BarSlots = 0 /\ latest % BarSlots = 0
    /\ tick \in Nat /\ downloads \in 0..MaxDownloads
    /\ Len(fed) <= WarmupBars + 1
    /\ late \in BOOLEAN

Init ==
    /\ once \in OnceModes
    /\ clock = 0
    /\ store = [ts \in {} |-> 0]
    /\ pc = "down"
    /\ run_at = 0
    /\ latest = 0
    /\ tick = 0
    /\ downloads = 0
    /\ fed = <<>>
    /\ late = FALSE

\* Nobody waits for a bar any more once this one is over: the first run is
\* decided and not started, the loop not entered, or its tick is due.
Behind ==
    \/ pc # "down" /\ pc # "backfill" /\ tick = 0
    \/ tick # 0 /\ clock >= tick

TimePasses ==
    /\ clock < MaxClock
    /\ pc = "backfill" => clock - run_at < StartupSlots
    /\ clock' = clock + 1
    /\ late' = (late \/ (Behind /\ clock' % BarSlots = 0))
    /\ UNCHANGED <<once, store, pc, run_at, latest, tick, downloads, fed>>

Down ==
    /\ pc' = "down"
    /\ run_at' = 0 /\ latest' = 0 /\ tick' = 0
    /\ fed' = <<>> /\ late' = FALSE

\* The download command, a process of its own, writes into the same store
\* whatever candles the exchange has for both symbols, the open one included,
\* until a write fails; a candle missing inside the range is not noticed.
Download ==
    /\ downloads < MaxDownloads
    /\ downloads' = downloads + 1
    /\ \E bars \in SUBSET ToSet(WarmupWindow(clock + BarSlots)) :
         store' = Replaced(bars)
    /\ UNCHANGED <<once, clock, pc, run_at, latest, tick, fed, late>>

Launch ==
    /\ pc = "down"
    /\ pc' = "backfill"
    /\ run_at' = AlignToBarClose(clock)
    /\ UNCHANGED <<once, clock, store, latest, tick, downloads, fed, late>>

----------------------------------------------------------------------------
(* The start-up.                                                            *)

\* Backfill, load and warm-up, and a look at the clock again.
WarmUp ==
    /\ pc = "backfill"
    /\ EnsurePriceHistory(run_at)
    /\ fed' = Fed(<<>>, LoadRange(store', WarmupStart(run_at),
                                  LatestCompletedBar(run_at)))
    /\ latest' = AlignToBarClose(clock)
    /\ pc' = IF latest' > run_at THEN "catchup" ELSE "run"
    /\ UNCHANGED <<once, clock, run_at, tick, downloads, late>>

WarmUpFails ==
    /\ pc = "backfill"
    /\ EnsureFails(run_at)
    /\ Down
    /\ UNCHANGED <<once, clock, downloads>>

\* replay_warmup_gap_window that leaves the bar of the first run out (a mutant).
GapWindowAfter(rows, warmed, target) ==
    LoadRange(rows, warmed + BarSlots, target - BarSlots)

\* replay_warmup_gap_window: the bars between the warm-up and the run to come.
GapWindow(rows, warmed, target) == LoadRange(rows, warmed, target - BarSlots)

\* The catch-up runs the bar it started with (a mutant).
CatchUpStays ==
    /\ pc = "catchup"
    /\ EnsurePriceHistory(latest)
    /\ fed' = Fed(fed, GapWindow(store', run_at, latest))
    /\ pc' = "run"
    /\ UNCHANGED <<once, clock, run_at, latest, tick, downloads, late>>

CatchUp ==
    /\ pc = "catchup"
    /\ EnsurePriceHistory(latest)
    /\ fed' = Fed(fed, GapWindow(store', run_at, latest))
    /\ run_at' = latest
    /\ pc' = "run"
    /\ UNCHANGED <<once, clock, latest, tick, downloads, late>>

CatchUpFails ==
    /\ pc = "catchup"
    /\ EnsureFails(latest)
    /\ Down
    /\ UNCHANGED <<once, clock, downloads>>

----------------------------------------------------------------------------
(* run_once_at and run_loop.                                                *)

\* The candle of the bar is fetched, the price written (or the write fails,
\* which is only logged) and fed to the pipeline.
FeedBar ==
    /\ pc = "run"
    /\ fed' = Fed(fed, <<PairBar(run_at)>>)
    /\ store' = Replaced({run_at}) \/ UNCHANGED store
    /\ pc' = "running"
    /\ UNCHANGED <<once, clock, run_at, latest, tick, downloads, late>>

\* The price was written and the run failed before the pipeline, or it never
\* got a price: the error ends the process.
RunFails ==
    /\ pc = "run"
    /\ store' = Replaced({run_at}) \/ UNCHANGED store
    /\ Down
    /\ UNCHANGED <<once, clock, downloads>>

\* run_loop that runs on the interval's immediate tick (a mutant).
StartLoopAtOnce ==
    /\ pc = "running" /\ ~once /\ tick = 0
    /\ tick' = clock
    /\ pc' = "loop"
    /\ UNCHANGED <<once, clock, store, run_at, latest, downloads, fed, late>>

\* After the first run the loop takes the interval's immediate tick.
StartLoop ==
    /\ pc = "running" /\ ~once /\ tick = 0
    /\ tick' = clock + Interval
    /\ pc' = "loop"
    /\ UNCHANGED <<once, clock, store, run_at, latest, downloads, fed, late>>

EndRun ==
    /\ pc = "running" /\ tick # 0
    /\ pc' = "loop"
    /\ UNCHANGED <<once, clock, store, run_at, latest, tick, downloads, fed, late>>

\* A tick that is late fires at once, and the one after it at its own time.
Tick ==
    /\ pc = "loop"
    /\ clock >= tick
    /\ tick' = tick + Interval
    /\ run_at' = AlignToBarClose(clock)
    /\ pc' = "run"
    /\ UNCHANGED <<once, clock, store, latest, downloads, fed, late>>

\* A --once process is over, the shutdown signal came, or the process died.
Stop ==
    /\ pc # "down"
    /\ Down
    /\ UNCHANGED <<once, clock, store, downloads>>

Next ==
    \/ TimePasses
    \/ Download
    \/ Launch
    \/ WarmUp
    \/ WarmUpFails
    \/ CatchUp
    \/ CatchUpFails
    \/ FeedBar
    \/ RunFails
    \/ StartLoop
    \/ EndRun
    \/ Tick
    \/ Stop

Spec == Init /\ [][Next]_vars

----------------------------------------------------------------------------
Contiguous(records) ==
    \A i \in 1..(Len(records) - 1) : records[i + 1].ts = records[i].ts + BarSlots

\* When the first run starts, however long the backfill took and whatever
\* earlier processes left in the store, the pipeline has seen a full window of
\* bars without a gap, up to the bar before the run's.
FirstRunWarm ==
    pc = "run" /\ tick = 0 =>
      /\ Contiguous(fed)
      /\ Len(fed) >= WarmupBars
      /\ Last(fed).ts = run_at - BarSlots

\* A process that was never behind at the end of a bar feeds every bar once,
\* across warm-up, catch-up, first run and loop.  (With an interval that is not
\* a bar it would not.)
EveryBarOnce == ~late => Contiguous(fed)

\* Late or not, the pipeline is never fed an older bar after a younger one, nor
\* an older price.
NeverBack ==
    \A i \in 1..(Len(fed) - 1) :
      fed[i].ts <= fed[i + 1].ts /\ fed[i].taken <= fed[i + 1].taken
=============================================================================
