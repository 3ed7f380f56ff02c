# TLA+ models of eth-btc

eth-btc trades the relative value of ETH and BTC on one exchange: every 15
minutes it computes a z-score of the log price ratio, and it opens, holds and
closes a pair of opposite positions. This directory models the live trading
core, from the settings file to the requests the exchange gets, model-checks it
with TLC, and proves with TLAPS, for every value of the constants, the safety
properties of the state machine, the engine, the live process, the signals, the bar
feed and the order path, and that the live process implements its abstract promise.
Source paths are relative to the repository, so `src/state/mod.rs` in the text is
`src/src/state/mod.rs` in `PROJECT.json`.

The system is one async task, so nothing runs in parallel *inside* the process.
What makes it hard is what happens at the awaits: the exchange takes resting
orders whenever it likes, answers are lost, one leg of two fails, the process
dies between the fill and the save, and a program that cron starts afresh for
every bar has to behave like one that never stopped.

## Inventory

| Component | Code | State | Operations | Talks to | What is hard | What makes it
correct | |---|---|---|---|---|---|---| | State machine and store | `src/state/mod.rs` |
status, position, pending entry, cooldown deadline; one SQLite row | `enter`,
`enter_pending`, `confirm_pending_entry`, `exit`, `update`, `force_flat`, `hydrate`,
`save`, `load`, `recover_state` | called by strategy and start-up | crash before save,
restarts, deadlines at the exact hour | a saved row is accepted; no entry in a cooldown;
restart and running process agree | | Execution engine | `src/execution/mod.rs` | none
between calls; one attempt counter per request | `open_pair`, `close_pair`,
`repair_residual`, `cancel_order`, retry loops | executor | one leg of two fails,
retries after a lost answer, rollback that fails | what is reported is what is held;
errors leave nothing behind; every call returns | | Live order executor |
`src/execution/mod.rs` | asset cache, nonce, rate limiter | `submit`, `close`, `cancel`,
`post_order`, `update_leverage` | the exchange | lost and unparsable answers, IOC
without match, post-only refusals | classification of errors as transient or fatal | |
Account source | `src/account/mod.rs` | none | `fetch_pair_exposure` | the exchange | a
failed fetch | zero means flat, one zero leg means residual | | Strategy engine |
`src/core/strategy.rs` | state machine, pipeline, queued events and logs |
`reconcile_exchange_position`, `process_bar`, `warm_up_with_records` | execution engine,
state machine, pipeline | exposure judged before awaits and used after them; partial
fills | never enters on exposure; repairs lone legs; resolves pending entries | | Live
runner | `src/runtime/mod.rs` | engine, fetchers, writers | `run_once_at`, `run_loop`,
`record_strategy_failure` | all of the above, store, logs | which failures end the run,
which end the process, what is saved then | a completed run saves what the account holds
| | Process start-up | `src/main.rs` | - | load, recover, hydrate, backfill, warm-up,
catch-up, once or loop | store, price store, runner | the bars between two lives | start
like a process that never stopped | | Signals and pipeline | `src/signals/mod.rs`,
`src/core/pipeline.rs` | last z-score, last status, recovery age, confirmation count |
`update`, `evaluate` | fed by indicators, read by strategy | history rebuilt from bars
by every start | no crossing, stop or confirmation lost or invented | | Indicators |
`src/indicators/mod.rs` | rolling windows | `update` | pipeline | windows not full,
quantile floor | windows see every bar once | | Position sizing | `src/position/mod.rs`
| none | weights, capital, minimum size | strategy | rounding at minimum sizes |
notionals in bounds | | Funding | `src/funding/mod.rs` | none | rates, cost over a
holding time, filter | strategy | interval count at boundaries | conservative estimate |
| Price data | `src/data/mod.rs` | none | `fetch_pair_bars`, history | HTTP API | candle
of the right bar | aligned pair prices | | Backfill and price store |
`src/runtime/backfill.rs`, `src/storage/mod.rs` | SQLite rows per bar |
`ensure_price_history`, `save`, `load_range` | start-up, runner | gaps, overlap of
warm-up and live bars | a contiguous window | | Logging and alerts |
`src/logging/mod.rs` | log files | append, rotate, format, redact | runner | errors
after the save | a failed log ends the run after its state is saved | | HTTP utilities |
`src/util/` | time of the last request | rate limiter, client | executor | requests that
bypass it | spacing of requests | | Backtest | `src/backtest/` | state machine,
pipeline, open trade | bar loop, metrics, download into the price store | state machine,
pipeline, price store | a second implementation of the bar's control flow | the same
trades as live | | Configuration | `src/config`, `src/cli.rs`, `src/integration` |
settings | defaults, overrides of a file, validation, overrides of the command line |
start-up, strategy, executor | values only a signal weeks later reads | accepted
settings do not end a run | | Analysis | `src/analysis` | none | reports | price store |
- | pure input and output |

## Modules

| Module | Models | Uses | |---|---|---| | `PairTypes` | legs, sides and directions | -
| | `StrategyState` | the transitions of `StateMachine`, `hydrate`, `recover_state` as
operators on the record | `PairTypes` | | `StateMachine` | the machine and its row under
every order of calls, saves, crashes, restarts | `StrategyState` | |
`StateMachineProofs` | the theorems about `StateMachine` | `StateMachine`, `TLAPS` | |
`Exchange` | positions, the order book, the answers one request can get (external) |
`PairTypes` | | `ExecutionEngine` | the engine's calls, attempt by attempt, as stages of
one `call` | `Exchange` | | `EngineProofs` | lemmas: what one attempt does to the
account, what one step of a call does to the call | `ExecutionEngine`, `TLAPS` | |
`PairExecution` | the contract of the engine under any caller | `ExecutionEngine` | |
`PairExecutionProofs` | the theorems about `PairExecution` | `PairExecution`,
`EngineProofs` | | `HedgedPair` | the abstract promise of the live process to whoever
looks at account and database | `PairTypes` | | `HedgedPairProofs` | the theorems about
`HedgedPair` | `HedgedPair`, `TLAPS` | | `LiveRunner` | a run from fetch to save, the
strategy's control flow, the life of the process | `ExecutionEngine`, `StrategyState`,
`HedgedPair` (by `INSTANCE ... WITH`) | | `LiveRunnerProofs` | the theorems about
`LiveRunner`, the refinement of `HedgedPair` included | `LiveRunner`, `EngineProofs` | |
`SignalDetectors` | the two detectors and the pipeline, as operators | `PairTypes` | |
`SignalRunner` | the detectors over runs, failures, missed bars and restarts, and over
the bar loop of a backtest | `SignalDetectors`, `StrategyState` | | `SignalRunnerProofs`
| the theorems about `SignalRunner` | `SignalRunner`, `WellFoundedInduction`, `TLAPS` |
| `BarFeed` | which bars and prices reach the pipeline: backfill, price store with a
second writer, warm-up, catch-up, ticks | - | | `BarFeedProofs` | the theorems about
`BarFeed` | `BarFeed`, `TLAPS` | | `EntryDecision` | settings, their overrides and
`validate`; from an entry signal to two orders: capital, weights, funding, gates, sizes,
limit prices | `PairTypes` | | `OrderPath` | from a settings file to the requests: start
of the program, decisions, rate limiter, specs, price ladder, nonces, answers |
`EntryDecision` | | `OrderPathProofs` | the theorems about `OrderPath` | `OrderPath`,
`TLAPS` | | `MC...` | constants for TLC | - |

`LiveRunner` composes three components: it shares the variables of the
exchange and the engine through `ExecutionEngine`, and applies `StrategyState`'s
operators to its own `state`. `SignalRunner` is the other half of the same
strategy: `LiveRunner` leaves which signal fires to chance and models the orders,
`SignalRunner` leaves what the orders do to chance and models the signals.
`OrderPath` is the third view: it leaves what is done about a failed leg to the
other two and models amounts, prices and times, which they abstract from.

### How state and actions correspond to the code

*`StrategyState`, `StateMachine`.* The record is `StrategyState` without prices
and realized pnl, which no transition reads. Every method is one operator, with a
`Can...` operator for the condition under which it returns an error. In
`StateMachine` each is an action; `Save` is `StateStore::save` (one row, id 1),
`Crash` loses the record in memory, `Restart` is load, `recover_state` and
`hydrate` in `main.rs`. The history variable `barred` is the hour until which the
last stop loss somebody still knows of bars entry.

*`Exchange`, `ExecutionEngine`.* The exchange is a signed quantity per leg and a set of
resting orders. `OrderOutcomes` and `CancelOutcomes` are all answers one attempt can
get, each with what it leaves behind: a fill, a resting order, a refusal (of a cancel
too, with the order still on the book), an error before or after the exchange carried
the request out, an answer that does not parse. `call` is the future under way: which
operation, which stage of it (`open_eth`, `open_btc`, a rollback, a cancel ...), the
attempt, what has been filled. One step is one attempt; a retry happens under the code's
condition (transient, or `no match` for a market order) and up to its bound.

*`PairExecution`.* Calls follow one another on one account and one book. An open
looks at neither, as `process_bar` does not (`src/core/strategy.rs:762`): it meets
whatever earlier calls left, up to `MaxHeld` per leg. A close is asked for a pair that
is held, a repair for a single leg, a cancel for an order on the book. The exchange
takes resting orders between any two requests, those of the call in progress and those
of earlier calls, the ones whose id nobody kept included (`src/execution/mod.rs:1071`).
The history tells the two apart: `since` is the first order id of the call, `before`
the account without what the call does, `moved` the legs on which an earlier order was
taken meanwhile. The properties compare the account with `before`.

*`LiveRunner`.* `pc` is the point in `run_once_at`, `reconcile_exchange_position`
or `process_bar`; a step ends at an await. `seen` is the exposure the run fetched
(`None` if the fetch failed), `plan` what is being entered or exited. `Fail` is
`record_strategy_failure`: it saves, ignores a failed save, and the error ends the
loop and so the process. `Crash` may come between any two steps. `Start` is the
start-up path. `OrderTaken` is the exchange; it acts between runs, and during runs
too where `RunnerFaults` contains `mid_run`.

*`SignalDetectors`, `SignalRunner`.* A z-score is an integer; it exists once `ZBars`
bars were fed. A run is one step that feeds the pipeline, takes the signal and saves,
with the ends a run can have (quiet, entered, resting, exited, orders failed, lost). A
bar can close while no process runs (`SkipBar`), and a tick can be so late that the run
it starts is given the next bar (`MissTick`). `zs` is what the market did, as the price
store has it; `seen` is what the process was given, by its warm-up and its runs, and the
two differ after a late tick. `Launch` rebuilds the pipeline from the last `WarmupBars`
bars with the status the process starts with, as `warm_up_with_records` does. With
`once`, the process is over after every run. The mode `backtest` is
`BacktestEngine::run`: a pipeline without warm-up, one step per bar, a state machine of
its own that only `enter` and `exit` move.

*`BarFeed`.* Time runs in slots, three to a bar, in every state of the process.
`store` maps a bar to the moment its stored price was taken: a candle that is still
open has the price of now as its close. `WarmUp` is backfill, load and warm-up,
`CatchUp` the same for the bars that went by meanwhile, `FeedBar` the price part of
`run_once_at`, `Tick` a tick of the interval (which bursts: a late tick fires at
once, the next at its own time). A refill can stop after any row, a write of a live
price can fail, the process can end anywhere and is launched again over that store.
`late` notes that a bar went by while the process was behind. `Download` is the
operator's download command, a process of its own that writes whatever candles
there are into the same store at any moment.

*`EntryDecision`, `OrderPath`.* Settings start as the code's defaults, one record for
all sections and one of constraints for each leg; a file is a pair of partial records
that `Overridden` lays over the defaults. `Decision` is `process_bar` between an entry
signal and `open_pair`: an error, a block with its reason, or two orders. All arithmetic
is over integers with units named in the module's head (hundredths, basis points,
ticks), with the code's rounding at each place; `Decimal`'s division has 28 digits and
is taken for exact where the result is rounded at once. A limit price is exact
(`limit_price` does not round), in 1/`BpsScale` of a tick; it is rounded once, by
`AlignPrice`, when it is sent. In `OrderPath` a request is `Send` (limiter, specs,
nonce) and `Reply`, with the `delay` of the retry between them; the clock counts 50 ms,
so a request, the limiter's 200 ms and the loading of the specs differ. `sent` is the
last request (and whether the specs were cached when it was made), `gone` what earlier
processes sent. A market order matches where the market, moved by `move` from the
reference, is reached. In paper mode an order is filled without a request.

*`HedgedPair`.* Two variables: what the account holds and the direction the
database names. A leg is opened or closed, a direction is recorded or forgotten.
`LiveRunner`'s `Promise` maps `holding` to `exposure` and `record` to the direction of
the row in the database: everything else (the state in memory, the call under way,
the book, the point in the run) is hidden, so that the crash that loses them and the
restart that restores them are stutters. Most of the actions of
`LiveRunner` are; an answer of the exchange is `OpenLeg` or `CloseLeg`, `Save` and
`Fail` are `Record` or `Forget`.

### Faults, and what properties say of them

`Faults` and `RunnerFaults` choose the kinds of faults of a run and `MaxFaults` bounds
their number. `Endless` are kinds that may go on for ever; only faults that leave the
exchange as it was can be. The history variable `met` collects the kinds that happened,
and a property that does not survive some kind says so with `Spared(kinds)`: "none of
these has happened so far". All other kinds may have happened. What the code does under
the excluded ones is known and worth a reader's attention:

- *lost answer*: a market order is sent again with a new nonce and no client order
  id, so a leg can be twice its size; every later run then ends in the mismatch
  error of `reconcile_exchange_position`;
- *garbled answer*: the order was carried out, the error is fatal, no retry: the
  leg is there and the engine treats it as absent;
- *partial fill*: a repair or a rollback that filled in part is taken for complete;
  a post-only pair whose orders filled in part is confirmed with what it holds
  while the rest of the orders stays on the book;
- *crash or failed save after a fill*: the row is behind the account, and every
  later run ends in an error instead of a trade;
- *an order taken in the middle of a run* (`mid_run`): the exposure was judged
  before the cancels and the repair, so the state can become Flat over an open leg
  and the same bar may enter. `OrdersFitAccount` is violated then; it is checked
  for fills between runs.

## Runs

| Run | Configuration | Question | Distinct states | |---|---|---|---| | `state_machine`
| `StateMachine.cfg` | Are rows accepted, snapshots consistent, cooldowns kept over any
history of calls and restarts? | 3,542 | | `pair_calls` | `PairCalls.cfg` | Does a call
report what it did to the account, for all order types and faults, on whatever earlier
calls left, and does it return? | 481,405 | | `live_market` | `LiveMarket.cfg` | Does
the whole process with market orders keep record and account together, under all faults?
| 365,210 | | `live_hedged` | `LiveHedged.cfg` | Does it keep the promise of
`HedgedPair` with market orders, where both rollbacks work? | 238,754 | | `live_passive`
| `LivePassive.cfg` | Does it keep the promise with resting entries, in whatever order
they fill? | 90,905 | | `signals` | `Signals.cfg` | Are signals the same with and
without restarts, failed runs and late ticks, and does every position end? | 111,243 | |
`bar_feed` | `BarFeed.cfg` | Does the pipeline see every bar once, whatever happened
before and during the start-up? | 1,088,636 | | `order_path` | `OrderPath.cfg` | Do
accepted settings lead to orders within capital, slippage and rate, and do orders reach
the market? | 1,343,352 | | `pair_atomic`, `cooldown_lost`, `pending_stuck`,
`entries_lost` | one `.cfg` each | The disagreements below. | |

**`state_machine`** checks that a row of this program is never refused
(`OwnRowAccepted`), that status and snapshots fit (`StateHydratable`), that Flat
carries no deadline (`FlatHasNoDeadline`), that no entry comes before the cooldown
of the last stop loss is over (`EntryAfterCooldown`), and that `recover_state` and
`update`, two implementations of the same rule, release it in the same hour
(`RestartLikeUpdate`). Foreign rows are all type-correct records over the clock.
Bounds: a cooldown of 2 and a clock of 5 hours let a stop loss, its cooldown, an
entry and a second stop loss happen, with restarts before, at and after a deadline;
the theorems remove the bounds.

**`pair_calls`** checks the engine alone. `OpenFillsMatch` and `CloseFillsMatch`: what
a call reports as filled is what it did to the account, and a close without partial
fills leaves nothing but what an earlier order brought meanwhile. `OpenErrorIsClean`:
an open that fails without the PartialFill class changed nothing and left no order of
its own. `OpenRolledBack`: where nothing rests, a failed open has put everything back.
`RepairOnlyReduces`: a repair never opens anything. `CallReturns`: every call returns,
although network errors, refusals and IOC orders without a match (`Endless`) may be the
answer every time: attempts are counted, and the rollback or cancel a failure leads to
is a request like any other; its mutant drops the bound. Bounds: two smallest fills per
order (partial fills exist), two attempts per request (a retry and the giving up), any
number of the faults that leave the exchange as it was, one of the others (a lost or
garbled answer, a partial fill) on any request, and two orders ever put on the book: one
leg of a limit open fills and the other rests and is forgotten, the single leg is
repaired, and during the next open or close the forgotten order is taken, beside one
that this call puts on the book. `MaxHeld` is 0 here (an open finds no position, but any
book): a process that looked at the account opens on nothing else. With `MaxHeld = 1`
TLC finds the same over 646,078 states, and the theorems have neither this bound nor one
on the faults. More attempts only repeat the same step; the code has 3 to 4, and
`order_path` has 4.

**`live_market`** is the whole process with every fault of exchange and process.
`SavedMatchesAccount`: what a completed run saves is what the account holds.
`EntryNeverRefused`: a filled entry is never refused by the state machine.
`OrdersFitAccount` and `CooldownRespected` constrain the moment an order is sent.
`CooldownRespected` spares failed position fetches, crashes and failed saves too: after
a fetch that failed, a run repairs on what the record says and may forget the stop loss.
That takes four faults, more than the run has: it came out of the proof, and TLC
confirms it under a higher bound.
`ResidualRepaired`: a lone leg, one left by a fault or inherited, is closed in
the end. Bounds: five bars with entries up to the third leave room for entry, exit,
cooldown of two bars, re-entry, and two further runs for repairs; at the last bar
runs repeat without entries, so liveness is not cut off by the clock.

**`live_hedged`** and **`live_passive`** check that `LiveRunner` implements
`HedgedPair`, liveness included: nothing is opened on a pair, no leg grows or turns
over, no direction is recorded that is not held, none is dropped while its pair is
there, a lone leg does not stay, a record of nothing does not stay. `live_hedged` has
up to three faults of the kinds an honest answer leaves (errors without effect, no
match, crashes, failed saves and fetches) and three market attempts. It keeps to
short-ETH pairs because the rollback of a long-ETH close doubles the position (finding
1): with both directions TLC finds `HedgedPairKept` violated, as it does with a lost,
garbled or partial answer, with a fill in the middle of a run, and with entries after
a failed position fetch. `live_passive` has post-only entries in both directions whose
two orders fill in any order between runs; besides the promise it checks
`PendingResolved` and `SettlesAgain` (again and again the record agrees with the
account). Four resting orders are two entries. It has no fault of the exchange
because one failed cancel suffices to strand a pending entry (`pending_stuck`).

**`signals`** runs the detectors over four z-scores (at the take-profit level, two in
the entry zone, one beyond the stop on the other side), both optional entry controls,
loop and cron deployments and a backtest, every placement of missed bars, failed runs
and restarts, and of one tick that comes too late. `CrossingNotMissed` and
`HeldWithinLimits` say a run, the first one of a process and the one after a late tick
included, sees a crossing, a stop and a time stop; they compare the live or rebuilt
detector with the z-scores that really occurred. `TakeProfitConfirmed` and
`StaleCrossWindow` say that a restart or a failed run invents no confirmation and no
recovery; confirming bars from before the entry count, as in the code. `RecoveryFires`
says that the run that ends a cooldown takes the recovery path, in a process that ran
through the cooldown or was started in it, if it was given a bar of it: late ticks that
swallow the whole cooldown close the path, and a start during it opens it again. Its
counterpart for every program, `EntriesResume`, is false (finding 4). `PositionsEnd` is
liveness. Two warm-up bars against windows of two: the code's warm-up of max(n_z, n_vol,
384) covers its z-score window likewise, but ignores the quantile window of the sigma
floor; two bars are also what confirmations and recovery look back. Seven bars, with
entries and fills up to the fourth, let the latest position reach its time stop of three
bars, and hold a stop loss with its cooldown and the recovery after it.

**`bar_feed`**: `FirstRunWarm` is what `SignalRunner` takes for granted, full windows
up to the bar before the first run; it has to hold over stores with old rows, half a
refill, rows of a download and holes, and after a start-up in which bars went by.
`EveryBarOnce` is about a process in time, `NeverBack` about any process, and about
prices as well as bars. Eleven slots with windows of three bars let a process refill,
catch up two bars, run and tick, or two processes follow one another on one store; a
start-up takes at most seven slots before the catch-up is decided, because the
refilled window must be longer than the start-up, as four days of bars are. One
download suffices: it may leave any subset of the window and the open bar. The price
of a bar is not always its own: the live run takes the first price of the candle that
has just opened, the backfill the closes of completed ones, and the close of one is the
first price of the next, so a run right after a backfill feeds nearly the same price
twice, and `CrossingNotMissed` speaks of the bars as the pipeline sees them.

**`order_path`** starts from twenty-eight settings files over the defaults of the code,
with and without a key on the command line (accepted ones that use every capital mode,
both minimum-size policies, every funding mode, both gates, leverage, post-only and
paper trading; refused ones for every group of checks), four bars with an entry signal
and two lone legs to repair. `ValidatedRuns`: accepted settings end a run at a signal
for the reasons listed under "Known divergences" only. `EntryWithinCapital`: no leg is
worth more than its share of the capital but for what its constraints' rounding adds,
which the property says for each mode (`Slack`): nothing for FLOOR, half a step for
ROUND, a step for CEIL, and half a unit of the precision where that is coarse; a leg the
adjust policy lifted is worth no more than the exchange's minimum, rounded up; and the
pair exceeds `max_notional` by no more than its legs may exceed their shares. The files
have all three modes, coarse steps and precisions, and both policies. `SentWithinReach`:
a market order's price lies beyond the reference and by no more than slippage, 45 bps
and a tick; a resting order's lies on the near side and no further away than its offset.
`GivesUpBeyondReach`: a market order is given up for want of a match only if the market
is beyond the last rung. `RequestsOrdered`: nonces grow within a process whatever the
clock does, and across restarts unless it was set back; requests keep the limiter's
distance. Bounds: two signals or repairs are an order in each of two processes, or two
in one; two faults are an error and a crash, or the clock set back and a crash; four
attempts are the code's market minimum; the market is 48 or 60 bps away, on both sides
of the reach of a market entry (5 bps slippage plus 45), and both beyond that of a
repair, which starts at the entry price.

Deadlock is checked in every run but `order_path`, which stops when its calls are
used up or the settings were refused.

### Fairness

- `PairExecution`: weak fairness of the engine's step. The future is awaited and every
  post has a timeout, so an attempt always ends. Nothing is assumed of how: the faults
  of `Endless` may be the answer every time.
- `LiveRunner`: weak fairness of `RunStep` (the loop ticks, or cron starts the program
  for the next bar; a run under way goes on) and strong fairness of `NextBar` (time
  passes between runs; strong, because a run is under way in between). The exchange is
  never obliged to fill a resting order, and since faults are bounded in number a
  failing repair succeeds at last. The fairness of `HedgedPair` is not assumed but
  shown: it is part of `PairSpec`, which the two runs check.
- `SignalRunner`: weak fairness of `Launch` and `Quiet` (the program is started again,
  runs happen), and strong fairness of `ExitPosition` where `ExitDue`, where every
  z-score the bar could have closes the position: a close that is due in run after run
  succeeds once. The z-score is the market's choice and is never forced: `PositionsEnd`
  holds by the time stop alone, with a z-score that stays in between for ever. Without
  this fairness the exchange may refuse the close for ever and nothing the code does
  helps.

## Proofs

`tlapm` checks every theorem from nothing. What they have in common: the bounds of the
runs are gone. Quantities, prices, windows, intervals, attempts, latencies, the number
of faults, calls, bars and restarts are arbitrary naturals, settings files arbitrary
records of the right types; the fault bounds only have to be naturals.

| Module | Theorem | States |
|---|---|---|
| `StateMachineProofs` | `TypeCorrect` | `TypeOK` |
| | `OwnRowIsAccepted` | `OwnRowAccepted` |
| | `StateIsHydratable` | `StateHydratable` |
| | `FlatIsClean` | `FlatHasNoDeadline` |
| | `EntryWaitsForCooldown` | `EntryAfterCooldown` |
| | `RestartReleasesLikeUpdate` | `RestartLikeUpdate` |
| `PairExecutionProofs` | `PairTypes` | `PairTypeOK` |
| | `OpenFillsHeld` | `OpenFillsMatch` |
| | `FailedOpenIsClean` | `OpenErrorIsClean` |
| | `FailedOpenIsRolledBack` | `OpenRolledBack` |
| | `FilledCloseMatches` | `CloseFillsMatch` |
| | `RepairReduces` | `RepairOnlyReduces` |
| `LiveRunnerProofs` | `LiveTypes` | `TypeOK` |
| | `EntryAccepted` | `EntryNeverRefused` |
| | `OrdersFit` | `OrdersFitAccount` |
| | `SavesWhatIsHeld` | `SavedMatchesAccount` |
| | `CooldownKept` | `CooldownRespected` |
| | `KeepsPromise` | the safety half of `HedgedPairKept` |
| `HedgedPairProofs` | `NeverSameSide`, `RecordIsHeld` | what `HedgedPair` is worth |
| `SignalRunnerProofs` | `SignalTypes` | `TypeOK` |
| | `TakeProfitIsConfirmed` | `TakeProfitConfirmed` |
| | `RecoveryIsInWindow` | `StaleCrossWindow` |
| | `CrossingIsNotMissed` | `CrossingNotMissed` |
| | `PositionsStayInLimits` | `HeldWithinLimits` |
| | `RecoveryIsTaken` | `RecoveryFires` |
| `BarFeedProofs` | `FeedTypeCorrect` | `TypeOK` |
| | `FirstRunIsWarm` | `FirstRunWarm` |
| | `EveryBarFedOnce` | `EveryBarOnce` |
| | `NeverFedBack` | `NeverBack` |
| `OrderPathProofs` | `PathTypeCorrect` | `TypeOK` |
| | `ValidatedSettingsRun` | `ValidatedRuns` |
| | `EntriesWithinCapital` | `EntryWithinCapital` |
| | `SentIsWithinReach` | `SentWithinReach` |
| | `GivesUpOnlyBeyondReach` | `GivesUpBeyondReach` |
| | `RequestsAreOrdered` | `RequestsOrdered` |

So every invariant and every action property that a passing run checks is stated by a
theorem; what is left to TLC alone is listed below.

`EngineProofs` holds only lemmas: what the answer to one attempt
leaves on the account (`OrderEffect`, `CancelOutcomeEffect`, `TakenEffect`), that a step
of the engine keeps the call well formed (`EngineOK`), where it can go
(`EngineStages`), and what each stage does case by case (`OpenBtcCases` ...).
`PairExecutionProofs` and `LiveRunnerProofs` both build on them.

### State machine

None of the invariants is inductive alone. That a restart accepts a row needs the
row to be sound, and the row is a copy of the state at some earlier save: so
`OwnRecordsSound` says both, of every record that descends from no foreign one.
That no entry comes before `barred` needs to know who remembers the deadline:
`BarRemembered` says that while entries are barred the keeper (the running
process's state, or the row when no process runs) is in Cooldown with a deadline no
earlier. `IInv` is their conjunction with `TypeOK`. `InitInvariant` and
`StepInvariant` (one step per action, `RestartInvariant` and `CallInvariant` for
the two families) give `Spec => []IInv`. `RecoverIsUpdate` is the lemma behind the
restarts: on a record `hydrate` accepts, `recover_state` and `update` are the same
function.

### Engine

`TypeInv` (account, book, call, the operation and the history fit) is the base. What a
call *reports* is only settled at its last stage, so each property needs what every
earlier stage has done to the account. Nothing is known of the account and the book a
call meets; the invariants speak of `Change` (the account against `before`) and `Own`
(the orders with an id of this call), and an order of an earlier call that is taken
moves the account and `before` alike (`EarlierTaken`):

- `RepairInv`: the order of a repair is a reduce-only market order, which by
  `ReducingShrinks` neither rests nor turns the leg over, however often it is retried;
- `OpeningInv`: the first leg of an open changed the account by the fill the second
  stage carries, with its sign, and nothing of this call rests;
- `CancellingInv`: after a first leg that rested, all this call has on the book is that
  order (`OnlyFirst`), and while it is there the call has done nothing to the account;
- `RollbackInv`: `next_oid` remembers whether any order of any call ever rested; where
  none did, the rollback's order is exactly what the first leg did;
- `ClosingInv`: each order of a close is what its leg holds, but for legs in `moved`
  (`Closes`), and the first leg changed the account by its fill; where that was whole
  and the leg not moved, the leg is at zero.

### Live process

`LiveInv` strengthens `TypeOK`: the point of the run determines the stages and results
its call can be in (`StagesAt`, `KindsAt`), and the record in memory and the row are
`Sound`. With it `EntryNeverRefused` follows: a run that enters is `Flat`, and a sound
`Flat` record has no deadline. The rest is about market orders
(`OrderType = "Market"`), under which `MarketInv` holds: nothing rests, nothing is
pending.

- `RepairingInv` and `LookedInv` (with `LiveInv`, `MarketInv`: `MarketLook`): what a run
  saw at its fetch is still what the account holds when it decides, and a repair works
  on the leg it saw. This gives `OrdersFit`.
- `EnteringInv`, `ExitingInv`: what an entry and an exit find at each stage; with
  `SavedMatchesAccount` itself they are `TradeInv`, and `SavesWhatIsHeld`.
- `CooldownInv`: while a completed stop loss bars entry the account is empty, nothing
  is asked of the engine, and the record, or the row while no process runs, says so.
- `PromiseInv`: on the way from one pair to the next, a position is remembered only with
  its row, and a row no longer remembered is the row of a pair that is gone.
  `PromiseStep` then maps every step of the process to one step of `HedgedPair` or to
  none, which is `KeepsPromise`: `Spec => Promise!PairSafety`. It has the hypothesis
  `Promising`: market orders, short-ETH pairs, faults `transient`, `reject` and
  `no_match`, no failed position fetch, and inherited rows that hold the pair. Crashes,
  failed saves and retries are in it. `live_hedged` says what breaks with other faults
  and directions; the fairness half of `PairSpec` stays with TLC.

All of them have the hypothesis `Snapshots`: the sets `Positions` and `PendingEntries`,
small in the runs, are all records of their type, so that whatever the engine reports
can be recorded.

`HedgedPairProofs` proves what the promise is worth, for legs of any size. That the
account never holds both legs on one side (`NeverSameSide`) is not inductive: a lone
leg may be completed, and nothing in "no two legs on one side" says with what.
`PartOfPair` (all that is held belongs to one direction's pair) is, and
`PairInductive` shows it step by step; `PairShape` is the fact about sides it needs.
`RecordIsHeld` (a direction gets into the database only while its pair is held) needs
no invariant, only that no other step touches the record. With `KeepsPromise` this is
what an owner of the account gets of the live process.

### Signals

Restarts are the difficulty. `Launch` makes a pipeline from the last `WarmupBars`
z-scores by a recursive function, and the theorems compare what it remembers with what
the process was given (`seen`): a late tick changes neither, a launch sets both anew.
`SignalInv` is `TypeInv` and `PipelineInv`:

- `Follows`: the pipeline remembers the window's last z-score and the confirmations at
  its end, fed live or rebuilt;
- `Aged`: the age of a recovery under way is the number of runs `since` the cooldown, all
  of them in the zone, which is what `StaleCrossWindow` needs to be inductive;
- a pipeline that last saw a cooldown belongs to a state in one.

That every restart gets there again (`Launch` establishes `PipelineInv`) is
`WarmedUpIs`: what a warm-up over any number of bars computes. The library's induction
theorems cannot be used here, but that there is no least bar at which the claim fails
can: `LeastNat` is the least element of a non-empty set of naturals, `WarmUpExists` that
the recursive function is well defined, `RebuiltStep` one bar. Since all bars of a
warm-up are fed with one status, a warm-up never sees a cooldown end, and an age is
never invented.

`ColdInv` adds that a backtest never recovers at all, whose cooldowns do not end
(finding 4). `FullInv` says that a running live process knows every z-score from its first
run on. It needs `ZBars <= WarmupBars`, the hypothesis of the three theorems that say
nothing is lost. `main.rs` (583) takes the larger of `n_z`, `n_vol` and 384 bars, so
it holds of the window of the z-score, and not of the quantile window of the sigma floor.
`StatusInv` says that a process that was given its last bar in a cooldown has a detector
that remembers it, which is the premise of `RecoveryFires`; the cooldown may have any
length. `RecoveryIsInWindow` speaks of the last two bars of the
window and so has `1 < WarmupBars`.

### Bar feed

`FeedInv` is `TypeInv` (each stored price was taken while its candle was open or when it
closed), `StartInv` (how far a start-up has come, how far behind the clock it can be, and
that what was fed is a full window up to the bar before the next run) and `OrderInv`
(nothing fed is out of order or from the future). `OnTimeInv` adds where the tick
stands against the bars while the process was never behind; it needs
`Interval = BarSlots`, without which a process skips bars or meets one twice.

The heart is loading. `LoadComplete` says that if as many rows are loaded as the window
has bars, then the rows are those bars, in order, each once: not by induction over the
rows but by counting, a bijection between the window's bars and the indices of what was
loaded (`Grid`, `GridPoints`). `Ensured` says that a backfill that came to its end left
every bar of the window; `WarmupWindowBars` and `CompleteIsComplete` join the two;
`FedNeighbours` and `FedContiguous` carry what was loaded through the feeding, which
keeps a suffix. Alignment of moments to bars rests on `Multiples` and `Alignment`, which
are about `%`. `StartupAssumption` (the refilled window is longer than the start-up) is
what makes a catch-up meet the warm-up's last bar.

### Order path

`PathInv` is `StateInv` (types; everything on its way out can be sent), `ConfigInv`
(a process past its start runs on settings `Valid` accepted), `WaitingInv` (the request
under way is the one this attempt makes), `ClockInv` (nonces stay behind the wall clock
until it is set back, and the limiter never believes a request earlier than it was) and
`VerdictInv` (the last verdict is `Decision` of the settings and the bar). Settings keep
their types through any file (`DefaultTypes`, `OverriddenOK`).

From it: `Decisions` lists what `Decision` can be on accepted settings, hence
`ValidatedSettingsRun`. `RoundedWorth` and `RoundQtyWorth` say what each rounding mode
and a coarse precision add to a size, `MinimumQtyWorth` what a lift to the minimum does;
`Converted` joins them, and `Shares` bounds the two legs' shares by the capital, hence
`EntriesWithinCapital`. `Ladder` (the widening grows with the attempt and ends at
`LastRung`), `LimitPrices`, `BpsOfGrows` and `MarketPrices` bound a price through
slippage, widening and the tick, `RestingPrices` one through its offset, hence
`SentIsWithinReach` and, with what the exchange matches, `GivesUpOnlyBeyondReach`.
`NoncesGrow` and `Waits` give `RequestsAreOrdered`.

### Assumptions

Each is named in the module that declares its constants, and TLC evaluates it in the
runs. Bounds, attempts, intervals and times are naturals (positive where the code needs
them to be); sets of faults are subsets of the modelled kinds; market orders are tried
at least as often as others, as `max(4)` in the retry loop makes them
(`AttemptsAssumption`). `None` is no number, record, row, result or request
(`NoResultAssumption`, `NoneAssumption`). Inherited rows are rows of a position that the
program could have saved (`RowsAssumption`), foreign rows of `StateMachine` are
type-correct. The snapshots of `SignalRunner` are records with a time, among them every
one a run can make (`SnapshotsAssumption`). `StartupAssumption` is above. Settings files
have values of the settings' types (`WellTyped` in `OrderPathAssumption`), with a
slippage and a post-only offset between nothing and the whole price, since the code
would go on to send a price that is not positive; the code's defaults pass validation;
prices of bars and lone legs are positive; what is read of a bar may be missing.

### Only model-checked

- Liveness and everything under fairness: `CallReturns`, `ResidualRepaired`,
  `PendingResolved`, `SettlesAgain`, `PositionsEnd` and the fairness half of
  `HedgedPairKept`. The prover has no `ENABLED`.
- The refinement with resting orders (`live_passive`): what a pair owes there depends
  on a book that fills in any order, and the invariant is not written yet.

## Findings

1. **`pair_atomic`**: the rollback of a long-ETH close takes its side from an
   unsigned fill quantity and sells a second time (`src/execution/mod.rs:1172`). The
   same property fails in `open_pair`: for a short-ETH pair the rollback is a
   reduce-only Sell the exchange must refuse (`:1096`, the run with `Directions =
   {"ShortEthLongBtc"}`), and with one leg filled and the other resting the resting
   order is forgotten (`:1071`, the run with `OpenTypes = {"Limit"}`).
2. **`cooldown_lost`**: repairing the residual leg of a stop loss calls
   `force_flat`, which ends its cooldown (`src/core/strategy.rs:228`).
3. **`pending_stuck`**: if the second cancel of an expired entry fails, every later
   run fails at the first one (`src/core/strategy.rs:387`).
4. **`entries_lost`**, twice. `BacktestEngine::run` never lets time pass in its state
   machine, so the cooldown of the first stop loss never ends and no later bar of the
   history can enter (`src/backtest/mod.rs:147`). And with one process per bar, the
   recommended deployment, `stale_cross` never fires (`src/signals/mod.rs:59`): the
   run with `Modes = {"once"}` fails alone.

Each run checks one property that says what the documentation, a comment or a test
says; `PROJECT.json` has the quotes.

### Known divergences

Not findings, since nothing in the repository says otherwise, but what a reader of the
models should know. The models have them as the code does.

- `validate` does not compare `c_value` with `max_notional`, and accepts `EquityRatio`
  without an equity: the run ends with an error at every entry signal (`ValidatedRuns`
  lists the reasons). It does not look for the parameters of the funding modes either,
  but the defaults have them and a file can replace them only. A negative `entry_z` or
  `c_value` passes.
- The overrides of the command line (`--interval-secs`, `--base-url`) are applied after
  validation; an interval of zero is possible.
- The capital `FundingMode::Size` computes is never used.
- A leg without volatility gives both legs half the capital.
- `align_price` rounds a buy up and a sell down: for a market order away from the
  market's side, for a post-only order towards it.
- HTTP 429 is an error without retry for an order and one with retry for the specs.
- The rate limiter is asked before the specs are loaded, which are not counted.
- A process started after the clock was set back may repeat nonces.
- A repair is quoted at the entry price: it reaches 45 bps and ends every run in an
  error beyond them.
- The backtest has none of the live gates but the minimum size, takes its fees once
  per trade, and its `--db` coverage check looks at the first and the last bar of the
  range only, so holes pass unnoticed into its windows.
- Paper mode has no source of the balance or of the position: `EquityRatio` needs
  `equity_value`, and nothing is reconciled.

## Not modelled

- The statistics of the indicators and the half-life: a z-score, a volatility or a
  half-life is chosen freely instead. They are square roots, logarithms and ratios of
  28-digit decimals; over small integers they would be other functions.
- The pnl, equity curve and metrics of trades and of the backtest, the text of logs.
- Signing, parsing, HTTP, TOML, file formats.
- Offline analysis (`src/analysis`, 1882 lines of sequential statistics).
- The alert channels and the e-mail throttle of `src/logging`: no other code uses them.
- Subcommands that make one call and end (`order-test`, `cancel-order`, `market-test`).
- Two trading processes on one account or one state database at a time: the program has
  no lock, `scripts/run_live_once.sh` takes one with `flock`. (The download command
  beside a trading process is modelled.)
- The fallback of `fetch_pair_bars` to the last price: the live source fills every
  price field of a bar.

## Plan

What is left, in this order:

1. The refinement of `HedgedPair` with post-only entries, from an invariant that ties
   the book to the pending entry's order ids.
2. `CooldownRespected` and `SavedMatchesAccount` with resting orders, where an entry may
   fill after its expiry.
