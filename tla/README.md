# Formal model of the NSE swing-trading system

TLA+ specifications of the trading system in this repository, the TLC
configurations that check them on small instances, and TLAPS proofs of the
results that matter most for instances of any size. All paths below are relative
to the repository root.

    tlc -workers 2 -config DailyTrader_faults.cfg MCDailyTrader.tla
    tlc -workers 2 -config TradingEngine_engine.cfg MCTrading.tla
    tlapm DailyTraderProofs.tla

`PROJECT.json` lists every component, run, mutant, proved theorem, hazard and
finding, and maps every definition to the lines it models.

## 1. Inventory

### A. Daily swing trading (what is deployed)

A GitHub workflow (`.github/workflows/daily_trader.yml`) checks the repository
out on every trading day, runs `scripts/run_master_trader.py`, and commits and
pushes `reports/master_position_ledger.json`.

| Part | State | Operations |
|---|---|---|
| Strategy replays: `replay_symbol` of `scripts/run_{ma_pullback,supertrend,bb_squeeze}_trader.py`, `replay_pair` of `scripts/run_paper_trader.py` | none between runs; a replay is a function of the bars of one symbol or pair | walk the history bar by bar, report open positions, today's entries, today's exits |
| Master engine: `scripts/run_master_trader.py`, `src/trading_engine/strategy_priority.py` | the ledger file: key -> quantity, entry price; `_stats.realized_pnl` | load, collect, book exits, lock capital, allocate free cash, save |
| Workflow and notifier: `daily_trader.yml`, `src/trading_engine/notifications/telegram.py` | the repository's head, each job's checkout | check out, run, send the digest, commit, push |

The parts meet in one file. The replays are recomputed from market data on every
run and know nothing of what the engine approved; the ledger knows nothing of
bars. Everything hard about this system is in keeping the two consistent: a day
without a run, two runs on one day, symbols that could not be fetched, an exit
reported twice, a push that fails after the digest went out, a second job that
checked out the same ledger.

What makes it correct: the account is never over-committed; a ticker is held
through one strategy only; exits are booked once, against the entry they belong
to; nothing is opened on incomplete data; the reader of the digests and the
ledger agree; capital comes back.

### B. Order management and reconciliation (`src/trading_engine/execution`, `reconciliation`)

| Part | State | Operations |
|---|---|---|
| `OrderManager`, `OrderLedger`, `OrderStateMachine` | orders by id: status, broker id, risk decision | create an order from an intent (through the risk engine, if there is one and a snapshot), mark submitted, apply a broker update |
| `ReconciliationService`, `broker/zerodha/mappers.py` | none of its own; writes to the ledger | fetch the order book, map it, compare, update what the state machine allows, report |
| Broker (not part of the program) | its order book | accept, move, list orders; postbacks |

The ledger learns of the broker in three ways: the caller of the manager reports
a submission, a postback is applied, or a reconciliation finds the order in the
book. All go through one table of transitions, which raises on an illegal
one. Hard: postbacks late, lost, repeated or out of order; a book
fetched before and compared after the broker moved; a failed fetch that looks like an
empty book; statuses skipped between polls; a status nobody mapped. Correct when
the ledger's idea of an ended order is true, nothing is live without
approval, a report of success means the ledger is in sync, and reconciliation repairs
what was missed.

### C. Backtest and paper trading (`strategies`, `risk`, `backtest`, `paper`, `validation`)

| Part | State | Operations |
|---|---|---|
| Strategies: five intraday, three swing, three on the ratio of a pair | per symbol or pair: window, counters, the position they believe they have, orders left for the next bar | a bar in, orders out |
| Risk engine | approved orders, recent timestamps, kill switch | check an order, record an approval |
| Simulated broker, portfolio | positions, cash, realized and unrealized P&L | fill, mark to market, snapshot |
| Engine (`backtest/engine.py`, `paper/engine.py`) | latest prices | per bar: strategy, risk, broker, portfolio, mark |
| Metrics and gates | none | trade P&L from the fills, gates on the report |

One bar goes through all of them, in a single thread. A strategy is never told
what became of its orders: belief and position agree only as long as every
order fills. Correct when belief and portfolio stay in step, a strategy with a
square-off is flat after it, limits hold, and cash, positions, P&L and report
are four accounts of the same fills.

### D. Live data and the live paper runner (`live_data`, `paper/live_runner.py`, `scripts/run_paper_live_zerodha.py`)

Two threads share the candle builder, the strategy and the session file without
a lock: the feed's thread turns ticks into candles and gives completed ones to the
strategy; the main thread waits for a signal, whose handler flushes the open
candles, ends the strategy and disconnects. Hard: a tick in the middle of a stop, a
second signal in the middle of the first one's handler, late ticks, a strategy
that raises. Correct when every tick reaches the strategy once, in the candle of
its interval, and a session that is told to stop ends.

### E. Live order pilot (`live_execution`, `broker/zerodha`, `scripts/live_order_pilot.py`)

State: the settings in `.env`, read once by each process; approval requests and decisions
of a process; its kill switch; the audit log; the broker's order book. Operations:
preflight, request, approve, reject, expire, preview, execute, place, verify. Hard: expiry racing
approval, settings edited while a process runs, an order the broker has
although the call failed, a crash between the log and the order, two places that check
the same settings. Correct when no order goes out that its settings forbid, one typed
phrase is at most one order, and no order of the script goes out before an attempt to record it. Other
programs may run the executor without its audit logger, which is optional.

### F. Data download and storage (`data/{zerodha_downloader,historical,validation}.py`, `scripts/download_zerodha_historical.py`)

State: one file of candles per symbol and interval. A run splits its range into
chunks, asks for each, merges the answer with the file, validates and saves.
Hard: ranges and chunks that overlap, candles saved while still forming, empty
answers, a write that fails while the run goes on, a crash in the middle of one, and what the exit code says about
it. Correct when a file has one row per stamp and loses none silently, covers what was asked for, and every
symbol is accounted for.

### G. Portfolio backtests (`archive/`, `scripts/`)

Fifteen scripts replay every strategy with unlimited capital, collect the
closed trades, and walk through the days once more with one account: exits, then
entries ranked, deduplicated, limited to free slots and sized. Each is a copy of the same loop with
one thing changed (a gate, a cap, a breaker, a hedge, rebalancing). Hard: the order of closing and opening
within a day, the dates a loop visits, counters, shares that cost more
than their chunk. Correct when capital is conserved and slots are closed.

### H. Parameter searches, status page, market-data queries

No state of their own; see section 7.

## 2. Modules

    StrategyReplay          bars and what the four deployed strategies report
      MasterEngine          one run of the allocator, as operators
        DailyTrader         ledger, jobs, digests, pushes, faults: the system
          MCDailyTrader     small portfolios
    CapitalAccount          abstract: an account of fixed capital
    SumTheorems             sums over finite sets, quotients, last elements
      DailyTraderProofs     what one run and the system guarantee

    OrderManagement         state machine, ledger, order manager
      Reconciliation        with the broker and the reconciliation service
        MCReconciliation    two orders
        ReconciliationProofs  what holds for any number of orders
    OrderLifecycle          abstract: decided, live, ended once

    IntradayStrategies      five strategies, bar by bar
    SwingStrategies         six strategies on daily bars and ratios
    Portfolio               positions, cash, fees, slippage, fills
      RiskEngine            the checks in their order
    BacktestReport          trade P&L and gates
      TradingEngine         composes the five: one backtest or paper run
        MCTrading           every strategy on one or two symbols
        TradingEngineProofs   risk limits, beliefs and books for any strategy and market

    LiveRunner              feed thread and main thread; MCLiveRunner, LiveRunnerProofs
    LivePilot               operator, processes, broker; MCLivePilot, LivePilotProofs
    DataDownload            download runs and files; MCDataDownload, DataDownloadProofs
    PortfolioBacktest       collecting and the day loops; MCPortfolioBacktest, PortfolioBacktestProofs

### Daily trading

**StrategyReplay.** `pos[k]` is the position the replay of key `k` ends in,
`closing[k]` the trade it reports in `today_closed`. A key is a strategy with its
symbol or pair, exactly the ledger's key. One action per strategy says what a
further bar may do: hold (at most `max_hold_days`), enter, exit, and for the pair
strategy exit and re-enter. Prices and indicators are replaced by the choice
between the outcomes they decide. Two details are kept because the ledger depends
on them. MA Pullback and Supertrend exit at the next open: the exit is reported
today on the signal bar and again, with the real fill, on the next one
(`StillClosing`). Trades opened before `PAPER_TRADING_START` are reported as
open but never as closed (`Legacy`, trade number 0).

**MasterEngine.** The run as a function of the ledger, of the replays and of the
set of keys whose fetch failed, in the order of `run_master_trader`:
`RawEntries`, `ClosedToday`, `OpenPositions` (the master's own filter),
`BookedExits` and `AfterExits`, `LockedCost` with `Orphans`, `FreeCash`, the
safety gate `CapitalSafe`, rule 1 `Deduped`, rule 2 `NotHeld`, `Selected`,
`Qty`, `AfterRun`. The greedy loop of rule 1 is stated by what it computes: the
set of entries that keeps an entry exactly if no better ranked kept entry shares
its ticker. `DedupedKeeps` proves that there is such a set. Ledger entries carry
a history variable `trade` that the code does not have; no guard reads it.

**DailyTrader.** Actions and code:

| Action | Code |
|---|---|
| `Bar(k)` | a trading day closes for `k` (the market) |
| `Retract(k)` | the schedule runs at 15:15 IST, the bar of an entry is still forming, and completes without it |
| `Run(j)` | checkout and `run_master_trader` up to and including `save_ledger` |
| `Send(j)`, `SendFails(j)` | `TelegramNotifier.send`, which swallows errors |
| `Push(j)` | the commit step: commit if the file changed, push |
| `PushFails(j)` | the push is rejected because another job's push came first, or fails |

`Run` is one step because a job works on its own checkout; what other jobs may
interleave with is before it (checkout), between it and the digest, and between
the digest and the push. `job[j].current` says whether the checkout is still the
head: a push of a file that did not change leaves the head where it is.
`unseen[k]` counts bars since the last pushed run that saw `k`: it implements
the bound `MaxMissed` and, in `Due`, the schedule. `told` collects what the
digests delivered so far leave open.

**CapitalAccount.** The abstract specification: on a trading day, close some
holdings, open others, in the same key only for another trade; never resize one,
never exceed the capital, never hold a ticker twice. `ImplementsAccount`, in
`DailyTrader`, says that the committed ledger implements it.

### Orders

**OrderManagement.** `Transitions` is the table, `Legal` the check of
`OrderStateMachine.transition`. The operators that change `ledger` are the
manager's methods; a refused transition raises before anything changes, so they are
not enabled then. The verdict of the risk engine is a choice. An order is
what the ledger's readers tell apart: its status, whether it has a broker id, its
risk decision.

**Reconciliation.** The manager with its caller and the broker:

| Action | Code |
|---|---|
| `Create(o)` | `create_order_from_intent` |
| `Place(o)` | the caller places an order it was handed with the broker (external) |
| `Submitted(o)` | `mark_submitted`, some time after `Place` |
| `Postback(o, s)` | `mark_broker_update` with a mapped status the broker sent, in any order and any number of times |
| `BrokerMoves(o)`, `Expires(o)` | the broker (external) |
| `Fetch`, `FetchFails` | steps 1 and 2 of `reconcile_orders` |
| `Compare` | steps 3 and 4: updates, discrepancies, `success` |

No script of the repository drives the order manager against a broker yet; the
caller is the one its docstrings describe (`order_manager.py:175-183`, `207-209`):
it places what it was handed, reports the submission, passes on broker updates.

The program is single-threaded, so between `Fetch` and `Compare` only the broker
moves. The broker's statuses are grouped by what the mapper makes of them; "CANCEL
PENDING" stands for all it does not know. The constant `Faults` says what may
happen around the program, so that each run says what it assumes.

**OrderLifecycle.** The abstract specification of an order: decided once, live only
after approval, ended at most once, the end kept. `ImplementsLifecycle` maps each
status to one of its phases.

### Backtest and paper trading

**IntradayStrategies, SwingStrategies.** One operator per strategy (`OrbBar`, `FadeBar`,
`ContinuationBar`, `VwapBar`, `MomentumBar`; `SupertrendBar`, `RsiBar`, `PullbackBar`,
`PairsBar`, `BlackSwanBar`, `LongSwanBar`): from the strategy's state and a bar to its
next state and its orders, in the order of the branches of `on_bar`. Kept is
what a strategy remembers between bars: the day it is for, how far its
window is, entries of the day, the position it believes in, orders it leaves for the next bar.
What the prices of a bar say (a gap, all price conditions of an entry, a stop or
target reached, the band of a z-score) comes with the bar as a fact, in any combination.

**Portfolio.** `AfterFill` is `apply_fill` for one symbol, with covering and turning
around of shorts, `Marked` is `mark_to_market`, `FillPrice` and `Fills` the simulated broker, with
slippage and fees as integer rates. A position keeps its total cost in place
of the average price. `CostOf` is the cost of some of its shares: the code divides decimals, the model
integers, and what a division leaves over goes with the last share, so that no rupee is lost.

**RiskEngine.** `Objection` names the first check an order fails, `""` if it is approved; `Recorded`
is what the engine remembers of an approval.

**BacktestReport.** The P&L of the trades as `metrics.py` computes it from
the fills (its queue of purchases is never consumed), and the gates of the validator. The loop over the fills is
written as sums over their places in the run (`Places`, `Sales`): a purchase pays of a sale what is left once the purchases
before it (`Shares`) have paid.

**TradingEngine.** One run; its strategy (`kind`) and whether it has a risk engine are
chosen at the start. `ANY` stands for a strategy that sends any order on any bar.

| Action | Code |
|---|---|
| `NextBar` | the feed's next bar by timestamp and symbol, and `strategy.on_bar` |
| `Reject` | the risk engine refuses the first pending order |
| `Execute` | it approves: broker and `apply_fill`, or no fill |
| `Mark` | `mark_to_market` with the latest prices, end of the bar |

`diverged` is a history variable: symbols with an order that was refused or
dropped, or whose position the strategy forgot on a new day.

### Live

**LiveRunner.** Steps are the points between which the other thread or a further signal can run.

| Action | Code |
|---|---|
| `Start`, `Connect`, `Pause` | `main` of the script: start and install the handlers, connect, wait |
| `Signal` | SIGINT or SIGTERM, also while a handler runs |
| `OnTick`, `Look`, `Fold` | `on_tick`, and `add_tick` in its read and its write of the open candle |
| `FeedBar`, `FeedMark`, `FeedWrite` | `_process_bar` of a completed candle: strategy, snapshot, session file |
| `SetStop`, `Collect`, `Clear`, `StopBar`, `StopMark`, `StopWrite`, `Disconnect` | the handler: `stop` with `flush`, then `feed.disconnect` |
| `OnConnect`, `OnClose` | the socket (external) |

A candle is the set of ticks folded into it. `raced` is a history variable: a stop
overlapped with a tick or another stop.

**LivePilot.** One process at a time can place orders: the pilot script, or a program with an
approval gate.

| Action | Code |
|---|---|
| `Edit`, `Tick`, `Switch` | the operator and the clock |
| `Preflight` | `LivePilotPreflightChecker.run`, the checks at level REQUIRED |
| `StartScript`, `Confirm`, `Decline` | `scripts/live_order_pilot.py`: flags, phrase, kill switch |
| `StartProgram`, `Ask`, `Gate`, `Audit`, `Place` | `LiveOrderPilotExecutor.execute`: risk, approval, audit log if there is a logger (`HasLogger`), guard and `place_order` |
| `Approve`, `Reject`, `CheckDecision` | the approval gate |
| `PlaceApproved` | the caller the gate's documentation asks for (external) |
| `Preview` | the dry run |
| `StartVerify`, `Poll` | `OrderVerificationService.verify` |
| `Exit` | the process ends or dies, its requests and decisions with it |

An order in `book` carries what its process knew when it was placed.

**DataDownload.** Time counts slots; a day is a midnight followed by its candles, a candle is forming until the
next one starts.

| Action | Code |
|---|---|
| `Start` | arguments and refusals of the script, `split_date_range` (`Chunks`) |
| `Skip` | a symbol without an instrument token |
| `Fetch`, `FetchFails` | one request for one chunk: the candles, an empty answer, an exception |
| `Save` | the merge with the file (`concat`, `drop_duplicates`), validation and `to_parquet` |
| `SaveFails` | reading the old file, `mkdir` or `to_parquet` raises: the symbol has failed and the run goes on; the file is as it was, torn or gone |
| `End`, `Gone` | the manifest's result and the exit code; the process ends |
| `DieWriting` | a crash in the middle of a write leaves `Torn` |
| `Tick` | time passes, also between two requests |

### Portfolio backtests

**PortfolioBacktest.** `ReplayPullback`, `ReplaySupertrend`, `ReplaySqueeze` and
`ReplaySwan` say which closed trades the four collectors can return (a squeeze may be stopped
out on its entry day, a pair re-enters on its exit day). The collected trades are a set: keys are
replayed one after the other and a key's trades come in the order of their entries, so that key and
entry say which of two came first (`Before`). `Begin` chooses an
experiment with its parameters. One action per script (`CombosDay`,
`MasterDay`, `TenYearDay`, `WalkForwardDay`, `SensitivityDay`, `TrainTestDay`,
`EntryCapDay`, `FixedDay`, `VixDay`, `RegimeDay`, `MomentumDay`, `BreakerDay`,
`TimedDay`, `RebalanceDay`, `GoldDay`) is one turn of its day loop; what the loops share is
`Closing`, `Fresh` (duplicates and held symbols out), `First` (`signals[:n]`), `Dynamic` (the slots bought with
what is affordable) and `Settle` (the account at the end of the day), what they differ in is in the action and in
`LoopDates`. `Rebalance` buys one signal after the other; `InTurn` states the outcome, the set that has a signal exactly if
the cash left by those before it pays for it. `SellHedge` is the end of the gold script. `FixedDay` is the mode "fixed" of
its script; "dynamic" is the loop of `SensitivityDay` as long as the account is not overdrawn.

## 3. Runs

Passing runs:

| Run | Question | Answer |
|---|---|---|
| `disciplined` | one successful run per day, three keys sharing tickers | the ledger implements `CapitalAccount`; no buy is announced twice; every entry's capital is released |
| `faults` | every fault at once, missed days and a pre-start position | capital is never exceeded, untrusted runs only close, no ticker is bought twice, whatever happens around the engine |
| `overlap` | two jobs on one day and a missed day, strategies with next-day exits | the rejected push and the exit that is reported twice lose and repeat nothing: digests, ledger and bookings agree |
| `orders` | two orders and every fault around manager and reconciliation | ends are true, nothing unapproved is live, success means in sync, the ledger implements `OrderLifecycle`, and a reconciliation closes every gap but those without a legal way (`Stuck`) |
| `engine` | every strategy, two symbols, with and without a risk engine | beliefs and positions are in step unless an order was refused or a day forgot a position; square-offs hold; limits hold; cash, P&L and report agree |
| `session` | ticks, late ticks and two signals on two threads | candles are complete and in order and nothing is lost, unless the threads meet in the builder; a waiting session ends |
| `pilot` | operator, preflight, script, gate, kill switch, lost answers, executors with and without a logger | orders satisfy what their process read, one phrase is at most one order, the script's orders follow an attempt to record them, success means an order, decisions are final, requests settle |
| `download` | two runs with any ranges, intervals and `--replace`, failed writes and crashes in one | one row per stamp, no row lost but by a write that did not finish, and that never silently; inner days of all chunks covered, all symbols accounted for |
| `experiments` | fifteen simulations over every small history of trades | capital, years and counts add up; what stays open has a reason; cash goes negative only for a dear share or after rebalancing sold too much; the breakers do what their headers say |

Some of these properties say exactly where the code stops keeping a promise, so
that they hold and yet document the gap: `RiskedRunsStayFlat` (with a risk engine no
shipped strategy ever trades, because a market order is valued by a position the
portfolio does not have yet, `risk/engine.py:289-301`; `scripts/run_paper_orb.py` is such a
run), `CandlesComplete` and `NothingLost` (`raced`: candles
flushed twice, ticks in a candle nobody holds), `OverdrawnByDearShare`,
`SlotsClose` (a trade stopped out on its entry day keeps its slot for ever),
`BreakersRelease` (the plain breaker locks itself), `CoversInnerDays` (the last day of each
chunk is missing), `GapCloses` (`Stuck`).

Runs that show a difference between the code and what the repository says of it:

| Run | What TLC finds | What it contradicts |
|---|---|---|
| `misbooking` | on a second run on the same bars an old trade's exit is booked against a new entry | `README.md:158` |
| `heldticker` | after a missed exit, a ticker still in the ledger is bought again | `README.md:139` |
| `ownclose` | the leg of a pair whose bar did not come last is filled at the other share's close | `simulated_broker.py:50` |

Further differences need no run; each is visible in the definition named.

| Code | Says otherwise |
|---|---|
| a second run on the same bars changes the ledger (`Run` with `rerun`) | `README.md:166`: "run it locally at any time and get the same answer" |
| an exit on a day without a run leaves its entry in the ledger for ever (`Orphans`) | the comment at `run_master_trader.py:254-255` expects a failed fetch |
| realized losses never reduce the capital that is allocated (`FreeCash`) | `README.md:149`: "Cash only" |
| an order cancelled before the ledger saw it open stays SUBMITTED (`Stuck`) | `docs/LEGACY_INTRADAY_README.md:1009` |
| an order once in an unknown status stays UNKNOWN: nothing sets RECONCILED (`Stuck`) | the docstring at `mappers.py:104` |
| `reconcile_orders` updates the ledger (`Compare`) | `docs/SAFETY_REVIEW.md:149`: "read-only" |
| an order can be stored without a risk decision (`CreateUnchecked`) | `domain/models.py:82` |
| nothing looks at UNKNOWN orders when one is created (`Create`) | `tests/README.md:11` |
| `approve` accepts a request that has expired but was not polled (`Pending`) | the docstring at `approvals.py:153` |
| `kill_switch.activate()` lacks its argument and raises: the script ends before it prints that the switch is armed (`Confirm`) | the comment at `live_order_pilot.py:222-224` |
| a session told to stop before `signal.pause` waits for a second signal (`Resumed`) | the comment at `run_paper_live_zerodha.py:403` |
| an executor without a logger records nothing, and there is no default path (`HasLogger`, `Audit`) | `docs/SAFETY_REVIEW.md:138`: "Configured in `LiveOrderPilotExecutor` (default: ...)" |
| the audit log is written before the order is placed (`Audit`, `Place`) | the docstring at `pilot_executor.py:3-8` lists it last |
| chunks end at a midnight, so intraday candles of their last day are left out (`Chunks`, `Candles`) | the docstring at `zerodha_downloader.py:63`: "together cover the full range" |
| a trade stopped out on its entry day is never closed (`Closing`) | `archive/backtest_circuit_breaker.py:4`: "exit normally" |

Also seen while modelling, without a contrary statement: `reset_daily_state` of
the risk engine has no caller; the preflight never reads `GLOBAL_KILL_SWITCH`; a
torn parquet file fails its symbol until `--replace`; a
write that raises can take the whole file of a symbol, which is then only listed as failed; a candle saved while forming
is never refreshed by a later merge; `backtest_fixed_vs_dynamic.py:98-114` skips a day only if the number of slots is
exactly 0, so that an overdrawn account, whose number is negative, buys all signals but the last ones (`FixedDay`), and
the mode "dynamic" divides by the number selected even if that is 0.

### Bounds

Daily trading
- 3 keys over 2 or 3 tickers. Every rule is about pairs of keys (rank,
  shared ticker) or about sums; three keys give a conflict chain (the pair
  strategy overlaps two others that do not overlap each other), and more
  candidates than slots.
- Capital 7 or 11 with chunks of 3 gives two or three slots and a remainder;
  prices 2 and 3 make whole-share rounding and left-over cash matter. In `faults` a
  failed fetch, a rerun and a rejected push make three keys compete for what
  earlier runs left of two slots. Prices do
  not exceed the chunk (`PricesFit`, see section 5).
- `MaxTrades` 1 or 2: a second trade of a key is what tells a stale exit or
  ledger entry from a fresh one. `MaxHold` 1: a position lives for the bar of its
  entry, one more, and an exit.
- `MaxMissed` 0 or 1: one missed day separates next-day exits (survive) from
  same-day exits (lost). `faults` needs no more: its properties do not
  depend on how old a report is, and are proved for every value.
- Two jobs: a push races at most one other checkout at a time.

Orders
- Two orders: orders meet only in the order book, its fetches and the
  report, all of which treat them one by one; two are needed for a report that
  fails because of one while it updates the other. The proofs cover any number.
  Orders are interchangeable, and the properties of this run are invariants and
  conditions on steps, for which symmetry is sound.

Engine
- One symbol for strategies that treat symbols apart, two for the pairs and for `ANY`. Two days of
  five bar times for the intraday strategies reach before the session, the opening, two bars for
  entries and the square-off, then the reset; swing strategies get five daily bars, which is warm-up 2, a
  signal, a fill and an exit by holding time. Two prices give a gain and a loss. `MaxFills` 4: two round trips.
- The limits are tight enough to bind: one open position, three trades a day, one order per
  second, an order value of one share at the higher price.

Session
- Two symbols, two intervals, three ticks: a candle that is completed, one that is flushed, and a late
  tick. Two signals: a handler inside a handler.

Pilot
- Settings that are ready, ready under the kill switch, and without order types; an order that fits them
  and one that does not. One edit, one phrase, one request per process, two orders, one tick of the clock (the
  timeout). The proofs cover any number and any settings.

Download
- Four days of one candle, chunks of two and three days (a remainder of a day), one symbol without a token
  and one with a bad price; two runs, so that every merge is with what another run left.

Experiments
- Four days, up to three trades of four keys (one per strategy, two sharing a symbol), a price
  and a sale of 1 or 3, capital 6, chunk 2 or 3, fixed chunk 2: one to three slots, a share dearer than a chunk, a drawdown that
  triggers, a weekend session and a change of year.

Deadlock is checked in the runs of daily trading and orders: after `MaxTrades` a key still has bars without a
position, and the order book can always be fetched once more, so neither system
stops. The other systems do stop: a backtest at the end of its feed or of `MaxFills`, a
session when its process exits, the pilot when clock, edits and phrases are
used up, downloads after `MaxRuns` at the last slot, an experiment after its last date. Their
runs say `CHECK_DEADLOCK FALSE`.

## 4. Fairness

`FairSpec` of `DailyTrader` assumes weak fairness of each key's `Bar`, and of `Run`, `Send` and
`Push` of each job: markets keep producing bars, the schedule runs the workflow on
every trading day, and a step of a job that can be taken is taken. No fairness on
`PushFails`, `SendFails` or `Retract`. `Run` waits for a new bar of every key
(`Due`), which is the schedule of one run after each trading day. Under it
`CapitalRecycles` holds: each funded entry leaves the ledger in the end, because
`max_hold_days` forces the exit and the run of that day books it. It fails without
that schedule: a missed day leaves an orphan.

`LiveRunner` assumes weak fairness of the main thread's and of the feed thread's steps: the operating
system schedules both. Ticks, signals and the socket owe nothing. `WaitEnds` follows because a
handler is finitely many steps and at most `MaxSignals` can interrupt it.

`LivePilot` assumes weak fairness of the clock, of `Decides` (the gate's documentation asks its
caller to poll) and of `Poll` (a loop with nothing to wait for but its sleep). The operator
owes nothing. `RequestsSettle` says that requests are decided and verifications end.

## 5. Proofs

Every theorem holds for all values of the constants that satisfy the modules' `ASSUME`s, and the hypotheses
named below; a run is one instance of it.

### Daily trading

`TypeCorrect` (and `OrderTypes` for the orders): `Spec => []TypeOK`. One lemma per
outcome of a bar, one per action.

`CapitalSafety`: `Spec => []NoOverAllocation`, under `PricesFit`. The invariant
is inductive with `TypeOK` because it speaks of the working copies of all jobs too:
a push installs a copy that is affordable already, whichever checkout it came
from. The step that matters is a run, `RunIsAffordable`: what is held after the run is at
most what was locked plus what was bought. Entries kept from the ledger are
locked at their own cost (`HeldIsLocked`: an entry is either an open position or an
orphan, never neither), and the entries bought are at most `free \div MinChunk`
(`SelectedAtMost`), each at most an equal share of the free cash (`ShareFits`).
The hypothesis `PricesFit` is needed: `max(1, int(chunk / price))` buys a share that
costs more than its chunk. Nothing in the code excludes it; today's portfolios do.

`SafetyGate`: `Spec => []UntrustedRunOnlyCloses`. The invariant is restricted to jobs
whose checkout is current: a push that changes the file makes every other
checkout stale, one that does not change it leaves what the others compare with
(`SameContents`).

`OneBuy`: `Spec => []OneBuyPerTicker`. Rule 1 keeps no two signals in one ticker
(`DedupedKeeps`), rule 2 removes those in the ticker of a reported position, and a
run opens no position it did not announce (`OpenAfterRun`).

The other properties need a schedule, named in each theorem and defined in
`DailyTraderProofs` by the faults and the bound the runs give values to:

| Hypothesis | Assumes |
|---|---|
| `Scheduled` | no rerun on the same bars, no run on a part of the bars; a failed fetch only where jobs do not overlap; no missed day, or one if every strategy reports its exits on two days |
| `Delivered` | `Scheduled`, and nothing but a fetch fails |
| `OneAtATime` | one job, no rerun, its push goes through; fetches and digests may fail, bars be missed for any number of days, and still be forming |

`FundedAreReported`, `OneHolder`, `OwnTradeBooked`: `FundedTradesReported`, `OneHolderPerTicker`
and `ExitBookedAgainstOwnTrade` are invariants under `Scheduled`. They are consequences of one inductive
invariant, `SoundBooks`: every entry of a book, with the number of bars the book has not seen, is
for the position its strategy reports or for the trade it is still reporting as closed (`Follows`), no
two entries share a ticker, and this holds of the ledger and of each copy that may still
be pushed, an overtaken one included. A run turns a sound book with a new bar of every key into a sound one
(`RunIsSound`); a bar keeps it sound because an exit stays reported until a run has seen it, which is
where the bound on missed days enters. Without `Scheduled` each of them is
false: `misbooking` and `heldticker` are counterexamples.

`LedgerIsAccount`: `Spec => ImplementsAccount`, under `PricesFit` and `Scheduled`. Every push is a
trading day of `CapitalAccount`, every other step leaves its variables alone. `HeadBooks` says what a current
copy can be: what a run makes of the present ledger, or that ledger itself.
A key that closes and opens on one day does so for another trade because trade numbers grow (`TradesInOrder`).

`ReaderKnowsLedger`: `Spec => []ToldIsLedger`, under `Delivered`. Overlapping jobs of a day run on the same
bars and the same ledger, so whether none, some or all of them have sent and the first has pushed, the digests together
say what one of them says (`ToldBooks`, `DigestIsExact`).

`BuyOnce`: `Spec => []BuyAnnouncedOnce`, under `OneAtATime`: what was told is never younger than the last trade of its
key, and an entry of today that was told has been pushed or is about to be (`NewsInOrder`).

Two techniques recur here. `SumFunctionOnSet` is defined recursively through
functions; `SumTheorems` derives from that definition that sums exist, are unique,
split off an element, are monotone and are bounded by count times maximum.
Induction over sets is replaced by a minimal counterexample (`MinimalSubset`,
from the well-foundedness of strict inclusion); the existence of the deduplicated set and of the
sums is proved that way.

### Orders

`TrueEnds`, `ApprovedOnly`: `Spec => []EndsAreTrue` and `Spec => []LiveWasApproved`.
The invariant adds what makes delayed messages harmless: everything the broker has
said of an order, in a postback or a fetched book, still holds if it said the
order has ended (`Heard`), because ends are final at the broker. An order without
approval cannot leave the early states, whatever is heard of it (`LegalFacts`).

`SuccessIsSync`: an order with a broker id is missing, in sync, updated or refused,
and two of these make the report fail.

`Implements`: `Spec => ImplementsLifecycle`. A comparison may end several orders
in one step, which is why the abstract specification lets them end together.

`GapClosing`: `Spec => GapCloses`, under all faults. `GapInv` says that
while a comparison waits the ledger can only lag behind the fetched book; from every status that
lags there is a legal transition except from those `Stuck` names, and `StuckIsIllegal` shows that the
exceptions are real.

### Risk limits

`StayFlat`: `Spec => []RiskedRunsStayFlat`. One lemma per strategy says that its orders are market orders, without
a price, in the symbols it trades (`Market`). As long as the portfolio is `Untouched` the engine cannot value such an order, so it
objects (`Objects`), and the portfolio stays untouched.

`Limits`: `Spec => []WithinLimits`, for any strategy, the one that sends anything included. A buy
in a symbol not yet held long passed the check on open positions; a sale never opens
a long (`HeldAfterFill`).

Hypotheses: pairs have two legs (`TwoLegs`), and the symbols are finitely many.

### Beliefs and books of a run

`StaysInStep`: `Spec => []InStep`, for all eleven strategies, any bars and any configuration the constructors accept.
The inductive invariant is `Sound`. Its part `Agreed` extends `InStep` to the middle of a bar: the shares the
portfolio has and those the pending orders still buy or sell (`Due`) are what the strategy
believes in. A bar changes belief and pending orders by the same number of shares: one lemma per
strategy goes through the branches of its `on_bar` (`OrbTurn` to `LongSwanTurn`) and says which of three
things it did: nothing, close what it believed in, or open what it believes in now (`TurnFits`, `DealFits`,
`MoveFits`, `SwanMoves`); `IntradayQueue` to `SwanQueue` count the shares. A fill moves them from the orders to
the position (`FilledQuantity`), and an order that is refused or dropped makes its symbol `diverged`. Two strategies need more
than their types: RSI(2) must not leave a purchase for the next bar while it holds shares
(`LeftOver`), the long-only swan must have seen a price of the leg it buys (`LegsSeen`).
`DistinctLegs` assumes that the two legs of a spread are two symbols: no constructor checks it
(`pairs_trading.py:98`, `black_swan_pairs.py:67`), and a spread of a share with itself believes in a
position that cancels out.

`FlatAtSquareOff`: `Spec => []SquaredOff`. A strategy whose latest entry lies before its square-off believes itself
flat after any bar from the square-off on (`FlatByThen`); `Agreed` carries that to the portfolio.

`BooksAddUp`: `Spec => []BooksBalance`, also for a strategy that sends anything. `FillMoves` is the identity for one
fill: what it takes from the cash is what it adds to the cost, less the P&L it books, plus the fees that booked none, in each
of the cases of `apply_fill` (adding, reducing, closing, selling short, covering, turning around);
`SumsMove` carries it to the sums over all symbols. `EngineTypes`: `Spec => []TypeOK`.

`ReportIsRight`: `Spec => []ReportAgrees`, for any orders, rates, number of fills and finitely many symbols. The report and
the portfolio book a sale in two ways, the oldest purchases first from a queue nothing is taken out of, and the average
cost of what is held, rounded. The invariant, `Tallied`, says when that comes to the same: as long as each symbol was bought
at one price and no sale exceeded what was bought (`Plain`, the condition of the property over any
sequence of fills), every position is `Matched` by the fills: its quantity is the shares bought less those sold, it costs
that many times the price, and the queue books any number of shares it holds at that price too. `CostGrows`, `SharesGrow` and
`ReportGrows` say how what the report computes from a sequence of fills changes with one more, which is an
induction along the run instead of over the sequence; `PurchaseMatches` and `SaleMatches` are the two kinds of
fill, where the rounded average is exact (`OnePriceCost`). `GateMeansProfit`: whatever the fills,
a report that passes a gate on the profit factor of at least 1 has a P&L of at least 0. In particular a run without a
losing trade, whose factor is reported as 0, passes no such gate.

`OwnClose`: `Spec => FillsAtOwnClose`, if no strategy on two symbols is run (`Kinds \cap Ratio = {}`). It is the other side of
the run `ownclose`: the eight strategies on one symbol order only in the symbol of the bar, which is what the
broker prices their orders with (`AtBar`), and `ownclose` shows a second leg filled at the first leg's close.

### Live session

`Complete` and `Kept`: `Spec => []CandlesComplete` and `Spec => []NothingLost`, for any finite set of symbols, any
intervals, any number of ticks and signals, late ticks and a strategy that raises
included (`FiniteSymbols`: the symbols are finitely many, and `NoCandle` is no bar).
`TypeInv` holds however threads and signals race. Without a race only one
thread works (`TurnInv`), and the bars completed so far, given to the strategy or still waiting in the
thread that works, are one sequence, `Line`, which neither giving a bar nor taking one from the queue changes. The
candle invariant `CandleInv` speaks of that sequence, the open candles and the tick in flight:
no tick is in two of them, every folded tick is in one, and, for ticks in order,
a completed bar has all ticks of its interval and a later one of its symbol has been
folded, so that no further tick can fall into it. `TickArrives`, `TickFolds` and `CandlesFlush` prove
it for the three steps that move ticks, apart from the threads; the other lemmas place those
steps in the threads. The last handler finds the open candles cleared and its bars given, so that the
sequence is what the strategy has seen.

### Live pilot

`Authorised`, `OnePerPhrase`, `Records`: `OrdersAuthorised`, `OneOrderPerPhrase` and
`RecordsAgree` are invariants. What makes them inductive is where a process is: a script that is past the prompt has
its switch off and a phrase of its own (`Underway`), so its orders and the one on its way are
never more than the phrases; an executor that places has been through the step that records, with a logger or without
(`StageInv`). What `RecordsAgree` promises of records is for the script, which always has a logger; other orders of
the executor are unrecorded only if it has none.
`PreflightIsEnough`: what passed a preflight has a symbol and an order type, with which the guard lets one share pass.
`Final`: nothing but the end of the process changes a decision.

### Download

`OneRow`: `Spec => []OneRowPerStamp`. Whatever ranges overlap, the rows got so far have one
row for each stamp (`GotInv`), and merging adds no stamp a file has (`Merged`).
`RowsKept`: `Spec => RowsStay`: merging keeps rows (`SavedRows`), and the two steps in which a write does not finish
end the run or list the symbol as failed. `Accounts`: `Spec => []Accounted`, if no symbol is asked for twice
(`Distinct`); without that a symbol can be both downloaded and failed. Both assume that the marks `NoFile` and
`Torn` are not sets of rows (`MarksAreNoRows`).

`Covers`: `Spec => []CoversInnerDays`, for every range and every length of chunk. The chunks are computed with
a quotient; `InsideChunk` shows that a day which does not end a chunk has its midnight
and the next one inside the chunk of that quotient. `CoverInv` carries it through a run: what the
chunks asked for so far hold is in the rows got (`GotCovers`) as far as it had begun when the run did, and
what was downloaded, and is not among the failed, stays covered (`FilesCover`): a write that fails touches the file of the
symbol it lists as failed and no other (`FailCovers`). No list of symbols is excluded; of a symbol asked for
twice the second write may fail, and the theorem then promises nothing of its file.

### Portfolio backtests

`Conserved`, `Closes`, `Overdrawn`, `Release`: `Spec => []CapitalConserved`, `Spec => []SlotsClose`,
`Spec => OverdrawnByDearShare` and `Spec => BreakersRelease`, for any keys, moves, weekend sessions, splits, floors,
ranks and histories of trades. The only assumption is `BacktestAssumption`: amounts and prices are positive, and the
fixed chunk is not smaller than the floor (50,000 and 40,000 in the scripts); were it smaller, the mode "fixed" could
be overdrawn by a share dearer than its chunk but not than the floor.

The proof says once what a turn of any of the fifteen loops does, and shows that each of them is one. `Day` is a turn:
exits done, some slots kept with as many shares as before or as rebalancing has left (`Holding`), some bought, one for
each of the trades that enter today (`Purchase`), each in a symbol of its own where the script looks for duplicates
(`Apart`), the cash left before buying in balance with what is kept, the hedge and the gain. `Pays` adds that the
purchases fit the cash or that there is one of the reasons `OverdrawnByDearShare` lists. The lemmas `UndeduplicatedDay` to
`RebalanceIsDay` and `GoldIsDay` show `SomeDay` for the experiments; `DayKeeps` shows that a `Day` keeps the invariant.

The invariant, `IInv`, adds to the properties why they last. `Slots`: a slot is for a collected trade, whose entry lies before
every date still to come, so that nothing bought today is held already. `Exits`: the exit of a slot is still to be
visited, or a weekend session, or after the loop's last date, or the day of its entry; `LoopDatesFacts` shows it
for each way the scripts list their dates. `Books`: the accounts balance, and the peak is at least the equity, which is why
a locked breaker stays locked. `Counts`: taken and skipped are the trades whose entry day is over. `History`: a key enters at
most once a day (`CloseKeeps`), without which the order of a day's trades is not total.

The lemmas on amounts: `CostUnion` and `TrimmedFacts` for the cost of slots bought and of slots partly sold, `CostBound`
and `SharesFit` for equal shares of the cash, `InTurnPays` for rebalancing, where the signal bought last is paid with what
all others left. `BusinessDayType` shows that the end of a cooldown exists: weekend sessions run out.

## 6. Only model-checked

Liveness under fairness is beyond what TLAPS proves here: `CapitalRecycles`, `WaitEnds` and
`RequestsSettle` stay with TLC. Every other property of a run has a theorem; those of the three violated claims
(`ExitBookedAgainstOwnTrade`, `OneHolderPerTicker`, `FillsAtOwnClose`) name the hypothesis under which the claim holds.

## 7. Not modelled

- Status page: a read-only summary for display.
- Parameter searches (`sweep_*`, `validate_first_hour_*`, `validate_selected_first_hour.py`,
  `analyze_first_hour_momentum.py`) and the other analysis scripts: loops over parameters around the backtest engine, which is
  modelled, and tables of their results. They keep no state, and what they compute are statistics.
- Indicators and formulas: moving averages, RSI, ATR, z-scores, VWAP, drawdown, Sharpe ratio, equity curve, CAGR. Their
  outcomes are inputs of the models. Floating point: quantities, prices and money are integers.
- Daily trading: a ledger file that does not parse (read as empty); an exit signalled on a forming bar and withdrawn when the
  bar completes (entries are, `Retract`); the window of history that slides by a day; the digest's wording,
  unrealised P&L, the standalone runners' own digests.
- Orders: fills and recorded risk decisions in the order ledger (lists only
  the status page counts), positions in the reconciliation report (counted only), broker orders
  without an id (the broker gives every order one), exceptions of a refused broker update
  in the caller (there is none in this repository).
- Trading: the engine's product check (every order of the package passes it), the configuration files, the
  pacing of the paper feed. Stop orders raise in the broker; they are orders without a fill here.
- Live: malformed ticks, which the feed drops; reconnection inside the socket library; the
  queries of the broker adapter, thin wrappers of an HTTP API; terminal output.
- Download: the cache of instruments, the manifest's figures, retries inside the HTTP library, warnings about gaps.

## 8. What is left

In this order:

1. `DataDownload`, `LivePilot` and `LiveRunner`: what an abstract specification of each would
   promise, stated and shown to be implemented, as `CapitalAccount` is by `DailyTrader` and `OrderLifecycle` by `Reconciliation`.
2. A ledger file that does not parse, and exits on a bar that is still forming.
