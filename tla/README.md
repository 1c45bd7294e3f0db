# A formal model of the trading backend

TLA+ modules for the backend in `src/backend/app`, the TLC configurations that
check them on small instances, and TLAPS proofs of what matters most. Paths
below are relative to `src/backend/app` unless they begin with `docs/`.

`docs/architecture.md` describes the target: OMS, OCO brackets, watchdog, live
orders. None of those exist in the code. What exists, and what is modelled, is
the market data side (a streaming runner and a backfill that fill one candle
table) and the simulated trading side (a backtest and a paper replay that read
it back).

Contents: [inventory](#inventory) · [modules](#modules-and-how-they-correspond-to-the-code) ·
[runs](#runs) · [fairness](#fairness) · [proofs](#proofs) ·
[where the code departs from what it says](#where-the-code-departs-from-what-it-says) ·
[what is not modelled](#what-is-not-modelled) · [plan](#plan)

To check a run: `tlc -config <name>.cfg <module>`; a proof: `tlapm <module>.tla`.

## Inventory

```
  broker dump ──> Instrument master ──────────────┐ tokens
                     │ instrument table           │
  Kite WebSocket ─> Zerodha stream ─ events ─> Market data service ─> Candle engine
                                                  │ save_candles, save_ticks
  Kite REST ─ throttle ─ retries ─> Historical    v
                                    ingestion ─> candle table
                                                  │ pages
                                    Backtest data loader
                                    │                     │
                                    v                     v
             Backtest engine + Portfolio        Paper replay ─> Paper session
                    │        └── ORB strategy, ATR, AI filter ──┘     │ risk layer
                    ├────────── session calendar, fill resolvers, costs ────── Paper adapter
                    └─> trades ─> equity curve, metrics, result

  TradingView ─> webhook (several workers) ─> alert ledger   (nothing reads it yet)
```

| Component | State | Operations | What is hard | What makes it correct |
|---|---|---|---|---|
| Paper adapter (`adapters/paper/execution.py`) | orders, working id, position, pending flatten, last bar, cash, trades | `submit`, `cancel`, `flatten`, `on_bar` | any order of calls; `on_bar` raising between its entry and its exit stage | the order lifecycle of its port, one exposure at a time, every fill accounted for, cash agrees with the trade log, an entry executes on its bar or never, nothing is held past the cutoff |
| Fill resolvers, costs, ledger, book (`domain/backtest/execution.py`, `costs.py`, `cash.py`, `position.py`) | none, or immutable values | resolve an entry, stop, target, collision, hard exit; charge a leg | bars that gap, reach both levels, or have no trades | exact prices and charges, shared by both programs |
| Candle engine (`domain/market/candles.py`) | the open bar of each interval, volume baselines | `on_ticks`, `flush`, `close_all`, `reset` | clock-driven flushes between the ticks of one minute; late ticks; derived bars fed by minutes | each accepted tick in exactly one bar per interval, volumes add up |
| Market data service (`services/market_data_service.py`) | engine, validator, counters, stop event | `run`, its handlers, `_flush_loop`, `_finalise` | two tasks over one engine, repository calls that raise, shutdown | every accepted tick reaches the table, completed bars are final |
| Zerodha stream (`adapters/zerodha/provider.py`) | socket, tokens, connection state, attempts, moment of the loss | `stream`, `subscribe`, `unsubscribe`, `disconnect` | failures at every await, callers between awaits, a shared attempt counter | gaps are reported before ticks resume, every subscription is live, recovers or gives up in time and says why |
| Historical ingestion (`services/historical_ingestion.py`) | a run's cursor and report | `ingest` | several transactions per window, crashes, re-runs, a vendor that publishes late and corrects | stored history never changes, no wide bar without its minutes, a completed run misses nothing |
| Throttle and retries (`adapters/zerodha/pacing.py`) | the starts of recent requests | `acquire`, `with_retries` | several sleeping tasks, sleeps that end early | at most *n* starts in any period |
| Candle table (`infrastructure/repositories/market_data.py`) | rows | `save_candles`, `save_historical_candles`, `candles_page` | live service, backfill and reader in separate transactions | a row never changes its source; what is loaded is what is stored |
| Instrument master (`services/instrument_master.py`) | table, two lookup caches, stamp | load, refresh, resolve, look-ups | several processes, reissued tokens, a refresh between two reads | the table is one dump, fresh means recent, ticks go to the right contract |
| ORB strategy, indicators (`domain/strategy/orb.py`, `domain/indicators.py`) | none: decided again from the bars at every bar | `evaluate` | gaps, held or refused signals | at most one signal per direction and session |
| Risk layer (`domain/risk/sizing.py`, `domain/backtest/sizing.py`) | none | `size_position`, `fixed_notional_quantity` | three roundings | never more than cash, risk budget or notional |
| Paper session and replay, AI filter (`services/paper_session.py`, `paper_replay.py`, `ai_filter.py`) | the session's bars, the adapter | `on_bar`, the replay loop | missing bars, sessions that end early | no carry-over, gaps reported, AI can only subtract |
| Backtest engine (`domain/backtest/engine.py`, `portfolio.py`) | signal log, pending signal, held position | the loop over sessions and bars | the same | the same trades as the paper replay |
| Universe selection (`domain/backtest/universe.py`) | none | `parse_file_set`, `build_universe` | ties, renamed or doubly listed securities, missing evidence | the best are chosen, and a lost one is not replaced |
| Session calendar (`domain/market/session.py`) | holidays, special sessions, weekend days | `is_trading_day`, `session_bounds` | a weekend that trades, a trading day with no data | bars on a closed day are refused, every trading day is accounted for |
| Metrics and result (`domain/backtest/metrics.py`, `cash.py`, `result.py`) | none | `build_equity_curve`, `evaluate_performance` | undefined quotients, ties, a drawdown that never recovers | what is reported adds up to what the portfolio holds |
| Webhook and alert ledger (`api/webhooks.py`, `adapters/tradingview`, `infrastructure/repositories/alerts.py`) | accepted alerts | `receive_tradingview_alert`, `record_if_new` | repeated deliveries to several workers at once, a worker or database that dies between insert, commit and answer | accepted once, and a refused duplicate is on record |
| HTTP routes, dashboard, settings, frontend | | | | see [not modelled](#what-is-not-modelled) |

Interaction is by direct calls, except: stream to service is an asynchronous
iterator, flush task and event loop share the candle engine, and the runner,
the backfill and the backtest loader are processes that meet only in the
database (PostgreSQL, READ COMMITTED); webhook workers meet there as well, in a
table of their own.

## Modules and how they correspond to the code

Modules are parameterised by CONSTANTS with named assumptions; prices are whole
ticks, time is in minutes (or in the unit of the component), and an exception is
an action that keeps what was assigned before it and ends or continues exactly
as the code does. The `BUG_` operators are deliberately wrong variants of the
definition they precede; no specification uses them. Each is a change that must
break the property it was written against.

### Simulated trading

* **`Costs`**: `leg_charges`, with its components, its rounding to the paisa and
  the brokerage cap, in exact integers.
* **`Execution`**: the resolvers of `domain/backtest/execution.py` as operators:
  entry fill, stop touched/reference, target, same-bar collision resolved by minute
  bars when they are complete (pessimistic otherwise), hard exit. A fill carries
  its moment, `occurred_at`: a gapped exit happens at the bar's open, another at its end.
  `Priced` is what `Fill` and `leg_charges` refuse of it: near zero, slippage takes a sale to
  a price that is not positive, and building the fill raises (`EntryPriced`, `ExitPriced`). The code
  prices both levels before it chooses one (`LevelUnpriced`), and in a collision those of each
  minute it walks (`WalkUnpriced`). `ExitWalkRaises` collects every way the walk for an exit raises.
* **`CashLedger`**: `after_entry`, `after_exit`, `PositionBook.close`, and what
  `Trade.__post_init__` demands of a trade (`ValidTrade`).
* **`PaperExecution`**: the adapter. `Submit`, `Cancel`, `Flatten` are the port's
  operations. `on_bar` is one atomic call with four outcomes, one action each:
  `OnBarEntryRaises` (the entry's bar had no trades, or no positive price for the entry: the
  bar is consumed and the order keeps working), `OnBarExitRaises` (the exit stage raises after
  the entry has been filled, booked and paid), `OnBarHolds`, `OnBarCloses`. A call refused
  before it assigns anything is a stuttering step. `MinuteFeeds` lets the caller
  pass no minute bars, or some, or all.
* **`ExecutionPort`**: the order lifecycle drawn in `domain/execution/ports.py`,
  with the rule that orders are entries of one position at a time: per client id
  a status, whether a position is held, how many trades there are. No prices and
  no bars. `PaperExecution` implements it: `Port == INSTANCE ExecutionPort WITH ...`
  maps `status` to the record of a client id, `held` to `position # None` and
  `closed` to the length of the trade log.
* **`RiskSizing`**: `size_position` and `fixed_notional_quantity`; fractions are
  numerators over `Whole`.
* **`Indicators`**: `true_range`, Wilder's recurrence as an exact fraction (the
  code uses 28-digit decimals), and the bars each hypothesis takes its prior
  ATR over; `None` with fewer than period + 1 bars.
* **`OpeningRangeBreakout`**: `OrbStrategy.evaluate`, for the three hypothesis
  versions: opening range, breakout, the rejection filters, and
  `AlreadySignalled`, which the strategy derives from the prefix at each bar.
* **`MarketSession`**: `MarketSessionCalendar`: which days trade (a special
  session trades on a weekend, a holiday on no day) and when they open.
* **`PaperReplay`**: `PaperSession.on_bar` in front of an INSTANCE of
  `PaperExecution` (so the replay performs exactly that module's actions), and
  `replay_paper_session`: the expected-bar grid, missing bars, the cancellation
  at the end of a session, every way it raises.
* **`BacktestEngine`**: `run_backtest` with its `Portfolio`. One turn of the loop is
  `EngineFills` (what the bar executes) then `EngineDecides`. `EngineFinish` adds
  the `NO_DATA` rows and measures the run (`result`).
* **`PerformanceMetrics`**: `build_equity_curve` and `evaluate_performance`:
  curve, drawdown, counts, sums and means, with a quotient as the fraction
  it is and `None` where it has no value (R multiples and deviations are left out).
* **`ReplayParity`**: both programs over the same stored sessions. In reality
  they never meet; here each bar goes to both before the next one, so that
  their trades can be compared. `Loadable` and `ValidSession` are the checks of
  `load_backtest_input` and `BacktestInput`. The analyst is asked once and both
  gates get the answer; `Verdict` and `Takes` are the fail-closed consultation.

### Market data

* **`CandleEngine`**: ticks to minutes to wider bars for one instrument, as
  functions from an engine record (the open bar of each interval, the carried
  volume) to a new record and the bars it completed. `Widths` is a set: minutes go to
  each derived interval by itself, and nothing depends on their order. `FlushDue` says what
  a minute that falls due closes.
  Prices are abstracted to the sequence of ticks a bar is made of, which
  determines its OHLC, so "same ticks" is stronger than "same prices". A falling cumulative volume clamps the
  bar's increment at zero, as the code does.
* **`MarketDataService`**: the event loop, `_flush_loop`, `_finalise`, stop and
  restart. A handler between two awaits is one action; `Perils` selects what
  the environment may do in a run (late ticks, gaps, repository faults, stop,
  restart); a run covers several sets of perils, chosen in `Init`. The ticks of a message (`Handled`) are
  validated, then go through the engine, then are saved (`SaveCandles`): a
  fault at either save leaves the engine ahead of the table. `accepted` and `emitted`
  are history: what the engine took and what it completed since it was fresh.
* **`ZerodhaStream`**: `stream()` from one await to the next (`pc` names the
  await), with `subscribe`, `unsubscribe`, `disconnect` and the loss of the
  connection in between. **`FeedContract`** is what a consumer is promised:
  after a loss no tick is delivered before the gap has been reported.
  `ZerodhaStream` implements it (`KeepsContract`, an INSTANCE with a
  refinement mapping).
* **`CandleStore`**: rows, aggregation of whole slots, and the row-level
  rules of the two save methods. **`HistoricalIngestion`**: `ingest()`:
  fetch, retry, one read and one commit per interval and window, a crash
  anywhere outside a transaction, any number of runs, each with the clock's moment or any
  `GivenAsOf` (`--as-of`, which the code compares with no clock) as its `as_of`; the vendor
  publishes late, corrects, and serves the minute under way as `Forming`; `no_data_sessions` names the days of which nothing came. **`CandleTable`** adds the other users of the table: the live
  service's upsert (read, then update or insert, losing races on the unique
  constraint) and the loader's paged reads, each in its own transaction.
* **`RequestThrottle`**: tasks that share one `RequestThrottle`, sleep outside
  its lock and may wake `Early`.
* **`InstrumentMaster`**: several runners over one instrument table: load (two
  transactions, the first of which reads at most `limit` rows, 100 000 in the code), stale check, refresh (the dump is retrieved, then the DELETE of the replacing
  transaction is sent, then it inserts and commits), resolution of the
  universe, token look-up. A concurrent DELETE follows PostgreSQL's READ
  COMMITTED: it removes the rows it saw at its start, and the following inserts
  meet the unique constraint. Three history variables say what a property needs to know:
  `overtaken` (a replacement fell between the two reads of a runner's load), `outside` (entries a
  runner found in the table only) and `since` (the ages of the masters others stored since it
  read or stored its own).
* **`GvsUniverse`**: `parse_file_set`'s checks and `build_universe`; symbols
  are numbers in sort order.

### Alerts

* **`AlertLedger`**: API workers over one database. `Receive` is the handler up to
  the ledger, `Insert`, `RefuseDuplicate`, `Commit` and `Accept` are
  `record_if_new` and the answer; the insert waits for an uncommitted one of the
  same event, as the unique constraint makes it. `DatabaseFails` is any other
  error, after which a commit may have happened or not; `Crash` and `Restart`
  are of a worker. A request is the outcome of each check on it.

`MC*` modules only define the values of constants.

## Runs

| Run | Question | States | Bounds, and why they are enough |
|---|---|---|---|
| `paper_execution` | Do orders, position, cash and trades stay consistent, and within the port's lifecycle, under any order of calls, with `on_bar` raising half way? | 310 k | 3 ids, 4 signals (long, short, one that waits, one for another instrument), 5 bar starts on two days, 5 shapes of bar: quiet, gapped through the stop, both levels, no trades, and opening one slippage above zero, where a short's entry and a long's stop have no positive price and a long is entered at its own stop. A second id is enough for a second round trip; a second day for carrying over. |
| `live_pipeline` | Does every tick reach one bar, and the table, whatever happens around it? | 144 k | 3 minutes, bars of 1 and 2 minutes, 3 ticks in batches of 1 or 2, with volume or without: a bar boundary, a slot with a missing minute, a tick on either side. Four environments: stops only; gaps and faults; the same with late ticks; stop and restart. A property that holds only of some of them names the perils it excludes. |
| `live_lost_flusher` (violation) | Does an ended run leave nothing open? | | see below |
| `stream_lifecycle` | Contract, subscriptions, giving up, recovery. | 111 k | 2 tokens; retry policies unlimited, 1 and 2 (the first and the second failure exhaust them). Attempts saturate at 3, one beyond every limit, which no comparison tells apart. |
| `stream_silent_end` (violation) | Does the stream ever end without saying why? | | see below |
| `backfill` | Are stored bars frozen, complete and accounted for over crashes and re-runs? | 0.81 M | 4 minutes in 2 windows, days of 3 minutes, bars of 1 and 2, 2 attempts, 2 runs that begin with the clock at 3 or 4, told nothing, or an `--as-of` of 2 or 4 (past, present, future); a vendor that publishes minute 1 late and corrects minute 0: a run can die, be repeated and meet both kinds of change. |
| `candle_table` | What does a loader see while a backfill writes, and who owns a row the live service writes too? | 4.9 M | The backfill of the run above, without retries and with an `--as-of` of 4 or none, beside either a loader with page size 1 (every row is a page boundary) or a live service saving one bar of each interval; the two never touch the same thing, so they are alternatives. |
| `request_throttle` | Can any period hold more than *n* starts? | 104 k | 3 tasks, limit 2, period 3, sleeps up to 1 early, clock to 9 (three periods), 5 starts. |
| `replay_parity` | Do paper and backtest make the same trades, is every gap reported, does the result measure the run? | 1.14 M | 4 days: a session of 5 bars, or one that begins before the open; a weekend day, with nothing or with bars that must be refused; a trading day of which nothing is stored; a special session of 4 bars on a weekend. Any bar may be missing, break out or reach both levels, with minutes in either order; the last may have no trades or crash to prices at which no exit can be filled; three hypothesis versions; six warm-ups of which each version accepts some; one session off the grid, which cannot be loaded. The second session is what can be contaminated by the first, and gives runs of three and more trades, whose drawdown may recover. |
| `universe` | Is membership by turnover only? | 97 k | 4 securities, 2 slots, 1 of which may stay open; ties, a rename onto a free and onto a taken symbol, double and non-conforming listings, every evidence, then one security's evidence changed. |
| `instrument_master` | Is the table one dump, fresh recent, attribution right? | 1.82 M | 2 runners, 3 symbols, 3 tokens, 5 dumps (a contract; its token reissued; both contracts, under one token and under two; a symbol twice), the two with both larger than the `limit` of 2 of a load; clock to 2 with a maximal age of 1, so that a master can be fresh, at the limit and stale. |
| `alert_ledger` | Is an alert accepted once, and never lost to a refusal? | 0.41 M | 3 workers, so that two can wait for a third; 3 deliveries that pass the checks, of 2 events; 7 requests, one failing each check, one stale and one too early at first; a paper and a live environment. |

The passing runs check these properties:

* **Paper adapter.** `ImplementsExecutionPort`: whatever the calls, each order
  goes through the lifecycle of the port and no other way. `OneExposure`: no call
  sequence leaves an accepted order nobody works, or an entry beside a
  position. `NoStaleEntry`: an entry order outlives its bar only if that bar had
  no trades or no positive price for the entry. `EveryFillAccountedFor`: each fill is the entry
  of the held position or of exactly one trade, and was returned to a caller unless `on_bar`
  raised on its bar: an entry at its own stop, or an exit with no positive price.
  `CashReconciles`; `RoundTripsDoNotOverlap` (bars and moments of fills);
  `HeldPastCutoff`: a position is held past the cutoff of its session only if the bar at the
  cutoff had no trades or no positive price for the exit, the entry was at its own stop, or the
  session had no such bar.
* **Live data.** `EveryTickInOneBar`, `VolumesAddUp`, and under the perils each
  names, `StoredBarsAgree`, `CompletedBarsAreFinal` and the liveness property
  `EveryTickIsStored`.
* **Stream.** `EverySubscriptionIsLive`: while a live connection is read, the
  broker streams every subscribed token (and perhaps more, see below).
  `GivesUpInTime`: never more attempts than the policy allows.
  `EndedStreamExplains`: a stream that nobody stopped names the reason in its
  last event. `KeepsContract`: refinement of `FeedContract`. `Recovers`
  (liveness): with an unlimited policy a lost connection is restored.
* **History.** `HistoryIsFrozen`; `StoredBarsAreWhole`: no bar is stored whose minutes are not,
  nor with a minute that was still forming, unless an `--as-of` after that minute was given before
  it was over; `ReportAccountsForEveryBar` (exactly one verdict per bar of a stored window);
  `CompletedRunMissesNothing`: every minute that was over by the run's `as_of` and that the vendor
  had when it began is stored, with the wider bars they make, and no day of theirs is called empty; `RunEnds` (liveness); `LoadedIsWhatIsStored`,
  `NeverUncovered` (a load beside a backfill is never refused for want of
  minutes, because signal bars are read first and written last),
  `SourceIsPermanent`; `AtMostMaxPerPeriod`.
* **Parity.** `SameTradesAsBacktest` (up to size and what follows from size: the two size by different rules by design),
  `OneOrderPerDirection`, `FlatBetweenSessions`, `GapsAreReported` (bars within a
  session, and days: each is traded, untradable or `NO_DATA`, once).
  `ResultMeasuresTheRun`: the curve ends at what the portfolio holds, the drawdown
  is the largest fall between any two points in order, and trades, sides and
  charges add up to the change in equity.
* **Universe.** `BestAreChosen` (every slot is filled or open for a presumed
  member, and a selected security trades strictly more than one left out), `NeverReplaced` (losing a member's data opens its
  slot and promotes nobody), `MoreTurnoverNeverHurts`.
* **Instrument master.** `FreshMeansRecent`: a runner past its load that takes its master for
  fresh has nothing in it older than the limit, or its load was overtaken by a replacement and
  then a master no older than the limit was stored in between. `StoredMasterIsOneDump`.
  `TicksCarryTheirSymbol`: a tick goes to another symbol than its token was subscribed for only
  if one dump has the token under both, or if the entry was missing from the runner's own master
  and it, or the holder of its token, comes from a master another runner has stored since. Neither
  property excuses an interleaving outright: each says what must have happened for the code to be wrong.
* **Alerts.** `AcceptedOnce`, `DuplicateIsOnRecord`, and `EveryRequestEnds`
  (liveness): however many workers wait for one another's transactions.

Deadlock is checked where the model never legitimately stops (`replay_parity`
has an explicit `Finished`, in `instrument_master` and `alert_ledger` there is
always a next step). The
other systems do stop: the clock or the number of calls is bounded, or the
process has ended.

## Fairness

Only the runs with liveness properties assume any, and only of what the
scheduler must do.

* `MarketDataService.Fairness`: time passes, `asyncio.sleep` in the flush loop
  ends, and a `finally` block is executed. Nothing is assumed of ticks, so
  `EveryTickIsStored` holds although the market falls silent.
* `ZerodhaStream`: weak fairness of `Internal`: the consumer keeps iterating and
  every await ends. Strong fairness of `AuthenticateOk` and `OpenOk`: a session
  check or handshake that is tried again and again is sometimes answered. The
  latter is an assumption about the network, not about the code; a connection
  may still be lost at any time.
* `HistoricalIngestion`: weak fairness of `Work`, the steps of a running `ingest`. Nothing is assumed
  of the requests: `RunEnds` holds because attempts are bounded.
* `AlertLedger.FairSpec`: weak fairness of `Handle(w)` for each worker: a process
  that is alive goes on with its request. Nothing is assumed of crashes, restarts or deliveries.

## Proofs

`tlapm` proves these for every value of the constants that satisfies the named assumptions of
the modules. Most of these are types of constants, null values distinct from the values they stand
beside, and finiteness of what is stored. The others carry weight:

| Assumption | Says | Because |
|---|---|---|
| `GridAssumption` | bars of the paper adapter lie on one grid | `BacktestInput` requires it (`domain/backtest/input.py:251`) |
| `IngestionAssumption` | minutes come first; windows and ranges are multiples of every width | `plan_windows` makes them so |
| `TableAssumption` | a live bar begins at a multiple of its width | `bucket_start` |
| `EngineAssumption` | a derived interval is longer than a minute | `_derived` leaves `M1` out (`domain/market/candles.py:71`) |
| `ParityAssumption` | a stored bar is of its session and its four prices are positive | bars are grouped by their date; the parser of historical rows refuses others and the loader refuses other rows (`adapters/zerodha/historical.py:114`, `services/backtest_data.py:131`) |
| `AlignmentAssumption` | a day and the open are multiples of the signal interval | intervals are 1, 5 and 15 minutes, the open is 9:15 |
| `ExchangeAssumption` | two usable dumps share a symbol | an index is in both |

* **`PaperExecutionProofs`**: `TypeCorrect`, `OneExposureAtATime`. That every fill of the adapter
  has a positive price and quantity, as `Fill` demands, is part of the type: an exit that does not
  raise is priced (`ExitIsPriced`), and one at no positive price never becomes a fill. Neither part
  of `CoreInv` is inductive alone: that the working id names
  an accepted record needs its type, and that an entry stage leaves one exposure
  needs both others. Lemmas type each resolver
  and charge; one lemma per operation shows that it preserves `CoreInv`.
  `PortImplemented` is the refinement of `ExecutionPort`: under `CoreInv`, each
  operation is one step of the port or a stutter, one lemma per operation.
  `CashAlwaysReconciles` strengthens `CashReconciles` with `Matches(position)`
  (the held entry has its intent's quantity and side); `RoundTripCash` and
  `SettledSum` are the arithmetic of a round trip.
  `EntriesAreNeverStale` (`NoStaleEntry`) is inductive with `CoreInv`.
  `RoundTripsAreOrdered` and `CutoffIsKept` follow from `TimeInv`: what is held was
  entered at the open of the bar after its signal, a trade lies within its bars,
  and, by the grid, an exit at the close of a bar is not after the open of any
  later one. `FillsAreAccountedFor` needs `RoundTripsDoNotOverlap`: entries on
  different bars are different fills, so no two trades share one.
  `ClosingNeverRaises`: constructing a `Trade` could raise in the middle of `on_bar`, after the
  entry stage has taken effect, and no action of the model does so. The theorem is why: every
  trade passes the checks of `Trade.__post_init__` (`ValidTrade`), by `Matches`, `EnteredOn` and
  that what is held was entered by an entry fill.
* **`MarketDataProofs`**: the live service, for any derived intervals, messages and perils.
  `TicksAreKept` (`EveryTickInOneBar`) and `VolumesAreKept` (`VolumesAddUp`) from `BookInv`: for
  each interval, the ticks of what was completed followed by those still open (an
  interval's own bar, then the minute not yet merged into it) are the ticks
  accepted, in order, and the volumes with them. Neither property is inductive: a
  minute moves from the engine's open bar into the wide ones, which only the sum
  over both tells. `TicksOf` and `VolumeOf` are recursive functions; their laws (`ThenAssociates`
  and its kin) come from the recursion by well-founded
  minima. `StoredBarsAreFinal` and `WideBarsAreSums` need `TableInv`:
  while ticks come in their minute and one process writes (`Steady`), a
  slot the engine still has open is not in the table (`Free`) and a stored slot
  has elapsed; in a calm run what is stored or open of a wide bar is the sum of the
  stored minutes (`Agree`).
* **`ZerodhaStreamProofs`**: `SubscriptionsAreLive` from `StreamInv`: during the
  sends, what is not yet streamed is about to be sent (`NoTokenForgotten`), and
  once a connection has been reported no gap is owed (`NothingOwed`), which the
  safety property alone does not say of the awaits before `receive`. `KeepsTheContract` is the refinement
  of `FeedContract`, one step lemma over the same invariant. `PolicyIsKept`
  (`GivesUpInTime`) adds `AttemptsLeft`: while connecting, an attempt is left.
  `EndingsAreExplained` (`EndedStreamExplains`) adds `RefusalAnnounced`: a refused
  authentication has been announced before the stream looks at it and ends.
* **`HistoryProofs`**: throttle, backfill, then the table with all its users.
  `RateIsLimited` from `ThrottleInv`: the deque is a suffix of the full history of
  starts and what was dropped from it is older than a period.
  `TypeCorrect`, `StoredBarsAreOfPublishedMinutes`
  (`StoredBarsAreWhole`) and `StoredBarsNeverChange` from `IngestInv`: a row the open transaction has
  read is still there (`KnownIsStored`), after the first save of a window its
  minutes are stored (`MinutesComeFirst`), a minute at hand that was still forming, and any still
  to come before this run's `as_of`, was foretold (`FormingWasForetold`), and slots stay within the range (`SlotsFit`). Without `MinutesComeFirst` a commit of a wide bar could not be
  shown to cover it. `NothingIsMissed` (`CompletedRunMissesNothing`) adds `RunInv`: what was
  on offer when the run began still is, a fetched window holds all of it, and all
  intervals are complete behind the cursor. Windows that end between bars of
  every width (`CursorAligned`, arithmetic in `AlignedSum`, `AlignedGap`) are what
  keeps a bar from falling between two of them. `EveryBarIsReportedOnce`
  (`ReportAccountsForEveryBar`) adds `ReportInv`: no bar ahead of the cursor has a
  verdict, so a commit cannot give a second one.
  `SourcesNeverChange` (`SourceIsPermanent`) holds beside the live service too.
  `LoadsAreCovered` (`NeverUncovered`) and `LoadsStayTrue` (`LoadedIsWhatIsStored`) take `IngestInv`
  through the composition and add `LoadInv`: every page has left nothing out
  below the cursor (`MinutesRead`), and what was read stands in the table (`ReadAsStored`).
  They hold of a loader beside a backfill, not beside the live
  service, whose upsert does change rows: one behaviour of `CandleTable` has one of the two.
* **`ReplayProofs`**: sizing, strategy, paper replay and backtest.
  `ApprovedSizeIsWithinEveryLimit`: an approved quantity
  is within cash, risk budget, notional limit and minimum, for all prices and
  balances. `DivisionRoundsDown` and `WithinQuotient` carry the roundings.
  The theorems of the replay rest on `ReplayInv`: where the input is (`InData`), what the
  adapter is between two bars (`AdapterInv`: the session has the bars read, an entry
  works only on the bar after its signal, what is held was entered today and could
  not be left yet) and that each order is of a signal that the bars of its session still
  show (`OrdersInv`). `DirectionsSignalOnce` (`OneOrderPerDirection`) follows from the last part:
  the strategy has no memory, and a second order of a direction would be of a bar with an
  earlier one that fired; more bars change no verdict on that one (`FiredIsKept`),
  since the range is complete by then. `NothingIsHeldOvernight` (`FlatBetweenSessions`) adds
  `EngineInv`, what the backtest awaits, holds and has closed, in order.
  `NoGapGoesUnreported` (`GapsAreReported`) adds `GapInv` (the grid up to the last bar)
  and `LogInv` (one record per session, at its end or at its start).
  `PaperTradesAsTheBacktest` (`SameTradesAsBacktest`) adds `ParityInv`: while both run,
  their trades, positions and awaited entries match but for size (`Matched`), or the
  comparison is settled for good (`Settled`). The lemma per action shows that what
  makes one of them raise makes the other raise (`BothRaise`), that both enter on the same bar
  (`BothEnter`, because an entry still working is due on the next bar at hand), and
  that a size moves no exit (`SameExitKind`, `SameTradeMade`).
  `RunsAreMeasured` (`ResultMeasuresTheRun`), for any number of trades: the portfolio is moved
  fill by fill and the curve is built afterwards from the trades, and what ties them is
  `CashInv`: cash is the capital, what the trades have netted and what entering the held
  position cost, since each trade is paid for by its two fills (`PaidFor`) and begins after the
  one before it. `MeasuredInv` says of which trades a result is. What the
  recursive functions of `PerformanceMetrics` yield follows from their recursion
  (`RecursionExists`), by the least natural where a claim fails (`InductionUpto`):
  `LedgersAreBalances`, `TotalIsSum`, and `WorstFallFound`, whose invariant `FallInv` is
  that after *n* points the peak is their highest and no fall among them exceeds the worst.
  `BacktestTradesAreValid` says of the backtest what `ClosingNeverRaises` says of the adapter.
* **`GvsUniverseProofs`**: `TheBestAreChosen`, `NobodyIsReplaced`,
  `TurnoverNeverHurts`, for any shortlist and evidence. `Before` orders any two
  securities, so ranks are an injection into 1 .. *n* and each is taken once: the
  selected are those down to one rank (`CutoffSeparates`); taking one away
  moves the others by one rank at most (`LossMovesOneRank`), and more turnover never
  lowers a rank (`MoreValueRanksNoLower`). The invariant `BuiltFromEvidence` says that the
  universe is the function of the evidence at hand.
* **`InstrumentMasterProofs`**: `MasterIsNeverMixed` (`StoredMasterIsOneDump`): what a refresh
  stores is a whole usable dump (`FetchedIsADump`), and a transaction that another one
  overtook meets a symbol already there. `FreshIsRecent` and `TicksAreAttributed` from `CacheInv`:
  the stamp is the age of what was loaded, or, if a commit came between the two transactions of
  the load, of a master stored since (`StampIsTrue`); any two instruments a runner can see, in its
  caches, its subscriptions or the table, come from one dump unless one of them was stored since by
  another runner (`OneMaster`, over `Seen`); and an entry of its own master is known to the token cache from
  that same dump (`TokenKnown`). `Passed` is what a step of another runner may do to all three.
* **`AlertLedgerProofs`**: `LedgerIsConsistent`, `NoneAcceptedTwice`,
  `NoAlertIsLost`, for any number of workers, deliveries, crashes and failures.
  The invariant `Ledgered` says what neither property does: a delivery is of one
  worker at a time, an uncommitted row is alone of its event and conflicts with no
  committed one, and a row whose worker is past its commit is on record.

The inductive invariants that strengthen a property, and the two invariants about `ValidTrade`,
were first checked by TLC on the run of their module.

Every invariant and every action property that a run checks is proved. Model-checked only are the
liveness properties `EveryTickIsStored`, `Recovers`, `RunEnds` and `EveryRequestEnds`: fairness and
`ENABLED` are out of the prover's reach. The proofs about the replay take the prior ATR as it comes,
whatever it is; what Wilder's recurrence computes is not proved.

## Where the code departs from what it says

Two are checked as violations:

* `live_lost_flusher`: a repository error kills the flush task silently. At
  shutdown `run`'s `finally` awaits the dead task, which raises again, so
  `_finalise` is skipped and the open bars are lost, against "Close any remaining
  bars so the last minute of a session is not lost".
* `stream_silent_end`: the resubscription is awaited outside both `try` blocks.
  A connection that dies during it makes `stream()` raise with no event, against
  "It never terminates silently".

The others are behaviours of the models, excepted by name in a property or
left without one:

* **An entry at its own stop.** `on_bar` books an entry whose slipped fill
  equals its stop; `resolve_target_fill` then raises at every later bar, so
  neither stop nor hard exit can close the position, only `flatten`.
  `domain/backtest/execution.py:414` says such a trade "should never have been
  opened". `HeldPastCutoff` excepts it (`Risk = 0`). The backtest raises in
  the same place, which `SameTradesAsBacktest` relies on.
* **A price at or below the slippage.** A fill whose slipped price is not positive cannot be built
  (`domain/backtest/models.py:148`, `costs.py:111`), and `on_bar` raises in the middle. On the entry's bar the bar
  is consumed and the order goes on working on it, to expire on the next; in the exit stage the entry stays
  booked and a position is held, past the cutoff if it was the cutoff's bar. Both levels are priced
  before one is chosen, so a target that cannot be filled keeps a stop that can from closing
  the position. `NoStaleEntry`, `EveryFillAccountedFor` and `HeldPastCutoff` except exactly these bars
  (`EntryPriced`, `LeftUnpriced`, `LastBarUnpriced`).
* **`--as-of`** is never compared with the clock (`runtime/historical_backfill.py:190`,
  `adapters/zerodha/historical.py:190`). With one in the future the minute still under way, which
  the help text calls unfinished only if it ends after `--as-of`, is stored as COMPLETED, and stays
  what it was at that moment: a later run finds it conflicting. With one in the past a run "completes"
  without later minutes the vendor has, and `no_data_sessions` names a day whose
  minutes are all later. `StoredBarsAreWhole` and `CompletedRunMissesNothing` are stated in terms of `as_of`.
* **A late tick** reopens a minute that was flushed, and `save_candles`
  overwrites the stored row, against "a COMPLETED bar never changes again"
  (`domain/market/models.py:245`). `CompletedBarsAreFinal` is checked for
  punctual ticks.
* **A silent market.** `stop` (SIGTERM) is seen by `run` after the next event: while nothing
  arrives the process neither stops nor stores its open minute. Stopped and started again within one
  minute, it completes that minute twice, and the second, of the later ticks only, replaces the first.
* **A short gap.** The gap ends before the subscriptions are sent again; the
  time of the sends is in no gap.
* **`disconnect()` while a handshake is awaited** is overtaken by the socket
  that then opens. A token unsubscribed while a resubscription is under way is
  sent again.
* **Missing opening bar.** The backtest skips the session
  (`UNTRADABLE_NO_OPENING_RANGE`); the replay raises `IndicatorError` and ends,
  although its docstring says missing bars are "reported … and never filled in".
  `SameTradesAsBacktest` excepts it (`no_range`).
* **A bar from before the open** lies on the grid and passes the checks of the loader. The backtest
  leaves it out of the opening range and goes on; the replay raises `PaperReplayError`.
  `SameTradesAsBacktest` excepts it (`off_grid`).
* **Empty days.** `NO_DATA` rows cover the trading days between the first and the
  last day with bars; `engine.py:43` and `result.py:56` say every calendar trading day of the run
  gets a record. An empty first or last day of the window is only in the loader's
  `sessions_without_data`. `GapsAreReported` is stated for the days covered.
* **Identical returns.** `metrics.py:10` says a run with identical returns has no
  Sharpe. Two returns equal as fractions (2250000 to 2265000 to 2280100) may differ in the 28th
  digit, and the deviation is then about 1E-30 instead of zero. The models stop before the deviation.
* **A correction after a crash.** Wide bars are built from the minutes just
  fetched, even if the table refused some of them as conflicting; the two
  series can then disagree for good. `load_backtest_input` refuses the range.
* **Ingestion.** A minute the backfill and the live service insert at the same
  time raises `IntegrityError` out of `ingest`; a live upsert revises a row of
  its own source at any time; `no_data_sessions` may name a day of which a
  failed run fetched only a part; pages are read in separate transactions.
* **Documentation.** The repository's `README.md` (lines 9, 326, 395) says there is no
  TradingView webhook; there is one, and `AlertLedger` models it. An alert whose
  commit is answered with an error, or not at all, is on record: its repetition is a 409
  although no delivery of it was ever accepted. `DuplicateIsOnRecord` says exactly this much.
* **Instrument master.** A replacement between the two transactions of a load pairs an old cache
  with the stamp of the new master: the runner takes an old master for fresh until that stamp is
  stale, too. `FreshMeansRecent` allows it this long. An entry missing from a runner's own master is looked
  up in the table, which another runner may have replaced since: its token can be one that the
  runner's cache still holds under the old contract, and its ticks then go to that one, against "a
  token can be reissued to a different contract". `TicksCarryTheirSymbol` allows this only with such a
  master. Two refreshes may commit in the opposite order of their retrievals, so that an entry looked up later is
  older than the stamp: what is looked up is no part of `MasterOf`. A load reads at most 100 000
  instruments, in no order, and says nothing of the rest, which are then found in the table one by one.
  Of two simultaneous refreshes the second
  ends in an `IntegrityError` that `_refresh_instruments` does not catch, against
  "a cached master is still better than no market data at all". Duplicate tokens
  in a dump are reported and accepted; a tick then goes to the last of them, or the look-up in the table raises.

## What is not modelled

* Reads without a state of their own: the dashboard, HTTP routes and health
  reports, settings, logging, the frontend. Migrations and deployment. The Kite binary
  parser (bytes to ticks) and the replay market data provider, which feeds
  recorded ticks to the service in place of the stream.
* Inside modelled components: JSON, CSV and frame parsing; fingerprints;
  which rejection code a refusal carries; the market data service's quality counters; `connect()`,
  which nothing calls; one-exchange refreshes of the master; R multiples, standard deviations,
  Sharpe and t statistics; the state of the market at a moment; time zones.
* Abstractions to know when reading a result: one instrument per engine and
  per replay; the ATR is an exact fraction; the two programs get the same
  answer from the analyst; an instrument is tradable; usable dumps of the
  master share at least one symbol (an index), which is what makes concurrent
  replacements collide; in `replay_parity` minutes matter, and are given, only
  under bars that reach both levels.

## Plan

Done: paper adapter, its port and its proofs; live pipeline; stream and
contract; ingestion and table; throttle; strategy, sizing, calendar, both programs, their
parity and the measured result; universe; instrument master; alert ledger.

Left:

1. The binary parser as a decoder over packets of bounded length.
