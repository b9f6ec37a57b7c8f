# TLA+ models of SmartMoney Protocol Monitor

The repository is a monitor-only Python service with two lives. `python -m app.main` is a
long-running **monitor**: a websocket consumer that asks strategies for signals, keeps the
triggered ones as paper trades in a database and resolves them against later candles.
`python -m app.main scheduled-report` is a short-lived **reporter** started by cron: it analyses
every symbol of a watch list and sends what it finds to chat channels. The two share the database.
This directory holds TLA+ modules of the parts that have behaviour over time, the TLC
configurations that check them, and proofs for TLAPS.

## 1. The system

| Component | State it keeps | Operations | What makes it correct |
|---|---|---|---|
| paper-trade lifecycle `signals/lifecycle.py` | the open L3 rows of table `signals` | `on_closed_kline` | a row has one final result, the one the candles after its creation justify |
| monitor loop `main.py:38-121` | position in the loop; everything else is in the database or in the strategies | `consume`, start-up | outcomes, strategy states and rows agree after any crash |
| strategies `strategies/base.py`, `eth_*.py` | `StrategyState`: state, time of entry, levels, last signal | `on_market_update`, `on_signal_resolved` | one trade at a time, always released again |
| signal router and portfolio policy `signals/router.py`, `risk/` | cooldown times (memory), rows | `route`, `assess` | open risk within the cluster cap |
| portfolio risk state `storage/repositories.py:166-206` | none (recomputed) | `get_portfolio_risk_state` | halts and throttles follow the outcomes |
| candle feed `connectors/`, `market/` | queue, kline cache | `run`, `publish`, `append` | what the strategies see is what closed |
| report schedule `review/report_schedule.py`, `market/xnys_calendar.py` | none | `evaluate_report_schedule` | each slot runs, once, on trading days |
| report sender `review/reporter.py` | table `notifications`, counters of a run | `send` | an opportunity reaches each channel once; a run never goes unheard |
| LLM report stream `review/llm_protocol_report.py`, `llm_decision.py` | none | one part per symbol | a part for every symbol; only valid contracts are trades |
| market data of a report `review/protocol_analysis.py` | none | one provider after the other | the series of a symbol are from one provider, and of bars that are over |
| backtest engine `backtest/engine.py`, `orb.py` | held trade, equity curve | `run_event_backtest`, `build_orb_intents` | no look-ahead, no exit better than the market, every trade booked once |
| historical archives `backtest/binance_archive.py` | archives, checksums and REST pages on disk | `download`, `load_*_range` | a checked archive is whole; a range is complete or says it is not |
| research rules `strategies/crypto_micro_rules.py`, `equity_orb_retest.py`, `indicators/structure.py` | none | `evaluate_*`, `detect_market_structure` | an answer uses what was known at its time only |
| other indicators, snapshot formatting, HTTP adapters, configuration | none | formulas and I/O | unit tests of the repository |

How they interact: the connector puts closed candles on the bus; one consumer takes them in turn.
For a 1m or 5m candle it first calls the lifecycle manager, which commits one row at a time and
returns the ids it closed; each strategy is told of each id (`main.py:76-79`). Then each strategy
answers the candle with signals; each signal is routed, which commits a row, and after that the
strategy's state is committed (`main.py:110-114`). Nothing spans two of these commits, and nothing
catches an exception in between, so a crash can fall between any two of them; the restart reads
`strategy_states` only (`main.py:57-66`).

The hard behaviours are listed, each at its line, under `hazards` in `PROJECT.json`. In short:
commits that belong together and are not one transaction; two clocks (the candle's close and
`utcnow`) that time-stop the same trade; candles of two lengths over the same minutes; candles lost
while the connection is down; caps and locks at their boundaries; messages sent but not recorded.

The configuration at this commit disables the three `eth_*` strategies (`enabled: false`,
`loader.py:27`) and watches 1h, 4h and 1d candles. The models take the code as it runs when they are
enabled with the 1m/5m intervals they need, which is what `README.md` describes and the tests exercise.

## 2. The modules

| Module | Models | Reads |
|---|---|---|
| `LifecycleRules` | how one row moves on one candle: `Verdict`, `Apply` | `lifecycle.py:29-83` |
| `PaperTrade` | abstract: what a ledger of paper trades promises | |
| `SignalLifecycle` | rows against a path of prices, candles of several lengths, loss and crash; refines `PaperTrade` | `lifecycle.py`, `repositories.py:96-164` |
| `StrategyRules` | state, time stop, entry lock, and everything a strategy may answer | `strategies/base.py`, `eth_*.py` |
| `PortfolioRules` | the size the portfolio policy allows | `risk/portfolio.py` |
| `Monitor` | the consumer with database, memory, crash and restart | `main.py:38-121`, `router.py`, `repositories.py` |
| `MonitorInvariant` | the inductive invariant of `Monitor` | |
| `LiveStrategy` | what the three live strategies share, and that they keep to `StrategyRules` | `strategies/base.py` |
| `PullbackFailShort`, `LiquiditySweepLong`, `StandAboveLevel` | their conditions, levels and stops | `eth_cm2_*`, `eth_cm3_*`, `eth_stand_*`, `dynamic_levels.py` |
| `Strategies` | the three as `main.py` asks them, each with a state of its own | `main.py` |
| `RiskBudget` | outcomes that feed the sizes of later trades | `repositories.py:166-206`, `risk/portfolio.py` |
| `Reporter` | runs that send what they found, with failures and crashes | `reporter.py:135-286`, `main.py:124-148` |
| `ReporterInvariant` | the inductive invariant of `Reporter` | |
| `XnysCalendar` | holidays and early closes of the exchange | `xnys_calendar.py` |
| `ReportSchedule` | which candidates of the cron service run | `report_schedule.py`, `main.py:151-180` |
| `LlmDecision` | the contract an answer has to fulfil | `llm_decision.py` |
| `PartStream` | abstract: one part per symbol, in order | |
| `LlmReport` | load, ask, check, ask again, give a part, archive; refines `PartStream` | `llm_protocol_report.py:87-213, 350-383` |
| `MarketData` | three providers for a symbol, fallback, closed bars | `protocol_analysis.py` |
| `CandleFeed` | connection, bus, cache and table of candles | `binance_futures.py`, `data_bus.py`, `kline_store.py` |
| `MarketStructure` | swings, breaks and trend | `indicators/structure.py` |
| `CryptoMicro` | the replayable C-M2 and C-M3 | `crypto_micro_rules.py`, `atr.py` |
| `Backtest` | trades bar by bar and the equity curve they are booked on | `backtest/engine.py` |
| `OpeningRange` | the opening-range retest and its replay | `equity_orb_retest.py`, `backtest/orb.py` |
| `ArchiveStore` | one archive and its checksum in the cache, several processes | `binance_archive.py` |
| `FundingHistory` | a range of funding from archives and cached pages | `binance_archive.py` |
| `KlineHistory` | a range of bars from archives, validated and aggregated | `binance_archive.py` |
| `MC*` | constants for TLC | |
| `Recursion` | lemmas: induction and recursive functions, for the proofs about folds | |
| `*_proofs` | theorems | |

`SignalLifecycle` and `Monitor` share `LifecycleRules`; `Monitor` takes `StrategyRules` and
`PortfolioRules`, which `LiveStrategy` and `RiskBudget` use as well. That is how the parts compose: the
monitor's model leaves a strategy free to give any of the answers of `StrategyRules!Reactions`, and
`AnswersAllowed`, checked and proved, says that the three strategies of `Strategies` give no other; the monitor's model leaves it free whether
the policy halts or throttles, and `RiskBudget` computes both from the outcomes.

**SignalLifecycle.** `path` is the market: one bar per minute. `Minute` appends a bar and closes the
candles that end with it; a candle of length n covers the last n bars, so candles of two lengths
overlap as 1m and 5m candles do. `ReceiveCandle` reads the manageable rows once (`lifecycle.py:20-22`),
`AdvanceSignal` is one turn of the loop with its commit, `Finish` the return. `Lose` is a candle that
closed while the connection was down, `LifecycleCrash` ends the process in the middle of a candle. `Trigger` is
a strategy opening a trade on the candle handled last. `seen` is a history variable: the candles applied
to a row. A candle that is lost for good is not among them, so the properties compare a result with the
candles that came; that a row still ends without the others is `TradeSettled` of `Monitor`.

**Monitor.** Here prices are gone: a candle hits stop or target of a row in any way, and a
strategy's conditions are any of the answers of `FreeReactions`. What is kept is every commit and the
order they come in: `AdvanceRow`* , `ResolveInMemory`, then for each strategy `Decide`, `RouteTrade` /
`RouteAlert` for each signal, and `SaveState`. `Tick` is the clock. `ev` is the
close of the candle being handled, `now` is `utcnow()`; the lag between them is bounded by `MaxLag`, the
age of the last 1m/5m candle by `MaxGap`. These two bounds are assumptions about the feed; where a
property needs them it says `TimelyFeed`. All strategies trade one symbol: candles of other symbols only
save states again. Only L3 rows are kept, because no other row is ever read again. Sizes are integers of
1/16 R, so that the configured 0.25, 0.5 and 0.75 R are 4, 8 and 12 and halving twice is exact.
Notifications of the router are left out; a notifier that raises is a crash.

**The strategies.** One strategy answers one closed candle after the other. `OnMarketUpdate` is the whole
handler: time stop, entry lock, context of a terminal state dropped, touch or sweep, refusal, entry.
`st` is the `StrategyState`, `ctx` its context, `levels` the levels of the signals of the answer, in
order. Close, low, BTC filter, CVD and the plan that `dynamic_levels.py` computes from the history are
free inputs of each candle: the plan may come, go and change between any two of them. Prices are integers
close to each other, so that a handful meets every order of price, zone, stop and target; ATR is a fixed
number of price steps and the ATR buffer of the stop any of `Buffers`. `calc_rr` divides binary floats:
where reward and 1.5 times the risk are equal, the model lets the quotient come out below.

**RiskBudget.** `outcomes` is what `get_portfolio_risk_state` reads off the table; `Counted[n]` is what its loop
has made of the first n: daily result, losing streak, equity, peak and the two drawdown marks
(the drawdown is the largest ever), and `RiskState` is the last of them. `open` holds the manageable rows by
their number, and `AtRisk` adds up their sizes in that order. Equity is counted in integers: a loss of `Unit` would be all of it.

**Reporter.** A process is a service, the cron job or the manual one, that runs again and again.
`Start`, one part per symbol (`Trade`, or `NoTrade` with or without an error), for each trade and channel
`Lookup` (or `Skip`), `Send`, `Save` as three steps (`reporter.py:218, 225, 256`), then `Summarise`. `Abort` is a stream
that breaks. A send may fail with or without being shown (`SendFails`); the lookup and the save may fail; the process
may die (`Crash`). `delivered` is what a channel has shown, `notifications`
what the database knows. Left out: the branch with notifications disabled and the plain report without an LLM,
which are a print and one unconditional send.

**ReportSchedule and XnysCalendar.** One day of candidates: `Candidate` is one start of the service, at
half past an hour in UTC plus a delay, and the checks of `evaluate_report_schedule` in their order.
`ScheduleAssumption` names how the cron line and the configuration fit each other: the slots are at half past within the
regular session, each has a candidate in summer and in winter, grace and delay end before the next candidate. The
holidays are computed by the code's rules; `CalendarAgrees` says that they give the published sessions.
Days are ordinals as in Python, so that the calendar is translated rule by rule.

**CandleFeed.** The bars of one symbol and interval. `BarReported`, `BarEnds`: what the exchange sends while
connected; `Connect`, `Disconnect`: the loop of the connector, which asks for nothing again; `Publish` waits while
the bus is full; `Consume` is `upsert_kline` of cache and table, one replacing the report before, the other
keeping closed candles only; `Restart` loads the cache from the table. What `Monitor` calls a late or lost candle
and `SignalLifecycle` calls `Lose` comes from here.

**MarketData.** One request per step, with the clock going on before the answer is taken and again before it is
looked at. Binance and Yahoo bars are cut by the clock after the answer, OKX bars by the mark of the exchange.
A bar still forming when Binance answered may be over when the loader looks: it then counts as closed with the values it
had. `SeriesSound` therefore says of such bars only that they were over when looked at.

**Backtest and OpeningRange.** The history grows by a bar per step and everything is computed again from it, so
that a step compares what the engine says before and after a bar. Decisions are inputs: any of `Intents` after any
bar. `Loop` is the loop over the decisions, one `Turn` per bar with the next free bar carried along. The equity is kept as which trades are booked and which one is marked; commissions and R sums are left out.
`OpeningRange` replays two days of quarter hours chosen from `Shapes`, any of them missing; `Those` is a comprehension of
the code, a selection of bars in their order.

**CryptoMicro and MarketStructure.** Pure rules over short series. A point of open interest or funding has the time it
is of and the time it is published, never before it; a z-score is compared as a fraction, with the infinite values of the
code. What is known at a time is filtered and sorted by two keys, as `_causal_bars` and `_causal_oi_points` do: `Sorted` is a stable
sort, stated by the place of each item. `ShortOf` and `LongOf` are the rules over what is known, `ShortCandidate` and
`LongCandidate` ask them at a time. The replay begins before the first bar. `CandleCloses` looks at the window from its first bar again, as `detect_structure` does; the trend, the latest swings
and which of them are broken are the state carried over the bars (`Trace`). The variables are the series, the time of the evaluation and the candidates found at each time so far.

**ArchiveStore.** `step`, `hand` and `temp` are a process in `download`: a hit is verified with the checksum
on disk, a miss fetches the checksum (or a 404), streams to a temporary file, checks it, replaces
the archive and then writes the checksum. The server may publish again and may publish archive and checksum in any order;
a stream may be cut short; a process may die in any step.

**FundingHistory and KlineHistory.** The first loads a range while months pass and archives appear; a month without
an archive is read in pages that stay in the cache under the bounds they were asked with. The second takes
which days and months are published, and which bars are missing, doubled or unsound, and computes the validated range and its
buckets, as the lenient mode does; the strict one raises unless `ValidRange` holds. An unsound bar has a high below its
close. `HistoryWhole` says what is aggregated from sound parts, and that parts must be there whatever they are;
`MalformedOmitted` is what the docstring says of malformed ones (`MCMalformed`). The strict validation does not
ask whether the range begins and ends where it was asked to.

**LlmReport.** `pc` is the place in the generator: `load` (the snapshot iterator), `ask` (a request, the
first or a repair), `check`, `archive` (the `finally`). The LLM may answer any of `Payloads`. A contract
keeps its prices; texts are reduced to what the checks ask of them. `Break` is an exception outside the
requests, or a consumer that stops.

## 3. The runs

| Run | Shows | Bounds |
|---|---|---|
| `MCSignals` | the recorded result is the one an independent reading of the candles applied gives; refinement of `PaperTrade`; the cluster cap with several strategies | 2 trades, long or short, 4 minutes, lengths 1 and 2, one queued candle. Four minutes hold entry, TP1, return and time stop; two rows are needed for a crash between rows. The monitor: 3 strategies (one only observes), positions of 4/16 R against a cap of 4/16 R, two trades, one crash: what the first, throttled or not, leaves of the cap is more than the second asks for, exactly that, less or nothing |
| `MCMonitor` | safety and liveness of one strategy | 3 trades, hold and cooldown 2, one crash, clock to 5: trade, time stop, cooldown and re-entry fit in, and the third trade covers re-entry after a crash |
| `MCReporter` | duplicates only where the database does not know of a delivery; no channel silent; what is found is shown | 2 symbols, 2 channels, 3 faults; one service, as the second is the subject of `MCSentTwice` |
| `MCStrategies` | seven independent modules around the strategies, below | |
| `MCReports` | ten independent modules around reports and research, below | |

In `MCSignals`, `MCStrategies` and `MCReports` the variable `which` picks one module in the initial state; the others stay where they
start, and the properties that read them hold there.

| `MCStrategies` | Properties | Bounds |
|---|---|---|
| live strategies (three of the seven) | `AnswersAllowed`, `TradeKeepsPlan`, `StopBelowDips` | clock to 4, any number of candles in each step; ten closes (five for C-M3), two plans or none |
| `MarketStructure` | `BreaksAreFirst`: a break is told on the first close beyond the latest swing and on no other bar, however often the level is crossed | every series of seven bars of four shapes |
| `CryptoMicro` | `CandidateReproducible`: a candidate seen later was the same at the moment it says it became available | series that give both candidates, with late and missing publications, all gates on |
| `RiskBudget` | `DailyLossBounded`, `DrawdownBounded`: loss of a day and drawdown stay within limit plus one cap | 6 trades over 2 days in the proportions of the defaults |
| `CandleFeed` | `ClosedReadsAreNewest`: strategies read the newest closed candles although lost ones stay in the cache as forming | 6 bars, bus of 2, cache of 4, 2 losses, 1 restart |

| `MCReports` | Properties | Bounds |
|---|---|---|
| `LlmReport` | `TradesAreWorthIt`, `ImplementsStream` | 3 symbols, 9 answers, one repair |
| `ReportSchedule` | `OncePerSlot`, `EverySlotRuns` | 14 days of the published calendar in summer and winter time, delays up to 45 minutes |
| `XnysCalendar` | `HolidaysEveryYear` | years 1950..2150 |
| `LlmDecision` | `FillsWorthIt` | every contract over prices 1..6 |
| `MarketData` | `SeriesSound`: one provider per symbol, bars that are over, whole buckets of four hours, failed providers named | 2 symbols, hours of two ticks, answers of 6 bars, four starts around a four-hour boundary |
| `Backtest` | `Pessimistic`, `CurveBooksEveryTrade`, `NoLookAhead` | 4 bars of five shapes with gaps and bars that reach both levels, three decisions, each made after any bar |
| `OpeningRange` | `OneSignalPerSector`: one decision of a session for what its sector allows, on a retest after a break of the range | one day of baseline and one of up to nine bars with gaps, breakouts to both sides and retests; a sector that turns at UTC midnight |
| `ArchiveStore` | `CorruptOnlyUnchecked`, `MismatchOnlyWhenTorn` | 2 processes, 2 versions, 1 crash |
| `FundingHistory` | `HolesOnlyFromOldPages` | 2 months of three instants, pages of two of the five payments |
| `KlineHistory` | `HistoryWhole`: each day from one file, a strict range has no hole inside, a bar only from parts that are all there once, and exactly one from sound ones | two months of two days and one, every two missing bars, doubled and unsound ones |

`OncePerSlot` and `EverySlotRuns` hold for delays below an hour and a grace time below half an hour
(`ScheduleAssumption`). A delay of an hour or more lets two candidates fall into one slot: nothing records that a slot has
run, and only the sender's lookup keeps the second run from sending again (listed under `hazards`).

Seven runs show what TLC finds violated; each is a finding in `PROJECT.json`.

- `MCTwoLengths`: a 5m candle that covers the minute of TP1 is applied against the moved stop and closes the
  trade at breakeven although the price never came back.
- `MCStaleLock`: a crash between the commit of an outcome and the save of the strategy's state leaves the
  strategy in a trade that has ended, until its own time stop.
- `MCSentTwice`: the cron job and a manual run send the same opportunity twice.
- `MCPlannedReward`: a plan's target is 1.5 times its risk and the least R/R is 1.5, and the quotient of two
  rounded differences refuses it.
- `MCGivesUp`: the 15m candle that closes below the sweep low has lowered the sweep low first.
- `MCLateIntent`: a bar after UTC midnight is judged with the previous close and the sector of the next date, while its
  session is still that of New York; a retest of the morning becomes a decision made in the evening.
- `MCMalformed`: in the lenient mode a bucket with a malformed bar is aggregated like any other, where the docstring says
  that malformed buckets are omitted.

Four more observations are modelled as the code has them, without a text of the repository that would say
otherwise: after TP1 the strategy may time-stop a trade whose row stays open and enter again (`base.py:157`);
the drawdown that throttles sizes is the largest ever and is never left again (`repositories.py:197`); a
configured second zone touched before a plan appears gives a stop inside that zone (`eth_cm2:117`); a sector that
turns at UTC midnight gives the session of New York a second decision (`orb.py:38`), which is why `OneSignalPerSector`
counts the decisions of a session by sector.

**Fairness.** `Monitor!FairSpec` asks for weak fairness of the consumer's own steps and of the restart: one asyncio
task runs the loop and nothing else holds it back, and the service is started again. It asks for strong fairness of the
clock, which stops only while the consumer is `MaxLag` behind, and of the arrival of a 1m or 5m candle that closes now: the
exchange closes one every minute and the connector reconnects for ever (`binance_futures.py:29-45`), but the
consumer may be busy at the moment one arrives, so weak fairness would promise nothing. `Reporter!FairSpec` asks that a service is
started again and that its steps are taken: cron starts it every hour, and the run is one coroutine without
locks. Failures and crashes are not fair and bounded by `MaxFaults` and `MaxCrashes`. Safety needs no fairness.
`CHECK_DEADLOCK FALSE` stands where time or the list of symbols ends.

## 4. The proofs

TLAPS checks these for every value of the constants that satisfies the named assumptions.

- `SignalLifecycle_proofs`: types; status, result and TP1 flag of a row agree (`RowsAgree`); every step of
  the lifecycle is a step of `PaperTrade` or a stutter (`LedgerImplemented`); the recorded result is the one a second
  reading of all candles gives (`OutcomesAgree`). The last one rests on `Story`: whatever state a row is in, the
  candles it has seen so far tell the same of it, so that one more candle leads both to the same end.
- `Monitor_proofs`: `IInv` is inductive. From it follow types, that a saved state "in a trade" names a trade in
  the database, that a strategy has one unconfirmed trade and no stale lock until the process dies, that every
  crash adds at most one open trade nobody waits for (`CrashesBoundDuplicates`), and
  that the exposure stays within the cap. The properties alone are not inductive: that a strategy does not
  enter twice rests on the two time stops keeping their order (`SweptOK`, `TrackingOK`, which need `TimelyFeed`;
  `TrackingOK` counts: a strategy that is free to enter has as many open trades as there were crashes at most),
  that a lock is released on the ids still to be handed to the strategies (`CandleOK`, `LocksOK`), and that a
  saved state names a row on the trade being in the queue before it is in the table (`TradesExist`).
- `Strategies_proofs`: for all prices, levels, plans and buffers, a C-M2 trade keeps to the plan that was touched
  (`TradesKeepPlan`), the stop of a C-M3 trade is not above any dip of its watch (`StopsBelowDips`), and every answer of
  the three is one `Monitor` allows (`StrategiesAnswer`), which is what makes the theorems about `Monitor` theorems about
  these strategies. The invariants say what the context still knows: of C-M2 the zone last touched, of C-M3 that
  the lowest dip is kept while the watch goes on. Of the candles they read: the closed ones are the newest of the table, each
  once and in order, as long as fewer connections were lost than candles are asked for (`ReadsAreNewest`, for every size of
  the bus and the cache, and any number of restarts). `FeedInv` has three parts: what is on its way comes in the order of
  its bars, cache before bus before wire; the table's newest bars are in the cache; and the bars whose end will never come
  (`Missing`) are at most as many as the losses, because only the last bar that left the wire can be cut off from its
  end. The lemmas `EndAlike` and `KeepsAll` say when two sorted lists end alike, and how many candles a filter leaves.
  Of the replayed C-M2 and C-M3: a candidate was there, the same one, at the moment it says it became available, for every
  order of bars and publications, every configuration and every set of gates (`CandidatesReproduce`).
  The rules read nothing but what is known, so what has to be shown is that they read the same at `available` as at the time of the
  look. No bar closes in between, since `available` is not before the last bar of any series read (`KnownBarsAre`, `LatestOfIs`, `ShortIs`,
  `LongIs`). Of funding only the latest point is read, and one published in between with an older observation does not replace it
  (`LatestPointStays`). Of the open interest more may be known at the look than at `available`: the washout up to a point is
  computed at the publication of that point (`WashoutKnown`), and the first of the least among those known at the look is
  also the first of the least among the fewer known at `available` (`WashoutStays`). That needs the z to be a weak order, infinite values included (`ZOrders`), and
  the sort to be total (`PrecedesIsTotal`). `MicroInv` adds that each look is the rule at its time, from the first time of the replay on.
- `RiskBudget_proofs`: a day never loses the daily limit and one cluster cap together (`DayLossBounded`). The invariant
  is about the day's result less the R at risk: an outcome never lowers it, and a new trade lowers it only while
  the limit is not reached and the cluster has room. Nor does the equity fall further below its peak than the stop and one
  cluster cap (`DrawdownIsBounded`). Here the invariant is about the equity once all that is open is lost, `AtWorst`, against
  the peak: a loss takes its part of the equity and up to one step of rounding, both of which `AtWorst` has counted already; a win only
  raises it, by `GainWithin` also where the win makes a new peak; and while the stop is not reached there is room for a whole
  cluster (`RoomSuffices`). That last step needs `FixedPointAssumption`: one step of the fixed point, times what a cluster may
  lose, is within the stop. At the default of 10 % it holds with a factor of thousands; the code's floating point rounds less.
- `Reporter_proofs`: `RInv` is inductive. `CountsOK` relates the deliveries of a message to the runs that are
  about to send it or to record it, which is what bounds duplicates; `LoopOK` and `FoundOK` say which channels
  the loop has passed, which is what makes a completed run heard.
- `Reports_proofs`: a contract that passes is worth its risk at every price in its zone (`FillsAreWorthIt`, over
  all integers); `StreamInv` is inductive, and gives that every trade was checked against the price of its own
  symbol, that requests are bounded, and that the stream refines `PartStream`. `PriceOK` is the strengthening: the
  price in force is the last one of the snapshot. Of the schedule: no slot is run twice (`SlotsRunOnce`), and every slot of a
  session whose candidate comes within the grace time is run (`SlotsRun`); the invariant is the exact count of runs of each
  slot after each candidate. `SlotsRun` takes `CalendarAgrees` as its hypothesis, since what the holiday rules compute for
  a year is arithmetic TLC evaluates and no induction proves; on the published days of `MCReports` the hypothesis holds,
  which is how the same property passes there. Of the market data: whatever provider fails and whenever the clock is read, a
  series is of one provider, over and in whole hours (`SeriesAreSound`).
- `Research_proofs`: `StoreInvariant` is inductive, for any number of processes, versions and crashes. A checked
  archive is whole because what a process replaces the cache with is what it checked with the checksum in its hand; archive
  and checksum can differ only between the two writes or after a replacement during which another was written
  or a process died (`torn`). Of the history of funding: nothing is missing but what came after a page of its month
  was cached (`HolesAreOld`), and neither the sort nor the check at the end of a load ever has anything to do
  (`OnlyRequestsFail`). The invariant says which instants of its range a load has covered: up to the start of the
  month it is at, or up to the next page; `PageOK` says what a cached page answers for, which is all of its bounds only
  up to the time it was read or, if it is full, up to its last row. Of the backtest, for every history and list of decisions: the simulation is no
  better than any path of the market (`SimulationIsPessimistic`, which assumes `StopFirst`, the value the engine has by
  default: read the other way round, the target is taken where the stop may have come first), the equity books every
  trade once (`EquityBooksEveryTrade`), and a later bar changes no trade that is over (`LaterBarsChangeNothing`). They rest on the
  loop keeping its trades one by one (`OneByOne`) and on two runs, on a history and on the same with one more bar, going the same
  way until the trade that ends with the shorter one. Of the market structure: a break is told on the first bar to close beyond the
  latest swing and on no other (`BreaksComeFirst`), for all bars that close between their low and their high. The code looks for
  a break of the low only where the high is not broken, and would lose one if a bar could break both; the lemma `OneSide`
  shows that none can. Of the opening range: the replay asks for an answer to all bars so far after each of them, and all answers to one
  session for one sector are on one bar, so that it makes one decision of them, with stop and target on their sides
  (`SignalsAreSound`, for every history in order, every width of the range, every previous close and sector). The lemma `Extends` says
  what a selection from a longer list begins with, `FirstBreak` and `SameAnswer` that later bars change neither the first break nor the
  first retest after it. It assumes prices that are natural numbers and bars in the order of time, and nothing of their shape.
  Of the history of bars: for every calendar of months and every width of a bucket, and whatever is published, missing, doubled or
  unsound, a load is what the archives have, a strict one has no hole, and the aggregation makes a bar only of buckets whose
  parts are all there once, and exactly one of each such bucket whose parts are sound (`HistoryIsWhole`). All of it is counted: `Joined` puts lists one after the other, `OnlyFrom` says that a slot in one of them only
  is in the whole as often, `DaysOnce` that every day is in one file only, by induction over the months, and `InARow` that a rising list with
  each number of an interval once is the interval. The bars of a bucket keep the order of the sorted list (`BucketIs`), which is why the comparison
  with the expected times refuses a doubled bar as it refuses a missing one (`BucketWhole`).
- `Recursion`: the provers do no induction, but they know that a set of numbers has a least one. `LeastExists`, `UpTo` and
  `RecursionExists` put induction and recursive definitions in terms of sets and functions; the theorems about folds
  (`Counted`, `AtRisk`, `Loop`, `Point`, `Trace`, `Paid`, `Rows`, `ClosedRecent`, `Those`, `Joined`) are proved from them.

The inductive invariants are no properties of the runs: the proofs cover them, and the runs check what follows from them.

Model-checked only:

- liveness (`LockReleased`, `TradeSettled`, `FoundIsShown`), which the prover does not reach;
- `HolidaysEveryYear`, and `CalendarAgrees` with it: the rules of the calendar evaluated for given years;
- `FillsWorthIt`: the same as `FillsAreWorthIt`, asked of the contracts of a grid.

## 5. What is not modelled

- The formulas of indicators and of the snapshot (`indicator_snapshot.py`, `equity_sectors.py`, most of
  `protocol_analysis.py`): floating-point functions of one series, without state, and their layout as text.
- Notifications of the monitor (`router.py`, `cooldown.py`) and the channels (`feishu.py`, `telegram.py`, `templates.py`): a
  notifier that raises is a crash of `Monitor`; the cooldown in memory, which a restart forgets, is a listed
  hazard without a property.
- The LLM adapter, configuration, tables and scripts: one HTTP request, loading of files, definitions.
- The metrics of a backtest, the windows of `walk_forward.py`, the metrics files of the archive and the parsing of rows: arithmetic
  and formats.
- The price of an order is loaded before the LLM is asked and not read again before the order is sent; nothing in the code
  bounds how far it may have moved, so no property is stated of it.

At this commit the configuration disables the three `eth_*` strategies, so `main.py` runs with none unless they
are enabled.

Open, in this order: notifications of the router composed with `Monitor`; `CandleFeed` in place of `MaxLag` and `MaxGap`.
