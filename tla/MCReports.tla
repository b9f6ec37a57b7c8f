------------------------------ MODULE MCReports ------------------------------
(* One of ten, beside the monitor.  Reports: the market data of one, its   *)
(* stream of parts, a day of cron candidates, the holidays of a year, the  *)
(* contracts that pass at a price.  Research: a backtest that grows by a   *)
(* bar at a time, a replay of the opening-range strategy over two days,    *)
(* the cache of one archive, a range of funding payments, a range of bars. *)
EXTENDS TLC, LlmReport, ReportSchedule, MarketData,
        Backtest, OpeningRange, ArchiveStore, FundingHistory, KlineHistory

VARIABLES which, input  \* input: the year, or the price

-----------------------------------------------------------------------------
(* Days of the published calendar of the exchange, with the time of the    *)
(* close: regular ones, holidays moved from a Saturday and from a Sunday,  *)
(* early closes, and a Saturday.                                           *)
Closing(h, days) == [d \in days |-> 60 * h]
MCSessions ==
  Closing(16, {<<2026, Date(2026, 7, 2)>>, <<2026, Date(2026, 7, 13)>>, <<2026, Date(2026, 1, 12)>>,
             <<2027, Date(2027, 7, 2)>>, <<2027, Date(2027, 12, 23)>>})
  @@ Closing(13, {<<2026, Date(2026, 11, 27)>>, <<2026, Date(2026, 12, 24)>>, <<2028, Date(2028, 7, 3)>>})
  @@ Closing(0, {<<2026, Date(2026, 7, 3)>>, <<2026, Date(2026, 7, 18)>>, <<2027, Date(2027, 3, 26)>>,
               <<2027, Date(2027, 7, 5)>>, <<2027, Date(2027, 12, 24)>>, <<2026, Date(2026, 11, 26)>>})

Offer(direction, mode, entry, low, high, stop, tp1, position) ==
  [direction |-> direction, mode |-> mode, entry |-> entry, low |-> low, high |-> high,
   stop |-> stop, tp1 |-> tp1, tp2 |-> 0, position |-> position]

Refusal(status) ==
  [status |-> status, fields |-> "none", summary |-> TRUE, digits |-> FALSE, reasons |-> TRUE,
   evidence |-> <<>>, vague |-> FALSE, contract |-> <<>>]

Call(contract) ==
  [status |-> "TRADE", fields |-> "all", summary |-> TRUE, digits |-> TRUE, reasons |-> FALSE,
   evidence |-> <<1, 2, 3>>, vague |-> FALSE, contract |-> contract]

(* What the LLM may say, at prices of 10 and 12: answers that pass at one  *)
(* price only, at both and at none, and answers of the wrong form.         *)
Now   == Call(Offer("LONG", "NOW", 10, 9, 10, 8, 13, 2))
Limit == Call(Offer("LONG", "LIMIT", 9, 8, 9, 6, 14, 1))
Stop  == Call(Offer("SHORT", "STOP", 8, 8, 9, 11, 3, 1))
MCPayloads ==
  {Now, Limit, Stop, [Stop EXCEPT !.evidence = <<1, 2>>], [Limit EXCEPT !.contract.position = 3],
   Refusal("NO_TRADE"), [Refusal("NO_TRADE") EXCEPT !.vague = TRUE], Refusal("DATA_ERROR"), Refusal("UNPARSED")}

Grid == 1..6
Contracts ==
  {Offer(d, m, e, l, h, s, t, 1) : d \in {"LONG", "SHORT"}, m \in {"NOW", "LIMIT", "STOP"},
                                      e \in Grid, l \in Grid, h \in Grid, s \in Grid, t \in Grid}

MCCrypto == <<"BTCUSDT", "ETHUSDT">>

-----------------------------------------------------------------------------
(* Prices 10 apart, so that a tenth of slippage is whole: bars that gap    *)
(* over, touch, and reach both of a stop and a target.                     *)
Bar(o, h, l, c) == [open |-> o, high |-> h, low |-> l, close |-> c]
MCBars == {Bar(20, 30, 20, 30), Bar(20, 20, 10, 10), Bar(20, 30, 10, 20),
           Bar(40, 50, 30, 40), Bar(10, 20, 10, 20)}
MCIntents == {[direction |-> "LONG", stop |-> 10, target |-> 40, hold |-> 2],
              [direction |-> "SHORT", stop |-> 30, target |-> 10, hold |-> 5],
              [direction |-> "SHORT", stop |-> 30, target |-> 5, hold |-> 2]}

(* Quarter hours of two days: a session that breaks out downwards, and one *)
(* that may break out either way, with a sector that allows longs only     *)
(* until the UTC date changes.                                             *)
Candle(o, h, l, c, v) ==
  [day |-> 0, minute |-> 0, open |-> o, high |-> h, low |-> l, close |-> c, volume |-> v]
Flat == Candle(100, 101, 99, 100, 10)
Quiet == [Flat EXCEPT !.volume = 0]
Up == Candle(101, 105, 100, 104, 10)
RetestUp == Candle(104, 104, 102, 103, 20)
Loud == [RetestUp EXCEPT !.volume = 60]
Down == Candle(99, 100, 95, 96, 10)
RetestDown == Candle(96, 98, 96, 97, 20)
Opening == Candle(100, 102, 98, 100, 10)
Gap == [Opening EXCEPT !.open = 102]
MCShapes ==
  << 540 :> {Flat} @@ 570 :> {Opening} @@ 585 :> {Opening} @@ 600 :> {Down} @@ 615 :> {RetestDown},
     540 :> {Flat, [Flat EXCEPT !.volume = 20]} @@ 570 :> {Opening, Gap} @@ 585 :> {Opening}
     @@ 600 :> {Up, Down} @@ 615 :> {Up, Down, RetestUp, RetestDown}
     @@ 630 :> {Quiet, Loud, RetestDown, Up} @@ 645 :> {RetestUp} @@ 720 :> {RetestUp} @@ 1140 :> {Flat} >>
MCPreviousClose == <<95, 100, 95>>
MCSector == <<"ANY", "LONG", "ANY">>

MCRanges == {<<1, 6>>}

(* Two months of two days and one, two bars a day in one bucket.           *)
MCMonthSpans == <<<<1, 2>>, <<3, 3>>>>
MCPrice == [slot \in 1..6 |-> Bar(10 + slot, 20 + slot, slot, 12 + slot)]

-----------------------------------------------------------------------------
IdleStream == StreamInit /\ ready
IdleSchedule == ScheduleInit /\ offset = 4 /\ day = <<2026, Date(2026, 7, 13)>>
IdleMarket == MarketInit /\ clock = Min(Start)
IdleStore == StoreInit /\ remoteSum = 0
IdleKlines ==
  /\ asked = <<1, 1>> /\ monthly = {} /\ daily = {} /\ missing = {} /\ doubled = {} /\ unsound = {}
Klines ==
  /\ asked \in {<<1, 3>>, <<1, 2>>, <<2, 3>>, <<3, 3>>}
  /\ monthly \in SUBSET DOMAIN MonthSpans /\ daily \in {AllDays, {1, 2}, {2, 3}}
  /\ missing \in SUBSET AllSlots /\ Cardinality(missing) <= 2
  /\ doubled \in {{}, {3}, {2, 5}} /\ unsound \in {{}, {1}, {3, 4}}

Init ==
  /\ which \in {"STREAM", "SCHEDULE", "MARKET", "CALENDAR", "DECISION",
               "BACKTEST", "ORB", "STORE", "FUNDING", "KLINES"}
  /\ IF which = "STREAM" THEN StreamInit ELSE IdleStream
  /\ IF which = "SCHEDULE" THEN ScheduleInit ELSE IdleSchedule
  /\ IF which = "MARKET" THEN MarketInit ELSE IdleMarket
  /\ IF which = "STORE" THEN StoreInit ELSE IdleStore
  /\ IF which = "KLINES" THEN Klines ELSE IdleKlines
  /\ input \in CASE which = "CALENDAR" -> 1950..2150 [] which = "DECISION" -> Grid [] OTHER -> {0}
  /\ HistoryInit /\ OrbInit /\ FundingInit

reports == <<stream, sched, market>>
research == <<history, orb, store, funding>>

Next ==
  /\ UNCHANGED <<which, input, klines>>
  /\ \/ /\ UNCHANGED research
        /\ \/ which = "STREAM" /\ StreamNext /\ UNCHANGED <<sched, market>>
           \/ which = "SCHEDULE" /\ ScheduleNext /\ UNCHANGED <<stream, market>>
           \/ which = "MARKET" /\ MarketNext /\ UNCHANGED <<stream, sched>>
     \/ /\ UNCHANGED reports
        /\ \/ which = "BACKTEST" /\ BarClosed /\ UNCHANGED <<orb, store, funding>>
           \/ which = "ORB" /\ OrbNext /\ UNCHANGED <<history, store, funding>>
           \/ which = "STORE" /\ StoreNext /\ UNCHANGED <<history, orb, funding>>
           \/ which = "FUNDING" /\ FundingNext /\ UNCHANGED <<history, orb, store>>

vars == <<which, input, klines, reports, research>>
Spec == Init /\ [][Next]_vars

(* The computed Easter Sunday is the one of its definition, and the        *)
(* holidays close as many trading days as there are, in every year.        *)
HolidaysEveryYear == which = "CALENDAR" => EasterIsRight(input) /\ HolidaysCount(input)
(* No accepted contract can be filled where it is not worth its risk.      *)
FillsWorthIt == which = "DECISION" => \A c \in Contracts : EveryFillIsWorthIt(c, input)
=============================================================================
