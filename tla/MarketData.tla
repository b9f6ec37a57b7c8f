----------------------------- MODULE MarketData -----------------------------
(* The market data of a protocol report (review/protocol_analysis.py): each *)
(* symbol is loaded from the first provider that serves all its requests,   *)
(* and bars that are not over are dropped.  Time passes while a request is  *)
(* answered, and the bars are looked at after that.                        *)
(* The hourly series stands for all a provider is asked for but the one of  *)
(* four hours, the quote for the other figures.                            *)
EXTENDS Integers, Sequences, FiniteSets

CONSTANTS
  Symbols,  \* crypto_symbols, a sequence
  Hour,     \* ticks of the clock in a bar of an hour
  Served,   \* bound: bars of an answer
  Start,    \* bound: when a report begins
  Waits    \* bound: ticks before and after a provider looks at its bars

ASSUME MarketAssumption ==
  /\ Symbols \in Seq(STRING) /\ Hour \in Nat \ {0} /\ Served \in Nat \ {0}
  /\ Start \subseteq Nat /\ Waits \subseteq Nat

Sources == <<"Binance", "OKX", "Yahoo">>
Requests == [Binance |-> <<"1h", "4h", "quote">>, OKX |-> <<"1h", "4h", "quote">>, Yahoo |-> <<"1h">>]
Length == [s \in {"1h", "4h"} |-> IF s = "1h" THEN Hour ELSE 4 * Hour]

VARIABLES
  clock,
  source,  \* the provider that is asked, as an index
  got,     \* its answers so far, by request
  data,    \* for every symbol done: its series and their source, or an error
  notes    \* history: providers that failed for this symbol

market == <<clock, source, got, data, notes>>

NoAnswer == [s \in {} |-> {}]
MarketInit == clock \in Start /\ source = 1 /\ got = NoAnswer /\ data = <<>> /\ notes = <<>>

Name == Sources[source]
Busy == Len(data) < Len(Symbols)
Wanted == Requests[Name][Cardinality(DOMAIN got) + 1]

-----------------------------------------------------------------------------
(* The bars of a provider when it looks at them: the last one is forming;  *)
(* Yahoo leaves out bars without a trade and adds one at the last quote.    *)
BarsOf(length, at) ==
  {[opens |-> o, length |-> length, final |-> o + length <= at, source |-> Name] :
     o \in {o \in (at - Served * length + 1)..at : o % length = 0}}
Quote(at) == [opens |-> at, length |-> Hour, final |-> FALSE, source |-> "Yahoo"]
Answers(request, at) ==
  IF request = "quote" THEN {{}}
  ELSE IF Name = "Yahoo"
       THEN {bars \cup last : bars \in {BarsOf(Hour, at) \ {b} : b \in BarsOf(Hour, at)} \cup {BarsOf(Hour, at)},
                              last \in {{}, {Quote(at)}}}
       ELSE {BarsOf(Length[request], at)}

OverBy(b, now) == b.opens + b.length <= now

(* Mutant of Closed: the close of a bar is not looked at.                  *)
ClosedAnyhow(bars, now) == IF Name = "OKX" THEN {b \in bars : b.final} ELSE bars

(* _binance_klines, _closed_yahoo_candles: by the clock, after the answer;  *)
(* _okx_candles: by the mark of the exchange.                              *)
Closed(bars, now) ==
  {b \in bars : IF Name = "OKX" THEN b.final ELSE OverBy(b, now)}

(* _aggregate_utc_4h_candles: bars at the full hour, in buckets of the day, *)
(* and only buckets that have all four.                                    *)
FourHours(bars) ==
  LET starts == {b.opens : b \in {c \in bars : c.opens % Hour = 0}}
  IN {[opens |-> o, length |-> 4 * Hour, source |-> "Yahoo"] :
        o \in {o \in starts : o % (4 * Hour) = 0 /\ {o + h * Hour : h \in 1..3} \subseteq starts}}

(* A loader raises when it is left without bars.                           *)
NoBars(closed, fours) ==
  \/ Name = "OKX" /\ Wanted # "quote" /\ closed = {}
  \/ Name = "Yahoo" /\ (closed = {} \/ fours = {})

-----------------------------------------------------------------------------
(* A request fails, or its answer is of no use: the next provider is asked *)
(* for everything; after the last one the symbol is reported as an error.  *)
TryNext ==
  /\ got' = NoAnswer
  /\ IF source < Len(Sources)
     THEN source' = source + 1 /\ notes' = Append(notes, Name) /\ UNCHANGED data
     ELSE source' = 1 /\ notes' = <<>> /\ data' = Append(data, [failed |-> Append(notes, Name)])

Done(series) ==
  /\ data' = Append(data, [source |-> Name, series |-> series, failed |-> notes, at |-> clock'])
  /\ source' = 1 /\ got' = NoAnswer /\ notes' = <<>>

ProviderFails == Busy /\ TryNext /\ UNCHANGED clock

(* The answer arrives: taken at one time, looked at at a later one.        *)
ProviderServes ==
  /\ Busy
  /\ \E before \in Waits, after \in Waits :
       /\ clock' = clock + before + after
       /\ \E bars \in Answers(Wanted, clock + before) :
            LET closed == Closed(bars, clock')
                answers == [s \in DOMAIN got \cup {Wanted} |-> IF s = Wanted THEN closed ELSE got[s]]
                hours == [s \in {"1h", "4h"} |-> IF s = "1h" THEN closed ELSE FourHours(closed)]
            IN IF NoBars(closed, FourHours(closed))
               THEN TryNext
               ELSE IF Len(Requests[Name]) > Cardinality(DOMAIN answers)
                    THEN got' = answers /\ UNCHANGED <<source, data, notes>>
                    ELSE Done(IF Name = "Yahoo" THEN hours ELSE answers)

MarketNext == ProviderFails \/ ProviderServes

MarketSpec == MarketInit /\ [][MarketNext]_market

-----------------------------------------------------------------------------
LoadedData == {data[k] : k \in {k \in DOMAIN data : "source" \in DOMAIN data[k]}}

(* However requests fail and whenever bars end, the series of a symbol come *)
(* from the one provider named with them; a bar was over by then, and a bar *)
(* of four hours put together from hours is a bar an exchange would have    *)
(* had; the providers tried before are named, and an error names them all.  *)
SeriesSound ==
  /\ \A d \in LoadedData : \A s \in DOMAIN d.series : \A b \in d.series[s] :
       /\ b.source = d.source
       /\ b.opens + b.length <= d.at
       /\ d.source = "OKX" => b.final
       /\ s = "4h" => b.opens % (4 * Hour) = 0 /\ b.length = 4 * Hour
  /\ \A k \in DOMAIN data :
       data[k].failed = IF data[k] \in LoadedData
                        THEN SubSeq(Sources, 1, CHOOSE n \in 0..2 : Sources[n + 1] = data[k].source)
                        ELSE Sources
=============================================================================
