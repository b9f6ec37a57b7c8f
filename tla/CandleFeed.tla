----------------------------- MODULE CandleFeed -----------------------------
(* Candles of one symbol and interval on their way from the exchange to    *)
(* the strategies (binance_futures.py, data_bus.py, kline_store.py): the   *)
(* connection, bus, cache and the table "klines".  A bar is named by its   *)
(* open time.                                                              *)
EXTENDS Integers, SequencesExt, FiniteSetsExt

CONSTANTS
  LastBar,     \* bound: bars of the exchange
  BusSize,     \* maxsize of the bus
  CacheLimit,  \* kline_cache_limit
  MaxLosses,   \* bound: connections lost
  MaxRestarts  \* bound: restarts of the monitor

ASSUME FeedAssumption ==
  /\ LastBar \in Nat \ {0} /\ BusSize \in Nat \ {0} /\ CacheLimit \in Nat \ {0}
  /\ MaxLosses \in Nat /\ MaxRestarts \in Nat

VARIABLES
  bar,       \* the bar that is forming
  up,        \* the websocket is connected
  wire,      \* messages of the connection that are not on the bus yet
  bus,
  cache,     \* the deque of the store
  table,     \* open times of the closed candles in the table
  losses, restarts

feed == <<bar, up, wire, bus, cache, table, losses, restarts>>

FeedInit ==
  /\ bar = 1 /\ up = FALSE /\ wire = <<>> /\ bus = <<>> /\ cache = <<>> /\ table = {}
  /\ losses = 0 /\ restarts = 0

Kline(opens, closed) == [opens |-> opens, closed |-> closed]
Newest(s, n) == SubSeq(s, IF Len(s) > n THEN Len(s) - n + 1 ELSE 1, Len(s))
(* The closed candles of the table, in order.                              *)
Rows ==
  LET upTo[b \in 0..LastBar] == IF b = 0 THEN <<>>
                                ELSE IF b \in table THEN Append(upTo[b - 1], Kline(b, TRUE))
                                ELSE upTo[b - 1]
  IN upTo[LastBar]

-----------------------------------------------------------------------------
(* The exchange: the forming bar is reported over and over, once it closes  *)
(* for the last time; nothing is sent again.                               *)
BarReported ==
  /\ up /\ Kline(bar, FALSE) \notin Range(wire)
  /\ wire' = Append(wire, Kline(bar, FALSE))
  /\ UNCHANGED <<bar, up, bus, cache, table, losses, restarts>>

BarEnds ==
  /\ bar < LastBar
  /\ bar' = bar + 1
  /\ wire' = IF up THEN Append(wire, Kline(bar, TRUE)) ELSE wire
  /\ UNCHANGED <<up, bus, cache, table, losses, restarts>>

(* run: connect, and again after an error; what was not read is gone.      *)
Connect ==
  /\ ~up /\ up' = TRUE
  /\ UNCHANGED <<bar, wire, bus, cache, table, losses, restarts>>

Disconnect ==
  /\ up /\ losses < MaxLosses
  /\ up' = FALSE /\ wire' = <<>> /\ losses' = losses + 1
  /\ UNCHANGED <<bar, bus, cache, table, restarts>>

(* publish: it waits while the bus is full.                                *)
Publish ==
  /\ wire # <<>> /\ Len(bus) < BusSize
  /\ bus' = Append(bus, Head(wire)) /\ wire' = Tail(wire)
  /\ UNCHANGED <<bar, up, cache, table, losses, restarts>>

-----------------------------------------------------------------------------
(* Mutant of Cached: every report of a bar takes a place of its own.       *)
CachedAgain(kline) == Newest(Append(cache, kline), CacheLimit)

(* upsert_kline: a report replaces the one before of its bar.              *)
Cached(kline) ==
  IF cache # <<>> /\ Last(cache).opens = kline.opens
  THEN Front(cache) \o <<kline>>
  ELSE Newest(Append(cache, kline), CacheLimit)

(* upsert_kline of the repository: one row for each closed candle.         *)
Stored(kline) == IF kline.closed THEN table \cup {kline.opens} ELSE table

Consume ==
  /\ bus # <<>>
  /\ bus' = Tail(bus)
  /\ cache' = Cached(Head(bus))
  /\ table' = Stored(Head(bus))
  /\ UNCHANGED <<bar, up, wire, losses, restarts>>

(* The process dies; the next one loads its cache from the table.          *)
Restart ==
  /\ restarts < MaxRestarts
  /\ restarts' = restarts + 1
  /\ up' = FALSE /\ wire' = <<>> /\ bus' = <<>>
  /\ cache' = Newest(Rows, CacheLimit)
  /\ UNCHANGED <<bar, table, losses>>

FeedNext ==
  BarReported \/ BarEnds \/ Connect \/ Disconnect \/ Publish \/ Consume \/ Restart

FeedSpec == FeedInit /\ [][FeedNext]_feed

-----------------------------------------------------------------------------
(* _closed_recent: the closed ones among the newest 2n of the cache.       *)
ClosedRecent(n) ==
  LET recent == Newest(cache, 2 * n)
      closed[k \in 0..Len(recent)] == IF k = 0 THEN <<>>
                                      ELSE IF recent[k].closed THEN Append(closed[k - 1], recent[k])
                                      ELSE closed[k - 1]
  IN Newest(closed[Len(recent)], n)

(* A strategy that asks for n closed candles gets the n newest of the       *)
(* table, in order and each once, although every lost connection may leave  *)
(* a candle in the cache that never closes, as long as fewer than n have    *)
(* been lost.                                                              *)
ClosedReadsAreNewest ==
  \A n \in 1..(CacheLimit \div 2) : losses < n => ClosedRecent(n) = Newest(Rows, n)
=============================================================================
