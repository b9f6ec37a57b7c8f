--------------------------- MODULE StandAboveLevel ---------------------------
(***************************************************************************)
(* app/strategies/eth_stand_above_level.py: report that the price holds    *)
(* above a level.  It is an observation: its L3 has neither entry nor      *)
(* stop, and no row of the lifecycle manager ever ends it.                 *)
(***************************************************************************)
EXTENDS LiveStrategy

CONSTANTS
  Prices,  \* bound: closes and lows of 5m candles
  Level,   \* levels.stand_above
  Support, \* levels.support_low
  Fail,    \* levels.fail_back
  Window   \* half an hour of 5m candles: 6 in the code

VARIABLE recent  \* the last Window 5m candles in the kline cache: [low, close]

vars == <<live, recent>>

Init == LiveInit(<<>>) /\ recent = <<>>

Candle == {k \in [interval : {"5m", "15m"}, low : Prices, price : Prices, buying : BOOLEAN] :
             k.low <= k.price}

(* The cache has the candle before the strategies see it.                  *)
Cached(k) ==
  IF k.interval # "5m" THEN recent
  ELSE LET all == Append(recent, [low |-> k.low, close |-> k.price])
       IN IF Len(all) > Window THEN Tail(all) ELSE all

(* Two lows on the support, and no close below the fail level in half an   *)
(* hour, or in what the cache has of it.                                   *)
Holds(bars) ==
  /\ Len(bars) >= 2
  /\ \A i \in {Len(bars) - 1, Len(bars)} : bars[i].low >= Support
  /\ \A i \in DOMAIN bars : bars[i].close >= Fail

Conditions(k, t, bars) ==
  LET u == Unlock(st)
      c == <<>>
      fails == k.interval = "5m" /\ k.price < Fail
      above == k.interval = "15m" /\ k.price > Level
      confirmed == Holds(bars) /\ k.buying
  IN \/ fails /\ Answer(Refuse(u, t), c, <<"L4">>, <<>>, FALSE)
     \/ ~fails /\ ~above /\ Answer(u, c, <<>>, <<>>, FALSE)
     \/ above /\ ~confirmed /\ Answer(Watch(u, t), c, <<"L2">>, <<>>, FALSE)
     \/ above /\ confirmed /\ Answer(Enter(Watch(u, t), t, Id), c, <<"L2", "L3">>, <<>>, FALSE)

OnMarketUpdate(k, t) ==
  /\ Later(t)
  /\ recent' = Cached(k)
  /\ \/ TimeStopped(t) \/ Locked(t)
     \/ Unlocked(t) /\ Conditions(k, t, recent')

Next == \E k \in Candle, t \in {now, now + 1} : OnMarketUpdate(k, t)

Spec == Init /\ [][Next]_vars

=============================================================================
