------------------------- MODULE LiquiditySweepLong -------------------------
(***************************************************************************)
(* app/strategies/eth_cm3_liquidity_sweep_long.py: wait for the price to   *)
(* dip below a level, then go long when a 15m candle closes above the      *)
(* reclaim level, with the stop below the dip.                             *)
(***************************************************************************)
EXTENDS LiveStrategy, FiniteSetsExt

CONSTANTS
  Prices,        \* bound: lows and closes
  PriorLows,     \* bound: lows of the 20 bars before the candle
  Atr,           \* in price steps, a multiple of 10
  FixedSweep,    \* max of levels.sweep_level_*
  FixedReclaim,  \* min of levels.reclaim_level_*
  Target1,       \* targets.tp1
  Buffers        \* bound: values of the ATR buffer of the stop

VARIABLES
  dips,  \* history: lows of the candles taken for sweeps in this watch
  below  \* history: the 15m candle just seen closed below the lowest of them

vars == <<live, dips, below>>

(* dynamic_levels.py: the lowest low of the bars before, and a tenth of    *)
(* the ATR above it.                                                       *)
NoPlan  == [sweep |-> 0, reclaim |-> 0]
Plan(l) == [sweep |-> l, reclaim |-> l + Atr \div 10]
Plans   == {NoPlan} \cup {Plan(l) : l \in PriorLows}

(* active_sweep_level, active_reclaim, sweep_low and dynamic_plan.         *)
Unswept == [swept |-> FALSE, low |-> 0, levels |-> NoPlan, dynamic |-> FALSE]

Init == LiveInit(Unswept) /\ dips = {} /\ below = FALSE

Candle == {k \in [interval : {"5m", "15m", "1h"}, low : Prices, price : Prices,
                  plan : Plans, wick : BOOLEAN, btc : {"bearish", "other"},
                  newLow : BOOLEAN] :
             k.low <= k.price}

(* The levels in force: those of the first sweep, of the plan, or fixed.   *)
LevelsNow(c, plan) ==
  IF c.swept THEN c.levels
  ELSE IF plan # NoPlan THEN plan ELSE [sweep |-> FixedSweep, reclaim |-> FixedReclaim]

(* Without a plan every wick counts; with one it must be long enough.      *)
Sweeps(c, k) ==
  /\ k.interval \in {"5m", "15m"} /\ k.low < LevelsNow(c, k.plan).sweep
  /\ k.plan = NoPlan \/ k.wick

(* Mutant of Sweep: the low of the last dip instead of the lowest.         *)
SweepLastLow(c, k) ==
  [swept |-> TRUE, levels |-> LevelsNow(c, k.plan), low |-> k.low,
   dynamic |-> c.dynamic \/ k.plan # NoPlan]

Sweep(c, k) ==
  [swept |-> TRUE, levels |-> LevelsNow(c, k.plan),
   low |-> IF c.swept /\ c.low < k.low THEN c.low ELSE k.low,
   dynamic |-> c.dynamic \/ k.plan # NoPlan]

GoLong(k, s, c, first, t) ==
  \E buffer \in Buffers, roundsDown \in BOOLEAN :
    LET stop == c.low - buffer
        risk == k.price - stop
        reward2 == Reward2(risk, c.dynamic, Target1 - k.price)
    IN IF RewardEnough(risk, reward2, roundsDown)
       THEN Answer(Enter(s, t, Id), c, first \o <<"L3">>,
                   <<[entry |-> k.price, stop |-> stop, reward2 |-> reward2]>>, FALSE)
       ELSE Answer(MakeSignal(s, NoTrade), c, first \o <<"L2">>, <<>>, TRUE)

(* A refusal replaces the L2 of this candle, a trade follows it.           *)
Judge(k, s, c, first, t) ==
  LET off == \/ c.swept /\ k.interval = "15m" /\ k.price < c.low
             \/ k.btc = "bearish"
      reclaims == c.swept /\ k.interval = "15m" /\ k.price > c.levels.reclaim /\ ~k.newLow
  IN \/ off /\ Answer(Refuse(s, t), c, <<"L4">>, <<>>, FALSE)
     \/ ~off /\ reclaims /\ GoLong(k, s, c, first, t)
     \/ ~off /\ ~reclaims /\ Answer(s, c, first, <<>>, FALSE)

Conditions(k, t) ==
  LET u == Unlock(st)
      c == Context(Unswept)
      before == IF c.swept THEN dips ELSE {}
  IN /\ below' = (k.interval = "15m" /\ c.swept /\ k.price < c.low)
     /\ IF Sweeps(c, k)
        THEN Judge(k, Watch(u, t), Sweep(c, k), <<"L2">>, t) /\ dips' = before \cup {k.low}
        ELSE Judge(k, u, c, <<>>, t) /\ dips' = before

OnMarketUpdate(t) ==
  /\ Later(t)
  /\ \/ (TimeStopped(t) \/ Locked(t)) /\ below' = FALSE /\ UNCHANGED dips
     \/ Unlocked(t) /\ \E k \in Candle : Conditions(k, t)

OnSignalResolvedStep == Resolved(Unswept) /\ dips' = {} /\ below' = FALSE

Next == (\E t \in {now, now + 1} : OnMarketUpdate(t)) \/ OnSignalResolvedStep

Spec == Init /\ [][Next]_vars

-----------------------------------------------------------------------------
(* The stop of a trade is below the lowest of all dips it is based on, and *)
(* its target is worth the risk.                                           *)
StopBelowDips ==
  \A i \in DOMAIN trade :
    /\ trade[i].stop <= Min(dips) /\ trade[i].stop < trade[i].entry
    /\ trade[i].reward2 >= 3 * (trade[i].entry - trade[i].stop)

(* What every L2 announces as the end of the setup: a 15m candle that      *)
(* closes below the lowest dip known before it makes the strategy give up. *)
GivesUpBelowDip == below => st.state = "INVALID"
=============================================================================
