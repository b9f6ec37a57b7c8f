-------------------------- MODULE PullbackFailShort --------------------------
(***************************************************************************)
(* app/strategies/eth_cm2_pullback_fail_short.py: wait for the price to    *)
(* enter a zone above it, then go short when it falls back.  The zone is a *)
(* dynamic one when there is enough history, and otherwise one of two that *)
(* are configured; what was touched is kept until the trade is over.       *)
(***************************************************************************)
EXTENDS LiveStrategy, FiniteSets

CONSTANTS
  Prices, References,    \* bound: closes, and VWAPs of the dynamic plans
  Atr,                   \* in price steps, a multiple of 20
  Zone1Low, Zone1High,   \* pullback_zone_1
  Zone2Low, Zone2High,   \* pullback_zone_2
  StopPrice,             \* stop_loss.price
  FirstInvalid,          \* levels.first_invalid
  Target1,               \* targets.tp1
  Buffers                \* bound: values of the ATR buffer of the stop

VARIABLE touch  \* history: the zone of the touch the strategy acts on

vars == <<live, touch>>

(* dynamic_levels.py: a zone around the VWAP, in parts of the ATR.         *)
NoPlan == [low |-> 0, high |-> 0, fail |-> 0, invalid |-> 0]
Plan(r) == [low |-> r - (Atr * 4) \div 20, high |-> r + (Atr * 5) \div 20,
            fail |-> r - (Atr * 3) \div 20, invalid |-> r + (Atr * 15) \div 20]
Plans == {NoPlan} \cup {Plan(r) : r \in References}

(* Between a configured zone and its levels there is no room.              *)
FixedZone(low, high) == [low |-> low, high |-> high, fail |-> low, invalid |-> high]
Zone1 == FixedZone(Zone1Low, Zone1High)
Zone2 == FixedZone(Zone2Low, Zone2High)

(* touched_zone, active_zone with its levels, and whether it is a plan.    *)
Untouched == [touched |-> FALSE, zone |-> NoPlan, dynamic |-> FALSE]

Zones(plan) == IF plan # NoPlan THEN {plan} ELSE {Zone1, Zone2}

Init == LiveInit(Untouched) /\ touch = NoPlan

Candle == [interval : {"5m", "15m", "1h"}, price : Prices, plan : Plans,
           btc : {"bullish", "other"}, newHigh : BOOLEAN]

(* Mutant of StructureStop: the levels of the newest plan.                 *)
StructureStopOfPlan(c, plan) ==
  IF plan # NoPlan THEN plan.invalid
  ELSE IF c.zone = Zone2 THEN Zone2High ELSE StopPrice

(* The stop of a touched plan is frozen with it; otherwise it is the one   *)
(* that is configured, raised for the second zone, if that zone is among   *)
(* the zones of this candle.                                               *)
StructureStop(c, plan) ==
  IF c.dynamic THEN c.zone.invalid
  ELSE IF c.zone = Zone2 /\ plan = NoPlan /\ Zone2High > StopPrice THEN Zone2High
  ELSE StopPrice

Invalid(c, plan) ==
  IF c.touched THEN c.zone.invalid
  ELSE IF plan # NoPlan THEN plan.invalid ELSE FirstInvalid

(* The first candle that closes inside a zone: L2.                         *)
Entering(c, k) ==
  {z \in Zones(k.plan) : /\ ~c.touched /\ k.interval \in {"5m", "15m"}
                         /\ z.low <= k.price /\ k.price <= z.high}

GoShort(k, s, c, first, t) ==
  \E buffer \in Buffers, roundsDown \in BOOLEAN :
    LET stop == StructureStop(c, k.plan) + buffer
        risk == stop - k.price
        reward2 == Reward2(risk, c.dynamic, k.price - Target1)
    IN IF RewardEnough(risk, reward2, roundsDown)
       THEN Answer(Enter(s, t, Id), c, first \o <<"L3">>,
                   <<[entry |-> k.price, stop |-> stop, reward2 |-> reward2]>>, FALSE)
       ELSE Answer(MakeSignal(s, NoTrade), c, first \o <<"L2">>, <<>>, TRUE)

(* The candle is judged after the touch it may have brought.               *)
Judge(k, s, c, first, t) ==
  LET off == (k.interval = "15m" /\ k.price > Invalid(c, k.plan)) \/ k.btc = "bullish"
      falls == k.interval = "5m" /\ c.touched /\ k.price < c.zone.fail /\ ~k.newHigh
  IN \/ off /\ Answer(Refuse(s, t), c, first \o <<"L4">>, <<>>, FALSE)
     \/ ~off /\ falls /\ GoShort(k, s, c, first, t)
     \/ ~off /\ ~falls /\ Answer(s, c, first, <<>>, FALSE)

Conditions(k, t) ==
  LET u == Unlock(st)
      c == Context(Untouched)
      zones == Entering(c, k)
  IN IF zones = {}
     THEN Judge(k, u, c, <<>>, t) /\ touch' = IF c.touched THEN touch ELSE NoPlan
     ELSE \E z \in zones :
            /\ Judge(k, Watch(u, t), [touched |-> TRUE, zone |-> z, dynamic |-> k.plan # NoPlan],
                     <<"L2">>, t)
            /\ touch' = z

OnMarketUpdate(t) ==
  /\ Later(t)
  /\ \/ (TimeStopped(t) \/ Locked(t)) /\ UNCHANGED touch
     \/ Unlocked(t) /\ \E k \in Candle : Conditions(k, t)

OnSignalResolvedStep == Resolved(Untouched) /\ touch' = NoPlan

Next == (\E t \in {now, now + 1} : OnMarketUpdate(t)) \/ OnSignalResolvedStep

Spec == Init /\ [][Next]_vars

-----------------------------------------------------------------------------
(* A trade made on a dynamic plan keeps to the plan that was touched,      *)
(* whatever the plans of later candles are: it is entered below the fail   *)
(* level, its stop is not inside the zone, and its target is worth the     *)
(* risk.                                                                   *)
TradeKeepsPlan ==
  \A i \in DOMAIN trade : touch \in {Plan(r) : r \in References} =>
    /\ trade[i].entry < touch.fail /\ trade[i].stop >= touch.invalid
    /\ trade[i].reward2 >= 3 * (trade[i].stop - trade[i].entry)

(* A trade on a dynamic plan, whose target is set to 1.5 times its risk,   *)
(* is never refused because the reward is below 1.5 times the risk.        *)
PlannedRewardAccepted == tooSmall => ~ctx.dynamic
=============================================================================
