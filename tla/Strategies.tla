----------------------------- MODULE Strategies -----------------------------
(***************************************************************************)
(* The live strategies main.py asks.  Each has a state of its own and sees *)
(* no other's, so what holds of one at a time holds of all three: `which`  *)
(* is the one these variables belong to.                                   *)
(***************************************************************************)
EXTENDS LiveStrategy, FiniteSets

CONSTANTS
  Cm2Prices, Cm2References, Cm2Atr, Zone1Low, Zone1High, Zone2Low, Zone2High,
  StopPrice, FirstInvalid, Cm2Target1, Cm2Buffers,
  Cm3Prices, PriorLows, Cm3Atr, FixedSweep, FixedReclaim, Cm3Target1, Cm3Buffers,
  StandPrices, StandLevel, Support, FailBack, Window

(* Prices are steps; an ATR is positive, and 20 steps are the smallest in  *)
(* which a zone and its fail level are apart.                              *)
ASSUME Cm2Assumption ==
  /\ Cm2Prices \subseteq Int /\ Cm2References \subseteq Int /\ Cm2Buffers \subseteq Nat
  /\ Cm2Atr \in Nat \ {0} /\ Cm2Atr % 20 = 0
  /\ {Zone1Low, Zone1High, Zone2Low, Zone2High, StopPrice, FirstInvalid, Cm2Target1} \subseteq Int

ASSUME Cm3Assumption ==
  /\ Cm3Prices \subseteq Int /\ PriorLows \subseteq Int /\ Cm3Buffers \subseteq Nat
  /\ Cm3Atr \in Nat \ {0} /\ Cm3Atr % 10 = 0
  /\ {FixedSweep, FixedReclaim, Cm3Target1} \subseteq Int

ASSUME StandAssumption ==
  StandPrices \subseteq Int /\ Window \in Nat /\ {StandLevel, Support, FailBack} \subseteq Int

VARIABLES which, touch, dips, below, recent

Cm2 == INSTANCE PullbackFailShort WITH
  Prices <- Cm2Prices, References <- Cm2References, Atr <- Cm2Atr,
  Target1 <- Cm2Target1, Buffers <- Cm2Buffers

Cm3 == INSTANCE LiquiditySweepLong WITH
  Prices <- Cm3Prices, Atr <- Cm3Atr, Target1 <- Cm3Target1, Buffers <- Cm3Buffers

Stand == INSTANCE StandAboveLevel WITH
  Prices <- StandPrices, Level <- StandLevel, Fail <- FailBack

strategies == <<which, live, touch, dips, below, recent>>

StrategiesInit ==
  \/ which = "CM2" /\ Cm2!Init /\ dips = {} /\ below = FALSE /\ recent = <<>>
  \/ which = "CM3" /\ Cm3!Init /\ touch = Cm2!NoPlan /\ recent = <<>>
  \/ which = "STAND" /\ Stand!Init /\ touch = Cm2!NoPlan /\ dips = {} /\ below = FALSE

StrategiesNext ==
  /\ UNCHANGED which
  /\ \/ which = "CM2" /\ Cm2!Next /\ UNCHANGED <<dips, below, recent>>
     \/ which = "CM3" /\ Cm3!Next /\ UNCHANGED <<touch, recent>>
     \/ which = "STAND" /\ Stand!Next /\ UNCHANGED <<touch, dips, below>>

StrategiesSpec == StrategiesInit /\ [][StrategiesNext]_strategies

-----------------------------------------------------------------------------
(* PullbackFailShort: a trade on a dynamic plan keeps to the plan touched. *)
TradeKeepsPlan == which = "CM2" => Cm2!TradeKeepsPlan
(* LiquiditySweepLong: the stop of a trade is below all of its dips.       *)
StopBelowDips == which = "CM3" => Cm3!StopBelowDips
(* PullbackFailShort: a planned trade is not refused for its R/R.          *)
PlannedRewardAccepted == which = "CM2" => Cm2!PlannedRewardAccepted
(* LiquiditySweepLong: a 15m close below the dips ends the watch.          *)
GivesUpBelowDip == which = "CM3" => Cm3!GivesUpBelowDip
=============================================================================
