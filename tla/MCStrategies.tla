---------------------------- MODULE MCStrategies ----------------------------
(* One of seven: a live strategy, with levels close to each other so that a  *)
(* handful of prices meets every order of price, level, stop and target;   *)
(* the structure of a series of bars; the micro rules on series that set   *)
(* up, and spoil, one candidate each; the loop from outcomes to sizes; the  *)
(* candles on their way to the strategies.                                 *)
EXTENDS Strategies, CryptoMicro, RiskBudget, CandleFeed

(* Equal highs, so that a level is crossed a second time before a higher   *)
(* swing replaces it.                                                      *)
MaxCandles == 7
StructureCandles ==
  {[high |-> 40, low |-> 20, close |-> 35], [high |-> 45, low |-> 8, close |-> 41],
   [high |-> 45, low |-> 8, close |-> 30], [high |-> 28, low |-> 2, close |-> 4]}

-----------------------------------------------------------------------------
(* Series for the micro rules.                                             *)
MicroBar(closes, o, h, l, c, v, t) ==
  [opens |-> closes - 1, closes |-> closes, open |-> o, high |-> h, low |-> l, close |-> c, volume |-> v, taker |-> t]

(* A rise that ends in a change of character below the volume node.        *)
FallAndRetest ==
  << MicroBar(1, 122, 126, 120, 124, 10, 5), MicroBar(2, 124, 128, 116, 126, 10, 5),
     MicroBar(3, 126, 130, 122, 128, 10, 5), MicroBar(4, 128, 132, 124, 131, 10, 5),
     MicroBar(5, 131, 134, 128, 133, 10, 5), MicroBar(6, 133, 133, 126, 129, 10, 5),
     MicroBar(7, 129, 137, 127, 136, 10, 6), MicroBar(8, 136, 136, 128, 129, 10, 5),
     MicroBar(9, 129, 131, 122, 124, 10, 3) >>
(* Equal lows at 10, swept by bar 7 and reclaimed by bar 8.                *)
SweepAndReclaim(taker) ==
  << MicroBar(1, 18, 20, 14, 16, 10, 5), MicroBar(2, 16, 18, 10, 15, 10, 5),
     MicroBar(3, 15, 22, 13, 20, 10, 5), MicroBar(4, 20, 24, 15, 18, 10, 5),
     MicroBar(5, 18, 19, 10, 14, 10, 4), MicroBar(6, 14, 17, 12, 15, 10, 4),
     MicroBar(7, 12, 13, 6, 10, 10, taker), MicroBar(8, 10, 13, 10, 12, 10, 5) >>
Quarters ==
  << MicroBar(3, 110, 140, 118, 132, 30, 15), MicroBar(6, 132, 138, 100, 134, 60, 30),
     MicroBar(9, 130, 136, 125, 128, 30, 15) >>
FourHours ==
  << MicroBar(-3, 55, 60, 50, 55, 10, 5), MicroBar(-2, 55, 55, 40, 45, 10, 5),
     MicroBar(-1, 45, 58, 45, 50, 10, 5), MicroBar(0, 50, 50, 30, 35, 10, 5) >>

(* BTC neither opposes, breaks up in time or late, or breaks down.         *)
Btc(last) ==
  << MicroBar(5, 8, 10, 5, 8, 10, 5), MicroBar(6, 8, 14, 8, 10, 10, 5),
     MicroBar(7, 10, 11, 4, 8, 10, 5), MicroBar(8, 8, 13, 7, 9, 10, 5), last >>
BtcSeries ==
  {Btc(MicroBar(9, 9, 11, 6, 9, 10, 5)), Btc(MicroBar(9, 9, 16, 6, 15, 10, 7)),
   Btc(MicroBar(10, 9, 16, 6, 15, 10, 7)), Btc(MicroBar(9, 9, 9, 3, 3, 10, 3))}

(* Open interest that is washed out at 7 or not before 8, published late.  *)
Interest(late7, late8, last) ==
  LET At(observed, late, contracts) ==
        [observed |-> observed, available |-> observed + late, contracts |-> contracts]
  IN << At(1, 0, 20), At(2, 0, 21), At(3, 0, 20), At(4, 1, 21), At(5, 0, 20),
        At(7, late7, 15), At(8, late8, last) >>
(* Two funding rates, either of them crowded, the second published late.   *)
Funding(first, second, late) ==
  << [observed |-> 4, available |-> 4, rate |-> first],
     [observed |-> 8, available |-> 8 + late, rate |-> second] >>

LastLook == 12
MicroData ==
  [eth : {FallAndRetest, SweepAndReclaim(5), SweepAndReclaim(7), SweepAndReclaim(-1)},
   eth15 : {Quarters}, eth4h : {FourHours}, btc : BtcSeries,
   interest : {Interest(a, b, c) : a \in {0, 3}, b \in {0, 1, 3}, c \in {5, 14, 16}},
   funding : {Funding(r[1], r[2], late) : r \in {<<0, 6>>, <<6, 0>>, <<-6, 0>>, <<0, -6>>}, late \in {1, 3}}]
NoData == [d \in DOMAIN (CHOOSE data0 \in MicroData : TRUE) |-> <<>>]

-----------------------------------------------------------------------------
IdleStrategy ==
  LiveInit(0) /\ touch = Cm2!NoPlan /\ dips = {} /\ below = FALSE /\ recent = <<>>
IdleMicro == asOf = 0 /\ data = NoData /\ replay = <<>>

Init ==
  /\ StructureInit /\ BudgetInit /\ FeedInit
  /\ \/ StrategiesInit /\ IdleMicro
     \/ which \in {"STRUCTURE", "BUDGET", "FEED"} /\ IdleStrategy /\ IdleMicro
     \/ which = "MICRO" /\ IdleStrategy /\ asOf = 0 /\ data \in MicroData /\ MicroInit

Next ==
  \/ StrategiesNext /\ UNCHANGED <<structure, micro, budget, feed>>
  \/ /\ UNCHANGED strategies
     /\ \/ /\ which = "STRUCTURE" /\ Len(candles) < MaxCandles
           /\ \E candle \in StructureCandles : CandleCloses(candle)
           /\ UNCHANGED <<micro, budget, feed>>
        \/ /\ which = "MICRO" /\ asOf < LastLook /\ TimePasses
           /\ UNCHANGED <<structure, budget, feed>>
        \/ which = "BUDGET" /\ BudgetNext /\ UNCHANGED <<structure, micro, feed>>
        \/ which = "FEED" /\ FeedNext /\ UNCHANGED <<structure, micro, budget>>

vars == <<strategies, structure, micro, budget, feed>>
Spec == Init /\ [][Next]_vars
=============================================================================
