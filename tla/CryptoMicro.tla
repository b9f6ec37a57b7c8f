----------------------------- MODULE CryptoMicro -----------------------------
(* The replayable rules C-M2 and C-M3 (strategies/crypto_micro_rules.py):   *)
(* what is known at a time is evaluated, and a candidate says from when on  *)
(* it was known.  Distances are in 1/10000 of a price unit, and a series    *)
(* value stands for the logarithm of the open interest.                     *)
EXTENDS MarketStructure

CONSTANTS
  StructureLookback,         \* structure_lookback
  AtrPeriod,                 \* atr_period
  FlowLookback,               \* flow_lookback
  ProfileLookback, ProfileMinBars, ProfileBins,
  SearchBars,                \* setup_search_bars
  OiLookback, OiMinHistory,
  CrowdedRate,               \* crowded_funding_rate
  Gates                      \* the optional gates in force, of CVD, OI, FUNDING

(* What __post_init__ of the configuration asks for.                       *)
ASSUME MicroAssumption ==
  {StructureLookback, AtrPeriod, FlowLookback, ProfileLookback, ProfileMinBars, ProfileBins,
   SearchBars, OiLookback, OiMinHistory} \subseteq Nat \ {0}

VARIABLES
  asOf,   \* the time of the evaluation
  data,   \* all there ever is: series of bars, open interest and funding
  replay  \* the candidates, by the time they were looked for

micro == <<asOf, data, replay>>

NoTaker == -1
Scale == 10000

-----------------------------------------------------------------------------
(* A stable sort, by two keys, of the items whose numbers are in K.        *)
Precedes(keys, i, j) ==
  \/ keys[i][1] < keys[j][1]
  \/ /\ keys[i][1] = keys[j][1]
     /\ keys[i][2] < keys[j][2] \/ (keys[i][2] = keys[j][2] /\ i <= j)
Place(keys, K, k) == Cardinality({j \in K : Precedes(keys, j, k)})
Sorted(s, keys, K) ==
  LET places == {<<k, Place(keys, K, k)>> : k \in K}
  IN [n \in 1..Cardinality(K) |-> s[(CHOOSE p \in places : p[2] = n)[1]]]

(* What is known at a time; of points, their numbers.                      *)
KnownBars(bars, t) ==
  Sorted(bars, [k \in DOMAIN bars |-> <<bars[k].closes, bars[k].opens>>],
         {k \in DOMAIN bars : bars[k].closes <= t})
PointKeys(points) == [k \in DOMAIN points |-> <<points[k].observed, points[k].available>>]
KnownPoints(points, t) ==
  {k \in DOMAIN points : points[k].observed <= t /\ points[k].available <= t}
LatestPoint(points, t) ==
  LET known == KnownPoints(points, t)
  IN IF known = {} THEN <<>> ELSE <<Last(Sorted(points, PointKeys(points), known))>>

Sum(s) == FoldLeft(LAMBDA a, b : a + b, 0, s)
Tail1(s, n) == SubSeq(s, Larger(1, Len(s) - n + 1), Len(s))
Ordered(s) == Sorted(s, [k \in DOMAIN s |-> <<s[k], 0>>], DOMAIN s)
Span(a, b) == IF a < b THEN b - a ELSE a - b

TrueRange(bs, k) ==
  Max({bs[k].high - bs[k].low, Span(bs[k].high, bs[k - 1].close), Span(bs[k].low, bs[k - 1].close)})
AtrOf(bs) ==
  IF Len(bs) < 2 THEN 0
  ELSE LET ranges == Tail1([k \in 1..(Len(bs) - 1) |-> TrueRange(bs, k + 1)], AtrPeriod)
       IN (100 * Sum(ranges)) \div Len(ranges)

(* Twice the median, and five times a quantile of fifths.                  *)
Median2(s) ==
  LET o == Ordered(s)
  IN o[(Len(o) + 1) \div 2] + o[(Len(o) + 2) \div 2]
Quantile5(s, fifths) ==
  LET o == Ordered(s)
      at == (Len(o) - 1) * fifths
      lower == o[at \div 5 + 1]
      upper == o[(at + 4) \div 5 + 1]
  IN (lower * (5 - (at % 5))) + (upper * (at % 5))

(* The taker flow of a window; a bar without taker volume makes it unknown. *)
FlowUnit == 120
FlowKnown(b) == b.volume > 0 /\ b.taker # NoTaker /\ 0 <= b.taker /\ b.taker <= b.volume
Delta(b) == 2 * b.taker - b.volume
FlowAt(bs, k) ==
  LET window == SubSeq(bs, k - FlowLookback + 1, k)
  IN IF k >= FlowLookback /\ \A j \in DOMAIN window : FlowKnown(window[j])
     THEN <<(FlowUnit * Sum([j \in DOMAIN window |-> Delta(window[j])]))
              \div Sum([j \in DOMAIN window |-> window[j].volume])>>
     ELSE <<>>
Flows(bs, from, to) == FlattenSeq([k \in 1..(to - from + 1) |-> FlowAt(bs, from + k - 1)])

-----------------------------------------------------------------------------
(* C-M2: the node of the volume profile, lost and tested from below.       *)
Profile(bs) ==
  LET window == Tail1(bs, ProfileLookback)
      low == Min({window[k].low : k \in DOMAIN window})
      high == Max({window[k].high : k \in DOMAIN window})
      Bin(b) == Smaller(((b.high + b.low + b.close - 3 * low) * ProfileBins) \div (3 * (high - low)),
                       ProfileBins - 1)
      Filled(bin) == Sum([k \in DOMAIN window |-> IF Bin(window[k]) = bin THEN window[k].volume ELSE 0])
      bins == 0..(ProfileBins - 1)
      best == Min({bin \in bins : \A other \in bins : Filled(other) <= Filled(bin)})
      Edge(bin) == Scale * low + (Scale * bin * (high - low)) \div ProfileBins
  IN IF Len(bs) < ProfileMinBars \/ low = high THEN <<>>
     ELSE <<[low |-> Edge(best), level |-> (Edge(best) + Edge(best + 1)) \div 2,
             available |-> Last(window).closes]>>

LossAt(fives, fifteens, loss, atr) ==
  LET node == Profile(KnownBars(fifteens, fives[loss].opens))
  IN /\ node # <<>>
     /\ Scale * fives[loss - 1].close >= node[1].level /\ Scale * fives[loss].close < node[1].level
     /\ Scale * Last(fives).high >= node[1].low - 15 * atr
     /\ Scale * Last(fives).close < node[1].level

Losses(fives, fifteens, atr) ==
  {k \in Larger(2, Len(fives) - SearchBars)..(Len(fives) - 1) : LossAt(fives, fifteens, k, atr)}

NoFollow(fives, loss) ==
  LET before == Flows(fives, loss, Len(fives) - 1)
      now == FlowAt(fives, Len(fives))
  IN /\ now # <<>> /\ before # <<>>
     /\ 5 * now[1] <= Quantile5(before, 2)
     /\ FlowKnown(Last(fives)) /\ Delta(Last(fives)) <= 0

-----------------------------------------------------------------------------
(* C-M3: equal lows, swept and reclaimed for the first time.               *)
SwingLows(bs) == {k \in DOMAIN bs : SwingLow(bs, k)}
SwingHighs(bs) == {k \in DOMAIN bs : SwingHigh(bs, k)}

(* The latest swing low that has an equal one before it, with the latest.  *)
EqualLows(bs, lows, atr) ==
  LET Equal(l, r) == l < r /\ Scale * Span(bs[l].low, bs[r].low) <= 12 * atr
      rights == {r \in lows : \E l \in lows : Equal(l, r)}
      right == Max(rights)
      left == Max({l \in lows : Equal(l, right)})
  IN IF rights = {} THEN <<>> ELSE <<(Scale \div 2) * (bs[left].low + bs[right].low)>>

SweepAt(bs, sweep, atr) ==
  LET n == Len(bs)
      level == EqualLows(bs, {k \in SwingLows(bs) : k + PivotRight < sweep}, atr)
      reclaim == level[1] + 2 * atr
  IN /\ level # <<>>
     /\ Scale * bs[sweep].low < level[1] - 2 * atr
     /\ Scale * bs[n].close > reclaim
     /\ \A k \in sweep..(n - 1) : Scale * bs[k].close <= reclaim
     /\ \A k \in (sweep + 1)..n : bs[k].close > bs[sweep].low

Sweeps(bs, atr) == {k \in Larger(1, Len(bs) - SearchBars)..Len(bs) : SweepAt(bs, k, atr)}

Displaces(bs, k) ==
  LET history == Tail1(SubSeq(bs, 1, k - 1), 20)
      b == bs[k]
      size == b.high - b.low
  IN /\ Len(history) >= 5
     /\ b.close < b.open
     /\ 100 * size * Len(history) >= 115 * Sum([j \in DOMAIN history |-> history[j].high - history[j].low])
     /\ 100 * b.volume * Len(history) >= 105 * Sum([j \in DOMAIN history |-> history[j].volume])
     /\ 100 * (b.open - b.close) >= 55 * size
     /\ 100 * (b.close - b.low) <= 30 * size

WickHolds(bs, k) ==
  /\ 10 * (Smaller(bs[k].open, bs[k].close) - bs[k].low) >= 3 * (bs[k].high - bs[k].low)
  /\ bs[k].high > bs[k].low /\ ~Displaces(bs, k)

Diverges(bs, sweep) ==
  LET from == Larger(1, sweep - FlowLookback)
      before == Flows(bs, from, sweep - 1)
      now == FlowAt(bs, sweep)
  IN /\ now # <<>> /\ before # <<>>
     /\ \A k \in from..(sweep - 1) : bs[sweep].low < bs[k].low
     /\ 5 * now[1] >= Quantile5(before, 3)

(* calculate_oi_washout of the points with these numbers: the last change  *)
(* against median and MAD (in quarters) of those before.                   *)
Washout(points, K) ==
  LET seen == Sorted(points, PointKeys(points), K)
      changes == [k \in 1..(Len(seen) - 1) |-> seen[k + 1].contracts - seen[k].contracts]
      last == Last(changes)
      history == Tail1(Front(changes), OiLookback)
      center2 == Median2(history)
      mad4 == Median2([k \in DOMAIN history |-> Span(2 * history[k], center2)])
  IN IF Len(changes) <= OiMinHistory \/ Len(history) < OiMinHistory THEN <<>>
     ELSE <<[num |-> 2 * last - center2,
             den |-> IF mad4 = 0 /\ 2 * last = center2 THEN 1 ELSE mad4,
             low |-> 5 * last <= Quantile5(history, 2), available |-> Last(seen).available]>>

(* z = 2 num / (1.4826 den), infinite, by the sign of num, when den is 0.  *)
ZLess(a, b) ==
  \/ a.num * b.den < b.num * a.den
  \/ a.den = 0 /\ b.den = 0 /\ a.num < 0 /\ 0 < b.num
Washed(w) == w.low /\ w.num < 0 /\ 10000 * w.num <= -14826 * w.den

(* The strongest of the washouts up to a point, at its publication, since  *)
(* the sweep opened; the first of equal ones.                              *)
WashoutNear(points, t, from) ==
  LET keys == PointKeys(points)
      known == KnownPoints(points, t)
      washout == [k \in known |->
        Washout(points, {j \in known \cap KnownPoints(points, points[k].available) : Precedes(keys, j, k)})]
      found == {k \in known : points[k].observed >= from /\ washout[k] # <<>>}
      least == {k \in found : \A j \in found : ~ZLess(washout[j][1], washout[k][1])}
      first == CHOOSE k \in least : \A j \in least : Precedes(keys, k, j)
  IN IF found = {} THEN <<>> ELSE washout[first]

-----------------------------------------------------------------------------
(* What both ask for.                                                      *)
Minimum == PivotLeft + PivotRight + 2

BtcOpposes(btc, sign) ==
  LET state == Detected(btc, StructureLookback)
      window == Looked(btc, StructureLookback)
  IN IF sign = 1
     THEN state.trend = "UP" /\ Last(btc).close > window[state.high].high /\ Delta(Last(btc)) > 0
     ELSE state.trend = "DOWN" /\ Last(btc).close < window[state.low].low /\ Delta(Last(btc)) < 0
BtcKnown(btc) ==
  /\ Len(btc) >= Larger(FlowLookback, Minimum)
  /\ FlowAt(btc, Len(btc)) # <<>>
  /\ Detected(btc, StructureLookback).high # 0 /\ Detected(btc, StructureLookback).low # 0

FundingFine(latest, sign) == latest # <<>> /\ sign * latest[1].rate <= CrowdedRate

Gate(name, passed) == name \in Gates => passed

Targets(bs, sign) ==
  IF sign = 1 THEN {bs[k].high : k \in SwingHighs(bs)} \cap {p \in {bs[k].high : k \in DOMAIN bs} : p > Last(bs).close}
  ELSE {bs[k].low : k \in SwingLows(bs)} \cap {p \in {bs[k].low : k \in DOMAIN bs} : p < Last(bs).close}

LatestOf(s) == Max({s[k] : k \in DOMAIN s})
(* Mutant of Availability: the publication of a point counts for nothing.  *)
AvailabilityIgnored(latest) == <<>>
Availability(latest) == IF latest = <<>> THEN <<>> ELSE <<latest[1].available>>

-----------------------------------------------------------------------------
(* evaluate_cm2_short and evaluate_cm3_long of what is known at a time: at *)
(* most a candidate.                                                       *)
ShortOf(fives, fifteens, fours, btc, funding) ==
  LET atr == AtrOf(fives)
      losses == Losses(fives, fifteens, atr)
      loss == Max(losses)
      node == Profile(KnownBars(fifteens, fives[loss].opens))[1]
      stop == Max({node.level} \cup {Scale * fives[k].high : k \in loss..Len(fives)}) + 10 * atr
      targets == Targets(fives, -1)
  IN IF /\ Len(fives) >= IF "CVD" \in Gates THEN Larger(Minimum, FlowLookback + 1) ELSE Minimum
        /\ Len(fifteens) >= ProfileMinBars
        /\ Len(fours) >= Minimum /\ Detected(fours, StructureLookback).trend = "DOWN"
        /\ atr > 0 /\ losses # {}
        /\ Detected(fives, StructureLookback).event = "CHOCH_DOWN"
        /\ Gate("CVD", NoFollow(fives, loss))
        /\ BtcKnown(btc) /\ ~BtcOpposes(btc, 1)
        /\ Gate("FUNDING", FundingFine(funding, -1))
        /\ targets # {} /\ stop > Scale * Last(fives).close
     THEN <<[stop |-> stop, target |-> Max(targets), signal |-> Last(fives).closes,
             available |-> LatestOf(<<Last(fives).closes, Last(fifteens).closes, Last(fours).closes,
                                      Last(btc).closes, node.available>> \o Availability(funding))]>>
     ELSE <<>>
ShortCandidate(t) ==
  ShortOf(KnownBars(data.eth, t), KnownBars(data.eth15, t), KnownBars(data.eth4h, t),
          KnownBars(data.btc, t), LatestPoint(data.funding, t))

LongOf(fives, btc, washout, funding) ==
  LET atr == AtrOf(fives)
      sweeps == Sweeps(fives, atr)
      sweep == Max(sweeps)
      stop == Scale * fives[sweep].low - 10 * atr
      targets == Targets(fives, 1)
  IN IF /\ Len(fives) >= Max({Minimum, AtrPeriod + 1,
                              IF "CVD" \in Gates THEN FlowLookback + Minimum ELSE 0})
        /\ atr > 0 /\ sweeps # {}
        /\ WickHolds(fives, sweep)
        /\ Gate("CVD", Diverges(fives, sweep))
        /\ Gate("OI", washout # <<>> /\ Washed(washout[1]))
        /\ BtcKnown(btc) /\ ~BtcOpposes(btc, -1)
        /\ Gate("FUNDING", FundingFine(funding, 1))
        /\ targets # {} /\ stop < Scale * Last(fives).close
     THEN <<[stop |-> stop, target |-> Min(targets), signal |-> Last(fives).closes,
             available |-> LatestOf(<<Last(fives).closes, Last(btc).closes>>
                             \o Availability(washout) \o Availability(funding))]>>
     ELSE <<>>
LongCandidate(t) ==
  LET fives == KnownBars(data.eth, t)
      sweeps == Sweeps(fives, AtrOf(fives))
      washout == IF sweeps = {} THEN <<>> ELSE WashoutNear(data.interest, t, fives[Max(sweeps)].opens)
  IN LongOf(fives, KnownBars(data.btc, t), washout, LatestPoint(data.funding, t))

-----------------------------------------------------------------------------
(* A replay that begins before the first bar; nothing is published before  *)
(* it is observed.                                                         *)
PricedBar == [opens : Int, closes : Int, open : Int, high : Int, low : Int, close : Int, volume : Int, taker : Int]
InterestPoint == {p \in [observed : Int, available : Int, contracts : Int] : p.observed <= p.available}
FundingPoint == {p \in [observed : Int, available : Int, rate : Int] : p.observed <= p.available}
MicroSeries ==
  [eth : Seq(PricedBar), eth15 : Seq(PricedBar), eth4h : Seq(PricedBar), btc : Seq(PricedBar),
   interest : Seq(InterestPoint), funding : Seq(FundingPoint)]
MicroInit ==
  /\ data \in MicroSeries
  /\ asOf \in Int /\ \A k \in DOMAIN data.eth : asOf < data.eth[k].closes
  /\ replay = <<>>

(* Both rules are evaluated again as time passes.                          *)
TimePasses ==
  /\ asOf' = asOf + 1
  /\ replay' = [t \in DOMAIN replay \cup {asOf'} |->
                IF t = asOf' THEN [short |-> ShortCandidate(t), long |-> LongCandidate(t)] ELSE replay[t]]
  /\ UNCHANGED data
MicroSpec == MicroInit /\ [][TimePasses]_micro

-----------------------------------------------------------------------------
(* A candidate does not depend on when it is looked for: it was there, the *)
(* same one, at the moment it says it became available, and not before the *)
(* bar that signals it; a replay that decides at that moment uses nothing  *)
(* that was published later (crypto_micro_rules.py:46,                     *)
(* "Execution-independent signal that a replay can map to EntryIntent").   *)
CandidateReproducible ==
  \A t \in DOMAIN replay : \A side \in {"short", "long"} :
    replay[t][side] # <<>> =>
      LET candidate == replay[t][side][1]
      IN /\ candidate.signal <= candidate.available /\ candidate.available <= t
         /\ candidate.available \in DOMAIN replay
         /\ replay[candidate.available][side] = <<candidate>>
=============================================================================
