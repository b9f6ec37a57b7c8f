--------------------------- MODULE MarketStructure ---------------------------
(* Swings, breaks and trend of a series of bars (indicators/structure.py).  *)
(* A bar has a high, a low and a close.                                     *)
EXTENDS Integers, SequencesExt, FiniteSetsExt

CONSTANTS
  PivotLeft, PivotRight,  \* bars on either side that make a swing of a bar
  Lookback                \* bars that are looked at; 0: all

ASSUME StructureAssumption ==
  PivotLeft \in Nat \ {0} /\ PivotRight \in Nat \ {0} /\ Lookback \in Nat

(* A closed bar: it closes between its low and its high.                   *)
Candle == {c \in [high : Int, low : Int, close : Int] : c.low <= c.close /\ c.close <= c.high}

Smaller(a, b) == IF a < b THEN a ELSE b
Larger(a, b) == IF a < b THEN b ELSE a

(* A strict extreme of its window.                                         *)
IsSwing(values, k) ==
  /\ k > PivotLeft /\ k + PivotRight <= Len(values)
  /\ \A j \in (k - PivotLeft)..(k + PivotRight) : j = k \/ values[j] < values[k]

Highs(bs) == [k \in DOMAIN bs |-> bs[k].high]
Depths(bs) == [k \in DOMAIN bs |-> -bs[k].low]
SwingHigh(bs, k) == IsSwing(Highs(bs), k)
SwingLow(bs, k) == IsSwing(Depths(bs), k)

(* high, low: index of the last confirmed swing, 0 before the first.       *)
StartState ==
  [trend |-> "RANGE", event |-> "NONE", high |-> 0, low |-> 0, highBroken |-> TRUE, lowBroken |-> TRUE]

(* Mutant of Breaks: every later close across the level is a break again.  *)
BreaksAgain(new, broken, previous, close, level) ==
  close > level /\ (previous <= level \/ new)

(* A close across an unbroken level; a level just confirmed may have been  *)
(* crossed before.                                                         *)
Breaks(new, broken, previous, close, level) ==
  /\ new \/ ~broken
  /\ close > level /\ (previous <= level \/ new)

(* One bar of detect_structure_series_values: the swing it confirms, then  *)
(* the break it makes; a break of the high is looked for first.            *)
StateAfter(before, bs, k) ==
  LET pivot == k - PivotRight
      seen == SubSeq(bs, 1, k)
      newHigh == pivot > 0 /\ SwingHigh(seen, pivot)
      newLow == pivot > 0 /\ SwingLow(seen, pivot)
      high == IF newHigh THEN pivot ELSE before.high
      low == IF newLow THEN pivot ELSE before.low
      previous == bs[IF k = 1 THEN 1 ELSE k - 1].close
      breaksHigh == /\ high # 0
                    /\ Breaks(newHigh, before.highBroken, previous, bs[k].close, bs[high].high)
      breaksLow == /\ low # 0 /\ ~breaksHigh
                   /\ Breaks(newLow, before.lowBroken, -previous, -bs[k].close, -bs[low].low)
  IN [trend |-> IF breaksHigh THEN "UP" ELSE IF breaksLow THEN "DOWN" ELSE before.trend,
      event |-> IF breaksHigh THEN (IF before.trend = "DOWN" THEN "CHOCH_UP" ELSE "BOS_UP")
                ELSE IF breaksLow THEN (IF before.trend = "UP" THEN "CHOCH_DOWN" ELSE "BOS_DOWN")
                ELSE "NONE",
      high |-> high, low |-> low,
      highBroken |-> breaksHigh \/ (~newHigh /\ before.highBroken),
      lowBroken |-> breaksLow \/ (~newLow /\ before.lowBroken)]

(* The states of a series, and detect_structure: the last of the window.   *)
Trace(bs) ==
  LET At[k \in 0..Len(bs)] == IF k = 0 THEN StartState ELSE StateAfter(At[k - 1], bs, k)
  IN At
States(bs) == [k \in DOMAIN bs |-> Trace(bs)[k]]
Looked(bs, n) == IF n > 0 THEN SubSeq(bs, Larger(1, Len(bs) - n + 1), Len(bs)) ELSE bs
Detected(bs, n) == IF bs = <<>> THEN StartState ELSE Last(States(Looked(bs, n)))

-----------------------------------------------------------------------------
VARIABLES
  candles,    \* the closed bars
  structures  \* the state after each of them

structure == <<candles, structures>>
StructureInit == candles = <<>> /\ structures = <<>>

(* A candle closes; the window is looked at from its first bar again.      *)
CandleCloses(candle) ==
  /\ candles' = Append(candles, candle)
  /\ structures' = Append(structures, Detected(candles', Lookback))

StructureSpec == StructureInit /\ [][\E candle \in Candle : CandleCloses(candle)]_structure

-----------------------------------------------------------------------------
(* Values the last of which is the first, since the latest swing of the    *)
(* window was confirmed, with a close above that swing.                    *)
FirstAbove(values, closes) ==
  LET n == Len(values)
      swings == {k \in 1..n : IsSwing(values, k)}
  IN /\ swings # {}
     /\ closes[n] > values[Max(swings)]
     /\ \A k \in (Max(swings) + PivotRight)..(n - 1) : closes[k] <= values[Max(swings)]

(* A break is reported on the first bar, since its swing was confirmed,    *)
(* that closes beyond the latest swing of the window, and on no other,     *)
(* however often the level is crossed and swings replace each other.  No   *)
(* break of a low is lost to a break of the high, which the code looks for *)
(* first: no bar makes both.                                               *)
BreaksAreFirst ==
  candles # <<>> =>
    LET bs == Looked(candles, Lookback)
        state == Last(structures)
        up == state.event \in {"BOS_UP", "CHOCH_UP"}
        down == state.event \in {"BOS_DOWN", "CHOCH_DOWN"}
    IN /\ up <=> FirstAbove(Highs(bs), [k \in DOMAIN bs |-> bs[k].close])
       /\ down <=> FirstAbove(Depths(bs), [k \in DOMAIN bs |-> -bs[k].close])
       /\ (up => state.trend = "UP") /\ (down => state.trend = "DOWN")
=============================================================================
