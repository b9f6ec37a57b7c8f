------------------------------ MODULE Backtest ------------------------------
(* The backtest engine (backtest/engine.py): decisions made at the close of *)
(* a bar, filled at the open of the next one, one trade at a time, and the  *)
(* equity curve the trades are booked on.  The history grows by a bar per   *)
(* step, as it does for a strategy that is tested again every day.          *)
EXTENDS Integers, Sequences, FiniteSetsExt

CONSTANTS
  Bars,         \* shapes a bar can have
  Intents,      \* decisions a strategy can make
  Forever,      \* a hold no history is as long as: max_hold_bars is None
  MaxBars,      \* bound on the history
  MinRRNum, MinRRDen,  \* minimum_rr
  SlipDen,      \* the slippage is 1/SlipDen of the price
  StopFirst,    \* stop_first_when_ambiguous
  CloseAfter    \* a bar opens at 2k and closes at 2k + CloseAfter

ASSUME BacktestAssumption ==
  /\ Bars \subseteq [open : Nat, high : Nat, low : Nat, close : Nat]
  /\ Intents \subseteq [direction : {"LONG", "SHORT"}, stop : Nat, target : Nat, hold : Nat]
  /\ MaxBars \in Nat /\ Forever \in Nat /\ Forever > MaxBars
  /\ MinRRNum \in Nat /\ MinRRDen \in Nat \ {0} /\ SlipDen \in Nat \ {0}
  /\ StopFirst \in BOOLEAN /\ CloseAfter \in {1, 2}

VARIABLES
  bars,     \* the closed bars, oldest first
  intents,  \* the decisions, by the index of the bar they were made after
  trades    \* the result of the last run of the engine

history == <<bars, intents, trades>>

OpenTime(k) == 2 * k
CloseTime(k) == 2 * k + CloseAfter

-----------------------------------------------------------------------------
(* One trade.  Prices times the sign of its direction: more is better.     *)
Sign(i) == IF i.direction = "LONG" THEN 1 ELSE -1
Worst(b, i) == IF i.direction = "LONG" THEN b.low ELSE b.high
Best(b, i) == IF i.direction = "LONG" THEN b.high ELSE b.low
Slipped(p, sign) == p + sign * (p \div SlipDen)

StopGap(b, i) == Sign(i) * (b.open - i.stop) <= 0
TargetGap(b, i) == Sign(i) * (b.open - i.target) >= 0
StopHit(b, i) == Sign(i) * (Worst(b, i) - i.stop) <= 0
TargetHit(b, i) == Sign(i) * (Best(b, i) - i.target) >= 0

Entry(b, i) == Slipped(b.open, Sign(i))
Risk(b, i) == Sign(i) * (Entry(b, i) - i.stop)
Reward(b, i) == Sign(i) * (i.target - Entry(b, i))
Worthwhile(b, i) ==
  /\ Risk(b, i) > 0 /\ Reward(b, i) > 0
  /\ Reward(b, i) * MinRRDen >= MinRRNum * Risk(b, i)

(* What ends the trade in a bar, the first that applies.                   *)
Reason(b, i) ==
  CASE StopGap(b, i)                        -> "STOP_GAP"
    [] ~StopGap(b, i) /\ TargetGap(b, i)    -> "TARGET_GAP"
    [] ~StopGap(b, i) /\ ~TargetGap(b, i) /\ StopHit(b, i) /\ TargetHit(b, i) ->
         IF StopFirst THEN "AMBIGUOUS_STOP_FIRST" ELSE "AMBIGUOUS_TARGET_FIRST"
    [] ~StopGap(b, i) /\ ~TargetGap(b, i) /\ StopHit(b, i) /\ ~TargetHit(b, i) -> "STOP"
    [] ~StopGap(b, i) /\ ~TargetGap(b, i) /\ ~StopHit(b, i) /\ TargetHit(b, i) -> "TARGET"
    [] OTHER -> "NONE"

(* Mutant of RawExit: a gap is filled at the level it jumped over.          *)
RawExitAtLevel(b, i) ==
  CASE Reason(b, i) \in {"STOP_GAP", "STOP", "AMBIGUOUS_STOP_FIRST"} -> i.stop
    [] Reason(b, i) = "NONE" -> b.close
    [] OTHER -> i.target

RawExit(b, i) ==
  CASE Reason(b, i) = "STOP_GAP" -> b.open
    [] Reason(b, i) \in {"STOP", "AMBIGUOUS_STOP_FIRST"} -> i.stop
    [] Reason(b, i) \in {"TARGET", "TARGET_GAP", "AMBIGUOUS_TARGET_FIRST"} -> i.target
    [] OTHER -> b.close

FinalBar(bs, entry, i) == Min({Len(bs), entry + Max({0, i.hold - 1})})

(* Mutant of ExitBar: the last touch ends the trade.                       *)
ExitBarLast(touched, final) == IF touched = {} THEN final ELSE Max(touched)

ExitBar(touched, final) == IF touched = {} THEN final ELSE Min(touched)

Simulated(bs, signal, i) ==
  LET entry == signal + 1
      final == FinalBar(bs, entry, i)
      ending == {k \in entry..final : Reason(bs[k], i) # "NONE"}
      exit == ExitBar(ending, final)
  IN [intent |-> i, signal |-> signal, entry |-> entry, exit |-> exit,
      raw |-> RawExit(bs[exit], i),
      price |-> Slipped(RawExit(bs[exit], i), -Sign(i)),
      reason |-> IF ending # {} THEN Reason(bs[exit], i)
                 ELSE IF final = Len(bs) THEN "END_OF_DATA" ELSE "TIME_STOP"]

(* Mutant of Taken: a trade is made while another is held.                 *)
TakenWhileHeld(bs, signal, i, free) ==
  IF signal + 1 <= Len(bs) /\ Worthwhile(bs[signal + 1], i)
  THEN <<Simulated(bs, signal, i)>> ELSE <<>>

(* The decisions in order of their bars; one that comes while a trade is   *)
(* held, or has no next bar, or is not worth its risk there, is dropped.   *)
Taken(bs, signal, i, free) ==
  IF signal + 1 <= Len(bs) /\ signal + 1 >= free /\ Worthwhile(bs[signal + 1], i)
  THEN <<Simulated(bs, signal, i)>> ELSE <<>>

(* One turn of the loop: the trades made so far, and the next free bar.    *)
Turn(bs, is, k, before) ==
  LET taken == IF k \in DOMAIN is THEN Taken(bs, k, is[k], before.free) ELSE <<>>
  IN IF taken = <<>> THEN before
     ELSE [trades |-> before.trades \o taken, free |-> taken[1].exit + 1]

Loop(bs, is) ==
  LET after[k \in 0..Len(bs)] ==
        IF k = 0 THEN [trades |-> <<>>, free |-> 2] ELSE Turn(bs, is, k, after[k - 1])
  IN after

Run(bs, is) == IF Len(bs) < 2 THEN <<>> ELSE Loop(bs, is)[Len(bs)].trades

(* The funding times (every half bar is one) a trade pays or receives.     *)
Funded(t) == {time \in 0..(2 * MaxBars + 2) : OpenTime(t.entry) < time /\ time <= CloseTime(t.exit)}

-----------------------------------------------------------------------------
(* The marked equity curve: at each bar, how many trades are booked in the *)
(* equity, and whether an open one is marked at the close.                 *)
CurvePoint(booked, k) ==
  LET over == {j \in DOMAIN trades : j > booked /\ CloseTime(trades[j].exit) <= OpenTime(k)}
      first == booked + Cardinality(over)
      t == trades[first + 1]
      begun == first < Len(trades) /\ OpenTime(t.entry) <= OpenTime(k)
      ends == begun /\ CloseTime(t.exit) <= CloseTime(k)
  IN [booked |-> IF ends THEN first + 1 ELSE first,
      marked |-> begun /\ ~ends /\ OpenTime(k) < CloseTime(t.exit)]

Point[k \in 0..Len(bars)] ==
  IF k = 0 THEN [booked |-> 0, marked |-> FALSE] ELSE CurvePoint(Point[k - 1].booked, k)

Curve == [k \in DOMAIN bars |-> Point[k]]

-----------------------------------------------------------------------------
HistoryInit == bars = <<>> /\ intents = <<>> /\ trades = <<>>

(* A bar closes, the strategy decides on it or does not, and the engine    *)
(* runs on the history so far.                                             *)
BarClosed ==
  /\ Len(bars) < MaxBars
  /\ \E b \in Bars : bars' = Append(bars, b)
  /\ \/ UNCHANGED intents
     \/ \E i \in Intents : intents' = [k \in DOMAIN intents \cup {Len(bars) + 1} |->
                                         IF k \in DOMAIN intents THEN intents[k] ELSE i]
  /\ trades' = Run(bars', intents')

BacktestSpec == HistoryInit /\ [][BarClosed]_history

-----------------------------------------------------------------------------
(* Where a market that moves inside the bar as it likes can close the      *)
(* trade: on the open, else at whichever of the two levels it meets first. *)
PathExits(b, i) ==
  IF StopGap(b, i) \/ TargetGap(b, i) THEN {b.open}
  ELSE {p \in {i.stop} : StopHit(b, i)} \cup {p \in {i.target} : TargetHit(b, i)}

(* The simulation is never better than the market: whatever path the price *)
(* took inside the bars, the trade was still open in every bar before the  *)
(* simulated exit, and its exit was no worse than the simulated one.       *)
(* engine.py:34 calls it conservative.                                     *)
Pessimistic ==
  \A n \in DOMAIN trades :
    LET t == trades[n]
        i == t.intent
        paths == PathExits(bars[t.exit], i)
    IN /\ \A k \in t.entry..(t.exit - 1) : PathExits(bars[k], i) = {}
       /\ \A p \in paths : Sign(i) * (t.raw - p) <= 0
       /\ paths = {} => t.raw = bars[t.exit].close
       /\ Sign(i) * (t.price - t.raw) <= 0

(* Every trade is in the equity from its exit bar on, once, and marked in  *)
(* the bars before; no two trades are held in one bar, and no funding      *)
(* payment is charged to two of them.                                      *)
CurveBooksEveryTrade ==
  LET curve == Curve
  IN /\ \A k \in DOMAIN bars :
          /\ curve[k].booked = Cardinality({n \in DOMAIN trades : trades[n].exit <= k})
          /\ curve[k].marked <=> \E n \in DOMAIN trades : trades[n].entry <= k /\ k < trades[n].exit
     /\ \A m, n \in DOMAIN trades :
          m # n => /\ (trades[m].entry..trades[m].exit) \cap (trades[n].entry..trades[n].exit) = {}
                   /\ Funded(trades[m]) \cap Funded(trades[n]) = {}

(* No look-ahead: a trade that was over before a bar is the same trade     *)
(* after it; only one still open at the end of the data may change.        *)
NoLookAhead ==
  [][\A n \in DOMAIN trades : trades[n].reason # "END_OF_DATA" =>
       n \in DOMAIN trades' /\ trades'[n] = trades[n]]_history
=============================================================================
