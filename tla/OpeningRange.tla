---------------------------- MODULE OpeningRange ----------------------------
(* The opening-range retest (strategies/equity_orb_retest.py) and its       *)
(* replay for the backtest (backtest/orb.py): after each bar the strategy   *)
(* is evaluated on all bars so far, and a signal not seen before becomes a  *)
(* decision made at that bar.  A bar has the day and the minute it opens,   *)
(* in New York.                                                             *)
EXTENDS Integers, SequencesExt, FiniteSetsExt

CONSTANTS
  Shapes,         \* Shapes[day][minute]: the bars there may be then
  PreviousClose,  \* by UTC date; 0 where the caller has none
  Sector,         \* by UTC date: the directions the sector allows, ANY when not given
  UtcMidnight,    \* the minute the UTC date changes: 1140 in winter
  RangeBars,      \* opening_range_minutes // 15
  Cutoff,         \* entry_cutoff_et
  GapPct,         \* minimum_absolute_gap_pct
  PreNum, PreDen, \* minimum_premarket_rvol
  ConfNum, ConfDen,    \* minimum_confirmation_rvol
  BufferDen,      \* 1/retest_buffer_fraction; stop and target are in 1/BufferDen
  RewardR,        \* reward_r
  RequireRvol     \* require_premarket_rvol

VolumeWindow == 20
Days == DOMAIN Shapes

ASSUME OrbAssumption ==
  /\ Days \subseteq Nat
  /\ \A d \in Days : \A minute \in DOMAIN Shapes[d] :
       minute \in Nat /\ Shapes[d][minute] \subseteq
         [day : Nat, minute : Nat, open : Nat, high : Nat, low : Nat, close : Nat, volume : Nat]
  /\ {RangeBars, BufferDen, RewardR} \subseteq Nat \ {0} /\ {Cutoff, UtcMidnight} \subseteq Nat

VARIABLES rows, decided  \* decided: the decisions, by the bar they were made after
orb == <<rows, decided>>

IsPremarket(b) == 240 <= b.minute /\ b.minute < 570
IsRegular(b) == 570 <= b.minute /\ b.minute < 960
Before(a, b) == a.day < b.day \/ (a.day = b.day /\ a.minute < b.minute)
UtcDate(b) == b.day + (IF b.minute >= UtcMidnight THEN 1 ELSE 0)

(* The bars of the list at the places in K, in order.                      *)
Those(bs, K) ==
  LET upTo[k \in 0..Len(bs)] == IF k = 0 THEN <<>>
                                ELSE IF k \in K THEN Append(upTo[k - 1], bs[k])
                                ELSE upTo[k - 1]
  IN upTo[Len(bs)]

LowsOf(bs) == {bs[k].low : k \in DOMAIN bs}
HighsOf(bs) == {bs[k].high : k \in DOMAIN bs}
Volume(bs) == FoldLeft(LAMBDA v, b : v + b.volume, 0, bs)
LastFew(s, n) == SubSeq(s, Max({1, Len(s) - n + 1}), Len(s))
Distance(a, b) == IF a < b THEN b - a ELSE a - b

-----------------------------------------------------------------------------
(* The filters: gap of the open, volume before the open.                   *)
Gapped(open, previous) ==
  /\ previous # 0
  /\ 100 * Distance(open, previous) >= GapPct * previous

(* Volumes of the days before, up to the last premarket minute of today.   *)
Baseline(bs, today, cutoff) ==
  LET Counted(d) ==
        Those(bs, {k \in DOMAIN bs : bs[k].day = d /\ 240 <= bs[k].minute /\ bs[k].minute <= cutoff})
      days == {d \in 1..(today - 1) : Counted(d) # <<>>}
      ordered == SetToSortSeq(days, LAMBDA a, b : a < b)
  IN LastFew([k \in DOMAIN ordered |-> Volume(Counted(ordered[k]))], VolumeWindow)

RvolEnough(bs, today, premarket) ==
  LET base == IF premarket = <<>> THEN <<>>
              ELSE Baseline(bs, today, Max({premarket[k].minute : k \in DOMAIN premarket}))
      sum == FoldLeft(LAMBDA v, w : v + w, 0, base)
  IN IF sum = 0 THEN ~RequireRvol
     ELSE Volume(premarket) * Len(base) * PreDen >= PreNum * sum

Filtered(bs, today, premarket, open, previous) ==
  ~(Gapped(open, previous) /\ RvolEnough(bs, today, premarket) /\ premarket # <<>>)

-----------------------------------------------------------------------------
(* The breakout, and the retest that confirms it.                          *)
Allows(sector, direction) == sector \in {"ANY", direction}

(* The close against the volume-weighted price of the bars so far.         *)
AboveVwap(bs) ==
  LET weighted == FoldLeft(LAMBDA n, b : n + (b.high + b.low + b.close) * b.volume, 0, bs)
  IN Volume(bs) > 0 /\ 3 * Last(bs).close * Volume(bs) > weighted
BelowVwap(bs) ==
  LET weighted == FoldLeft(LAMBDA n, b : n + (b.high + b.low + b.close) * b.volume, 0, bs)
  IN Volume(bs) > 0 /\ 3 * Last(bs).close * Volume(bs) < weighted

BreaksRange(regular, k, direction) ==
  LET opening == SubSeq(regular, 1, RangeBars)
      b == regular[k]
  IN IF direction = "LONG" THEN b.close > Max(HighsOf(opening)) /\ AboveVwap(SubSeq(regular, 1, k))
     ELSE b.close < Min(LowsOf(opening)) /\ BelowVwap(SubSeq(regular, 1, k))

(* Mutant of VolumeConfirms: bars after the retest count as well.          *)
VolumeConfirmsByAll(bs, b) ==
  LET few == LastFew(Those(bs, {k \in DOMAIN bs : IsRegular(bs[k]) /\ bs[k].volume > 0}), VolumeWindow)
  IN few # <<>> /\ b.volume * Len(few) * ConfDen >= ConfNum * Volume(few)

VolumeConfirms(bs, b) ==
  LET prior == Those(bs, {k \in DOMAIN bs : Before(bs[k], b) /\ IsRegular(bs[k]) /\ bs[k].volume > 0})
      few == LastFew(prior, VolumeWindow)
  IN prior # <<>> /\ b.volume * Len(few) * ConfDen >= ConfNum * Volume(few)

Level(regular, direction) ==
  IF direction = "LONG" THEN Max(HighsOf(SubSeq(regular, 1, RangeBars)))
  ELSE Min(LowsOf(SubSeq(regular, 1, RangeBars)))

Retests(regular, k, direction) ==
  LET b == regular[k]
      level == Level(regular, direction)
  IN IF direction = "LONG"
     THEN BufferDen * b.low <= (BufferDen + 1) * level /\ b.close > level /\ AboveVwap(SubSeq(regular, 1, k))
     ELSE BufferDen * b.high >= (BufferDen - 1) * level /\ b.close < level /\ BelowVwap(SubSeq(regular, 1, k))

StopOf(regular, k, direction) ==
  LET level == Level(regular, direction)
  IN IF direction = "LONG" THEN Min({BufferDen * regular[k].low, (BufferDen - 1) * level})
     ELSE Max({BufferDen * regular[k].high, (BufferDen + 1) * level})

Signal(regular, k, direction) ==
  LET close == BufferDen * regular[k].close
      stop == StopOf(regular, k, direction)
  IN [status |-> "TRIGGERED", bar |-> regular[k], direction |-> direction,
      stop |-> stop, target |-> close + RewardR * (close - stop)]

Other(status) == [status |-> status]

(* evaluate_orb_retest: the first breakout of the session before the       *)
(* cutoff, in the direction it takes, and the first retest after it.       *)
Evaluated(bs, previous, sector) ==
  LET today == Max({bs[k].day : k \in DOMAIN bs})
      premarket == Those(bs, {k \in DOMAIN bs : bs[k].day = today /\ IsPremarket(bs[k])})
      regular == Those(bs, {k \in DOMAIN bs : bs[k].day = today /\ IsRegular(bs[k])})
      window == {k \in (RangeBars + 1)..Len(regular) : regular[k].minute < Cutoff}
      broken == {k \in window : \E d \in {"LONG", "SHORT"} : Allows(sector, d) /\ BreaksRange(regular, k, d)}
      first == Min(broken)
      direction == IF Allows(sector, "LONG") /\ BreaksRange(regular, first, "LONG") THEN "LONG" ELSE "SHORT"
      confirmed == {k \in window : /\ k > first
                                   /\ Retests(regular, k, direction)
                                   /\ VolumeConfirms(bs, regular[k])}
  IN IF Len(regular) < RangeBars THEN Other("OPENING_RANGE_FORMING")
     ELSE IF Filtered(bs, today, premarket, regular[1].open, previous) THEN Other("FILTERED")
     ELSE IF broken = {} THEN Other("WAIT_BREAKOUT")
     ELSE IF confirmed = {} THEN Other("WAIT_RETEST")
     ELSE Signal(regular, Min(confirmed), direction)

-----------------------------------------------------------------------------
OrbInit == rows = <<>> /\ decided = <<>>

(* One bar of the replay: evaluated with the previous close and the sector *)
(* of the bar's UTC date.                                                  *)
Replay(b) ==
  LET bs == Append(rows, b)
      answer == Evaluated(bs, PreviousClose[UtcDate(b)], Sector[UtcDate(b)])
  IN /\ rows' = bs
     /\ IF /\ answer.status = "TRIGGERED"
           /\ \A n \in DOMAIN decided : decided[n].bar # answer.bar
        THEN decided' = [n \in DOMAIN decided \cup {Len(bs)} |->
                           IF n \in DOMAIN decided THEN decided[n] ELSE answer]
        ELSE UNCHANGED decided

(* Bars come in order; any of them may be missing.                         *)
OrbNext ==
  \E d \in Days : \E minute \in DOMAIN Shapes[d] : \E s \in Shapes[d][minute] :
    LET b == [s EXCEPT !.day = d, !.minute = minute]
    IN (\A k \in DOMAIN rows : Before(rows[k], b)) /\ Replay(b)

OrbSpec == OrbInit /\ [][OrbNext]_orb

-----------------------------------------------------------------------------
(* A session gives at most one decision for what the sector allows (a      *)
(* second one when that changes with the UTC date), on its own bars: a     *)
(* retest before the cutoff, after a close beyond the opening range in its *)
(* direction, with its stop beyond the level and the bar.                  *)
OneSignalPerSector ==
  \A n \in DOMAIN decided :
    LET s == decided[n]
        earlier == {k \in 1..n : rows[k].day = s.bar.day /\ IsRegular(rows[k]) /\ Before(rows[k], s.bar)}
        range == {k \in earlier : Cardinality({j \in earlier : j <= k}) <= RangeBars}
        sign == IF s.direction = "LONG" THEN 1 ELSE -1
    IN /\ \A o \in DOMAIN decided :
            decided[o].bar.day = s.bar.day =>
              o = n \/ Sector[UtcDate(rows[o])] # Sector[UtcDate(rows[n])]
       /\ s.bar \in {rows[k] : k \in 1..n} /\ IsRegular(s.bar) /\ s.bar.minute < Cutoff
       /\ \E k \in earlier : k \notin range /\ \A i \in range :
            IF sign = 1 THEN rows[k].close > rows[i].high ELSE rows[k].close < rows[i].low
       /\ sign * (BufferDen * s.bar.close - s.stop) > 0
       /\ sign * (s.target - BufferDen * s.bar.close) > 0

(* A decision is made after the bar whose close gave the signal, so that   *)
(* it is filled at the next open.  README.md:165; orb.py:19 replays the    *)
(* bars one by one for it.                                                 *)
SignalOnItsBar == \A n \in DOMAIN decided : decided[n].bar = rows[n]
=============================================================================
