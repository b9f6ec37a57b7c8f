---------------------------- MODULE KlineHistory ----------------------------
(* A range of 5m bars from daily and monthly archives, its validation, and  *)
(* its aggregation to 15m or 4h bars (backtest/binance_archive.py).  A bar  *)
(* is the slot it opens in; slots are numbered through the days.            *)
EXTENDS Integers, Sequences, FiniteSetsExt

CONSTANTS
  MonthSpans,    \* the months: <<first day, last day>>
  SlotsPerDay,   \* 5m bars of a day
  BucketSlots,   \* 5m bars of a bar of the target interval
  Price          \* Price[slot]: [open, high, low, close] of a sound bar

LastOfDays == MonthSpans[Len(MonthSpans)][2]
AllDays == 1..LastOfDays
AllSlots == 1..(SlotsPerDay * LastOfDays)
DayOf(slot) == (slot - 1) \div SlotsPerDay + 1

ASSUME KlineAssumption ==
  /\ SlotsPerDay \in Nat \ {0} /\ BucketSlots \in Nat \ {0}
  /\ SlotsPerDay % BucketSlots = 0
  /\ MonthSpans \in Seq(Nat \X Nat) /\ MonthSpans # <<>> /\ MonthSpans[1][1] = 1
  /\ \A m \in DOMAIN MonthSpans : MonthSpans[m][1] <= MonthSpans[m][2]
  /\ \A m \in 2..Len(MonthSpans) : MonthSpans[m][1] = MonthSpans[m - 1][2] + 1
  /\ Price \in [AllSlots -> [open : Nat, high : Nat, low : Nat, close : Nat]]

VARIABLES
  asked,    \* the range of days asked for
  monthly, daily,   \* months and days whose archive is published
  missing, doubled, \* slots the archives leave out, or have twice
  unsound    \* slots whose bar has a high below its close
klines == <<asked, monthly, daily, missing, doubled, unsound>>

Joined(lists) ==
  LET upTo[k \in 0..Len(lists)] == IF k = 0 THEN <<>> ELSE upTo[k - 1] \o lists[k]
  IN upTo[Len(lists)]
(* The slots in order, each as often as times says; how often one is there. *)
Listed(times) == Joined([s \in AllSlots |-> [n \in 1..times[s] |-> s]])
Times(bs, slot) == Cardinality({k \in DOMAIN bs : bs[k] = slot})

-----------------------------------------------------------------------------
(* Nothing, for a month that the range does not touch.                     *)
Daily(from, to) ==
  IF from > to THEN <<>>
  ELSE [k \in 1..(to - from + 1) |-> [days |-> {from + k - 1}, there |-> from + k - 1 \in daily]]

(* Mutant of FilesOf: a month that is asked for in part is taken whole.    *)
FilesOfAnyMonth(month) ==
  LET from == Max({asked[1], MonthSpans[month][1]})
      to == Min({asked[2], MonthSpans[month][2]})
  IN IF from <= to /\ month \in monthly
     THEN <<[days |-> MonthSpans[month][1]..MonthSpans[month][2], there |-> TRUE]>>
     ELSE Daily(from, to)

(* download_kline_range: whole months from their archive when there is one, *)
(* the rest by the day; the first daily archive that is not there (404)    *)
(* ends the call.                                                          *)
FilesOf(month) ==
  LET from == Max({asked[1], MonthSpans[month][1]})
      to == Min({asked[2], MonthSpans[month][2]})
  IN IF MonthSpans[month] = <<from, to>> /\ month \in monthly
     THEN <<[days |-> from..to, there |-> TRUE]>>
     ELSE Daily(from, to)

Downloaded == Joined([month \in DOMAIN MonthSpans |-> FilesOf(month)])
(* parse_kline_zip: the bars of a file; one without any is an error.       *)
Parsed(file) ==
  Listed([s \in AllSlots |-> IF s \in missing \/ DayOf(s) \notin file.days THEN 0
                            ELSE IF s \in doubled THEN 2 ELSE 1])

Refused == \E k \in DOMAIN Downloaded : ~Downloaded[k].there \/ Parsed(Downloaded[k]) = <<>>

Loaded ==
  LET all == Joined([k \in DOMAIN Downloaded |-> Parsed(Downloaded[k])])
  IN Listed([s \in AllSlots |-> IF DayOf(s) \in asked[1]..asked[2] THEN Times(all, s) ELSE 0])

-----------------------------------------------------------------------------
(* validate_klines                                                         *)
BarAt(slot) == IF slot \in unsound THEN [Price[slot] EXCEPT !.high = Price[slot].low] ELSE Price[slot]
Sound(slot) ==
  LET b == BarAt(slot)
  IN /\ {b.open, b.high, b.low, b.close} \subseteq Nat \ {0}
     /\ b.high >= Max({b.open, b.close}) /\ b.low <= Min({b.open, b.close}) /\ b.low <= b.high

Duplicates(bs) == {s \in AllSlots : Times(bs, s) > 1}
(* The neighbours among the slots there are that are not adjacent.         *)
Gaps(bs) ==
  LET unique == {bs[k] : k \in DOMAIN bs}
  IN {pair \in unique \X unique : /\ pair[2] - pair[1] > 1
                                  /\ \A s \in unique : s <= pair[1] \/ pair[2] <= s}
OutOfOrder(bs) == \E k \in 1..(Len(bs) - 1) : bs[k + 1] <= bs[k]
ValidRange(bs) ==
  /\ Duplicates(bs) = {} /\ Gaps(bs) = {} /\ ~OutOfOrder(bs)
  /\ \A k \in DOMAIN bs : Sound(bs[k])

(* aggregate_klines: buckets aligned to the epoch, here to the first day.  *)
BucketStart(slot) == slot - ((slot - 1) % BucketSlots)
Expected(start) == [k \in 1..BucketSlots |-> start + k - 1]
Bucket(bs, start) ==
  Joined([k \in DOMAIN bs |-> IF BucketStart(bs[k]) = start THEN <<bs[k]>> ELSE <<>>])
Combined(start) ==
  LET slots == start..(start + BucketSlots - 1)
  IN [start |-> start, open |-> BarAt(start).open, close |-> BarAt(start + BucketSlots - 1).close,
      high |-> Max({BarAt(s).high : s \in slots}), low |-> Min({BarAt(s).low : s \in slots})]
Aggregated(bs) ==
  LET starts == {BucketStart(bs[k]) : k \in DOMAIN bs}
      whole == Listed([s \in AllSlots |-> IF s \in starts /\ Bucket(bs, s) = Expected(s) THEN 1 ELSE 0])
  IN [k \in DOMAIN whole |-> Combined(whole[k])]

-----------------------------------------------------------------------------
Parts(start) == start..(start + BucketSlots - 1)

(* Whatever is published, a range that loads has every day from one file;  *)
(* a strict load has no hole between its first and its last bar; a bar is  *)
(* only aggregated from parts that are all there, once (as                 *)
(* binance_archive.py:822 says), and exactly one is from such parts if     *)
(* they are sound, with a range that contains theirs.  What becomes of     *)
(* malformed parts is asked by MalformedOmitted.                           *)
HistoryWhole ==
  LET bs == Loaded
      got == {bs[k] : k \in DOMAIN bs}
      made == Aggregated(bs)
      AllOnce(start) == \A p \in Parts(start) : p \in got /\ p \notin doubled
      aligned == {s \in AllSlots : (s - 1) % BucketSlots = 0}
      sound == {s \in aligned : \A p \in Parts(s) : Sound(p)}
  IN ~Refused =>
       /\ \A d \in AllDays :
            Cardinality({k \in DOMAIN Downloaded : d \in Downloaded[k].days}) =
              IF d \in asked[1]..asked[2] THEN 1 ELSE 0
       /\ got = {s \in AllSlots \ missing : DayOf(s) \in asked[1]..asked[2]}
       /\ ValidRange(bs) => got = {} \/ got = Min(got)..Max(got)
       /\ \A k \in DOMAIN made : made[k].start \in aligned /\ AllOnce(made[k].start)
       /\ \A s \in sound : AllOnce(s) => Cardinality({k \in DOMAIN made : made[k].start = s}) = 1
       /\ \A k \in DOMAIN made : made[k].start \in sound =>
            \A p \in Parts(made[k].start) : made[k].low <= BarAt(p).low /\ BarAt(p).high <= made[k].high

(* In non-strict mode, malformed buckets are omitted: no bar is aggregated *)
(* from a malformed part (binance_archive.py:824).                         *)
MalformedOmitted ==
  LET made == Aggregated(Loaded)
  IN ~Refused => \A k \in DOMAIN made : \A p \in Parts(made[k].start) : Sound(p)
=============================================================================
