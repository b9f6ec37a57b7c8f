---------------------------- MODULE XnysCalendar ----------------------------
(***************************************************************************)
(* app/market/xnys_calendar.py: the sessions of the New York exchange from *)
(* the recurring rules of its holidays.  Days are counted as by Python's   *)
(* date.toordinal, weekdays from Monday = 0, times in minutes of the day.  *)
(***************************************************************************)
EXTENDS Integers, FiniteSets

RegularOpen  == 9 * 60 + 30
RegularClose == 16 * 60
EarlyClose   == 13 * 60

Leap(y) == y % 4 = 0 /\ (y % 100 # 0 \/ y % 400 = 0)
DaysBefore(y, m) ==
  <<0, 31, 59, 90, 120, 151, 181, 212, 243, 273, 304, 334>>[m]
    + (IF m > 2 /\ Leap(y) THEN 1 ELSE 0)
YearStart(y) == 365 * (y - 1) + ((y - 1) \div 4) - ((y - 1) \div 100) + ((y - 1) \div 400)
Date(y, m, d) == YearStart(y) + DaysBefore(y, m) + d
Weekday(day) == (day + 6) % 7

NthWeekday(y, m, weekday, n) ==
  LET first == Date(y, m, 1) IN first + ((weekday - Weekday(first)) % 7) + 7 * (n - 1)

(* Never asked for December.                                               *)
LastWeekday(y, m, weekday) ==
  LET last == Date(y, m + 1, 1) - 1 IN last - ((Weekday(last) - weekday) % 7)

(* Mutant of Observed: a Sunday holiday is not moved.                      *)
ObservedOnSaturdayOnly(day) == IF Weekday(day) = 5 THEN day - 1 ELSE day

Observed(day) ==
  CASE Weekday(day) = 5 -> day - 1
    [] Weekday(day) = 6 -> day + 1
    [] OTHER -> day

(* Mutant of EasterSunday: the correction m, zero in most years, left out. *)
EasterWithoutCorrection(y) ==
  LET b == y \div 100
      c == y % 100
      g == (b - ((b + 8) \div 25) + 1) \div 3
      h == (19 * (y % 19) + b - (b \div 4) - g + 15) % 30
      l == (32 + 2 * (b % 4) + 2 * (c \div 4) - h - (c % 4)) % 7
  IN Date(y, (h + l + 114) \div 31, ((h + l + 114) % 31) + 1)

(* The Meeus/Jones/Butcher algorithm.                                      *)
EasterSunday(y) ==
  LET a == y % 19
      b == y \div 100
      c == y % 100
      g == (b - ((b + 8) \div 25) + 1) \div 3
      h == (19 * a + b - (b \div 4) - g + 15) % 30
      l == (32 + 2 * (b % 4) + 2 * (c \div 4) - h - (c % 4)) % 7
      m == (a + 11 * h + 22 * l) \div 451
      n == h + l - 7 * m + 114
  IN Date(y, n \div 31, (n % 31) + 1)

Thanksgiving(y) == NthWeekday(y, 11, 3, 4)

NewYear(y) ==
  LET d == Date(y, 1, 1) IN
    CASE Weekday(d) = 6 -> {d + 1} [] Weekday(d) < 5 -> {d} [] OTHER -> {}

Holidays(y) ==
  {NthWeekday(y, 1, 0, 3), NthWeekday(y, 2, 0, 3), EasterSunday(y) - 2,
   LastWeekday(y, 5, 0), NthWeekday(y, 9, 0, 1), Thanksgiving(y),
   Observed(Date(y, 7, 4)), Observed(Date(y, 12, 25))}
  \cup NewYear(y)
  \cup (IF y >= 2022 THEN {Observed(Date(y, 6, 19))} ELSE {})

TradingDay(y, day) == Weekday(day) < 5 /\ day \notin Holidays(y)

EarlyCloses(y) ==
  {day \in {Thanksgiving(y) + 1, Date(y, 12, 24), Date(y, 7, 3)} : TradingDay(y, day)}

(* xnys_session of a trading day: when it closes.                          *)
CloseOf(y, day) == IF day \in EarlyCloses(y) THEN EarlyClose ELSE RegularClose

-----------------------------------------------------------------------------
(* Easter by its definition: the Sunday after the first full moon of       *)
(* spring, the moon taken from the golden number and the epact of the      *)
(* century.                                                                *)
EasterByDefinition(y) ==
  LET golden == (y % 19) + 1
      century == (y \div 100) + 1
      solar == ((3 * century) \div 4) - 12
      lunar == ((8 * century + 5) \div 25) - 5
      e0 == (11 * golden + 20 + lunar - solar) % 30
      epact == IF e0 = 24 \/ (e0 = 25 /\ golden > 11) THEN e0 + 1 ELSE e0
      moon == IF epact > 23 THEN 74 - epact ELSE 44 - epact
      full == Date(y, 3, 1) + moon - 1
  IN full + 7 - ((Weekday(full) + 1) % 7)

EasterIsRight(y) == EasterSunday(y) = EasterByDefinition(y)

(* Every holiday of a year closes a day of its own that would be a trading *)
(* day; only a New Year's Day on a Saturday closes none.                   *)
HolidaysCount(y) ==
  /\ \A day \in Holidays(y) : Weekday(day) < 5
  /\ Cardinality(Holidays(y)) =
       (IF y >= 2022 THEN 10 ELSE 9) - (IF Weekday(Date(y, 1, 1)) = 5 THEN 1 ELSE 0)
=============================================================================
