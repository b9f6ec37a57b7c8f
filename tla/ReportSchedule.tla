--------------------------- MODULE ReportSchedule ---------------------------
(***************************************************************************)
(* app/review/report_schedule.py: cron starts the service every hour of a  *)
(* range wide enough for summer and winter, and the service decides itself *)
(* whether one of its slots is due.  One day of candidates.                *)
(***************************************************************************)
EXTENDS XnysCalendar

CONSTANTS
  Sessions,     \* bound: the days looked at, as <<year, day>>, and when the
                \* exchange says it closes, 0 for a day off
  Weekdays,     \* report_schedule.weekdays, ISO numbers
  Slots,        \* report_schedule.times, in minutes
  Grace,        \* report_schedule.grace_minutes
  Candidates,   \* the cron hours in UTC, at half past
  Delays        \* bound: minutes from the cron time to evaluate_report_schedule

(* The service checks the grace time.  The rest is how the cron line and   *)
(* the configuration fit: slots are at half past, in the regular session,  *)
(* each with a candidate in summer and in winter, which starts before the  *)
(* next one is due; all days the exchange may be open are configured.      *)
ASSUME ScheduleAssumption ==
  /\ Grace \in 0..29 /\ Delays \subseteq 0..59 /\ 1..5 \subseteq Weekdays
  /\ Candidates \subseteq Nat /\ \E first, last \in Candidates : Candidates = first..last
  /\ Slots \subseteq {s \in RegularOpen..(RegularClose - 1) : s % 60 = 30}
  /\ \A s \in Slots, behind \in {4, 5} : \E h \in Candidates : s = (h - behind) * 60 + 30
  /\ DOMAIN Sessions \subseteq Nat \X Nat

VARIABLES
  day,       \* year and day, the same in UTC and in New York
  offset,    \* hours New York is behind UTC: 4 in summer, 5 in winter
  hour,      \* the next cron candidate
  runs,      \* per slot: how often it was accepted
  late       \* history: the slots whose candidate came after the grace time

sched == <<day, offset, hour, runs, late>>

FirstHour == CHOOSE h \in Candidates : \A i \in Candidates : h <= i
LastHour  == CHOOSE h \in Candidates : \A i \in Candidates : i <= h

ScheduleInit ==
  /\ day \in DOMAIN Sessions /\ offset \in {4, 5}
  /\ hour = FirstHour /\ runs = [s \in Slots |-> 0] /\ late = {}

(* Mutant of Accepted: the session always lasts until the regular close.   *)
AcceptedUntilRegularClose(y, d, local) ==
  IF Weekday(d) + 1 \in Weekdays /\ TradingDay(y, d) /\ RegularOpen <= local /\ local < RegularClose
  THEN {s \in Slots : 0 <= local - s /\ local - s <= Grace} ELSE {}

(* Mutant of Due: the half hour before a slot belongs to it as well.       *)
DueEarly(local) == {s \in Slots : local - s <= Grace /\ s - local <= 30}

(* The slot that has come, at most Grace minutes ago.                      *)
Due(local) == {s \in Slots : 0 <= local - s /\ local - s <= Grace}

(* The checks of evaluate_report_schedule in their order.                  *)
Accepted(y, d, local) ==
  IF /\ Weekday(d) + 1 \in Weekdays
     /\ TradingDay(y, d)
     /\ RegularOpen <= local /\ local < CloseOf(y, d)
  THEN Due(local) ELSE {}

(* Cron itself knows weekdays only.                                        *)
Candidate(delay) ==
  LET local == (hour - offset) * 60 + 30
      accepted == Accepted(day[1], day[2], local + delay)
  IN /\ hour <= LastHour /\ Weekday(day[2]) < 5
     /\ runs' = [s \in Slots |-> runs[s] + (IF s \in accepted THEN 1 ELSE 0)]
     /\ late' = IF delay > Grace THEN late \cup {s \in Slots : s = local} ELSE late
     /\ hour' = hour + 1
     /\ UNCHANGED <<day, offset>>

ScheduleNext == \E delay \in Delays : Candidate(delay)

ScheduleSpec == ScheduleInit /\ [][ScheduleNext]_sched

-----------------------------------------------------------------------------
(* No slot of the day is reported twice, however late its candidates are.  *)
OncePerSlot == \A s \in Slots : runs[s] <= 1

(* When the candidates of a day are over, every slot before the close of   *)
(* the exchange has run, in summer and in winter, unless its candidate was *)
(* late; nothing has run after the close or on a day off.                  *)
EverySlotRuns ==
  hour > LastHour => {s \in Slots : runs[s] > 0} = {s \in Slots : s < Sessions[day]} \ late
=============================================================================
