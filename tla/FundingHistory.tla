--------------------------- MODULE FundingHistory ---------------------------
(* Loading a range of funding payments (backtest/binance_archive.py): a     *)
(* month comes from its archive once that is published, and before from     *)
(* pages of a REST interface, which are kept in the cache under the bounds  *)
(* they were asked with.  Time passes, and archives appear, meanwhile.      *)
EXTENDS Integers, SequencesExt, FiniteSetsExt

CONSTANTS
  MonthLen, Months,  \* a month is MonthLen instants, and there are Months of them
  Payments,          \* the instants at which funding is paid
  PageLimit,         \* limit=1000
  Ranges             \* the ranges that are asked for: <<from, to>>

ASSUME FundingAssumption ==
  /\ MonthLen \in Nat \ {0} /\ Months \in Nat \ {0} /\ PageLimit \in Nat \ {0}
  /\ Payments \subseteq 1..(MonthLen * Months)
  /\ \A r \in Ranges : r[1] \in 1..r[2] /\ r[2] \in 1..(MonthLen * Months)

VARIABLES
  now,
  published,  \* months whose archive is on the server
  pages,      \* the cached pages, by their bounds: [rows, at]
  load        \* the call of load_funding_rate_range that runs, or ran last
funding == <<now, published, pages, load>>

MonthOf(t) == (t - 1) \div MonthLen + 1
MonthStart(month) == (month - 1) * MonthLen + 1
MonthEnd(month) == month * MonthLen
(* Mutant of CoveredStart: the first instant of a month is left out.       *)
CoveredStartAfter == Max({load.from, MonthStart(load.month) + 1})
CoveredStart == Max({load.from, MonthStart(load.month)})
CoveredEnd == Min({load.to, MonthEnd(load.month)})

(* The payments from one instant to another, in order.                     *)
Paid(from, to) ==
  LET upTo[t \in 0..to] == CASE t = 0 -> <<>>
                            [] t > 0 /\ t \in Payments /\ from <= t -> Append(upTo[t - 1], t)
                            [] OTHER -> upTo[t - 1]
  IN upTo[to]

FundingInit ==
  /\ now = 1 /\ published = {} /\ pages = <<>>
  /\ load = [status |-> "idle", from |-> 1, to |-> 1, force |-> FALSE, began |-> 1,
             month |-> 1, next |-> 1, rows |-> <<>>]

Tick ==
  /\ now < MonthLen * Months
  /\ now' = now + 1
  /\ UNCHANGED <<published, pages, load>>

(* The archive of a month appears some time after its end.                 *)
PublishArchive ==
  /\ \E month \in 1..Months :
       MonthEnd(month) < now /\ month \notin published /\ published' = published \cup {month}
  /\ UNCHANGED <<now, pages, load>>

BeginLoad ==
  /\ load.status \in {"idle", "done", "failed"}
  /\ \E r \in Ranges, force \in BOOLEAN :
       load' = [status |-> "archive", from |-> r[1], to |-> r[2], force |-> force, began |-> now,
                month |-> MonthOf(r[1]), next |-> r[1], rows |-> <<>>]
  /\ UNCHANGED <<now, published, pages>>

(* The rows of the month are there: on to the next month, or to the check  *)
(* that all of them are in order, without duplicates.  The code sorts them *)
(* before; they are in order without it (OnlyRequestsFail).                *)
Increasing(rows) == \A i \in 1..(Len(rows) - 1) : rows[i] < rows[i + 1]
MonthDone(rows) ==
  LET all == load.rows \o rows
  IN load' = IF load.month < MonthOf(load.to)
             THEN [load EXCEPT !.rows = all, !.month = @ + 1, !.status = "archive"]
             ELSE [load EXCEPT !.rows = all, !.status = IF Increasing(all) THEN "done" ELSE "failed"]

(* The archive holds the whole month; without one (404) the pages are next. *)
ReadArchive ==
  /\ load.status = "archive"
  /\ IF load.month \in published
     THEN MonthDone(Paid(CoveredStart, CoveredEnd))
     ELSE load' = [load EXCEPT !.status = "pages", !.next = CoveredStart]
  /\ UNCHANGED <<now, published, pages>>

(* What the server answers now: the first payments of the range so far.    *)
Answer(from, to) ==
  LET rows == Paid(from, Min({to, now}))
  IN [rows |-> SubSeq(rows, 1, Min({PageLimit, Len(rows)})), at |-> now]

(* One page, from the cache or the server; a full one may have another     *)
(* after it.                                                               *)
ReadPage ==
  /\ load.status = "pages"
  /\ LET key == <<load.next, CoveredEnd>>
         cached == key \in DOMAIN pages /\ ~load.force
         page == IF cached THEN pages[key] ELSE Answer(load.next, CoveredEnd)
         full == Len(page.rows) >= PageLimit
         next == Last(page.rows) + 1
     IN /\ pages' = [k \in DOMAIN pages \cup {key} |-> IF k = key THEN page ELSE pages[k]]
        /\ IF full /\ next <= CoveredEnd
           THEN load' = [load EXCEPT !.rows = @ \o page.rows, !.next = next]
           ELSE MonthDone(page.rows)
  /\ UNCHANGED <<now, published>>

(* A request raises; the pages that came before it stay in the cache.      *)
LoadFails ==
  /\ load.status \in {"archive", "pages"}
  /\ load' = [load EXCEPT !.status = "failed", !.rows = <<>>]
  /\ UNCHANGED <<now, published, pages>>

FundingNext == Tick \/ PublishArchive \/ BeginLoad \/ ReadArchive \/ ReadPage \/ LoadFails

FundingSpec == FundingInit /\ [][FundingNext]_funding

-----------------------------------------------------------------------------
(* A loaded history is in order and holds every payment of its range that  *)
(* was due when the load began, but for those that came after a page of    *)
(* their month was cached short, which only a forced load asks for again   *)
(* (binance_archive.py:508-510; no check looks for the hole).              *)
HolesOnlyFromOldPages ==
  load.status = "done" =>
    LET got == Range(load.rows)
        due == {t \in Payments : load.from <= t /\ t <= Min({load.to, load.began})}
    IN /\ Increasing(load.rows)
       /\ got \subseteq Payments \cap load.from..load.to
       /\ \A t \in due \ got :
            /\ ~load.force
            /\ \E key \in DOMAIN pages :
                 key[1] <= t /\ t <= key[2] /\ MonthOf(key[2]) = MonthOf(t) /\ pages[key].at < t
=============================================================================
