--------------------------- MODULE LifecycleRules ---------------------------
(***************************************************************************)
(* The rules by which app/signals/lifecycle.py moves one paper trade (one  *)
(* row of the table "signals") on one closed candle.  No variables: the    *)
(* modules SignalLifecycle and Monitor apply these rules to their rows.    *)
(***************************************************************************)
EXTENDS Integers

(* get_manageable_signals selects these two statuses, and only rows that   *)
(* carry an entry and a stop.                                              *)
OpenStatus == {"TRIGGERED", "MANAGING"}

Manageable(row) == row.status \in OpenStatus /\ row.hasLevels

(* Once TP1 is reached the stop moves to the entry and the target to TP2.  *)
Managing(row) == row.tp1Reached \/ row.status = "MANAGING"

Verdicts == {"HOLD", "LOSS_SL", "BREAKEVEN_AFTER_TP1", "TP1_REACHED",
             "WIN_TP2", "TIME_STOP"}

(* Mutants of Verdict: the target is looked at before the stop; the stop   *)
(* of a confirmed trade counts as a loss; the time stop is missing.        *)
VerdictTargetFirst(row, stopHit, targetHit, now, hold) ==
  CASE targetHit /\ ~Managing(row) -> "TP1_REACHED"
    [] targetHit /\ Managing(row)  -> "WIN_TP2"
    [] ~targetHit /\ stopHit       -> IF Managing(row) THEN "BREAKEVEN_AFTER_TP1" ELSE "LOSS_SL"
    [] OTHER -> IF ~Managing(row) /\ now - row.created >= hold THEN "TIME_STOP" ELSE "HOLD"

VerdictAlwaysLoss(row, stopHit, targetHit, now, hold) ==
  CASE stopHit               -> "LOSS_SL"
    [] ~stopHit /\ targetHit -> IF Managing(row) THEN "WIN_TP2" ELSE "TP1_REACHED"
    [] OTHER -> IF ~Managing(row) /\ now - row.created >= hold THEN "TIME_STOP" ELSE "HOLD"

VerdictNoTimeStop(row, stopHit, targetHit, now, hold) ==
  CASE stopHit               -> IF Managing(row) THEN "BREAKEVEN_AFTER_TP1" ELSE "LOSS_SL"
    [] ~stopHit /\ targetHit -> IF Managing(row) THEN "WIN_TP2" ELSE "TP1_REACHED"
    [] OTHER                 -> "HOLD"

(* What _advance decides for a row of the Micro book: the stop is looked   *)
(* at before the target, and the time stop applies only before TP1.        *)
Verdict(row, stopHit, targetHit, now, hold) ==
  CASE stopHit /\ Managing(row)                  -> "BREAKEVEN_AFTER_TP1"
    [] stopHit /\ ~Managing(row)                 -> "LOSS_SL"
    [] ~stopHit /\ targetHit /\ ~Managing(row)   -> "TP1_REACHED"
    [] ~stopHit /\ targetHit /\ Managing(row)    -> "WIN_TP2"
    [] /\ ~stopHit /\ ~targetHit
       /\ ~Managing(row) /\ now - row.created >= hold -> "TIME_STOP"
    [] OTHER                                     -> "HOLD"

(* Mutant of Apply: TP1 is written as a status into the column result.     *)
ApplyStatusAsResult(row, verdict) ==
  CASE verdict = "HOLD"        -> row
    [] verdict = "TP1_REACHED" -> [row EXCEPT !.status = "MANAGING", !.tp1Reached = TRUE,
                                              !.result = "MANAGING"]
    [] OTHER                   -> [row EXCEPT !.status = "RESOLVED", !.result = verdict]

(* The values update_signal_lifecycle writes for a verdict.                *)
Apply(row, verdict) ==
  CASE verdict = "HOLD"        -> row
    [] verdict = "TP1_REACHED" -> [row EXCEPT !.status = "MANAGING",
                                              !.tp1Reached = TRUE,
                                              !.result = verdict]
    [] verdict = "TIME_STOP"   -> [row EXCEPT !.status = "EXPIRED",
                                              !.result = verdict]
    [] OTHER                   -> [row EXCEPT !.status = "RESOLVED",
                                              !.result = verdict]

(* Mutant of Closes: only a stop is reported to the strategies.            *)
ClosesOnStop(verdict) == verdict \in {"LOSS_SL", "BREAKEVEN_AFTER_TP1"}

(* _advance returns True: the row left the set of manageable rows.         *)
Closes(verdict) == verdict \notin {"HOLD", "TP1_REACHED"}

RowStatus == {"NONE", "TRIGGERED", "MANAGING", "RESOLVED", "EXPIRED", "WATCHING"}
Results == (Verdicts \ {"HOLD"}) \cup {"NONE"}
=============================================================================
