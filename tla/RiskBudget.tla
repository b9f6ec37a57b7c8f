----------------------------- MODULE RiskBudget -----------------------------
(***************************************************************************)
(* The loop from outcomes to sizes: get_portfolio_risk_state               *)
(* (app/storage/repositories.py) rebuilds equity, drawdown, the day's      *)
(* result and the losing streak from the outcomes in the table "signals",  *)
(* and the portfolio policy sizes the next trade by them.  Monitor leaves  *)
(* halts and throttles open; here they are what the outcomes say.          *)
(*                                                                         *)
(* Sizes are integers of 1/16 R.  An outcome of r R on a size s multiplies *)
(* the equity by (Unit + r * s) / Unit (with 1% at risk per R, Unit is     *)
(* 1600); the levels of drawdown are counted in 1/Unit of the peak.  The   *)
(* equity is a fixed-point number for the code's float.                    *)
(***************************************************************************)
EXTENDS PortfolioRules, Sequences

CONSTANTS
  MaxTrades,     \* bound: trades made
  MaxDays,       \* bound: days
  WinR,          \* R a trade may win: TP2, or TP1 where there is no TP2
  PositionR, MaxPositionR, MaxClusterR, MaxDailyLossR,
  ThrottleStart, \* drawdown_throttle_start_pct
  Stop,          \* drawdown_stop_pct, both in 1/Unit
  LossThrottle,  \* consecutive_loss_throttle
  Unit

ASSUME BudgetAssumption ==
  /\ MaxTrades \in Nat /\ MaxDays \in Nat \ {0} /\ WinR \subseteq Nat \ {0}
  /\ PositionR \in Nat /\ MaxPositionR \in Nat
  /\ MaxClusterR \in Nat /\ MaxPositionR <= MaxClusterR
  /\ MaxDailyLossR \in Nat \ {0} /\ LossThrottle \in Nat
  /\ ThrottleStart \in 0..Unit /\ Stop \in 0..Unit
  /\ Unit \in Nat /\ Unit > MaxClusterR

One == 1000000  \* equity 1.0

(* One step of the fixed point is small against what the stop allows: what *)
(* the roundings of the losses in one cluster add up to stays within it.   *)
ASSUME FixedPointAssumption == One * Stop >= Unit * Unit

VARIABLES
  open,      \* the manageable rows by their number: size and TP1 flag
  outcomes,  \* the rows with a final result, by resolved_at
  day,
  made       \* trades made so far

budget == <<open, outcomes, day, made>>

BudgetInit == open = <<>> /\ outcomes = <<>> /\ day = 1 /\ made = 0

-----------------------------------------------------------------------------
(* The drawdown, as a fraction of the peak, has reached the level.         *)
Down(s, level) == (s.peak - s.equity) * Unit >= level * s.peak

NoOutcomes == [equity |-> One, peak |-> One, daily |-> 0, losses |-> 0,
               throttle |-> FALSE, stop |-> FALSE]

(* One turn of the loop of get_portfolio_risk_state.  drawdown is the      *)
(* maximum so far: its two comparisons, once true, stay true.              *)
Count(s, o) ==
  LET equity == (s.equity * (Unit + o.r * o.size)) \div Unit
      moved  == [s EXCEPT !.equity = equity, !.peak = Greater(@, equity)]
  IN  [moved EXCEPT !.daily  = IF o.day >= day THEN @ + o.r * o.size ELSE @,
                    !.losses = CASE o.r < 0 -> @ + 1 [] o.r > 0 -> 0 [] OTHER -> @,
                    !.throttle = @ \/ Down(moved, ThrottleStart),
                    !.stop     = @ \/ Down(moved, Stop)]

(* What the loop has counted after the first n outcomes.                   *)
Counted[n \in 0..Len(outcomes)] ==
  IF n = 0 THEN NoOutcomes ELSE Count(Counted[n - 1], outcomes[n])

RiskState == Counted[Len(outcomes)]

(* Mutant of Halted: the drawdown stop is forgotten.                       *)
HaltedByDay(s) == s.daily <= -MaxDailyLossR

Halted(s) == s.daily <= -MaxDailyLossR \/ s.stop

Throttles(s) == (IF s.throttle THEN 1 ELSE 0) + (IF s.losses >= LossThrottle THEN 1 ELSE 0)

(* The R at risk in the trades up to the n-th.                             *)
SizeOf(n) == IF n \in DOMAIN open THEN open[n].size ELSE 0
AtRisk[n \in 0..made] == IF n = 0 THEN 0 ELSE AtRisk[n - 1] + SizeOf(n)

ActiveR == AtRisk[made]

(* A strategy asks for a trade; a blocked one is not opened.               *)
OpenTrade ==
  LET size == AllowedR(PositionR, ActiveR, Halted(RiskState), Throttles(RiskState),
                       MaxPositionR, MaxClusterR)
  IN  /\ made < MaxTrades
      /\ made' = made + 1
      /\ open' = IF Blocked(size) THEN open
                 ELSE [n \in DOMAIN open \cup {made'} |->
                         IF n = made' THEN [size |-> size, tp1 |-> FALSE] ELSE open[n]]
      /\ UNCHANGED <<outcomes, day>>

(* TP1 counts for nothing yet: 0 R, and no end of a streak.                *)
Confirm(n) ==
  /\ n \in DOMAIN open /\ ~open[n].tp1
  /\ open' = [open EXCEPT ![n].tp1 = TRUE]
  /\ UNCHANGED <<outcomes, day, made>>

(* The result in R that _paper_result_r reads off a final row.             *)
ResultR(t) == IF t.tp1 THEN {0} \cup WinR ELSE {-1, 0}

Resolve(n, r) ==
  /\ n \in DOMAIN open /\ r \in ResultR(open[n])
  /\ open' = [k \in DOMAIN open \ {n} |-> open[k]]
  /\ outcomes' = Append(outcomes, [r |-> r, size |-> open[n].size, day |-> day])
  /\ UNCHANGED <<day, made>>

NextDay ==
  /\ day < MaxDays
  /\ day' = day + 1
  /\ UNCHANGED <<open, outcomes, made>>

BudgetNext ==
  \/ OpenTrade \/ NextDay
  \/ \E n \in DOMAIN open : Confirm(n) \/ \E r \in ResultR(open[n]) : Resolve(n, r)

BudgetSpec == BudgetInit /\ [][BudgetNext]_budget

-----------------------------------------------------------------------------
(* The day's loss stays below the daily limit plus one cluster cap: the    *)
(* limit is looked at when a trade opens, and what is open by then may     *)
(* still be lost, trades of the day before included.                       *)
DailyLossBounded == RiskState.daily > -(MaxDailyLossR + MaxClusterR)

(* The equity never falls further below its peak than the drawdown stop    *)
(* and one cluster cap on top of it, however the open trades overlap with  *)
(* the outcome that reaches the stop.                                      *)
DrawdownBounded ==
  LET s == RiskState IN (s.peak - s.equity) * Unit <= (Stop + MaxClusterR) * s.peak
=============================================================================
