--------------------------- MODULE PortfolioRules ---------------------------
(***************************************************************************)
(* app/risk/portfolio.py: how much of a requested position the portfolio   *)
(* policy allows.  Sizes are integers in 1/16 R, so that the two halvings  *)
(* of the throttles stay exact for the configured sizes.                   *)
(***************************************************************************)
EXTENDS Integers

Lesser(a, b)  == IF a <= b THEN a ELSE b
Greater(a, b) == IF a >= b THEN a ELSE b

(* The throttles that apply: drawdown, consecutive losses, both or none.   *)
Throttled(size, throttles) ==
  CASE throttles = 0 -> size
    [] throttles = 1 -> size \div 2
    [] OTHER         -> size \div 4

(* Mutant of AllowedR: the cap compares with the whole cluster budget.     *)
AllowedRIgnoresActive(requested, active, halted, throttles, maxPosition, maxCluster) ==
  IF halted THEN 0
  ELSE Lesser(Throttled(Lesser(Greater(requested, 0), maxPosition), throttles), maxCluster)

(* assess for the one cluster a symbol belongs to, active being the R at   *)
(* risk in it.  A halt is the daily loss limit or the drawdown stop.       *)
AllowedR(requested, active, halted, throttles, maxPosition, maxCluster) ==
  LET size      == Throttled(Lesser(Greater(requested, 0), maxPosition), throttles)
      available == Greater(0, maxCluster - active)
  IN  CASE halted                                         -> 0
        [] ~halted /\ active > 0 /\ available <= size     -> available
        [] OTHER                                          -> size

Blocked(allowed) == allowed <= 0
=============================================================================
