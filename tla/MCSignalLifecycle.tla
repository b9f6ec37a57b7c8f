------------------------- MODULE MCSignalLifecycle -------------------------
(* Prices 0..3: a long plan risks 1 to gain 1 then 2, a short one mirrors  *)
(* it.  The bars reach one level, or a stop and a target at once, for both *)
(* directions; MoreBars adds quiet minutes.                                *)
EXTENDS SignalLifecycle

Bar(l, h) == [low |-> l, high |-> h]
MCBars   == {Bar(1, 2), Bar(0, 1), Bar(2, 3), Bar(0, 2)}
MoreBars == MCBars \cup {Bar(1, 1), Bar(2, 2), Bar(1, 3)}

LongPlan  == [dir |-> "LONG", entry |-> 1, sl |-> 0, tp1 |-> 2, tp2 |-> 3]
ShortPlan == [dir |-> "SHORT", entry |-> 2, sl |-> 3, tp1 |-> 1, tp2 |-> 0]
BothPlans == {LongPlan, ShortPlan}
=============================================================================
