---------------------------- MODULE LiveStrategy ----------------------------
(***************************************************************************)
(* What the three live strategies share: one strategy answers one closed   *)
(* candle after the other.  Every strategy module adds its own conditions; *)
(* that each answer is one StrategyRules knows is checked as a property.   *)
(***************************************************************************)
EXTENDS StrategyRules, Sequences

CONSTANTS
  Hold,      \* max_hold_hours
  Cooldown,  \* cooldown_hours of _entry_locked
  Horizon    \* bound: the clock stops here

ASSUME LiveAssumption == Hold \in Nat /\ Cooldown \in Nat /\ Horizon \in Nat

VARIABLES
  now,      \* the time of the last candle
  st,       \* StrategyState without its context
  ctx,      \* the context: what the strategy remembers of its level
  levels,   \* the levels of the signals it answered, in order
  trade,    \* <<>>, or the entry, stop and target of the L3 among them
  tooSmall  \* the answer refuses a trade for its R/R

live == <<now, st, ctx, levels, trade, tooSmall>>

(* The id of the trade made last: older ones are never looked for.         *)
Id == 1

LiveInit(nothing) ==
  /\ now = 0 /\ st = Fresh /\ ctx = nothing
  /\ levels = <<>> /\ trade = <<>> /\ tooSmall = FALSE

Answer(s, c, ls, t, small) ==
  st' = s /\ ctx' = c /\ levels' = ls /\ trade' = t /\ tooSmall' = small

Later(t) == t \in {now, now + 1} /\ t <= Horizon /\ now' = t

(* The head of every on_market_update: the time stop, then the entry lock. *)
TimeStopped(t) == TimeStopDue(st, t, Hold) /\ Answer(TimeStop(st, t), ctx, <<"L4">>, <<>>, FALSE)
Locked(t) ==
  /\ ~TimeStopDue(st, t, Hold) /\ EntryLocked(st, t, Cooldown)
  /\ Answer(st, ctx, <<>>, <<>>, FALSE)

(* Mutant of Unlocked: only a trade locks, a cooldown does not.            *)
UnlockedAfterTrade(t) == ~TimeStopDue(st, t, Hold) /\ st.state \notin Entered

Unlocked(t) == ~TimeStopDue(st, t, Hold) /\ ~EntryLocked(st, t, Cooldown)

(* A terminal state that is over takes its context with it.                *)
Context(nothing) == IF st.state \in Terminal THEN nothing ELSE ctx

(* The lifecycle manager has closed the strategy's trade.                  *)
Resolved(nothing) ==
  /\ st.last = Id
  /\ st' = OnSignalResolved(st, Id, now) /\ ctx' = nothing
  /\ levels' = <<>> /\ trade' = <<>> /\ tooSmall' = FALSE /\ UNCHANGED now

-----------------------------------------------------------------------------
(* calc_rr(..) >= min_rr with min_rr = 3/2; rewards are counted in halves. *)
(* The quotient is taken in binary floating point: where both sides are    *)
(* equal it may come out a little below.                                   *)
RewardEnough(risk, reward2, roundsDown) ==
  risk > 0 /\ (reward2 > 3 * risk \/ (reward2 = 3 * risk /\ ~roundsDown))

(* The target of a dynamic plan is 1.5 times the risk, a fixed one is a    *)
(* price.                                                                  *)
Reward2(risk, dynamic, fixed) == IF dynamic /\ risk > 0 THEN 3 * risk ELSE 2 * fixed

-----------------------------------------------------------------------------
(* Every answer is one the base class allows: what the monitor's model     *)
(* assumes of a strategy (StrategyRules!Reactions) is true of this one.    *)
AnswersAllowed ==
  [][ \/ st.last = Id /\ st' = OnSignalResolved(st, Id, now)
      \/ Reaction(st', levels') \in Reactions(st, now', Id, Hold, Cooldown) ]_live
=============================================================================
