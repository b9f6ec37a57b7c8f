---------------------------- MODULE StrategyRules ----------------------------
(***************************************************************************)
(* app/strategies/base.py: the state every live strategy keeps, and the    *)
(* moves the base class allows it on one closed candle.  The market        *)
(* conditions of the three strategies are left open here: Reactions is     *)
(* the set of everything one of them may do, and the modules of the        *)
(* strategies are checked to stay inside it.                               *)
(***************************************************************************)
EXTENDS Integers

StrategyStates == {"IDLE", "WATCHING", "ARMED", "TRIGGERED", "MANAGING",
                   "INVALID", "COOLDOWN", "EXPIRED"}
Entered  == {"TRIGGERED", "MANAGING"}
Terminal == {"INVALID", "EXPIRED", "COOLDOWN"}

(* Signal ids are fresh.  Only the id of a trade (L3) is ever looked up    *)
(* again, so every alert (L2, L4) stands for "no trade".                   *)
NoTrade == 0

(* The age of a state is read only for a trade and for a terminal state:   *)
(* entered_state_at of the others is abstracted to 0.                      *)
Fresh == [state |-> "IDLE", entered |-> 0, last |-> NoTrade]

(* _set_state: the time of entry moves only when the state changes.        *)
SetState(st, state, now) ==
  [st EXCEPT !.state = state,
             !.entered = CASE st.state = state -> @
                           [] state \in Entered \cup Terminal -> now
                           [] OTHER -> 0]

(* _make_signal leaves the id of the latest signal in the context.         *)
MakeSignal(st, id) == [st EXCEPT !.last = id]

(* Mutant of TimeStopDue: it waits for a state no strategy ever enters.    *)
TimeStopDueManaging(st, now, hold) == st.state = "MANAGING" /\ now - st.entered >= hold

TimeStopDue(st, now, hold) == st.state \in Entered /\ now - st.entered >= hold

(* Mutant of EntryLocked: a time stop does not hold the strategy back.     *)
EntryLockedNotExpired(st, now, cooldown) ==
  \/ st.state \in Entered
  \/ st.state \in Terminal \ {"EXPIRED"} /\ now - st.entered < cooldown

EntryLocked(st, now, cooldown) ==
  \/ st.state \in Entered
  \/ st.state \in Terminal /\ now - st.entered < cooldown

(* _entry_locked forgets a terminal state whose cooldown is over.          *)
Unlock(st) == IF st.state \in Terminal THEN Fresh ELSE st

(* on_signal_resolved moves the strategy that made the signal to COOLDOWN. *)
OnSignalResolved(st, id, resolvedAt) ==
  IF st.last = id
  THEN [state |-> "COOLDOWN", entered |-> resolvedAt, last |-> NoTrade]
  ELSE st

-----------------------------------------------------------------------------
Reaction(st, levels) == [st |-> st, levels |-> levels]

Watch(st, now)     == MakeSignal(SetState(st, "WATCHING", now), NoTrade)
Refuse(st, now)    == MakeSignal(SetState(st, "INVALID", now), NoTrade)
Enter(st, now, id) == MakeSignal(SetState(st, "TRIGGERED", now), id)
TimeStop(st, now)  == MakeSignal(SetState(st, "EXPIRED", now), NoTrade)

(* What an unlocked strategy may answer: nothing, a first look at its      *)
(* level (L2), a refusal (L4), a trade (L3) once it watches, or a second   *)
(* L2 when the reward is too small for the trade.                          *)
FreeReactions(u, now, id) ==
  LET w == Watch(u, now) IN
    {Reaction(u, <<>>), Reaction(w, <<"L2">>), Reaction(w, <<"L2", "L2">>),
     Reaction(Enter(w, now, id), <<"L2", "L3">>),
     Reaction(Refuse(u, now), <<"L4">>), Reaction(Refuse(w, now), <<"L4">>),
     Reaction(Refuse(w, now), <<"L2", "L4">>)}
    \cup {r \in {Reaction(Enter(u, now, id), <<"L3">>)} : u.state = "WATCHING"}

(* on_market_update: the time stop first, then the entry lock, then the    *)
(* strategy's own conditions.  id is the id its trade would get.           *)
Reactions(st, now, id, hold, cooldown) ==
  CASE TimeStopDue(st, now, hold) -> {Reaction(TimeStop(st, now), <<"L4">>)}
    [] /\ ~TimeStopDue(st, now, hold)
       /\ EntryLocked(st, now, cooldown) -> {Reaction(st, <<>>)}
    [] OTHER -> FreeReactions(Unlock(st), now, id)
=============================================================================
