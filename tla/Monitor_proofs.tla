---------------------------- MODULE Monitor_proofs ----------------------------
(***************************************************************************)
(* The inductive invariant of Monitor, and what follows from it for every  *)
(* number of strategies and trades, every hold and cooldown, every lag of  *)
(* the feed and every number of crashes.                                   *)
(***************************************************************************)
EXTENDS MonitorInvariant, FiniteSetTheorems, TLAPS

Alerts == {"L2", "L3", "L4"}

(* Sequences of one and of two levels. *)
LEMMA OneAlert ==
  ASSUME NEW S, NEW a \in S
  PROVE  <<a>> \in Seq(S) /\ Head(<<a>>) = a /\ Tail(<<a>>) = <<>>
OBVIOUS

LEMMA TwoAlerts ==
  ASSUME NEW S, NEW a \in S, NEW b \in S
  PROVE  <<a, b>> \in Seq(S) /\ Head(<<a, b>>) = a /\ Tail(<<a, b>>) = <<b>>
OBVIOUS

(* An answer is a sequence of levels. *)
LEMMA AnswersType == Answers \subseteq Seq(Alerts)
<1>1. \A a \in Alerts : <<a>> \in Seq(Alerts)
  BY OneAlert
<1>2. \A a, b \in Alerts : <<a, b>> \in Seq(Alerts)
  BY TwoAlerts
<1>3. "L2" \in Alerts /\ "L3" \in Alerts /\ "L4" \in Alerts
  BY DEF Alerts
<1>4. <<>> \in Seq(Alerts)
  OBVIOUS
<1>5. QED
  BY <1>1, <1>2, <1>3, <1>4, Zenon DEF Answers, TradeAnswers, AlertAnswers

(* Routing an alert leaves an answer, and the trade behind it if there is  *)
(* one; a trade is the last signal of its answer.                          *)
LEMMA HeadsAndTails ==
  /\ Head(<<"L2">>) = "L2" /\ Tail(<<"L2">>) = <<>>
  /\ Head(<<"L3">>) = "L3" /\ Tail(<<"L3">>) = <<>>
  /\ Head(<<"L4">>) = "L4" /\ Tail(<<"L4">>) = <<>>
  /\ Head(<<"L2", "L2">>) = "L2" /\ Tail(<<"L2", "L2">>) = <<"L2">>
  /\ Head(<<"L2", "L3">>) = "L2" /\ Tail(<<"L2", "L3">>) = <<"L3">>
  /\ Head(<<"L2", "L4">>) = "L2" /\ Tail(<<"L2", "L4">>) = <<"L4">>
<1>1. \A a \in Alerts : Head(<<a>>) = a /\ Tail(<<a>>) = <<>>
  BY OneAlert
<1>2. \A a, b \in Alerts : Head(<<a, b>>) = a /\ Tail(<<a, b>>) = <<b>>
  BY TwoAlerts
<1>3. "L2" \in Alerts /\ "L3" \in Alerts /\ "L4" \in Alerts
  BY DEF Alerts
<1>4. QED
  BY <1>1, <1>2, <1>3, Zenon

LEMMA AnswersDiffer == TradeAnswers \cap AlertAnswers = {}
<1>1. /\ Len(<<>>) = 0 /\ Len(<<"L3">>) = 1 /\ Len(<<"L2", "L3">>) = 2
      /\ Len(<<"L2">>) = 1 /\ Len(<<"L4">>) = 1
      /\ Len(<<"L2", "L2">>) = 2 /\ Len(<<"L2", "L4">>) = 2
  OBVIOUS
<1>2. "L2" # "L3" /\ "L4" # "L3"
  OBVIOUS
<1>3. /\ <<"L2">> # <<"L3">> /\ <<"L4">> # <<"L3">>
      /\ <<"L2", "L2">> # <<"L2", "L3">> /\ <<"L2", "L4">> # <<"L2", "L3">>
  BY <1>2, HeadsAndTails
<1>4. QED
  BY <1>1, <1>3 DEF TradeAnswers, AlertAnswers

LEMMA AlertRouted ==
  ASSUME NEW q \in Answers, q # <<>>, Head(q) # "L3"
  PROVE  /\ Tail(q) \in Answers
         /\ Tail(q) \in TradeAnswers => q \in TradeAnswers
<1>1. CASE q \in AlertAnswers
  <2>1. Tail(q) \in AlertAnswers
    BY <1>1, HeadsAndTails DEF AlertAnswers
  <2>2. QED
    BY <2>1, AnswersDiffer DEF Answers
<1>2. CASE q \in TradeAnswers
  BY <1>2, HeadsAndTails DEF TradeAnswers, Answers
<1>3. QED
  BY <1>1, <1>2 DEF Answers

LEMMA TradeRouted ==
  ASSUME NEW q \in Answers, q # <<>>, Head(q) = "L3"
  PROVE  q = <<"L3">> /\ Tail(q) = <<>>
BY HeadsAndTails DEF Answers, TradeAnswers, AlertAnswers

-----------------------------------------------------------------------------
(* The four kinds of answer a strategy in state st can give at time t:     *)
(* it stops its trade for its age, it stays as it is, it goes on without a *)
(* trade, or it enters one under the fresh id.                             *)
Stops(st, r, t) ==
  /\ TimeStopDue(st, t, MaxHold)
  /\ r.st = [state |-> "EXPIRED", entered |-> t, last |-> NoTrade]
  /\ r.levels = <<"L4">>

Stays(st, r) == r.st = st /\ r.levels = <<>>

Waits(st, r, t) ==
  /\ ~EntryLocked(st, t, Cooldown)
  /\ r.st \in [state : StrategyStates \ Entered, entered : {0, st.entered, t}, last : {NoTrade}]
  /\ r.levels \in AlertAnswers

Enters(st, r, t, id) ==
  /\ ~EntryLocked(st, t, Cooldown)
  /\ r.st = [state |-> "TRIGGERED", entered |-> t, last |-> id]
  /\ r.levels \in TradeAnswers

(* _set_state and _make_signal on a state that changes. *)
LEMMA Changed ==
  ASSUME NEW st, st = [state |-> st.state, entered |-> st.entered, last |-> st.last],
         NEW s \in Entered \cup Terminal, st.state # s, NEW t, NEW id
  PROVE  MakeSignal(SetState(st, s, t), id) = [state |-> s, entered |-> t, last |-> id]
<1>1. SetState(st, s, t) = [state |-> s, entered |-> t, last |-> st.last]
  <2>1. (CASE st.state = s -> st.entered
           [] s \in Entered \cup Terminal -> t
           [] OTHER -> 0) = t
    OBVIOUS
  <2>2. SetState(st, s, t) = [st EXCEPT !.state = s, !.entered = t]
    BY <2>1 DEF SetState
  <2>3. QED
    BY <2>2
<1>2. QED
  BY <1>1 DEF MakeSignal

LEMMA ReactionCases ==
  ASSUME NEW st \in StrategyState, st.state \notin Entered => st.last = NoTrade,
         NEW t \in 0..Horizon, NEW id \in Nat,
         NEW r \in Reactions(st, t, id, MaxHold, Cooldown)
  PROVE  Stops(st, r, t) \/ Stays(st, r) \/ Waits(st, r, t) \/ Enters(st, r, t, id)
<1> USE DEF StrategyState, StrategyStates, Entered, Terminal
<1>1. CASE TimeStopDue(st, t, MaxHold)
  <2>1. r = Reaction(TimeStop(st, t), <<"L4">>)
    BY <1>1 DEF Reactions
  <2>2. TimeStop(st, t) = [state |-> "EXPIRED", entered |-> t, last |-> NoTrade]
    <3>1. st = [state |-> st.state, entered |-> st.entered, last |-> st.last]
      OBVIOUS
    <3>2. st.state # "EXPIRED"
      BY <1>1 DEF TimeStopDue
    <3>3. QED
      BY <3>1, <3>2, Changed DEF TimeStop
  <2>3. QED
    BY <1>1, <2>1, <2>2 DEF Stops, Reaction
<1>2. CASE ~TimeStopDue(st, t, MaxHold) /\ EntryLocked(st, t, Cooldown)
  BY <1>2 DEF Reactions, Stays, Reaction
<1>3. CASE ~TimeStopDue(st, t, MaxHold) /\ ~EntryLocked(st, t, Cooldown)
  <2> DEFINE u == Unlock(st)
             w == Watch(u, t)
  <2>1. r \in FreeReactions(u, t, id)
    BY <1>3 DEF Reactions
  <2>2. /\ u \in [state : {"IDLE", "WATCHING", "ARMED"}, entered : {0, st.entered},
                  last : {NoTrade}]
        /\ w \in [state : {"WATCHING"}, entered : {0, st.entered}, last : {NoTrade}]
    <3>1. st.state \notin Entered
      BY <1>3 DEF EntryLocked
    <3>2. u \in [state : {"IDLE", "WATCHING", "ARMED"}, entered : {0, st.entered},
                  last : {NoTrade}]
      BY <3>1 DEF Unlock, Fresh
    <3>3. QED
      BY <3>2 DEF Watch, MakeSignal, SetState
  <2>9. /\ u = [state |-> u.state, entered |-> u.entered, last |-> u.last]
        /\ w = [state |-> w.state, entered |-> w.entered, last |-> w.last]
    BY <2>2
  <2>3. /\ Enter(u, t, id) = [state |-> "TRIGGERED", entered |-> t, last |-> id]
        /\ Enter(w, t, id) = [state |-> "TRIGGERED", entered |-> t, last |-> id]
    <3>1. u.state # "TRIGGERED" /\ w.state # "TRIGGERED"
      BY <2>2
    <3>2. QED
      BY <3>1, <2>9, Changed DEF Enter
  <2>4. /\ Refuse(u, t) = [state |-> "INVALID", entered |-> t, last |-> NoTrade]
        /\ Refuse(w, t) = [state |-> "INVALID", entered |-> t, last |-> NoTrade]
    <3>1. u.state # "INVALID" /\ w.state # "INVALID"
      BY <2>2
    <3>2. QED
      BY <3>1, <2>9, Changed DEF Refuse
  <2>5. CASE r \in {Reaction(Enter(w, t, id), <<"L2", "L3">>), Reaction(Enter(u, t, id), <<"L3">>)}
    BY <1>3, <2>3, <2>5 DEF Enters, Reaction, TradeAnswers
  <2>6. CASE r.st \in {u, w} /\ r.levels \in {<<>>, <<"L2">>, <<"L2", "L2">>}
    BY <1>3, <2>2, <2>6 DEF Waits, AlertAnswers
  <2>7. CASE r.st \in {Refuse(u, t), Refuse(w, t)} /\ r.levels \in {<<"L4">>, <<"L2", "L4">>}
    BY <1>3, <2>4, <2>7 DEF Waits, AlertAnswers
  <2>8. QED
    BY <2>1, <2>5, <2>6, <2>7 DEF FreeReactions, Reaction
<1>4. QED
  BY <1>1, <1>2, <1>3

-----------------------------------------------------------------------------
(* The rows a strategy waits for are finitely many.                        *)
LEMMA UnconfirmedFinite ==
  \A s \in Strategy : IsFiniteSet(Unconfirmed(s)) /\ Cardinality(Unconfirmed(s)) \in Nat
<1>1. IsFiniteSet(TradeId)
  BY CountsAssumption, FS_Interval DEF TradeId
<1>2. \A s \in Strategy : Unconfirmed(s) \in SUBSET TradeId
  BY DEF Unconfirmed
<1>3. QED
  BY <1>1, <1>2, FS_Subset, FS_CardinalityType

(* A step that adds no row to wait for, and detaches none that stays, may  *)
(* take rows away: the one that was attached is among those it takes, or   *)
(* it is attached still.                                                   *)
LEMMA TrackingKept ==
  ASSUME TrackingOK, crashes \in Nat, crashes' = crashes, pc' = "down" => pc = "down",
         Pending' => Pending /\ turn' = turn,
         \A s \in Strategy : Unconfirmed(s)' \subseteq Unconfirmed(s),
         \A s \in Strategy : \A id \in Unconfirmed(s)' :
           Tracked(id) \/ Overdue(id) => Tracked(id)' \/ Overdue(id)'
  PROVE  TrackingOK'
<1>1. SUFFICES ASSUME TimelyFeed, NEW s \in Strategy
               PROVE  /\ Cardinality(Unconfirmed(s)') <= crashes + 1
                      /\ ~Attached(s)' \/ pc' = "down" \/ (Pending' /\ s = turn') =>
                           Cardinality(Unconfirmed(s)') <= crashes
  BY DEF TrackingOK, TimelyFeed
<1>2. /\ Cardinality(Unconfirmed(s)) <= crashes + 1
      /\ ~Attached(s) \/ pc = "down" \/ (Pending /\ s = turn) =>
           Cardinality(Unconfirmed(s)) <= crashes
  BY <1>1 DEF TrackingOK
<1>3. CASE Unconfirmed(s)' = Unconfirmed(s)
  <2>1. Attached(s) => Attached(s)'
    BY <1>3 DEF Attached
  <2>2. QED
    BY <1>2, <1>3, <2>1
<1>4. CASE Unconfirmed(s)' # Unconfirmed(s)
  <2> DEFINE U == Unconfirmed(s)
             T == Unconfirmed(s)'
  <2>1. IsFiniteSet(U) /\ Cardinality(U) \in Nat /\ T \in SUBSET U /\ T # U
    BY <1>4, UnconfirmedFinite
  <2>2. Cardinality(U) <= crashes + 1
    BY <1>2
  <2> HIDE DEF U, T
  <2>3. Cardinality(T) <= Cardinality(U) /\ Cardinality(T) # Cardinality(U) /\ IsFiniteSet(T)
    BY <2>1, FS_Subset
  <2>4. Cardinality(T) \in Nat
    BY <2>3, FS_CardinalityType
  <2>5. Cardinality(T) <= crashes
    BY <2>1, <2>2, <2>3, <2>4
  <2>6. QED
    BY <2>4, <2>5 DEF T
<1>5. QED
  BY <1>3, <1>4

-----------------------------------------------------------------------------
LEMMA InitInv == Init => IInv
<1> SUFFICES ASSUME Init PROVE IInv
  OBVIOUS
<1> USE CountsAssumption, TimesAssumption, RiskAssumption DEF Init
<1>1. /\ Fresh \in StrategyState /\ Fresh.state \notin Entered
      /\ Fresh.last = NoTrade
  BY DEF Fresh, StrategyState, StrategyStates, Entered
<1>2. NoRow \in Row /\ ~Manageable(NoRow) /\ NoRow.status = "NONE" /\ ~NoRow.tp1Reached
  BY DEF NoRow, Row, RowStatus, Results, Manageable, OpenStatus, Strategy
<1>3. <<>> \in Answers /\ ~Pending
  BY AnswersDiffer DEF Answers, AlertAnswers, Pending
<1>4. TypeOK
  BY <1>1, <1>2, <1>3, AnswersType DEF TypeOK, Alerts, Strategy
<1>5. ControlOK
  BY <1>3 DEF ControlOK
<1>6. IdsOK
  BY <1>1, <1>2 DEF IdsOK, NoTrade
<1>7. TradesExist /\ CandleOK /\ LocksOK
  BY <1>1, <1>2, <1>3 DEF TradesExist, CandleOK, LocksOK
<1>8. SweptOK
  BY <1>2 DEF SweptOK, Waiting
<1>10. TrackingOK
  <2>1. \A s \in Strategy : Unconfirmed(s) = {}
    BY <1>2 DEF Unconfirmed
  <2>2. QED
    BY <2>1, FS_EmptySet DEF TrackingOK
<1>9. QED
  BY <1>4, <1>5, <1>6, <1>7, <1>8, <1>10 DEF IInv

LEMMA TickStep == ASSUME IInv, Tick PROVE IInv'
<1> USE CountsAssumption, TimesAssumption DEF IInv, Tick, database, process
<1>1. TypeOK'
  BY DEF TypeOK
<1>2. ControlOK'
  BY DEF ControlOK, TypeOK
<1>3. IdsOK' /\ TradesExist' /\ CandleOK' /\ SweptOK' /\ LocksOK'
  BY DEF IdsOK, TradesExist, NamesTrade, Pending, CandleOK, SweptOK, Waiting, LocksOK
<1>4. TrackingOK'
  BY DEF TrackingOK, TimelyFeed, Attached, Tracked, Overdue, Unconfirmed, Pending
<1>5. QED
  BY <1>1, <1>2, <1>3, <1>4 DEF IInv

LEMMA ReceiveMicroStep ==
  ASSUME IInv, NEW close \in 0..Horizon, ReceiveMicro(close) PROVE IInv'
<1> USE CountsAssumption, TimesAssumption DEF IInv, ReceiveMicro, database
<1>1. TypeOK'
  BY DEF TypeOK, Timely
<1>2. ControlOK'
  BY DEF ControlOK, TypeOK, Timely
<1>3. IdsOK' /\ CandleOK' /\ LocksOK'
  BY DEF IdsOK, ControlOK, CandleOK, LocksOK
<1>4. TradesExist'
  BY AnswersDiffer DEF TradesExist, NamesTrade, Pending, ControlOK, AlertAnswers
<1>5. SweptOK'
  BY DEF SweptOK, Waiting, TypeOK, ControlOK
<1>6. TrackingOK'
  BY DEF TrackingOK, TimelyFeed, Attached, Tracked, Overdue, Unconfirmed, Pending
<1>7. QED
  BY <1>1, <1>2, <1>3, <1>4, <1>5, <1>6 DEF IInv

LEMMA ReceiveOtherStep ==
  ASSUME IInv, NEW close \in 0..Horizon, ReceiveOther(close) PROVE IInv'
<1> USE CountsAssumption, TimesAssumption DEF IInv, ReceiveOther, database
<1>1. TypeOK'
  BY DEF TypeOK, Timely
<1>2. ControlOK'
  BY DEF ControlOK, TypeOK, Timely
<1>3. IdsOK' /\ CandleOK' /\ LocksOK'
  BY DEF IdsOK, ControlOK, CandleOK, LocksOK
<1>4. TradesExist'
  BY AnswersDiffer DEF TradesExist, NamesTrade, Pending, ControlOK, AlertAnswers
<1>5. SweptOK'
  BY DEF SweptOK, Waiting, ControlOK
<1>6. TrackingOK'
  BY DEF TrackingOK, TimelyFeed, Attached, Tracked, Overdue, Unconfirmed, Pending
<1>7. QED
  BY <1>1, <1>2, <1>3, <1>4, <1>5, <1>6 DEF IInv

(* A verdict: the row stays as it is, is confirmed, or is closed; a row    *)
(* older than its hold does not stay open before TP1.                      *)
LEMMA VerdictMoves ==
  ASSUME NEW row \in Row, Manageable(row), row.status = "TRIGGERED" => ~row.tp1Reached,
         NEW a \in BOOLEAN, NEW b \in BOOLEAN, NEW t \in Nat
  PROVE  LET v == Verdict(row, a, b, t, RowHold)
             next == Apply(row, v)
         IN  /\ next \in Row
             /\ next.owner = row.owner /\ next.created = row.created
             /\ next.hasLevels = row.hasLevels /\ next.positionR = row.positionR
             /\ \/ ~Closes(v) /\ next = row
                                /\ (row.status = "TRIGGERED" => t < row.created + RowHold)
                \/ ~Closes(v) /\ next.status = "MANAGING"
                \/ Closes(v) /\ next.status \in {"RESOLVED", "EXPIRED"}
             /\ next.status \in {"NONE", "TRIGGERED"} => ~next.tp1Reached
<1> DEFINE v == Verdict(row, a, b, t, RowHold)
           next == Apply(row, v)
<1>0. RowHold \in Nat /\ row.created \in Nat
  BY CountsAssumption, TimesAssumption DEF Row
<1>1. v \in Verdicts
  BY DEF Verdict, Verdicts
<1>2. row.status \in {"TRIGGERED", "MANAGING"}
  BY DEF Manageable, OpenStatus
<1>3. CASE v = "HOLD"
  <2>1. next = row /\ ~Closes(v)
    BY <1>3 DEF Apply, Closes
  <2>2. row.status = "TRIGGERED" => t < row.created + RowHold
    BY <1>0, <1>3 DEF Verdict, Managing
  <2>3. QED
    BY <1>2, <2>1, <2>2
<1>4. CASE v = "TP1_REACHED"
  BY <1>4 DEF Apply, Closes, Row, RowStatus, Results, Verdicts
<1>5. CASE v = "TIME_STOP"
  BY <1>5 DEF Apply, Closes, Row, RowStatus, Results, Verdicts
<1>6. CASE v \in {"LOSS_SL", "BREAKEVEN_AFTER_TP1", "WIN_TP2"}
  BY <1>6 DEF Apply, Closes, Row, RowStatus, Results, Verdicts
<1>7. QED
  BY <1>1, <1>3, <1>4, <1>5, <1>6 DEF Verdicts

LEMMA AdvanceRowStep ==
  ASSUME IInv, NEW id \in todo, NEW a \in BOOLEAN, NEW b \in BOOLEAN,
         AdvanceRow(id, a, b)
  PROVE  IInv'
<1> USE CountsAssumption, TimesAssumption DEF IInv
<1>1. /\ pc = "lifecycle" /\ id \in TradeId /\ rows[id] \in Row
      /\ Manageable(rows[id]) /\ ev \in Nat /\ ~Pending
      /\ rows[id].status = "TRIGGERED" => ~rows[id].tp1Reached
  BY AnswersDiffer DEF AdvanceRow, TypeOK, CandleOK, ControlOK, Pending, AlertAnswers
<1> DEFINE row == rows[id]
           young == row.created >= ev
           v == IF young THEN "HOLD" ELSE Verdict(row, a, b, ev, RowHold)
           next == Apply(row, v)
<1>2. /\ next \in Row
      /\ next.owner = row.owner /\ next.created = row.created
      /\ next.hasLevels = row.hasLevels /\ next.positionR = row.positionR
      /\ \/ ~Closes(v) /\ next = row
                         /\ (row.status = "TRIGGERED" => ev < row.created + RowHold)
         \/ ~Closes(v) /\ next.status = "MANAGING"
         \/ Closes(v) /\ next.status \in {"RESOLVED", "EXPIRED"}
      /\ next.status \in {"NONE", "TRIGGERED"} => ~next.tp1Reached
  <2>1. CASE young
    <3>1. v = "HOLD" /\ next = row /\ ~Closes(v)
      BY <2>1 DEF Apply, Closes
    <3>2. row.status \in {"TRIGGERED", "MANAGING"} /\ row.created \in Nat
      BY <1>1 DEF Manageable, OpenStatus, Row
    <3>3. ev < row.created + RowHold
      BY <1>1, <2>1, <3>2
    <3>4. QED
      BY <1>1, <3>1, <3>2, <3>3
  <2>2. CASE ~young
    BY <1>1, <2>2, VerdictMoves
  <2>3. QED
    BY <2>1, <2>2
<1>3. /\ rows' = [rows EXCEPT ![id] = next]
      /\ todo' = todo \ {id}
      /\ closed' = IF Closes(v) THEN closed \cup {id} ELSE closed
      /\ UNCHANGED <<now, saved, mem, pc, ev, swept, turn, queue, nextId, crashes>>
  BY DEF AdvanceRow
<1> HIDE DEF v, next, young
<1>4. TypeOK'
  BY <1>1, <1>2, <1>3 DEF TypeOK
<1>5. /\ rows'[id] = next
      /\ \A j \in TradeId : j # id => rows'[j] = rows[j]
  BY <1>1, <1>3 DEF TypeOK
<1>6. ControlOK'
  BY <1>1, <1>3 DEF ControlOK
<1>7. row.status \in {"TRIGGERED", "MANAGING"}
  BY <1>1 DEF Manageable, OpenStatus
<1>8. next.status # "NONE"
  BY <1>2, <1>7
<1>9. IdsOK'
  BY <1>1, <1>3, <1>5, <1>7 DEF IdsOK
<1>10. TradesExist'
  BY <1>1, <1>2, <1>3, <1>5, <1>8 DEF TradesExist, NamesTrade, Pending
<1>11. CandleOK'
  BY <1>1, <1>2, <1>3, <1>5, <1>7 DEF CandleOK, TypeOK, Manageable, OpenStatus
<1>12. Waiting(id)' => Waiting(id) /\ ev < row.created + RowHold /\ next = row
  BY <1>1, <1>2, <1>5 DEF Waiting, Manageable, OpenStatus
<1>13. SweptOK'
  BY <1>1, <1>3, <1>5, <1>12 DEF SweptOK, Waiting
<1>14. TrackingOK'
  <2>1. \A s \in Strategy : Unconfirmed(s)' \subseteq Unconfirmed(s)
    BY <1>1, <1>5, <1>12 DEF Unconfirmed, Waiting
  <2>2. \A j \in TradeId : rows'[j].owner = rows[j].owner /\ rows'[j].created = rows[j].created
    BY <1>2, <1>5
  <2>3. \A j \in TradeId : (Tracked(j)' <=> Tracked(j)) /\ (Overdue(j)' <=> Overdue(j))
    BY <1>3, <2>2 DEF Tracked, Overdue
  <2>4. crashes \in Nat /\ ~Pending'
    BY <1>1, <1>3, CountsAssumption DEF TypeOK, Pending
  <2>5. QED
    BY <1>3, <2>1, <2>3, <2>4, TrackingKept DEF Unconfirmed
<1>15. LocksOK'
  BY <1>1, <1>2, <1>3, <1>5, <1>7 DEF LocksOK
<1>16. QED
  BY <1>4, <1>6, <1>9, <1>10, <1>11, <1>13, <1>14, <1>15 DEF IInv

LEMMA ResolveInMemoryStep == ASSUME IInv, ResolveInMemory PROVE IInv'
<1> USE CountsAssumption, TimesAssumption DEF IInv, database
<1>1. /\ pc = "lifecycle" /\ todo = {} /\ closed \subseteq TradeId /\ ev \in 0..Horizon
      /\ swept \in 0..Horizon /\ swept <= ev /\ ~Pending
  BY AnswersDiffer DEF ResolveInMemory, TypeOK, ControlOK, Pending, AlertAnswers
<1>2. /\ swept' = ev /\ closed' = {} /\ pc' = "decide"
      /\ UNCHANGED <<now, rows, saved, todo, ev, turn, queue, nextId, crashes>>
      /\ mem' = [s \in Strategy |-> IF mem[s].last \in closed
                                    THEN OnSignalResolved(mem[s], mem[s].last, ev)
                                    ELSE mem[s]]
  BY DEF ResolveInMemory
<1>3. ASSUME NEW s \in Strategy
      PROVE  /\ mem[s].last \notin closed => mem'[s] = mem[s]
             /\ mem[s].last \in closed =>
                  mem'[s] = [state |-> "COOLDOWN", entered |-> ev, last |-> NoTrade]
  BY <1>2 DEF OnSignalResolved
<1>4. TypeOK'
  <2>1. mem' \in [Strategy -> StrategyState]
    <3>1. ASSUME NEW s \in Strategy PROVE mem'[s] \in StrategyState
      <4>1. [state |-> "COOLDOWN", entered |-> ev, last |-> NoTrade] \in StrategyState
        BY <1>1 DEF StrategyState, StrategyStates
      <4>2. mem[s] \in StrategyState
        BY DEF TypeOK
      <4>3. QED
        BY <1>3, <4>1, <4>2
    <3>2. QED
      BY <1>2, <3>1
  <2>2. QED
    BY <1>1, <1>2, <2>1 DEF TypeOK
<1>5. ControlOK'
  BY <1>1, <1>2 DEF ControlOK, TypeOK
<1>6. IdsOK'
  <2>1. ASSUME NEW s \in Strategy
        PROVE  /\ mem'[s].last < nextId
               /\ mem'[s].state \notin Entered => mem'[s].last = NoTrade
    BY <1>3 DEF IdsOK, NoTrade, TypeOK
  <2>2. QED
    BY <1>2, <2>1 DEF IdsOK
<1>7. ASSUME NEW s \in Strategy, mem'[s].state \in Entered
      PROVE  mem'[s] = mem[s] /\ mem[s].last \notin closed
  BY <1>3, <1>7 DEF Entered
<1>8. TradesExist'
  BY <1>1, <1>2, <1>7 DEF TradesExist, NamesTrade, Pending
<1>9. CandleOK' /\ SweptOK'
  BY <1>1, <1>2 DEF CandleOK, SweptOK, Waiting
<1>10. TrackingOK'
  <2>1. ASSUME NEW id \in TradeId, Waiting(id), Tracked(id) PROVE mem'[rows[id].owner] = mem[rows[id].owner]
    <3>1. id \notin closed
      BY <2>1 DEF Waiting, CandleOK
    <3>2. rows[id].owner \in Strategy
      BY DEF TypeOK, Row
    <3>3. QED
      BY <1>3, <2>1, <3>1, <3>2 DEF Tracked
  <2>2. ASSUME NEW id \in TradeId, Waiting(id), Overdue(id) PROVE mem'[rows[id].owner] = mem[rows[id].owner]
    <3>1. rows[id].owner \in Strategy
      BY DEF TypeOK, Row
    <3>2. mem[rows[id].owner].last = NoTrade
      BY <2>2, <3>1 DEF Overdue, IdsOK, Entered
    <3>3. NoTrade \notin closed
      BY <1>1 DEF NoTrade, TradeId
    <3>4. QED
      BY <1>3, <3>1, <3>2, <3>3
  <2>3. \A s \in Strategy : Unconfirmed(s)' = Unconfirmed(s)
    BY <1>2 DEF Unconfirmed
  <2>4. \A id \in TradeId : Waiting(id) /\ (Tracked(id) \/ Overdue(id)) => Tracked(id)' \/ Overdue(id)'
    BY <1>2, <2>1, <2>2 DEF Tracked, Overdue
  <2>5. crashes \in Nat /\ ~Pending'
    BY <1>1, <1>2, CountsAssumption DEF TypeOK, Pending
  <2>6. QED
    BY <1>2, <2>3, <2>4, <2>5, TrackingKept DEF Unconfirmed, Waiting
<1>11. LocksOK'
  BY <1>1, <1>2, <1>7 DEF LocksOK
<1>12. QED
  BY <1>4, <1>5, <1>6, <1>8, <1>9, <1>10, <1>11 DEF IInv

(* A row that still waits is younger than its strategy's hold and cooldown *)
(* together: a strategy it is attached to is locked.                       *)
LEMMA StillLocked ==
  ASSUME IInv, pc = "decide", TimelyFeed,
         NEW id \in TradeId, Waiting(id), Tracked(id) \/ Overdue(id)
  PROVE  /\ rows[id].created \in Nat
         /\ EntryLocked(mem[rows[id].owner], now, Cooldown)
<1> DEFINE c == rows[id].created
           st == mem[rows[id].owner]
<1>1. /\ c \in Nat /\ ev \in Nat /\ swept \in Nat /\ now \in Nat
      /\ rows[id].owner \in Strategy
  BY CountsAssumption DEF IInv, TypeOK, Row
<1>2. swept < c + RowHold
  BY DEF IInv, SweptOK
<1>3. ev <= swept + MaxGap /\ now - ev <= MaxLag
  BY DEF IInv, ControlOK
<1>5. now < c + MaxHold + Cooldown
  <2>1. RowHold + MaxLag + MaxGap <= MaxHold + Cooldown
    BY DEF TimelyFeed
  <2> HIDE DEF c
  <2>2. QED
    BY <1>1, <1>2, <1>3, <2>1, TimesAssumption
<1>6. CASE Tracked(id)
  BY <1>1, <1>6 DEF Tracked, EntryLocked, Entered
<1>7. CASE Overdue(id)
  <2>1. st.entered \in Nat /\ st.state = "EXPIRED" /\ c + MaxHold <= st.entered
    BY <1>1, <1>7, CountsAssumption DEF Overdue, IInv, TypeOK, StrategyState
  <2>2. now - st.entered < Cooldown
    <3> HIDE DEF c, st
    <3>1. QED
      BY <1>1, <1>5, <2>1, TimesAssumption
  <2>3. QED
    BY <1>1, <2>1, <2>2 DEF EntryLocked, Terminal
<1>8. QED
  BY <1>1, <1>6, <1>7

LEMMA DecideStep ==
  ASSUME IInv, NEW r \in Reactions(mem[turn], now, nextId, MaxHold, Cooldown), Decide(r)
  PROVE  IInv'
<1> USE CountsAssumption, TimesAssumption DEF IInv, database
<1> DEFINE st == mem[turn]
<1>1. /\ pc = "decide" /\ pc' = "route" /\ queue' = r.levels
      /\ r.st.last = nextId => nextId <= MaxTrades
      /\ mem' = [mem EXCEPT ![turn] = r.st]
      /\ nextId' = IF r.st.last = nextId THEN nextId + 1 ELSE nextId
      /\ UNCHANGED <<now, rows, saved, todo, closed, turn, ev, swept, crashes>>
  BY DEF Decide
<1>2. /\ turn \in Strategy /\ st \in StrategyState /\ now \in 0..Horizon /\ nextId \in Nat \ {0}
      /\ st.state \notin Entered => st.last = NoTrade
      /\ st.last \in 0..(nextId - 1)
      /\ queue = <<>> /\ ~Pending
  <2>1. turn \in Strategy /\ st \in StrategyState /\ now \in 0..Horizon /\ nextId \in Nat \ {0}
    BY DEF TypeOK
  <2>2. /\ st.state \notin Entered => st.last = NoTrade
        /\ st.last < nextId
    BY <2>1 DEF IdsOK
  <2>3. st.last \in Nat
    BY <2>1 DEF StrategyState, TradeId, NoTrade
  <2>4. queue = <<>> /\ ~Pending
    BY <1>1, AnswersDiffer DEF ControlOK, Pending, AlertAnswers
  <2>5. QED
    BY <2>1, <2>2, <2>3, <2>4
<1>3. /\ mem' \in [Strategy -> StrategyState] => mem'[turn] = r.st
      /\ \A s \in Strategy : s # turn => mem'[s] = mem[s]
      /\ mem'[turn] = r.st
  BY <1>1, <1>2 DEF TypeOK
(* The answer that enters no trade. *)
<1>4. ASSUME Stops(st, r, now) \/ Stays(st, r) \/ Waits(st, r, now) PROVE IInv'
  <2>1. /\ r.levels \in AlertAnswers /\ nextId' = nextId /\ ~Pending'
        /\ r.st \in StrategyState
        /\ r.st.state \notin Entered => r.st.last = NoTrade
        /\ r.st.state \in Entered => r.st = st
    <3>1. CASE Stops(st, r, now)
      BY <1>1, <1>2, <3>1, AnswersDiffer
         DEF Stops, AlertAnswers, Pending, StrategyState, StrategyStates, Entered, NoTrade
    <3>2. CASE Stays(st, r)
      BY <1>1, <1>2, <3>2, AnswersDiffer DEF Stays, AlertAnswers, Pending
    <3>3. CASE Waits(st, r, now)
      BY <1>1, <1>2, <3>3, AnswersDiffer DEF Waits, Pending, StrategyState, NoTrade
    <3>4. QED
      BY <1>4, <3>1, <3>2, <3>3
  <2>2. TypeOK'
    BY <1>1, <2>1, AnswersType DEF TypeOK, Answers, Alerts
  <2>3. ControlOK'
    BY <1>1, <2>1 DEF ControlOK, Answers
  <2>4. IdsOK'
    <3>1. r.st.last < nextId
      BY <1>2, <2>1 DEF NoTrade
    <3>2. QED
      BY <1>1, <1>3, <2>1, <3>1 DEF IdsOK
  <2>5. TradesExist'
    BY <1>1, <1>2, <1>3, <2>1 DEF TradesExist, NamesTrade
  <2>6. CandleOK' /\ SweptOK'
    BY <1>1 DEF CandleOK, SweptOK, Waiting
  <2>7. LocksOK'
    BY <1>1, <1>2, <1>3, <2>1 DEF LocksOK
  <2>8. ASSUME TimelyFeed, NEW id \in TradeId, Waiting(id), Tracked(id) \/ Overdue(id)
        PROVE  Tracked(id)' \/ Overdue(id)'
    <3>0. rows[id].owner \in Strategy
      BY DEF TypeOK, Row
    <3>1. CASE rows[id].owner # turn
      BY <1>1, <1>3, <2>8, <3>0, <3>1 DEF Tracked, Overdue
    <3>2. CASE rows[id].owner = turn
      <4>1. rows[id].created \in Nat /\ EntryLocked(st, now, Cooldown)
        BY <1>1, <2>8, <3>2, StillLocked
      <4>2. CASE Stays(st, r)
        BY <1>1, <1>2, <1>3, <2>8, <3>2, <4>2 DEF Stays, Tracked, Overdue
      <4>3. CASE Stops(st, r, now)
        BY <1>1, <1>2, <1>3, <2>8, <3>2, <4>1, <4>3
           DEF Stops, Tracked, Overdue, TimeStopDue, Entered
      <4>4. QED
        BY <1>4, <4>1, <4>2, <4>3 DEF Waits
    <3>3. QED
      BY <3>1, <3>2
  <2>9. TrackingOK'
    <3>1. SUFFICES ASSUME TimelyFeed PROVE TrackingOK'
      BY DEF TrackingOK, TimelyFeed
    <3>2. \A s \in Strategy : Unconfirmed(s)' = Unconfirmed(s)
      BY <1>1 DEF Unconfirmed
    <3>3. crashes \in Nat
      BY CountsAssumption DEF TypeOK
    <3>4. \A id \in TradeId : Waiting(id) /\ (Tracked(id) \/ Overdue(id)) => Tracked(id)' \/ Overdue(id)'
      BY <2>8, <3>1
    <3>5. QED
      BY <1>1, <2>1, <3>2, <3>3, <3>4, TrackingKept DEF Unconfirmed, Waiting
  <2>10. QED
    BY <2>2, <2>3, <2>4, <2>5, <2>6, <2>7, <2>9 DEF IInv
(* The answer that enters one. *)
<1>5. ASSUME Enters(st, r, now, nextId) PROVE IInv'
  <2>1. /\ r.st = [state |-> "TRIGGERED", entered |-> now, last |-> nextId]
        /\ r.levels \in TradeAnswers /\ Pending'
        /\ ~EntryLocked(st, now, Cooldown)
        /\ nextId \in TradeId /\ nextId' = nextId + 1 /\ nextId # NoTrade
        /\ r.st \in StrategyState
    BY <1>1, <1>2, <1>5
       DEF Enters, Pending, TradeId, NoTrade, StrategyState, StrategyStates
  <2>2. TypeOK'
    BY <1>1, <1>2, <2>1, AnswersType DEF TypeOK, Answers, Alerts, TradeId
  <2>3. ControlOK'
    BY <1>1, <2>1 DEF ControlOK, Answers
  <2>4. IdsOK'
    <3>1. /\ \A id \in TradeId : rows[id].status # "NONE" => id < nextId + 1
          /\ \A s \in Strategy : mem[s].last < nextId + 1 /\ saved[s].last < nextId + 1
      BY <1>2 DEF IdsOK, TypeOK, StrategyState, TradeId, NoTrade
    <3>2. QED
      BY <1>1, <1>2, <1>3, <2>1, <3>1 DEF IdsOK, Entered
  <2>5. rows[nextId].status = "NONE"
    BY <1>2, <2>1 DEF IdsOK
  <2>6. ev <= now
    BY DEF ControlOK
  <2>7. TradesExist'
    BY <1>1, <1>2, <1>3, <2>1, <2>5, <2>6 DEF TradesExist, NamesTrade, Entered
  <2>8. CandleOK' /\ SweptOK'
    BY <1>1 DEF CandleOK, SweptOK, Waiting
  <2>9. LocksOK'
    BY <1>1, <1>2, <1>3, <2>1, <2>5 DEF LocksOK
  <2>10. TimelyFeed => ~Attached(turn)
    <3>1. SUFFICES ASSUME TimelyFeed, NEW id \in Unconfirmed(turn), Tracked(id) \/ Overdue(id)
                   PROVE  FALSE
      BY DEF Attached
    <3>2. id \in TradeId /\ Waiting(id) /\ rows[id].owner = turn
      BY DEF Unconfirmed, Waiting
    <3>3. QED
      BY <1>1, <2>1, <3>1, <3>2, StillLocked
  <2>11. TrackingOK'
    <3>1. SUFFICES ASSUME TimelyFeed PROVE TrackingOK'
      BY DEF TrackingOK, TimelyFeed
    <3>2. \A s \in Strategy : Unconfirmed(s)' = Unconfirmed(s)
      BY <1>1 DEF Unconfirmed
    <3>3. Cardinality(Unconfirmed(turn)) <= crashes
      BY <1>2, <2>10, <3>1 DEF TrackingOK
    <3>4. ASSUME NEW s \in Strategy, s # turn PROVE Attached(s)' <=> Attached(s)
      <4>1. \A id \in Unconfirmed(s) : rows[id].owner = s
        BY DEF Unconfirmed
      <4>2. mem'[s] = mem[s]
        BY <1>3, <3>4
      <4>3. \A id \in Unconfirmed(s) : (Tracked(id)' <=> Tracked(id)) /\ (Overdue(id)' <=> Overdue(id))
        BY <1>1, <4>1, <4>2 DEF Tracked, Overdue
      <4>4. QED
        BY <3>2, <3>4, <4>3 DEF Attached
    <3>5. Cardinality(Unconfirmed(turn)) \in Nat /\ crashes \in Nat
      BY <1>2, UnconfirmedFinite, CountsAssumption DEF TypeOK
    <3>6. ASSUME NEW s \in Strategy
          PROVE  /\ Cardinality(Unconfirmed(s)') <= crashes + 1
                 /\ ~Attached(s)' \/ pc' = "down" \/ (Pending' /\ s = turn') =>
                      Cardinality(Unconfirmed(s)') <= crashes
      <4>1. CASE s = turn
        BY <3>2, <3>3, <3>5, <4>1
      <4>2. CASE s # turn
        BY <1>1, <3>1, <3>2, <3>4, <4>2 DEF TrackingOK
      <4>3. QED
        BY <4>1, <4>2
    <3>7. QED
      BY <1>1, <3>6 DEF TrackingOK
  <2>12. QED
    BY <2>2, <2>3, <2>4, <2>7, <2>8, <2>9, <2>11 DEF IInv
<1>6. QED
  BY <1>2, <1>4, <1>5, ReactionCases

LEMMA RouteAlertStep == ASSUME IInv, RouteAlert PROVE IInv'
<1> USE CountsAssumption, TimesAssumption DEF IInv, database
<1>1. /\ pc = "route" /\ queue \in Answers /\ queue' = Tail(queue) /\ queue' \in Answers
      /\ Pending' => Pending
      /\ UNCHANGED <<now, rows, saved, mem, pc, todo, closed, turn, ev, swept, nextId, crashes>>
  BY AlertRouted DEF RouteAlert, ControlOK, Pending
<1>2. TypeOK' /\ ControlOK'
  BY <1>1, AnswersType DEF TypeOK, ControlOK, Alerts
<1>3. IdsOK' /\ CandleOK' /\ SweptOK' /\ LocksOK'
  BY <1>1 DEF IdsOK, CandleOK, SweptOK, Waiting, LocksOK
<1>4. Pending <=> Pending'
  <2>1. CASE queue \in AlertAnswers
    BY <1>1, <2>1, AnswersDiffer DEF Pending
  <2>2. CASE queue \in TradeAnswers
    BY <1>1, <2>2, HeadsAndTails DEF TradeAnswers, Pending, RouteAlert
  <2>3. QED
    BY <1>1, <2>1, <2>2 DEF Answers
<1>5. TradesExist'
  BY <1>1, <1>4 DEF TradesExist, NamesTrade
<1>6. TrackingOK'
  BY <1>1, <1>4 DEF TrackingOK, TimelyFeed, Attached, Tracked, Overdue, Unconfirmed
<1>7. QED
  BY <1>2, <1>3, <1>5, <1>6 DEF IInv

(* A trade is written where nothing was, and only there. *)
LEMMA SaveTradeStep ==
  ASSUME IInv, NEW row \in Row, SaveTrade(row),
         row.status \in {"TRIGGERED", "WATCHING"}, ~row.tp1Reached,
         row.owner = turn, row.created = mem[turn].entered
  PROVE  IInv'
<1> USE CountsAssumption, TimesAssumption DEF IInv, database
<1> DEFINE id == mem[turn].last
<1>1. /\ pc = "route" /\ Pending /\ queue' = <<>>
      /\ rows' = [rows EXCEPT ![id] = row]
      /\ UNCHANGED <<now, saved, mem, pc, todo, closed, turn, ev, swept, nextId, crashes>>
  BY TradeRouted DEF SaveTrade, ControlOK, Pending, TradeAnswers
<1>2. ~Pending' /\ queue' \in Answers
  BY <1>1, AnswersDiffer DEF Pending, AlertAnswers, Answers
<1>3. /\ turn \in Strategy /\ id \in TradeId /\ id < nextId
      /\ mem[turn].state = "TRIGGERED" /\ ev <= mem[turn].entered
      /\ rows[id].status = "NONE"
      /\ rows'[id] = row
      /\ \A j \in TradeId : j # id => rows'[j] = rows[j]
  BY <1>1 DEF TypeOK, TradesExist, IdsOK
<1>4. TypeOK' /\ ControlOK'
  BY <1>1, <1>2, <1>3, AnswersType DEF TypeOK, ControlOK, Alerts
<1>5. IdsOK'
  BY <1>1, <1>3 DEF IdsOK
<1>6. ASSUME NEW st, NEW s \in Strategy, NamesTrade(st, s) PROVE NamesTrade(st, s)'
  BY <1>1, <1>3, <1>6 DEF NamesTrade
<1>7. NamesTrade(mem[turn], turn)'
  BY <1>1, <1>3 DEF NamesTrade
<1>8. TradesExist'
  BY <1>1, <1>2, <1>6, <1>7 DEF TradesExist
<1>9. CandleOK'
  BY <1>1, <1>3 DEF CandleOK, ControlOK
<1>10. SweptOK'
  <2>1. swept < row.created + RowHold
    BY <1>1, <1>3 DEF ControlOK, TypeOK, Row
  <2>2. QED
    BY <1>1, <1>3, <2>1 DEF SweptOK, Waiting
<1>11. TrackingOK'
  <2>1. SUFFICES ASSUME TimelyFeed, NEW s \in Strategy
                 PROVE  /\ Cardinality(Unconfirmed(s)') <= crashes + 1
                        /\ ~Attached(s)' => Cardinality(Unconfirmed(s)') <= crashes
    BY <1>1, <1>2 DEF TrackingOK, TimelyFeed, ControlOK
  <2>2. \A j \in TradeId : j # id => (Tracked(j)' <=> Tracked(j)) /\ (Overdue(j)' <=> Overdue(j))
    BY <1>1, <1>3 DEF Tracked, Overdue
  <2>3. id \notin Unconfirmed(s)
    BY <1>3 DEF Unconfirmed
  <2>4. CASE id \notin Unconfirmed(s)'
    <3>1. Unconfirmed(s)' = Unconfirmed(s)
      BY <1>3, <2>3, <2>4 DEF Unconfirmed
    <3>2. Attached(s)' <=> Attached(s)
      BY <2>2, <2>3, <3>1 DEF Attached, Unconfirmed
    <3>3. QED
      BY <1>1, <2>1, <3>1, <3>2 DEF TrackingOK
  <2>5. CASE id \in Unconfirmed(s)'
    <3> DEFINE U == Unconfirmed(s)
               T == Unconfirmed(s)'
    <3>0. T = U \cup {id} /\ id \notin U
      BY <1>3, <2>3, <2>5 DEF Unconfirmed
    <3>1. s = turn
      BY <1>3, <2>5 DEF Unconfirmed
    <3>2. Cardinality(Unconfirmed(s)) <= crashes
      BY <1>1, <2>1, <3>1 DEF TrackingOK
    <3>3. IsFiniteSet(U) /\ Cardinality(U) \in Nat
      BY UnconfirmedFinite
    <3>4. Cardinality(T) = Cardinality(U) + 1
      <4> HIDE DEF T, U
      <4>1. QED
        BY <3>0, <3>3, FS_AddElement
    <3>5. PICK k \in TradeId : k = id
      BY <1>3
    <3>6. Attached(s)'
      <4>1. Tracked(k)'
        BY <1>1, <1>3, <3>5 DEF Tracked
      <4>2. QED
        BY <2>5, <3>5, <4>1 DEF Attached
    <3>7. crashes \in Nat
      BY CountsAssumption DEF TypeOK
    <3>8. QED
      BY <3>2, <3>3, <3>4, <3>6, <3>7
  <2>6. QED
    BY <2>4, <2>5
<1>12. LocksOK'
  BY <1>1, <1>3 DEF LocksOK
<1>13. QED
  BY <1>4, <1>5, <1>8, <1>9, <1>10, <1>11, <1>12 DEF IInv

(* The rows route writes: a trade or what is left of a blocked one, and an *)
(* observation, which is never open.                                       *)
LEMMA TradeRowType ==
  ASSUME TypeOK, NEW status \in {"TRIGGERED", "WATCHING"}, NEW size \in 0..MaxPositionR
  PROVE  LET row == TradeRow(TRUE, status, size)
         IN  /\ row \in Row /\ row.status = status /\ ~row.tp1Reached
             /\ row.owner = turn /\ row.created = mem[turn].entered
             /\ row.positionR = size
<1>1. turn \in Strategy /\ mem[turn].entered \in 0..Horizon
  BY DEF TypeOK, StrategyState
<1>2. QED
  BY <1>1 DEF TradeRow, NoRow, Row, RowStatus, Results, Strategy

LEMMA ObservationType ==
  ASSUME TypeOK
  PROVE  LET row == TradeRow(FALSE, "TRIGGERED", 0)
         IN  /\ row \in Row /\ row.status = "TRIGGERED" /\ ~row.tp1Reached
             /\ row.owner = turn /\ row.created = mem[turn].entered
             /\ ~Manageable(row)
<1>1. turn \in Strategy /\ mem[turn].entered \in 0..Horizon /\ 0 \in 0..MaxPositionR
  BY RiskAssumption DEF TypeOK, StrategyState
<1>2. QED
  BY <1>1 DEF TradeRow, NoRow, Row, RowStatus, Results, Strategy, Manageable

(* The policy never allows more than one position, nor less than nothing.  *)
LEMMA AllowedRange ==
  ASSUME NEW active \in Nat, NEW halted \in BOOLEAN, NEW throttles \in 0..2
  PROVE  AllowedR(PositionR, active, halted, throttles, MaxPositionR, MaxClusterR)
           \in 0..MaxPositionR
<1> USE RiskAssumption
<1> DEFINE whole == Lesser(Greater(PositionR, 0), MaxPositionR)
           size == Throttled(whole, throttles)
<1>1. whole \in 0..MaxPositionR
  BY DEF Lesser, Greater
<1>2. size \in 0..MaxPositionR
  <2> HIDE DEF whole
  <2>1. QED
    BY <1>1 DEF Throttled
<1> DEFINE available == Greater(0, MaxClusterR - active)
           allowed == AllowedR(PositionR, active, halted, throttles, MaxPositionR, MaxClusterR)
<1>3. available \in Nat
  BY DEF Greater
<1>4. \/ allowed = 0
      \/ allowed = available /\ available <= size
      \/ allowed = size
  BY DEF AllowedR
<1>5. QED
  <2> HIDE DEF size, available, allowed
  <2>1. allowed \in 0..MaxPositionR
    BY <1>2, <1>3, <1>4
  <2>2. QED
    BY <2>1 DEF allowed

(* The R at risk is a finite number. *)
LEMMA AtRiskFinite == IsFiniteSet(AtRisk) /\ ExposureR \in Nat
<1>1. IsFiniteSet(TradeId) /\ IsFiniteSet(1..MaxPositionR)
  BY CountsAssumption, RiskAssumption, FS_Interval DEF TradeId
<1>2. IsFiniteSet(TradeId \X (1..MaxPositionR))
  BY <1>1, FS_Product
<1>3. IsFiniteSet(AtRisk)
  BY <1>2, FS_Subset DEF AtRisk
<1>4. QED
  BY <1>3, FS_CardinalityType DEF ExposureR

LEMMA RouteTradeStep ==
  ASSUME IInv, NEW halted \in BOOLEAN, NEW throttles \in 0..2, RouteTrade(halted, throttles)
  PROVE  IInv'
<1> DEFINE size == AllowedR(PositionR, ExposureR, halted, throttles, MaxPositionR, MaxClusterR)
           status == IF Blocked(size) THEN "WATCHING" ELSE "TRIGGERED"
<1>1. CASE turn \notin Tradable
  <2>1. SaveTrade(TradeRow(FALSE, "TRIGGERED", 0))
    BY <1>1 DEF RouteTrade
  <2>2. QED
    BY <2>1, ObservationType, SaveTradeStep DEF IInv
<1>2. CASE turn \in Tradable
  <2>1. size \in 0..MaxPositionR
    BY AllowedRange, AtRiskFinite
  <2>2. SaveTrade(TradeRow(TRUE, status, size))
    BY <1>2 DEF RouteTrade
  <2> DEFINE row == TradeRow(TRUE, status, size)
  <2>3. status \in {"TRIGGERED", "WATCHING"}
    OBVIOUS
  <2> HIDE DEF size, status
  <2>4. /\ row \in Row /\ row.status = status /\ ~row.tp1Reached
        /\ row.owner = turn /\ row.created = mem[turn].entered
    BY <2>1, <2>3, TradeRowType DEF IInv
  <2> HIDE DEF row
  <2>5. QED
    BY <2>2, <2>3, <2>4, SaveTradeStep DEF row
<1>3. QED
  BY <1>1, <1>2

LEMMA SaveStateStep == ASSUME IInv, SaveState PROVE IInv'
<1> USE CountsAssumption, TimesAssumption DEF IInv, database
<1>1. /\ pc = "route" /\ queue = <<>> /\ ~Pending
      /\ saved' = [saved EXCEPT ![turn] = mem[turn]]
      /\ pc' \in {"idle", "decide"}
      /\ UNCHANGED <<now, rows, mem, todo, closed, queue, ev, swept, nextId, crashes>>
  BY AnswersDiffer DEF SaveState, Pending, AlertAnswers
<1>2. turn \in Strategy /\ turn' \in Strategy
  BY DEF SaveState, NextTurn, TypeOK, Strategy
<1>3. TypeOK'
  BY <1>1, <1>2 DEF TypeOK
<1>4. ControlOK'
  BY <1>1 DEF ControlOK
<1>5. IdsOK' /\ CandleOK' /\ LocksOK'
  BY <1>1, <1>2 DEF IdsOK, TypeOK, CandleOK, LocksOK
<1>6. TradesExist'
  BY <1>1, <1>2 DEF TradesExist, NamesTrade, TypeOK, Pending
<1>7. SweptOK'
  BY <1>1 DEF SweptOK, Waiting
<1>8. TrackingOK'
  <2>1. \A s \in Strategy : Unconfirmed(s)' = Unconfirmed(s) /\ (Attached(s)' <=> Attached(s))
    BY <1>1 DEF Attached, Unconfirmed, Tracked, Overdue
  <2>2. ~Pending' /\ pc' # "down"
    BY <1>1 DEF Pending
  <2>3. QED
    BY <1>1, <2>1, <2>2 DEF TrackingOK, TimelyFeed
<1>9. QED
  BY <1>3, <1>4, <1>5, <1>6, <1>7, <1>8 DEF IInv

LEMMA CrashStep == ASSUME IInv, Crash PROVE IInv'
<1> USE CountsAssumption, TimesAssumption DEF IInv, Crash, database
<1>1. /\ Fresh \in StrategyState /\ Fresh.state \notin Entered /\ Fresh.last = NoTrade
  BY DEF Fresh, StrategyState, StrategyStates, Entered
<1>2. ~Pending' /\ queue' \in Answers
  BY AnswersDiffer DEF Pending, AlertAnswers, Answers
<1>3. TypeOK'
  BY <1>1, <1>2, AnswersType DEF TypeOK, Alerts, Strategy
<1>4. ControlOK'
  BY <1>2 DEF ControlOK, TypeOK
<1>5. IdsOK' /\ CandleOK' /\ LocksOK'
  BY <1>1 DEF IdsOK, CandleOK, LocksOK, TypeOK, NoTrade
<1>6. TradesExist'
  BY <1>1, <1>2 DEF TradesExist, NamesTrade
<1>7. SweptOK'
  BY DEF SweptOK, Waiting
<1>9. TrackingOK'
  <2>1. \A s \in Strategy : Unconfirmed(s)' = Unconfirmed(s)
    BY DEF Unconfirmed
  <2>2. \A s \in Strategy : Cardinality(Unconfirmed(s)) \in Nat
    BY UnconfirmedFinite
  <2>3. crashes \in Nat /\ crashes' = crashes + 1
    BY DEF TypeOK
  <2>4. ASSUME TimelyFeed, NEW s \in Strategy
        PROVE  Cardinality(Unconfirmed(s)') <= crashes' /\ Cardinality(Unconfirmed(s)') <= crashes' + 1
    <3>1. Cardinality(Unconfirmed(s)) <= crashes + 1
      BY <2>4 DEF TrackingOK
    <3>2. QED
      BY <2>1, <2>2, <2>3, <3>1
  <2>5. QED
    BY <2>4 DEF TrackingOK, TimelyFeed
<1>8. QED
  BY <1>3, <1>4, <1>5, <1>6, <1>7, <1>9 DEF IInv

LEMMA RestartStep == ASSUME IInv, Restart PROVE IInv'
<1> USE CountsAssumption, TimesAssumption DEF IInv, Restart, database
<1>1. queue = <<>> /\ ~Pending /\ ~Pending' /\ crashes > 0 /\ todo = {} /\ closed = {}
  BY AnswersDiffer DEF ControlOK, Pending, AlertAnswers
<1>2. TypeOK' /\ ControlOK' /\ IdsOK' /\ CandleOK'
  BY <1>1 DEF TypeOK, ControlOK, IdsOK, CandleOK
<1>3. TradesExist'
  BY <1>1 DEF TradesExist, NamesTrade
<1>4. SweptOK' /\ LocksOK'
  BY <1>1 DEF SweptOK, Waiting, LocksOK, TypeOK
<1>6. TrackingOK'
  <2>1. \A s \in Strategy : Unconfirmed(s)' = Unconfirmed(s)
    BY DEF Unconfirmed
  <2>2. QED
    BY <2>1 DEF TrackingOK, TimelyFeed
<1>5. QED
  BY <1>2, <1>3, <1>4, <1>6 DEF IInv

-----------------------------------------------------------------------------
(* The invariant is inductive: every action of the monitor keeps it. *)
LEMMA IInvInductive == IInv /\ [Next]_vars => IInv'
<1> SUFFICES ASSUME IInv, [Next]_vars PROVE IInv'
  OBVIOUS
<1>1. CASE Tick
  BY <1>1, TickStep
<1>2. CASE Receive
  BY <1>2, ReceiveMicroStep, ReceiveOtherStep DEF Receive
<1>3. CASE Sweep
  BY <1>3, AdvanceRowStep, ResolveInMemoryStep DEF Sweep
<1>4. CASE Answer
  BY <1>4, DecideStep, RouteAlertStep, RouteTradeStep, SaveStateStep
     DEF Answer
<1>5. CASE Crash
  BY <1>5, CrashStep
<1>6. CASE Restart
  BY <1>6, RestartStep
<1>7. CASE UNCHANGED vars
  BY <1>7 DEF vars, database, process, IInv, TypeOK, ControlOK, IdsOK, TradesExist, NamesTrade,
     Pending, CandleOK, SweptOK, Waiting, TrackingOK, TimelyFeed, Attached, Tracked, Overdue,
     Unconfirmed, LocksOK
<1>8. QED
  BY <1>1, <1>2, <1>3, <1>4, <1>5, <1>6, <1>7 DEF Next

LEMMA InvariantHolds == Spec => []IInv
BY InitInv, IInvInductive, PTL DEF Spec

(* Every variable keeps its type. *)
THEOREM MonitorTypeCorrect == Spec => []TypeOK
<1>1. IInv => TypeOK
  BY DEF IInv
<1>2. QED
  BY <1>1, InvariantHolds, PTL

(* Whatever a crash interrupts, a strategy state in the database that says *)
(* "in a trade" names a trade of that strategy in the table "signals": the *)
(* order of save_signal and save_strategy_state in run_monitor suffices.   *)
THEOREM StatesNameTrades == Spec => []PersistedTradeExists
<1>1. IInv => PersistedTradeExists
  BY DEF IInv, TradesExist, NamesTrade, PersistedTradeExists
<1>2. QED
  BY <1>1, InvariantHolds, PTL

(* As long as the process has not died, no strategy has two open trades    *)
(* before TP1, provided the lag and the gaps of the feed leave time for    *)
(* the row's time stop.                                                    *)
THEOREM NoDuplicateEntry == Spec => []OneUnconfirmedTrade
<1>1. IInv => OneUnconfirmedTrade
  <2>1. SUFFICES ASSUME IInv, crashes = 0, TimelyFeed, NEW s \in Strategy,
                        NEW i \in Unconfirmed(s), NEW j \in Unconfirmed(s)
                 PROVE  i = j
    BY DEF OneUnconfirmedTrade
  <2>2. Cardinality(Unconfirmed(s)) <= 1
    BY <2>1 DEF IInv, TrackingOK
  <2>3. IsFiniteSet(Unconfirmed(s)) /\ Cardinality(Unconfirmed(s)) \in Nat
    BY UnconfirmedFinite
  <2>4. Cardinality(Unconfirmed(s)) = 0 \/ Cardinality(Unconfirmed(s)) = 1
    BY <2>2, <2>3
  <2>5. QED
    BY <2>3, <2>4, FS_EmptySet, FS_Singleton
<1>2. QED
  BY <1>1, InvariantHolds, PTL

(* Every crash costs a strategy at most one open trade that it no longer   *)
(* waits for, however often it enters again.                               *)
THEOREM CrashesBoundDuplicates == Spec => []DuplicatesBoundedByCrashes
<1>1. IInv => DuplicatesBoundedByCrashes
  <2>1. SUFFICES ASSUME IInv, TimelyFeed, NEW s \in Strategy
                 PROVE  Cardinality(Unconfirmed(s)) <= 1 + crashes
    BY DEF DuplicatesBoundedByCrashes
  <2>2. Cardinality(Unconfirmed(s)) <= crashes + 1
    BY <2>1 DEF IInv, TrackingOK
  <2>3. crashes \in Nat
    BY <2>1, CountsAssumption DEF IInv, TypeOK
  <2>4. QED
    BY <2>2, <2>3
<1>2. QED
  BY <1>1, InvariantHolds, PTL

(* As long as the process has not died, no strategy waits for a trade      *)
(* whose outcome has been recorded.                                        *)
THEOREM NoLockOutlivesItsTrade == Spec => []NoStaleLock
<1>1. IInv => NoStaleLock
  <2>1. SUFFICES ASSUME IInv, crashes = 0, NEW s \in Strategy,
                        pc = "idle", mem[s].state \in Entered
                 PROVE  rows[mem[s].last].status \notin {"RESOLVED", "EXPIRED"}
    BY DEF NoStaleLock, NotInAClosedTrade
  <2>2. ~Pending
    BY <2>1, AnswersDiffer DEF IInv, ControlOK, Pending, AlertAnswers
  <2>3. mem[s].last \in TradeId
    BY <2>1, <2>2 DEF IInv, TradesExist, NamesTrade
  <2>4. QED
    BY <2>1, <2>3 DEF IInv, LocksOK
<1>2. QED
  BY <1>1, InvariantHolds, PTL

-----------------------------------------------------------------------------
(* Moving open rows along never puts more at risk. *)
LEMMA AdvanceRisksNoMore ==
  ASSUME IInv, NEW id \in todo, NEW a \in BOOLEAN, NEW b \in BOOLEAN,
         AdvanceRow(id, a, b)
  PROVE  AtRisk' \subseteq AtRisk
<1>1. /\ id \in TradeId /\ rows[id] \in Row /\ Manageable(rows[id]) /\ ev \in Nat
      /\ rows[id].status = "TRIGGERED" => ~rows[id].tp1Reached
  BY CountsAssumption DEF IInv, TypeOK, CandleOK
<1> DEFINE v == IF rows[id].created >= ev THEN "HOLD" ELSE Verdict(rows[id], a, b, ev, RowHold)
           next == Apply(rows[id], v)
<1>2. next.positionR = rows[id].positionR
  <2>1. CASE rows[id].created >= ev
    BY <2>1 DEF Apply
  <2>2. CASE ~(rows[id].created >= ev)
    BY <1>1, <2>2, VerdictMoves
  <2>3. QED
    BY <2>1, <2>2
<1>3. rows' = [rows EXCEPT ![id] = next]
  BY DEF AdvanceRow
<1> HIDE DEF next
<1>4. /\ rows'[id] = next
      /\ \A j \in TradeId : j # id => rows'[j] = rows[j]
  BY <1>1, <1>3 DEF IInv, TypeOK
<1>5. ASSUME NEW u \in TradeId \X (1..MaxPositionR), Manageable(rows'[u[1]]),
             u[2] <= rows'[u[1]].positionR
      PROVE  Manageable(rows[u[1]]) /\ u[2] <= rows[u[1]].positionR
  <2>1. CASE u[1] = id
    BY <1>1, <1>2, <1>4, <1>5, <2>1
  <2>2. CASE u[1] # id
    BY <1>4, <1>5, <2>2
  <2>3. QED
    BY <2>1, <2>2
<1>6. QED
  BY <1>5 DEF AtRisk

(* A new trade adds its size to the R at risk. *)
LEMMA TradeRisks ==
  ASSUME IInv, NEW row \in Row, SaveTrade(row)
  PROVE  /\ AtRisk' \subseteq AtRisk \cup ({mem[turn].last} \X (1..row.positionR))
         /\ ~Manageable(row) => AtRisk' \subseteq AtRisk
<1> DEFINE id == mem[turn].last
<1>1. /\ id \in TradeId
      /\ rows' = [rows EXCEPT ![id] = row]
  <2>1. Pending
    BY TradeRouted DEF IInv, SaveTrade, ControlOK, Pending, TradeAnswers
  <2>2. QED
    BY <2>1 DEF SaveTrade, IInv, TradesExist
<1>2. /\ rows'[id] = row
      /\ \A j \in TradeId : j # id => rows'[j] = rows[j]
  BY <1>1 DEF IInv, TypeOK
<1> HIDE DEF id
<1>3. ASSUME NEW u \in TradeId \X (1..MaxPositionR), Manageable(rows'[u[1]]),
             u[2] <= rows'[u[1]].positionR
      PROVE  \/ Manageable(rows[u[1]]) /\ u[2] <= rows[u[1]].positionR
             \/ Manageable(row) /\ u \in {id} \X (1..row.positionR)
  <2>1. CASE u[1] = id
    <3>1. row.positionR \in Int /\ u[2] \in 1..row.positionR
      BY <1>2, <1>3, <2>1, RiskAssumption DEF Row
    <3>2. u = <<u[1], u[2]>>
      OBVIOUS
    <3>3. QED
      BY <1>2, <1>3, <2>1, <3>1, <3>2
  <2>2. CASE u[1] # id
    BY <1>2, <1>3, <2>2
  <2>3. QED
    BY <2>1, <2>2
<1>4. QED
  BY <1>3 DEF AtRisk, id

(* A size the policy allows fits under the cap beside what is at risk.     *)
LEMMA AllowedFits ==
  ASSUME NEW active \in Nat, active <= MaxClusterR, MaxPositionR <= MaxClusterR,
         NEW halted \in BOOLEAN, NEW throttles \in 0..2
  PROVE  active + AllowedR(PositionR, active, halted, throttles, MaxPositionR, MaxClusterR)
           <= MaxClusterR
<1> USE RiskAssumption
<1> DEFINE whole == Lesser(Greater(PositionR, 0), MaxPositionR)
           size == Throttled(whole, throttles)
           available == Greater(0, MaxClusterR - active)
           allowed == AllowedR(PositionR, active, halted, throttles, MaxPositionR, MaxClusterR)
<1>1. whole \in 0..MaxPositionR
  BY DEF Lesser, Greater
<1>2. size \in 0..MaxPositionR
  <2> HIDE DEF whole
  <2>1. QED
    BY <1>1 DEF Throttled
<1>3. available = MaxClusterR - active
  BY DEF Greater
<1>4. \/ allowed = 0
      \/ allowed = available
      \/ allowed = size /\ (active = 0 \/ ~(available <= size))
  BY DEF AllowedR
<1>5. QED
  <2> HIDE DEF size, available, allowed
  <2>1. active + allowed <= MaxClusterR
    BY <1>2, <1>3, <1>4
  <2>2. QED
    BY <2>1 DEF allowed

(* The open paper trades never risk more than the cluster cap, for every   *)
(* number of strategies and trades and wherever the process dies, as long  *)
(* as one position fits under the cap: max_micro_position_r is 0.5 and     *)
(* max_cluster_position_r 0.75 in configs/system.yaml.                     *)
THEOREM ExposureCapped ==
  ASSUME MaxPositionR <= MaxClusterR
  PROVE  Spec => []ExposureWithinCap
<1> USE RiskAssumption
<1>1. Init => ExposureWithinCap
  <2>1. SUFFICES ASSUME Init PROVE AtRisk = {}
    BY FS_EmptySet DEF ExposureWithinCap, ExposureR
  <2>2. QED
    BY <2>1 DEF Init, AtRisk, NoRow, Manageable, OpenStatus
<1>2. ASSUME AtRisk' \subseteq AtRisk, ExposureWithinCap PROVE ExposureWithinCap'
  <2>1. IsFiniteSet(AtRisk) /\ ExposureR \in Nat
    BY AtRiskFinite
  <2>2. Cardinality(AtRisk') <= Cardinality(AtRisk) /\ IsFiniteSet(AtRisk')
    BY <1>2, <2>1, FS_Subset
  <2>3. Cardinality(AtRisk') \in Nat
    BY <2>2, FS_CardinalityType
  <2>4. QED
    BY <1>2, <2>1, <2>2, <2>3 DEF ExposureWithinCap, ExposureR
<1>3. IInv /\ ExposureWithinCap /\ [Next]_vars => ExposureWithinCap'
  <2> SUFFICES ASSUME IInv, ExposureWithinCap, [Next]_vars PROVE ExposureWithinCap'
    OBVIOUS
  <2>1. CASE Tick \/ Receive \/ ResolveInMemory \/ RouteAlert \/ SaveState \/ Crash
             \/ Restart \/ UNCHANGED vars
    <3>1. rows' = rows
      BY <2>1 DEF Tick, Receive, ReceiveMicro, ReceiveOther, ResolveInMemory, RouteAlert,
         SaveState, Crash, Restart, vars, database
    <3>2. QED
      BY <1>2, <3>1 DEF AtRisk
  <2>2. CASE \E r \in Reactions(mem[turn], now, nextId, MaxHold, Cooldown) : Decide(r)
    <3>1. rows' = rows
      BY <2>2 DEF Decide, database
    <3>2. QED
      BY <1>2, <3>1 DEF AtRisk
  <2>3. ASSUME NEW id \in todo, NEW a \in BOOLEAN, NEW b \in BOOLEAN, AdvanceRow(id, a, b)
        PROVE  ExposureWithinCap'
    BY <1>2, <2>3, AdvanceRisksNoMore
  <2>4. ASSUME NEW halted \in BOOLEAN, NEW throttles \in 0..2, RouteTrade(halted, throttles),
               turn \notin Tradable
        PROVE  ExposureWithinCap'
    <3> DEFINE row == TradeRow(FALSE, "TRIGGERED", 0)
    <3>1. row \in Row /\ ~Manageable(row)
      BY ObservationType DEF IInv
    <3>2. SaveTrade(row)
      BY <2>4 DEF RouteTrade
    <3> HIDE DEF row
    <3>3. QED
      BY <1>2, <3>1, <3>2, TradeRisks
  <2>5. ASSUME NEW halted \in BOOLEAN, NEW throttles \in 0..2, RouteTrade(halted, throttles),
               turn \in Tradable
        PROVE  ExposureWithinCap'
    <3> DEFINE size == AllowedR(PositionR, ExposureR, halted, throttles, MaxPositionR, MaxClusterR)
               status == IF Blocked(size) THEN "WATCHING" ELSE "TRIGGERED"
               row == TradeRow(TRUE, status, size)
               added == {mem[turn].last} \X (1..size)
    <3>1. size \in 0..MaxPositionR
      BY AllowedRange, AtRiskFinite
    <3>2. ExposureR + size <= MaxClusterR
      BY AllowedFits, AtRiskFinite DEF ExposureWithinCap
    <3>3. SaveTrade(row)
      BY <2>5 DEF RouteTrade
    <3> HIDE DEF size
    <3>4. row \in Row /\ row.positionR = size
      <4>1. status \in {"TRIGGERED", "WATCHING"}
        OBVIOUS
      <4> HIDE DEF status
      <4>2. QED
        BY <3>1, <4>1, TradeRowType DEF IInv
    <3> HIDE DEF row
    <3>5. AtRisk' \subseteq AtRisk \cup added
      BY <3>3, <3>4, TradeRisks
    <3>6. IsFiniteSet(added) /\ Cardinality(added) = size
      <4>1. IsFiniteSet({mem[turn].last}) /\ Cardinality({mem[turn].last}) = 1
        BY FS_Singleton
      <4>2. IsFiniteSet(1..size) /\ Cardinality(1..size) = size
        BY <3>1, FS_Interval
      <4>3. Cardinality(added) = 1 * size /\ IsFiniteSet(added)
        BY <4>1, <4>2, FS_Product
      <4>4. QED
        BY <3>1, <4>3
    <3>7. IsFiniteSet(AtRisk) /\ ExposureR \in Nat
      BY AtRiskFinite
    <3> HIDE DEF added
    <3>8. /\ IsFiniteSet(AtRisk \cup added)
          /\ Cardinality(AtRisk \cup added) <= ExposureR + size
      <4>1. /\ IsFiniteSet(AtRisk \cup added)
            /\ Cardinality(AtRisk \cup added)
                 = Cardinality(AtRisk) + Cardinality(added) - Cardinality(AtRisk \cap added)
        BY <3>6, <3>7, FS_Union
      <4>2. Cardinality(AtRisk \cap added) \in Nat
        BY <3>7, FS_Intersection, FS_CardinalityType
      <4>3. QED
        BY <3>1, <3>6, <3>7, <4>1, <4>2 DEF ExposureR
    <3>9. Cardinality(AtRisk') <= Cardinality(AtRisk \cup added) /\ IsFiniteSet(AtRisk')
      BY <3>5, <3>8, FS_Subset
    <3>10. Cardinality(AtRisk') \in Nat /\ Cardinality(AtRisk \cup added) \in Nat
      BY <3>8, <3>9, FS_CardinalityType
    <3>11. QED
      BY <3>1, <3>2, <3>7, <3>8, <3>9, <3>10 DEF ExposureWithinCap, ExposureR
  <2>6. QED
    BY <2>1, <2>2, <2>3, <2>4, <2>5 DEF Next, Sweep, Answer
<1>4. QED
  BY <1>1, <1>3, InvariantHolds, PTL DEF Spec
=============================================================================
