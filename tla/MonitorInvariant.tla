-------------------------- MODULE MonitorInvariant --------------------------
(***************************************************************************)
(* The inductive invariant of Monitor: what holds between any two commits  *)
(* of the consumer, and from which its safety properties follow.           *)
(***************************************************************************)
EXTENDS Monitor

(* The answers a strategy can have left to route: with a trade, without.   *)
TradeAnswers == {<<"L3">>, <<"L2", "L3">>}
AlertAnswers == {<<>>, <<"L2">>, <<"L4">>, <<"L2", "L2">>, <<"L2", "L4">>}
Answers == TradeAnswers \cup AlertAnswers

(* A trade was made in this turn and is not in the database yet. *)
Pending == queue \in TradeAnswers

(* Where the consumer is and what it holds there. *)
ControlOK ==
  /\ queue \in Answers
  /\ pc # "route" => queue = <<>>
  /\ pc # "lifecycle" => todo = {} /\ closed = {}
  /\ swept <= ev /\ ev <= now
  /\ pc \in {"lifecycle", "decide", "route"} => now - ev <= MaxLag
  /\ pc \in {"decide", "route"} => ev <= swept + MaxGap
  /\ pc = "down" => crashes > 0

(* Ids are handed out once, a row exists only under an id handed out, and  *)
(* only a strategy that entered remembers one.                             *)
IdsOK ==
  /\ \A id \in TradeId : rows[id].status # "NONE" => id < nextId
  /\ \A s \in Strategy : mem[s].last < nextId /\ saved[s].last < nextId
  /\ \A s \in Strategy : mem[s].state \notin Entered => mem[s].last = NoTrade
  /\ \A s \in Strategy : saved[s].state \notin Entered => saved[s].last = NoTrade

(* The state names a trade of strategy s that is in the database. *)
NamesTrade(st, s) ==
  /\ st.last \in TradeId
  /\ rows[st.last].status # "NONE" /\ rows[st.last].owner = s

TradesExist ==
  /\ \A s \in Strategy : saved[s].state \in Entered => NamesTrade(saved[s], s)
  /\ \A s \in Strategy : mem[s].state \in Entered =>
       NamesTrade(mem[s], s) \/ (Pending /\ s = turn)
  /\ Pending => /\ mem[turn].state = "TRIGGERED" /\ mem[turn].last \in TradeId
                /\ rows[mem[turn].last].status = "NONE"
                /\ ev <= mem[turn].entered

(* Rows still to be moved by this candle are open, rows it closed are not. *)
CandleOK ==
  /\ \A id \in todo : Manageable(rows[id])
  /\ \A id \in closed : rows[id].status \in {"RESOLVED", "EXPIRED"}
  /\ \A id \in TradeId : rows[id].status \in {"NONE", "TRIGGERED"} => ~rows[id].tp1Reached

Waiting(id) == Manageable(rows[id]) /\ rows[id].status = "TRIGGERED"

(* The row's time stop has been applied up to the last candle swept, and   *)
(* to the rows this candle has passed already.                             *)
SweptOK ==
  \A id \in TradeId : Waiting(id) =>
    /\ swept < rows[id].created + RowHold
    /\ pc = "lifecycle" /\ id \notin todo => ev < rows[id].created + RowHold

(* The strategy is in this very trade, or stopped it for its age: then the *)
(* row is about to follow.                                                 *)
Tracked(id) ==
  LET st == mem[rows[id].owner] IN
    /\ st.state = "TRIGGERED" /\ st.last = id /\ st.entered = rows[id].created

Overdue(id) ==
  LET st == mem[rows[id].owner] IN
    st.state = "EXPIRED" /\ rows[id].created + MaxHold <= st.entered

Attached(s) == \E id \in Unconfirmed(s) : Tracked(id) \/ Overdue(id)

(* A crash detaches at most one row of a strategy from it.  A strategy     *)
(* that is free to enter, or has just entered, has no attached row: all    *)
(* the rows it waits for were left behind by crashes.                      *)
TrackingOK ==
  TimelyFeed => \A s \in Strategy :
    /\ Cardinality(Unconfirmed(s)) <= crashes + 1
    /\ ~Attached(s) \/ pc = "down" \/ (Pending /\ s = turn) =>
         Cardinality(Unconfirmed(s)) <= crashes

(* A strategy in a trade that has ended will be told in this same step. *)
LocksOK ==
  crashes = 0 => \A s \in Strategy :
    mem[s].state \in Entered /\ mem[s].last \in TradeId =>
      (rows[mem[s].last].status \in {"RESOLVED", "EXPIRED"} =>
         pc = "lifecycle" /\ mem[s].last \in closed)

IInv ==
  /\ TypeOK
  /\ ControlOK
  /\ IdsOK
  /\ TradesExist
  /\ CandleOK
  /\ SweptOK
  /\ TrackingOK
  /\ LocksOK
=============================================================================
