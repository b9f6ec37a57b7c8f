------------------------------- MODULE Monitor -------------------------------
(***************************************************************************)
(* The live monitor, app/main.py run_monitor: one consumer takes closed    *)
(* candles from the bus and, for each, commits the outcomes of open paper  *)
(* trades, tells the strategies which trades ended, asks every strategy    *)
(* in turn, routes its signals through the portfolio policy into the table *)
(* "signals", and saves the strategy's state.  Each step is a database     *)
(* commit of its own: the process may die between any two of them, and     *)
(* starts again from what the database holds.                              *)
(*                                                                         *)
(* All strategies trade one symbol, so one exposure cluster.  Prices are   *)
(* left to SignalLifecycle and the strategies' conditions to their own     *)
(* modules: here a candle hits a row's stop or target, and a strategy      *)
(* answers, in any way those modules allow.                                *)
(***************************************************************************)
EXTENDS LifecycleRules, StrategyRules, PortfolioRules, Sequences, FiniteSets

CONSTANTS
  N,            \* number of strategies, asked in the order 1..N
  Tradable,     \* those whose L3 carries an entry, a stop and a size
  MaxTrades,    \* bound: trades made
  MaxHold,      \* max_hold_hours of a strategy
  RowHold,      \* micro_max_hold_hours of the lifecycle manager
  Cooldown,     \* cooldown_hours of _entry_locked
  PositionR,    \* default_position_r
  MaxPositionR, MaxClusterR,
  MaxLag,       \* the consumer is never further behind the market than this
  MaxGap,       \* a 1m or 5m candle is handled at least this often
  MaxCrashes,   \* bound: crashes
  Horizon       \* bound: the clock

ASSUME CountsAssumption ==
  /\ N \in Nat \ {0} /\ Tradable \subseteq 1..N
  /\ MaxTrades \in Nat /\ MaxCrashes \in Nat /\ Horizon \in Nat

ASSUME TimesAssumption ==
  /\ MaxHold \in Nat /\ RowHold \in Nat \ {0} /\ Cooldown \in Nat
  /\ MaxLag \in Nat /\ MaxGap \in Nat

ASSUME RiskAssumption ==
  /\ PositionR \in Nat /\ MaxPositionR \in Nat /\ MaxClusterR \in Nat

Strategy == 1..N
TradeId  == 1..MaxTrades

VARIABLES
  now,      \* the clock (utcnow), in hours of the model
  rows,     \* database, table "signals": the L3 rows by id
  saved,    \* database, table "strategy_states"
  mem,      \* the strategies' states in memory
  pc,       \* where the consumer is
  ev,       \* the candle being handled, or handled last: its close
  swept,    \* close of the last candle applied to all open rows
  todo,     \* open rows this candle has not been applied to yet
  closed,   \* ids on_closed_kline will return
  turn,     \* the strategy whose turn it is
  queue,    \* signals it returned that are not routed yet (their levels)
  nextId,   \* ids are fresh
  crashes   \* times the process died

database == <<rows, saved>>
process  == <<mem, pc, todo, closed, turn, queue>>
vars == <<now, database, process, ev, swept, nextId, crashes>>

NoRow == [status |-> "NONE", hasLevels |-> FALSE, tp1Reached |-> FALSE,
          result |-> "NONE", created |-> 0, owner |-> 1, positionR |-> 0]

Row == [status : RowStatus, hasLevels : BOOLEAN, tp1Reached : BOOLEAN,
        result : Results, created : 0..Horizon, owner : Strategy,
        positionR : 0..MaxPositionR]

StrategyState == [state : StrategyStates, entered : 0..Horizon,
                  last : TradeId \cup {NoTrade}]

TypeOK ==
  /\ now \in 0..Horizon
  /\ rows \in [TradeId -> Row]
  /\ saved \in [Strategy -> StrategyState]
  /\ mem \in [Strategy -> StrategyState]
  /\ pc \in {"idle", "lifecycle", "decide", "route", "down"}
  /\ ev \in 0..Horizon /\ swept \in 0..Horizon
  /\ todo \subseteq TradeId /\ closed \subseteq TradeId
  /\ turn \in Strategy
  /\ queue \in Seq({"L2", "L3", "L4"})
  /\ nextId \in 1..(MaxTrades + 1)
  /\ crashes \in 0..MaxCrashes

Init ==
  /\ now = 0 /\ ev = 0 /\ swept = 0
  /\ rows = [id \in TradeId |-> NoRow]
  /\ saved = [s \in Strategy |-> Fresh]
  /\ mem = [s \in Strategy |-> Fresh]
  /\ pc = "idle" /\ todo = {} /\ closed = {} /\ turn = 1 /\ queue = <<>>
  /\ nextId = 1 /\ crashes = 0

-----------------------------------------------------------------------------
(* Time passes, while the consumer keeps its lag.                          *)
Tick ==
  /\ now < Horizon
  /\ pc \in {"idle", "down"} \/ now - ev < MaxLag
  /\ now' = now + 1
  /\ UNCHANGED <<database, process, ev, swept, nextId, crashes>>

Timely(close) == /\ close \in ev..now
                 /\ now - close <= MaxLag

(* A closed 1m or 5m candle: the open rows are read once.                  *)
ReceiveMicro(close) ==
  /\ pc = "idle" /\ Timely(close)
  /\ ev' = close /\ pc' = "lifecycle"
  /\ todo' = {id \in TradeId : Manageable(rows[id])}
  /\ UNCHANGED <<now, database, mem, closed, turn, swept, queue, nextId, crashes>>

(* A closed candle of another interval goes straight to the strategies.    *)
ReceiveOther(close) ==
  /\ pc = "idle" /\ Timely(close)
  /\ close <= swept + MaxGap
  /\ ev' = close /\ pc' = "decide"
  /\ UNCHANGED <<now, database, mem, turn, swept, todo, closed, queue, nextId, crashes>>

(* One row of on_closed_kline, committed on its own.                       *)
AdvanceRow(id, stopHit, targetHit) ==
  LET verdict == IF rows[id].created >= ev THEN "HOLD"
                 ELSE Verdict(rows[id], stopHit, targetHit, ev, RowHold)
  IN  /\ pc = "lifecycle" /\ id \in todo
      /\ todo' = todo \ {id}
      /\ rows' = [rows EXCEPT ![id] = Apply(rows[id], verdict)]
      /\ closed' = IF Closes(verdict) THEN closed \cup {id} ELSE closed
      /\ UNCHANGED <<now, saved, mem, pc, ev, swept, turn, queue, nextId, crashes>>

(* on_signal_resolved for every id returned, on every strategy.            *)
ResolveInMemory ==
  /\ pc = "lifecycle" /\ todo = {}
  /\ mem' = [s \in Strategy |-> IF mem[s].last \in closed
                                THEN OnSignalResolved(mem[s], mem[s].last, ev)
                                ELSE mem[s]]
  /\ swept' = ev /\ closed' = {} /\ pc' = "decide"
  /\ UNCHANGED <<now, database, todo, ev, turn, queue, nextId, crashes>>

(* on_market_update of the strategy whose turn it is.                      *)
Decide(r) ==
  /\ pc = "decide"
  /\ r \in Reactions(mem[turn], now, nextId, MaxHold, Cooldown)
  /\ r.st.last = nextId => nextId <= MaxTrades
  /\ mem' = [mem EXCEPT ![turn] = r.st]
  /\ queue' = r.levels
  /\ nextId' = IF r.st.last = nextId THEN nextId + 1 ELSE nextId
  /\ pc' = "route"
  /\ UNCHANGED <<now, database, todo, closed, turn, ev, swept, crashes>>

(* route, for L2 and L4: the row it saves is never looked at again.        *)
RouteAlert ==
  /\ pc = "route" /\ queue # <<>> /\ Head(queue) # "L3"
  /\ queue' = Tail(queue)
  /\ UNCHANGED <<now, database, mem, pc, todo, closed, turn, ev, swept, nextId, crashes>>

(* The R at risk in the cluster, as a set with one element for every 1/16  *)
(* R of every open row: its size is the sum assess takes of position_r.    *)
AtRisk == {u \in TradeId \X (1..MaxPositionR) :
             Manageable(rows[u[1]]) /\ u[2] <= rows[u[1]].positionR}

ExposureR == Cardinality(AtRisk)

(* The L3 the strategy made in this turn: created when it entered.         *)
TradeRow(levels, status, size) ==
  [NoRow EXCEPT !.status = status, !.hasLevels = levels, !.owner = turn,
                !.created = mem[turn].entered, !.positionR = size]

(* Mutant of SaveTrade: a blocked trade is dropped instead of saved.       *)
SaveTradeUnlessBlocked(row) ==
  /\ pc = "route" /\ queue # <<>> /\ Head(queue) = "L3"
  /\ queue' = Tail(queue)
  /\ rows' = IF row.status = "WATCHING" THEN rows
             ELSE [rows EXCEPT ![mem[turn].last] = row]
  /\ UNCHANGED <<now, saved, mem, pc, todo, closed, turn, ev, swept, nextId, crashes>>

SaveTrade(row) ==
  /\ pc = "route" /\ queue # <<>> /\ Head(queue) = "L3"
  /\ queue' = Tail(queue)
  /\ rows' = [rows EXCEPT ![mem[turn].last] = row]
  /\ UNCHANGED <<now, saved, mem, pc, todo, closed, turn, ev, swept, nextId, crashes>>

(* route, for an L3: one with a size is capped against the open rows, and  *)
(* a blocked one is saved as an L2 that only watches.  One without levels  *)
(* and size (EthStandAboveLevel) is saved as it is.                        *)
RouteTrade(halted, throttles) ==
  LET size   == AllowedR(PositionR, ExposureR, halted, throttles, MaxPositionR, MaxClusterR)
      status == IF Blocked(size) THEN "WATCHING" ELSE "TRIGGERED"
  IN  SaveTrade(IF turn \in Tradable THEN TradeRow(TRUE, status, size)
                                     ELSE TradeRow(FALSE, "TRIGGERED", 0))

(* Mutant of NextTurn: the turn runs past the last strategy.               *)
NextTurnUnwrapped == turn + 1

NextTurn == IF turn = N THEN 1 ELSE turn + 1

(* save_strategy_state, after the last signal: the next strategy's turn.   *)
SaveState ==
  /\ pc = "route" /\ queue = <<>>
  /\ saved' = [saved EXCEPT ![turn] = mem[turn]]
  /\ pc' = IF turn = N THEN "idle" ELSE "decide"
  /\ turn' = NextTurn
  /\ UNCHANGED <<now, rows, mem, todo, closed, queue, ev, swept, nextId, crashes>>

(* The process dies: a signal, or an exception of the database or of a     *)
(* notifier, which nothing between it and asyncio.gather catches.          *)
Crash ==
  /\ pc # "down" /\ crashes < MaxCrashes
  /\ pc' = "down" /\ crashes' = crashes + 1
  /\ mem' = [s \in Strategy |-> Fresh]
  /\ todo' = {} /\ closed' = {} /\ queue' = <<>> /\ turn' = 1
  /\ UNCHANGED <<now, database, ev, swept, nextId>>

(* run_monitor starts from the persisted strategy states.                  *)
Restart ==
  /\ pc = "down"
  /\ pc' = "idle" /\ mem' = saved
  /\ UNCHANGED <<now, database, todo, closed, turn, queue, ev, swept, nextId, crashes>>

-----------------------------------------------------------------------------
Sweep == \/ \E id \in todo, stopHit, targetHit \in BOOLEAN : AdvanceRow(id, stopHit, targetHit)
         \/ ResolveInMemory

Answer == \/ \E r \in Reactions(mem[turn], now, nextId, MaxHold, Cooldown) : Decide(r)
          \/ RouteAlert
          \/ \E halted \in BOOLEAN, throttles \in 0..2 : RouteTrade(halted, throttles)
          \/ SaveState

Receive == \E close \in 0..Horizon : ReceiveMicro(close) \/ ReceiveOther(close)

Next == Tick \/ Receive \/ Sweep \/ Answer \/ Crash \/ Restart

Spec == Init /\ [][Next]_vars

(* The exchange closes 1m and 5m candles for ever and the connector        *)
(* reconnects for ever, so they keep reaching an idle consumer; the        *)
(* consumer's own steps and the restart are a running program's; the clock *)
(* waits only for a consumer at its lag.                                   *)
Fairness ==
  /\ SF_vars(Tick)
  /\ SF_vars(\E close \in 0..Horizon : ReceiveMicro(close) /\ close = now)
  /\ WF_vars(Sweep) /\ WF_vars(Answer) /\ WF_vars(Restart)

FairSpec == Spec /\ Fairness

-----------------------------------------------------------------------------
Unconfirmed(s) == {id \in TradeId : /\ rows[id].owner = s /\ Manageable(rows[id])
                                    /\ rows[id].status = "TRIGGERED"}

(* The lag and the gaps of the feed leave time for the row's time stop     *)
(* before the strategy that made it may enter again.                       *)
TimelyFeed == RowHold + MaxLag + MaxGap <= MaxHold + Cooldown

(* The open paper trades never risk more than the cluster cap, whatever    *)
(* the strategies ask for and wherever the process dies.                   *)
ExposureWithinCap == ExposureR <= MaxClusterR

(* A strategy state in the database that says "in a trade" names a trade   *)
(* of that strategy that is in the database: a restart never waits for a   *)
(* trade nobody recorded.                                                  *)
PersistedTradeExists ==
  \A s \in Strategy : saved[s].state \in Entered =>
    /\ saved[s].last \in TradeId
    /\ rows[saved[s].last].status # "NONE" /\ rows[saved[s].last].owner = s

(* While the process has not died, a strategy has at most one open trade   *)
(* that has not reached TP1, although the lifecycle manager and the        *)
(* strategy run their time stops on different clocks.                      *)
OneUnconfirmedTrade ==
  crashes = 0 /\ TimelyFeed =>
    \A s \in Strategy : \A i, j \in Unconfirmed(s) : i = j

(* Every crash can cost one duplicate, and no more.                        *)
DuplicatesBoundedByCrashes ==
  TimelyFeed => \A s \in Strategy : Cardinality(Unconfirmed(s)) <= 1 + crashes

(* A strategy that is in a trade, when the consumer waits for the next     *)
(* candle, is not in one whose outcome has been recorded already.          *)
NotInAClosedTrade ==
  \A s \in Strategy : pc = "idle" /\ mem[s].state \in Entered =>
    rows[mem[s].last].status \notin {"RESOLVED", "EXPIRED"}

NoStaleLock == crashes = 0 => NotInAClosedTrade

(* A strategy that entered is released again - by its trade's outcome or   *)
(* by its own time stop - even when the outcome was lost in a crash, the   *)
(* trade was blocked, or it never had levels to be resolved by.            *)
LockReleased ==
  \A s \in Strategy :
    (mem[s].state \in Entered /\ mem[s].entered + MaxHold < Horizon)
      ~> mem[s].state \notin Entered

(* Every open trade reaches TP1, its stop or its time stop.                *)
TradeSettled ==
  \A id \in TradeId :
    (rows[id].status = "TRIGGERED" /\ rows[id].hasLevels
       /\ rows[id].created + RowHold < Horizon)
      ~> rows[id].status # "TRIGGERED"
=============================================================================
