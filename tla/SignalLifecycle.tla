--------------------------- MODULE SignalLifecycle ---------------------------
(***************************************************************************)
(* app/signals/lifecycle.py: paper trades resolved against closed candles. *)
(*                                                                         *)
(* The market is a path of one-minute bars.  Candles of several lengths    *)
(* (1m and 5m in the code) close over that path; each closed candle is     *)
(* handed once to on_closed_kline or lost by the connection.  The manager  *)
(* reads the manageable rows and commits them one at a time, so a crash    *)
(* may leave the remaining rows without that candle.                       *)
(***************************************************************************)
EXTENDS LifecycleRules, Sequences

CONSTANTS
  Signals,       \* the trades that may be opened
  Plans,         \* the price plans a strategy may attach to a trade
  Bars,          \* the one-minute bars the market may print: [low, high]
  Lengths,       \* candle lengths, in minutes
  TriggerLengths,\* the lengths a strategy may trigger on (5m and 15m)
  HoldMinutes,   \* micro_max_hold_hours, in minutes of the model
  LastMinute,    \* bound: minutes of the path
  MaxPending     \* bound: closed candles waiting in the bus

NoTarget == -1
NoPlan == [dir |-> "LONG", entry |-> 0, sl |-> 0, tp1 |-> 0, tp2 |-> 0]

ASSUME ConstantsAssumption ==
  /\ Lengths \subseteq Nat \ {0} /\ TriggerLengths \subseteq Lengths
  /\ HoldMinutes \in Nat /\ LastMinute \in Nat /\ MaxPending \in Nat
  /\ \A b \in Bars : b.low \in Int /\ b.high \in Int /\ b.low <= b.high

VARIABLES
  minute,   \* minutes that have closed
  path,     \* the one-minute bars, path[m] for minute m
  pending,  \* closed candles not yet handed to the manager
  candle,   \* the candle being handled, or NoCandle
  waiting,  \* the manageable rows this candle has not been applied to yet
  last,     \* the event handled last, NoCandle at the start
  signals,  \* table "signals"
  seen      \* history: the candles applied to each row, in order

lifecycle == <<minute, path, pending, candle, waiting, last, signals, seen>>

NoCandle == [from |-> 0, to |-> 0]
Candles == {[from |-> t - n + 1, to |-> t] : t \in 1..LastMinute, n \in Lengths}

NoSignal == [status |-> "NONE", hasLevels |-> FALSE, tp1Reached |-> FALSE,
             result |-> "NONE", created |-> 0, plan |-> NoPlan]

SignalRow == [status : RowStatus, hasLevels : BOOLEAN, tp1Reached : BOOLEAN,
              result : Results, created : 0..LastMinute, plan : Plans \cup {NoPlan}]

LifecycleTypeOK ==
  /\ minute \in 0..LastMinute
  /\ path \in Seq(Bars) /\ Len(path) = minute
  /\ pending \subseteq Candles
  /\ candle \in Candles \cup {NoCandle}
  /\ waiting \subseteq Signals
  /\ last \in Candles \cup {NoCandle}
  /\ signals \in [Signals -> SignalRow]
  /\ seen \in [Signals -> Seq(Candles)]

LifecycleInit ==
  /\ minute = 0 /\ path = <<>> /\ last = NoCandle
  /\ pending = {} /\ candle = NoCandle /\ waiting = {}
  /\ signals = [s \in Signals |-> NoSignal]
  /\ seen = [s \in Signals |-> <<>>]

-----------------------------------------------------------------------------
(* A candle's high and low are reached in one of its minutes.              *)
Falls(c, level) == \E m \in c.from..c.to : path[m].low <= level
Rises(c, level) == \E m \in c.from..c.to : path[m].high >= level

Against(plan, c, level) == IF plan.dir = "LONG" THEN Falls(c, level) ELSE Rises(c, level)
Towards(plan, c, level) == IF plan.dir = "LONG" THEN Rises(c, level) ELSE Falls(c, level)

StopHit(row, c) ==
  Against(row.plan, c, IF Managing(row) THEN row.plan.entry ELSE row.plan.sl)

TargetHit(row, c) ==
  LET target == IF Managing(row) /\ row.plan.tp2 # NoTarget
                THEN row.plan.tp2 ELSE row.plan.tp1
  IN  target # NoTarget /\ Towards(row.plan, c, target)

Advance(row, c) ==
  Apply(row, Verdict(row, StopHit(row, c), TargetHit(row, c), c.to, HoldMinutes))

-----------------------------------------------------------------------------
(* A minute of the market passes: every candle that ends with it closes.   *)
Minute(b) ==
  /\ minute < LastMinute
  /\ \A c \in pending : minute - c.to < MaxPending
  /\ minute' = minute + 1
  /\ path' = Append(path, b)
  /\ pending' = pending \cup
       {[from |-> minute' - n + 1, to |-> minute'] : n \in {k \in Lengths : minute' % k = 0}}
  /\ UNCHANGED <<candle, waiting, last, signals, seen>>

(* A strategy opens a trade on the event just handled, at its close.       *)
Trigger(s, plan) ==
  /\ candle = NoCandle /\ last.to - last.from + 1 \in TriggerLengths /\ last # NoCandle
  /\ signals[s].status = "NONE"
  /\ plan.entry \in path[last.to].low..path[last.to].high
  /\ signals' = [signals EXCEPT ![s] =
                [NoSignal EXCEPT !.status = "TRIGGERED", !.hasLevels = TRUE,
                              !.created = minute, !.plan = plan]]
  /\ UNCHANGED <<minute, path, pending, candle, waiting, last, seen>>

(* on_closed_kline: candles leave the bus in the order they closed; the    *)
(* manageable rows are read once.                                          *)
ReceiveCandle(c) ==
  /\ candle = NoCandle
  /\ c \in pending /\ \A d \in pending : c.to <= d.to
  /\ pending' = pending \ {c}
  /\ candle' = c
  /\ waiting' = {s \in Signals : Manageable(signals[s])}
  /\ UNCHANGED <<minute, path, last, signals, seen>>

(* One turn of the loop: rows created at or after the close are skipped.   *)
AdvanceSignal(s) ==
  /\ s \in waiting
  /\ waiting' = waiting \ {s}
  /\ IF signals[s].created >= candle.to
     THEN UNCHANGED <<signals, seen>>
     ELSE /\ signals' = [signals EXCEPT ![s] = Advance(signals[s], candle)]
          /\ seen' = [seen EXCEPT ![s] = Append(@, candle)]
  /\ UNCHANGED <<minute, path, pending, candle, last>>

Finish ==
  /\ candle # NoCandle /\ waiting = {}
  /\ candle' = NoCandle /\ last' = candle
  /\ UNCHANGED <<minute, path, pending, waiting, signals, seen>>

(* The connection drops: a candle that closed is never delivered.          *)
Lose(c) ==
  /\ c \in pending
  /\ pending' = pending \ {c}
  /\ UNCHANGED <<minute, path, candle, waiting, last, signals, seen>>

(* The process dies while it handles a candle: the rows already committed  *)
(* stay, the rest of this candle and the queue are gone.                   *)
LifecycleCrash ==
  /\ candle # NoCandle
  /\ candle' = NoCandle /\ waiting' = {} /\ pending' = {} /\ last' = NoCandle
  /\ UNCHANGED <<minute, path, signals, seen>>

LifecycleNext ==
  \/ \E b \in Bars : Minute(b)
  \/ \E s \in Signals : (\E plan \in Plans : Trigger(s, plan)) \/ AdvanceSignal(s)
  \/ \E c \in pending : ReceiveCandle(c) \/ Lose(c)
  \/ Finish
  \/ LifecycleCrash

LifecycleSpec == LifecycleInit /\ [][LifecycleNext]_lifecycle

-----------------------------------------------------------------------------
(* The ledger's phase of a row.                                            *)
Phase(row) ==
  CASE row.status = "NONE"      -> "absent"
    [] row.status = "TRIGGERED" -> "open"
    [] row.status = "MANAGING"  -> "confirmed"
    [] row.status = "EXPIRED"   -> "timedOut"
    [] row.status = "RESOLVED" /\ row.result = "WIN_TP2" -> "won"
    [] row.status = "RESOLVED" /\ row.result = "LOSS_SL" -> "lost"
    [] OTHER                    -> "flat"

Ledger == INSTANCE PaperTrade WITH trade <- [s \in Signals |-> Phase(signals[s])]

(* The rows implement the ledger: one opening, at most one confirmation,   *)
(* one final outcome, no loss after TP1 and no win before it - across      *)
(* crashes in the middle of a candle and candles that are lost.            *)
ImplementsLedger == Ledger!TradeSpec

(* A second reading of a trade, from all the candles h applied to it at    *)
(* once: what each of them touched, and which of them decided.             *)
Sl(row, h, i)    == Against(row.plan, h[i], row.plan.sl)
Entry(row, h, i) == Against(row.plan, h[i], row.plan.entry)
Tp1(row, h, i)   == row.plan.tp1 # NoTarget /\ Towards(row.plan, h[i], row.plan.tp1)
Tp2(row, h, i)   == Towards(row.plan, h[i],
                            IF row.plan.tp2 # NoTarget THEN row.plan.tp2 ELSE row.plan.tp1)
Old(row, h, i)   == h[i].to - row.created >= HoldMinutes
Quiet(row, h, i) == ~Sl(row, h, i) /\ ~Tp1(row, h, i) /\ ~Old(row, h, i)

(* The first candle that decides, and one that ends the trade after TP1.   *)
First(row, h, i) == \A j \in 1..(i - 1) : Quiet(row, h, j)
Up(row, h, i)    == First(row, h, i) /\ ~Sl(row, h, i) /\ Tp1(row, h, i)
After(row, h, i, k) ==
  /\ i < k
  /\ \A j \in (i + 1)..(k - 1) : ~Entry(row, h, j) /\ ~Tp2(row, h, j)

Lost(row, h)      == \E i \in 1..Len(h) : First(row, h, i) /\ Sl(row, h, i)
TimedOut(row, h)  == \E i \in 1..Len(h) :
                       First(row, h, i) /\ ~Sl(row, h, i) /\ ~Tp1(row, h, i) /\ Old(row, h, i)
Confirmed(row, h) == \E i \in 1..Len(h) : Up(row, h, i)
Flat(row, h)      == \E i, k \in 1..Len(h) :
                       Up(row, h, i) /\ After(row, h, i, k) /\ Entry(row, h, k)
Won(row, h)       == \E i, k \in 1..Len(h) :
                       Up(row, h, i) /\ After(row, h, i, k) /\ ~Entry(row, h, k) /\ Tp2(row, h, k)

ResultOf(row, h) ==
  CASE Lost(row, h)     -> "LOSS_SL"
    [] TimedOut(row, h) -> "TIME_STOP"
    [] Flat(row, h)     -> "BREAKEVEN_AFTER_TP1"
    [] Won(row, h)      -> "WIN_TP2"
    [] OTHER            -> IF Confirmed(row, h) THEN "TP1_REACHED" ELSE "NONE"

(* The result is the one this reading gives: a candle that touches stop    *)
(* and target counts against the trade, and only candles that closed after *)
(* the signal was created count.                                           *)
OutcomeAgreesWithCandles ==
  \A s \in Signals : signals[s].status # "NONE" =>
    /\ \A i \in DOMAIN seen[s] : seen[s][i].to > signals[s].created
    /\ signals[s].result = ResultOf(signals[s], seen[s])

(* A trade recorded as breakeven after TP1 saw the price come back to its  *)
(* entry in a minute after the candle that reached TP1 had closed.         *)
BreakevenOnlyAfterReturn ==
  \A s \in Signals : signals[s].result = "BREAKEVEN_AFTER_TP1" =>
    \E i, k \in 1..Len(seen[s]) :
      /\ i < k
      /\ Towards(signals[s].plan, seen[s][i], signals[s].plan.tp1)
      /\ Against(signals[s].plan, [from |-> seen[s][i].to + 1, to |-> seen[s][k].to],
                 signals[s].plan.entry)
=============================================================================
