----------------------- MODULE SignalLifecycle_proofs -----------------------
(***************************************************************************)
(* The paper-trade rows implement the ledger PaperTrade, and the recorded  *)
(* results are those the candles give, for every set of trades, plans and  *)
(* bars, and for every hold, horizon and queue bound.                      *)
(***************************************************************************)
EXTENDS SignalLifecycle, TLAPS

(* What _advance can decide. *)
LEMMA VerdictType ==
  ASSUME NEW row, NEW a, NEW b, NEW t, NEW hold
  PROVE  Verdict(row, a, b, t, hold) \in Verdicts
BY DEF Verdict, Verdicts

(* A row stays a row when a verdict is written to it. *)
LEMMA ApplyType ==
  ASSUME NEW row \in SignalRow, NEW v \in Verdicts
  PROVE  Apply(row, v) \in SignalRow
BY DEF Apply, SignalRow, RowStatus, Results, Verdicts

(* The spans that close with a minute are candles. *)
LEMMA CandleType ==
  ASSUME NEW t \in 1..LastMinute, NEW n \in Lengths
  PROVE  [from |-> t - n + 1, to |-> t] \in Candles
BY DEF Candles

LEMMA InitType == LifecycleInit => LifecycleTypeOK
BY ConstantsAssumption
   DEF LifecycleInit, LifecycleTypeOK, NoSignal, SignalRow, RowStatus, Results, Verdicts, NoPlan

LEMMA NextType == LifecycleTypeOK /\ [LifecycleNext]_lifecycle => LifecycleTypeOK'
<1> SUFFICES ASSUME LifecycleTypeOK, [LifecycleNext]_lifecycle PROVE LifecycleTypeOK'
  OBVIOUS
<1> USE ConstantsAssumption DEF LifecycleTypeOK
<1>1. ASSUME NEW b \in Bars, Minute(b) PROVE LifecycleTypeOK'
  <2>1. minute' \in 1..LastMinute /\ minute' = minute + 1
    BY <1>1 DEF Minute
  <2>2. path' \in Seq(Bars) /\ Len(path') = minute'
    BY <1>1, <2>1 DEF Minute
  <2>3. pending' \subseteq Candles
    BY <1>1, <2>1, CandleType DEF Minute
  <2>4. QED
    BY <1>1, <2>1, <2>2, <2>3 DEF Minute
<1>2. ASSUME NEW s \in Signals, NEW plan \in Plans, Trigger(s, plan) PROVE LifecycleTypeOK'
  <2>1. [NoSignal EXCEPT !.status = "TRIGGERED", !.hasLevels = TRUE,
                      !.created = minute, !.plan = plan] \in SignalRow
    BY DEF NoSignal, SignalRow, RowStatus, Results
  <2>2. QED
    BY <1>2, <2>1 DEF Trigger
<1>3. ASSUME NEW s \in Signals, AdvanceSignal(s) PROVE LifecycleTypeOK'
  <2>1. CASE signals[s].created >= candle.to
    BY <1>3, <2>1 DEF AdvanceSignal
  <2>2. Advance(signals[s], candle) \in SignalRow
    BY VerdictType, ApplyType DEF Advance
  <2>3. CASE ~(signals[s].created >= candle.to)
    <3>1. s \in Signals /\ signals[s] \in SignalRow
      BY <1>3
    <3>2. candle \in Candles
      BY <2>3, <3>1 DEF NoCandle, SignalRow
    <3>3. signals' \in [Signals -> SignalRow]
      BY <1>3, <2>2, <2>3 DEF AdvanceSignal
    <3>4. seen' \in [Signals -> Seq(Candles)]
      <4>1. Append(seen[s], candle) \in Seq(Candles)
        BY <3>1, <3>2
      <4>2. seen' = [seen EXCEPT ![s] = Append(seen[s], candle)]
        BY <1>3, <2>3 DEF AdvanceSignal
      <4>3. QED
        BY <4>1, <4>2
    <3>5. QED
      BY <1>3, <2>3, <3>3, <3>4 DEF AdvanceSignal
  <2>4. QED
    BY <2>1, <2>3
<1>4. ASSUME NEW c \in pending, ReceiveCandle(c) PROVE LifecycleTypeOK'
  BY <1>4 DEF ReceiveCandle
<1>5. ASSUME NEW c \in pending, Lose(c) PROVE LifecycleTypeOK'
  BY <1>5 DEF Lose
<1>6. CASE Finish
  BY <1>6 DEF Finish
<1>7. CASE LifecycleCrash
  BY <1>7 DEF LifecycleCrash
<1>8. CASE UNCHANGED lifecycle
  BY <1>8 DEF lifecycle
<1>9. QED
  BY <1>1, <1>2, <1>3, <1>4, <1>5, <1>6, <1>7, <1>8 DEF LifecycleNext

(* The rows, the queue and the history keep their types. *)
THEOREM TypeCorrect == LifecycleSpec => []LifecycleTypeOK
<1>1. QED
  BY InitType, NextType, PTL DEF LifecycleSpec

-----------------------------------------------------------------------------
(* Status, result and the TP1 flag of a row agree, and every row that still *)
(* waits for the current candle is one the manager may move.  Without these *)
(* two facts a verdict could be written to a row that is already closed.    *)
RowAgrees(row) ==
  /\ row.status \in {"NONE", "TRIGGERED", "EXPIRED"} => ~row.tp1Reached
  /\ row.status = "MANAGING" => row.tp1Reached
  /\ row.status # "WATCHING"
  /\ row.status = "RESOLVED" =>
       row.result \in {"LOSS_SL", "BREAKEVEN_AFTER_TP1", "WIN_TP2"}

IInv ==
  /\ LifecycleTypeOK
  /\ \A s \in Signals : RowAgrees(signals[s])
  /\ \A s \in waiting : Manageable(signals[s])

(* One verdict on an open row keeps it consistent and is one move of the   *)
(* ledger, or none.                                                        *)
LEMMA VerdictStep ==
  ASSUME NEW row \in SignalRow, RowAgrees(row), row.status \in OpenStatus,
         NEW a \in BOOLEAN, NEW b \in BOOLEAN, NEW t, NEW hold
  PROVE  LET next == Apply(row, Verdict(row, a, b, t, hold))
         IN  /\ RowAgrees(next)
             /\ \/ next = row
                \/ /\ Phase(row) = "open"
                   /\ Phase(next) \in {"confirmed", "lost", "timedOut"}
                \/ /\ Phase(row) = "confirmed"
                   /\ Phase(next) \in {"won", "flat"}
<1> DEFINE v == Verdict(row, a, b, t, hold)
           next == Apply(row, v)
<1>1. CASE row.status = "TRIGGERED"
  <2>1. Phase(row) = "open" /\ ~Managing(row)
    BY <1>1 DEF Phase, Managing, RowAgrees
  <2>2. v \in {"LOSS_SL", "TP1_REACHED", "TIME_STOP", "HOLD"}
    BY <2>1 DEF Verdict
  <2>3. CASE v = "HOLD"
    BY <2>3 DEF Apply
  <2>4. CASE v = "TP1_REACHED"
    BY <2>1, <2>4 DEF Apply, SignalRow, RowAgrees, Phase
  <2>5. CASE v = "TIME_STOP"
    BY <1>1, <2>1, <2>5 DEF Apply, SignalRow, RowAgrees, Phase
  <2>6. CASE v = "LOSS_SL"
    BY <2>1, <2>6 DEF Apply, SignalRow, RowAgrees, Phase
  <2>7. QED
    BY <2>2, <2>3, <2>4, <2>5, <2>6
<1>2. CASE row.status = "MANAGING"
  <2>1. Phase(row) = "confirmed" /\ Managing(row)
    BY <1>2 DEF Phase, Managing, RowAgrees
  <2>2. v \in {"BREAKEVEN_AFTER_TP1", "WIN_TP2", "HOLD"}
    BY <2>1 DEF Verdict
  <2>3. CASE v = "HOLD"
    BY <2>3 DEF Apply
  <2>4. CASE v = "BREAKEVEN_AFTER_TP1"
    BY <2>1, <2>4 DEF Apply, SignalRow, RowAgrees, Phase
  <2>5. CASE v = "WIN_TP2"
    BY <2>1, <2>5 DEF Apply, SignalRow, RowAgrees, Phase
  <2>6. QED
    BY <2>2, <2>3, <2>4, <2>5
<1>3. QED
  BY <1>1, <1>2 DEF OpenStatus

LEMMA HitsAreBoolean ==
  ASSUME NEW row, NEW c
  PROVE  StopHit(row, c) \in BOOLEAN /\ TargetHit(row, c) \in BOOLEAN
BY DEF StopHit, TargetHit, Against, Towards, Falls, Rises

(* AdvanceSignal leaves the rows alone or writes one verdict.               *)
LEMMA AdvanceStep ==
  ASSUME IInv, NEW s \in Signals, AdvanceSignal(s)
  PROVE  /\ RowAgrees(signals'[s])
         /\ \A r \in Signals \ {s} : signals'[r] = signals[r]
         /\ \/ signals' = signals
            \/ /\ Phase(signals[s]) = "open"
               /\ Phase(signals'[s]) \in {"confirmed", "lost", "timedOut"}
            \/ /\ Phase(signals[s]) = "confirmed"
               /\ Phase(signals'[s]) \in {"won", "flat"}
<1>1. signals \in [Signals -> SignalRow] /\ RowAgrees(signals[s]) /\ signals[s].status \in OpenStatus
  BY DEF IInv, LifecycleTypeOK, AdvanceSignal, Manageable
<1>2. CASE signals[s].created >= candle.to
  BY <1>1, <1>2 DEF AdvanceSignal
<1>3. CASE ~(signals[s].created >= candle.to)
  <2>1. signals' = [signals EXCEPT ![s] = Advance(signals[s], candle)]
    BY <1>3 DEF AdvanceSignal
  <2>2. signals'[s] = Advance(signals[s], candle)
    BY <1>1, <2>1
  <2>3. Advance(signals[s], candle) = signals[s] => signals' = signals
    BY <1>1, <2>1
  <2>4. QED
    BY <1>1, <2>1, <2>2, <2>3, VerdictStep, HitsAreBoolean DEF Advance
<1>4. QED
  BY <1>2, <1>3

LEMMA IInvInductive == (LifecycleInit => IInv) /\ (IInv /\ [LifecycleNext]_lifecycle => IInv')
<1>1. LifecycleInit => IInv
  BY InitType DEF LifecycleInit, IInv, NoSignal, RowAgrees
<1>2. ASSUME IInv, [LifecycleNext]_lifecycle PROVE IInv'
  <2>1. LifecycleTypeOK'
    BY <1>2, NextType DEF IInv
  <2>2. (\A s \in Signals : RowAgrees(signals[s]))' /\ (\A s \in waiting : Manageable(signals[s]))'
    <3>1. ASSUME NEW b \in Bars, Minute(b) PROVE <2>2!1 /\ <2>2!2
      BY <1>2, <3>1 DEF IInv, Minute
    <3>2. ASSUME NEW s \in Signals, NEW plan \in Plans, Trigger(s, plan)
          PROVE  <2>2!1 /\ <2>2!2
      <4>1. signals \in [Signals -> SignalRow] /\ s \notin waiting
        BY <1>2, <3>2 DEF IInv, LifecycleTypeOK, Trigger, Manageable, OpenStatus
      <4>2. RowAgrees(signals'[s])
        BY <3>2, <4>1 DEF Trigger, RowAgrees, NoSignal
      <4>3. \A r \in Signals \ {s} : signals'[r] = signals[r]
        BY <3>2, <4>1 DEF Trigger
      <4>4. waiting' = waiting /\ waiting \subseteq Signals
        BY <1>2, <3>2 DEF IInv, LifecycleTypeOK, Trigger
      <4>5. QED
        BY <1>2, <4>1, <4>2, <4>3, <4>4 DEF IInv
    <3>3. ASSUME NEW s \in Signals, AdvanceSignal(s) PROVE <2>2!1 /\ <2>2!2
      <4>1. waiting' = waiting \ {s} /\ waiting \subseteq Signals
        BY <1>2, <3>3 DEF IInv, LifecycleTypeOK, AdvanceSignal
      <4>2. QED
        BY <1>2, <3>3, <4>1, AdvanceStep DEF IInv
    <3>4. ASSUME NEW c \in pending, ReceiveCandle(c) PROVE <2>2!1 /\ <2>2!2
      BY <1>2, <3>4 DEF IInv, ReceiveCandle
    <3>5. ASSUME NEW c \in pending, Lose(c) PROVE <2>2!1 /\ <2>2!2
      BY <1>2, <3>5 DEF IInv, Lose
    <3>6. CASE Finish
      BY <1>2, <3>6 DEF IInv, Finish
    <3>7. CASE LifecycleCrash
      BY <1>2, <3>7 DEF IInv, LifecycleCrash
    <3>8. CASE UNCHANGED lifecycle
      BY <1>2, <3>8 DEF IInv, lifecycle
    <3>9. QED
      BY <1>2, <3>1, <3>2, <3>3, <3>4, <3>5, <3>6, <3>7, <3>8 DEF LifecycleNext
  <2>3. QED
    BY <2>1, <2>2 DEF IInv
<1>3. QED
  BY <1>1, <1>2

-----------------------------------------------------------------------------
(* The ledger's move of one trade, seen on the rows.                       *)
LEMMA LedgerMove ==
  ASSUME NEW s \in Signals, NEW from, NEW to,
         Phase(signals[s]) = from, Phase(signals'[s]) = to,
         \A r \in Signals \ {s} : signals'[r] = signals[r]
  PROVE  LET trade == [r \in Signals |-> Phase(signals[r])]
         IN  /\ trade[s] = from
             /\ trade' = [trade EXCEPT ![s] = to]
OBVIOUS

(* The initial rows are an initial ledger, and every step of the manager   *)
(* and its environment is one move of the ledger or leaves it alone.       *)
LEMMA LedgerInit == LifecycleInit => Ledger!TradeInit
BY DEF LifecycleInit, NoSignal, Phase, Ledger!TradeInit

LEMMA LedgerStep ==
  IInv /\ [LifecycleNext]_lifecycle => [Ledger!TradeNext]_([s \in Signals |-> Phase(signals[s])])
<1> SUFFICES ASSUME IInv, [LifecycleNext]_lifecycle
             PROVE  Ledger!TradeNext \/ signals' = signals
  OBVIOUS
<1> USE DEF Ledger!TradeNext, Ledger!Open, Ledger!Confirm, Ledger!Lose,
            Ledger!TimeOut, Ledger!Win, Ledger!Flatten, Ledger!Move
<1>1. ASSUME NEW s \in Signals, NEW plan \in Plans, Trigger(s, plan)
      PROVE  Ledger!TradeNext
  <2>1. signals \in [Signals -> SignalRow]
    BY DEF IInv, LifecycleTypeOK
  <2>2. Phase(signals[s]) = "absent" /\ Phase(signals'[s]) = "open"
    BY <1>1, <2>1 DEF Trigger, Phase, NoSignal
  <2>3. \A r \in Signals \ {s} : signals'[r] = signals[r]
    BY <1>1, <2>1 DEF Trigger
  <2>4. QED
    BY <2>2, <2>3, LedgerMove
<1>2. ASSUME NEW s \in Signals, AdvanceSignal(s)
      PROVE  Ledger!TradeNext \/ signals' = signals
  <2>1. \A r \in Signals \ {s} : signals'[r] = signals[r]
    BY <1>2, AdvanceStep
  <2>2. CASE Phase(signals[s]) = "open" /\ Phase(signals'[s]) \in {"confirmed", "lost", "timedOut"}
    BY <2>1, <2>2, LedgerMove
  <2>3. CASE Phase(signals[s]) = "confirmed" /\ Phase(signals'[s]) \in {"won", "flat"}
    BY <2>1, <2>3, LedgerMove
  <2>4. QED
    BY <1>2, <2>2, <2>3, AdvanceStep
<1>3. ASSUME NEW c \in pending, ReceiveCandle(c) \/ Lose(c) PROVE signals' = signals
  BY <1>3 DEF ReceiveCandle, Lose
<1>4. ASSUME NEW b \in Bars, Minute(b) PROVE signals' = signals
  BY <1>4 DEF Minute
<1>5. CASE Finish \/ LifecycleCrash
  BY <1>5 DEF Finish, LifecycleCrash
<1>6. CASE UNCHANGED lifecycle
  BY <1>6 DEF lifecycle
<1>7. QED
  BY <1>1, <1>2, <1>3, <1>4, <1>5, <1>6 DEF LifecycleNext

(* The inductive invariant holds in every state. *)
THEOREM RowsAgree == LifecycleSpec => []IInv
BY IInvInductive, PTL DEF LifecycleSpec

(* The rows implement the ledger: what a paper trade may become is settled *)
(* by PaperTrade, whatever the candles, the losses and the crashes.        *)
THEOREM LedgerImplemented == LifecycleSpec => ImplementsLedger
<1>1. LifecycleInit /\ [][LifecycleNext]_lifecycle => [](IInv)
  BY IInvInductive, PTL
<1>2. QED
  BY <1>1, LedgerInit, LedgerStep, PTL DEF LifecycleSpec, ImplementsLedger, Ledger!TradeSpec
-----------------------------------------------------------------------------
(* What the candles h applied to a row tell of it, phase by phase.         *)
Ending(row, h) ==
  \/ row.result = "LOSS_SL" /\ Lost(row, h)
  \/ row.result = "TIME_STOP" /\ TimedOut(row, h)
  \/ row.result = "BREAKEVEN_AFTER_TP1" /\ Flat(row, h)
  \/ row.result = "WIN_TP2" /\ Won(row, h)

Story(row, h) ==
  /\ row.status = "NONE" => h = <<>>
  /\ row.status = "TRIGGERED" =>
       row.result = "NONE" /\ \A i \in 1..Len(h) : Quiet(row, h, i)
  /\ row.status = "MANAGING" =>
       /\ row.result = "TP1_REACHED"
       /\ \E i \in 1..Len(h) :
            /\ Up(row, h, i)
            /\ \A j \in (i + 1)..Len(h) : ~Entry(row, h, j) /\ ~Tp2(row, h, j)
  /\ row.status \in {"EXPIRED", "RESOLVED"} => Ending(row, h)
  /\ \A i \in 1..Len(h) : h[i].to > row.created

(* Only one candle is the first that decides, and only one is the first    *)
(* that ends the trade after it.                                           *)
LEMMA OneDecides ==
  ASSUME NEW row, NEW h, Len(h) \in Nat, NEW i \in 1..Len(h), NEW j \in 1..Len(h),
         First(row, h, i), First(row, h, j), ~Quiet(row, h, i), ~Quiet(row, h, j)
  PROVE  i = j
<1>1. ~(i < j)
  BY DEF First
<1>2. ~(j < i)
  BY DEF First
<1>3. QED
  BY <1>1, <1>2

LEMMA OneEnds ==
  ASSUME NEW row, NEW h, Len(h) \in Nat, NEW i \in 1..Len(h),
         NEW k \in 1..Len(h), NEW m \in 1..Len(h), After(row, h, i, k), After(row, h, i, m),
         Entry(row, h, k) \/ Tp2(row, h, k), Entry(row, h, m) \/ Tp2(row, h, m)
  PROVE  k = m
<1>1. ~(k < m)
  BY DEF After
<1>2. ~(m < k)
  BY DEF After
<1>3. QED
  BY <1>1, <1>2

(* The phases exclude each other, so the story of a row is its result.     *)
LEMMA StoryTellsResult ==
  ASSUME NEW row \in SignalRow, RowAgrees(row), NEW h \in Seq(Candles), Story(row, h),
         row.status # "NONE"
  PROVE  row.result = ResultOf(row, h)
<1> USE DEF Quiet
<1>0. Len(h) \in Nat
  OBVIOUS
<1>1. \A i, j \in 1..Len(h) :
        First(row, h, i) /\ First(row, h, j) /\ ~Quiet(row, h, i) /\ ~Quiet(row, h, j) => i = j
  BY <1>0, OneDecides
<1>2. ASSUME NEW i \in 1..Len(h), NEW k \in 1..Len(h), NEW m \in 1..Len(h),
             After(row, h, i, k), Entry(row, h, k) \/ Tp2(row, h, k),
             After(row, h, i, m), Entry(row, h, m) \/ Tp2(row, h, m)
      PROVE  k = m
  BY <1>0, <1>2, OneEnds
<1>3. CASE row.status = "TRIGGERED"
  <2>1. row.result = "NONE" /\ \A i \in 1..Len(h) : Quiet(row, h, i)
    BY <1>3 DEF Story
  <2>2. ~Lost(row, h) /\ ~TimedOut(row, h) /\ ~Confirmed(row, h)
    BY <2>1 DEF Lost, TimedOut, Confirmed, Up
  <2>3. ~Flat(row, h) /\ ~Won(row, h)
    BY <2>1 DEF Flat, Won, Up
  <2>4. QED
    BY <2>1, <2>2, <2>3 DEF ResultOf
<1>4. CASE row.status = "MANAGING"
  <2>1. row.result = "TP1_REACHED"
    BY <1>4 DEF Story
  <2>2. PICK i \in 1..Len(h) :
          /\ Up(row, h, i)
          /\ \A j \in (i + 1)..Len(h) : ~Entry(row, h, j) /\ ~Tp2(row, h, j)
    BY <1>4 DEF Story
  <2>3. Confirmed(row, h)
    BY <2>2 DEF Confirmed
  <2>4. \A j \in 1..Len(h) : First(row, h, j) /\ ~Quiet(row, h, j) => j = i
    BY <1>1, <2>2 DEF Up
  <2>5. ~Lost(row, h) /\ ~TimedOut(row, h)
    BY <2>2, <2>4 DEF Lost, TimedOut, Up
  <2>6. \A j, k \in 1..Len(h) :
          Up(row, h, j) /\ After(row, h, j, k) => ~Entry(row, h, k) /\ ~Tp2(row, h, k)
    BY <1>0, <2>2, <2>4 DEF Up, After
  <2>7. ~Flat(row, h) /\ ~Won(row, h)
    BY <2>6 DEF Flat, Won
  <2>8. QED
    BY <2>1, <2>3, <2>5, <2>7 DEF ResultOf
<1>5. CASE row.status \in {"EXPIRED", "RESOLVED"}
  <2>1. Lost(row, h) => ~TimedOut(row, h) /\ ~Flat(row, h) /\ ~Won(row, h)
    BY <1>1 DEF Lost, TimedOut, Flat, Won, Up
  <2>2. TimedOut(row, h) => ~Flat(row, h) /\ ~Won(row, h)
    BY <1>1 DEF TimedOut, Flat, Won, Up
  <2>3. ASSUME Flat(row, h), Won(row, h) PROVE FALSE
    <3>1. PICK i, k \in 1..Len(h) : Up(row, h, i) /\ After(row, h, i, k) /\ Entry(row, h, k)
      BY <2>3 DEF Flat
    <3>2. PICK j, m \in 1..Len(h) :
            Up(row, h, j) /\ After(row, h, j, m) /\ ~Entry(row, h, m) /\ Tp2(row, h, m)
      BY <2>3 DEF Won
    <3>3. i = j
      BY <1>1, <3>1, <3>2 DEF Up
    <3>4. k = m
      BY <1>2, <3>1, <3>2, <3>3
    <3>5. QED
      BY <3>1, <3>2, <3>4
  <2>4. Ending(row, h)
    BY <1>5 DEF Story
  <2>5. QED
    BY <2>1, <2>2, <2>3, <2>4 DEF Ending, ResultOf
<1>6. QED
  BY <1>3, <1>4, <1>5 DEF SignalRow, RowStatus, RowAgrees

(* The candles before the last one tell of the longer history, and of the  *)
(* row a verdict was written to, what they told before.                    *)
LEMMA OldCandlesTell ==
  ASSUME NEW row \in SignalRow, NEW new \in SignalRow, new.plan = row.plan, new.created = row.created,
         NEW h \in Seq(Candles), NEW c \in Candles, NEW i \in 1..Len(h)
  PROVE  LET g == Append(h, c)
         IN  /\ Sl(new, g, i) <=> Sl(row, h, i)
             /\ Entry(new, g, i) <=> Entry(row, h, i)
             /\ Tp1(new, g, i) <=> Tp1(row, h, i)
             /\ Tp2(new, g, i) <=> Tp2(row, h, i)
             /\ Old(new, g, i) <=> Old(row, h, i)
             /\ Quiet(new, g, i) <=> Quiet(row, h, i)
<1> DEFINE g == Append(h, c)
<1>1. g[i] = h[i]
  OBVIOUS
<1> HIDE DEF g
<1>2. /\ Sl(new, g, i) <=> Sl(row, h, i)
      /\ Entry(new, g, i) <=> Entry(row, h, i)
      /\ Tp1(new, g, i) <=> Tp1(row, h, i)
      /\ Tp2(new, g, i) <=> Tp2(row, h, i)
      /\ Old(new, g, i) <=> Old(row, h, i)
  BY <1>1 DEF Sl, Entry, Tp1, Tp2, Old
<1>3. Quiet(new, g, i) <=> Quiet(row, h, i)
  BY <1>2 DEF Quiet
<1>4. QED
  BY <1>2, <1>3 DEF g

(* One more candle that closed after the signal: the verdict it brings is  *)
(* what the longer history tells of the row.                               *)
LEMMA StoryGoesOn ==
  ASSUME NEW row \in SignalRow, RowAgrees(row), row.status \in OpenStatus,
         NEW h \in Seq(Candles), Story(row, h), NEW c \in Candles, c.to > row.created
  PROVE  Story(Advance(row, c), Append(h, c))
<1> DEFINE a == StopHit(row, c)
           b == TargetHit(row, c)
           v == Verdict(row, a, b, c.to, HoldMinutes)
           new == Apply(row, v)
           g == Append(h, c)
           n == Len(h) + 1
<1>1. v \in Verdicts /\ new \in SignalRow /\ new = Advance(row, c)
  BY VerdictType, ApplyType DEF Advance
<1>2. new.plan = row.plan /\ new.created = row.created
  BY DEF Apply, SignalRow
<1>3. Len(g) = n /\ g[n] = c /\ Len(h) \in Nat /\ n \in 1..Len(g) /\ 1..Len(h) \subseteq 1..Len(g)
  OBVIOUS
<1>4. \A i \in 1..Len(h) :
        /\ Sl(new, g, i) <=> Sl(row, h, i)
        /\ Entry(new, g, i) <=> Entry(row, h, i)
        /\ Tp1(new, g, i) <=> Tp1(row, h, i)
        /\ Tp2(new, g, i) <=> Tp2(row, h, i)
        /\ Old(new, g, i) <=> Old(row, h, i)
        /\ Quiet(new, g, i) <=> Quiet(row, h, i)
  BY <1>1, <1>2, OldCandlesTell
<1>5. \A i \in 1..Len(h) : g[i] = h[i]
  OBVIOUS
<1>6. /\ Sl(new, g, n) <=> Against(row.plan, c, row.plan.sl)
      /\ Entry(new, g, n) <=> Against(row.plan, c, row.plan.entry)
      /\ Tp1(new, g, n) <=> row.plan.tp1 # NoTarget /\ Towards(row.plan, c, row.plan.tp1)
      /\ Tp2(new, g, n) <=> Towards(row.plan, c,
                                    IF row.plan.tp2 # NoTarget THEN row.plan.tp2 ELSE row.plan.tp1)
      /\ Old(new, g, n) <=> c.to - row.created >= HoldMinutes
  BY <1>2, <1>3 DEF Sl, Entry, Tp1, Tp2, Old
<1>7. \A i \in 1..Len(g) : g[i].to > new.created
  BY <1>2, <1>3, <1>5 DEF Story
<1>8. \A i \in 1..n : First(new, g, i) <=> \A j \in 1..(i - 1) : Quiet(row, h, j)
  BY <1>3, <1>4 DEF First
<1> SUFFICES Story(new, g)
  BY <1>1
<1> HIDE DEF g, new, n
<1>9. CASE row.status = "TRIGGERED"
  <2>1. row.result = "NONE" /\ \A i \in 1..Len(h) : Quiet(row, h, i)
    BY <1>9 DEF Story
  <2>2. First(new, g, n)
    BY <1>3, <1>8, <2>1 DEF n
  <2>3. ~Managing(row)
    BY <1>9 DEF Managing, RowAgrees
  <2>4. (a <=> Sl(new, g, n)) /\ (b <=> Tp1(new, g, n))
    BY <1>6, <2>3 DEF StopHit, TargetHit
  <2>5. CASE v = "LOSS_SL"
    <3>1. Sl(new, g, n)
      BY <2>3, <2>4, <2>5 DEF Verdict
    <3>2. Lost(new, g)
      BY <1>3, <2>2, <3>1 DEF Lost
    <3>3. new.status = "RESOLVED" /\ new.result = "LOSS_SL"
      BY <2>5 DEF new, Apply, SignalRow
    <3>4. QED
      BY <1>7, <3>2, <3>3 DEF Story, Ending
  <2>6. CASE v = "TIME_STOP"
    <3>1. ~Sl(new, g, n) /\ ~Tp1(new, g, n) /\ Old(new, g, n)
      BY <1>6, <2>3, <2>4, <2>6 DEF Verdict
    <3>2. TimedOut(new, g)
      BY <1>3, <2>2, <3>1 DEF TimedOut
    <3>3. new.status = "EXPIRED" /\ new.result = "TIME_STOP"
      BY <2>6 DEF new, Apply, SignalRow
    <3>4. QED
      BY <1>7, <3>2, <3>3 DEF Story, Ending
  <2>7. CASE v = "TP1_REACHED"
    <3>1. Up(new, g, n)
      BY <2>2, <2>3, <2>4, <2>7 DEF Verdict, Up
    <3>2. new.status = "MANAGING" /\ new.result = "TP1_REACHED"
      BY <2>7 DEF new, Apply, SignalRow
    <3>3. (n + 1)..Len(g) = {}
      BY <1>3 DEF n
    <3>4. QED
      BY <1>3, <1>7, <3>1, <3>2, <3>3 DEF Story
  <2>8. CASE v = "HOLD"
    <3>1. ~Sl(new, g, n) /\ ~Tp1(new, g, n) /\ ~Old(new, g, n)
      BY <1>6, <2>3, <2>4, <2>8 DEF Verdict
    <3>2. Quiet(new, g, n)
      BY <3>1 DEF Quiet
    <3>3. \A i \in 1..Len(g) : Quiet(new, g, i)
      BY <1>3, <1>4, <2>1, <3>2 DEF n
    <3>4. new = row
      BY <2>8 DEF new, Apply
    <3>5. QED
      BY <1>7, <1>9, <2>1, <3>3, <3>4 DEF Story
  <2>9. QED
    BY <2>3, <2>5, <2>6, <2>7, <2>8, <1>1 DEF Verdict
<1>10. CASE row.status = "MANAGING"
  <2>1. PICK i \in 1..Len(h) :
          /\ Up(row, h, i)
          /\ \A j \in (i + 1)..Len(h) : ~Entry(row, h, j) /\ ~Tp2(row, h, j)
    BY <1>10 DEF Story
  <2>2. row.result = "TP1_REACHED" /\ Managing(row)
    BY <1>10 DEF Story, Managing
  <2>3. i \in 1..Len(g) /\ i < n
    BY <1>3 DEF n
  <2>4. Up(new, g, i)
    BY <1>4, <1>8, <2>1, <2>3 DEF Up, First, n
  <2>5. After(new, g, i, n)
    BY <1>3, <1>4, <2>1, <2>3 DEF After, n
  <2>6. row.plan.tp1 # NoTarget
    BY <2>1 DEF Up, Tp1
  <2>7. (a <=> Entry(new, g, n)) /\ (b <=> Tp2(new, g, n))
    BY <1>6, <2>2, <2>6 DEF StopHit, TargetHit
  <2>8. CASE v = "BREAKEVEN_AFTER_TP1"
    <3>1. Entry(new, g, n)
      BY <2>2, <2>7, <2>8 DEF Verdict
    <3>2. Flat(new, g)
      BY <1>3, <2>3, <2>4, <2>5, <3>1 DEF Flat
    <3>3. new.status = "RESOLVED" /\ new.result = "BREAKEVEN_AFTER_TP1"
      BY <2>8 DEF new, Apply, SignalRow
    <3>4. QED
      BY <1>7, <3>2, <3>3 DEF Story, Ending
  <2>9. CASE v = "WIN_TP2"
    <3>1. ~Entry(new, g, n) /\ Tp2(new, g, n)
      BY <2>2, <2>7, <2>9 DEF Verdict
    <3>2. Won(new, g)
      BY <1>3, <2>3, <2>4, <2>5, <3>1 DEF Won
    <3>3. new.status = "RESOLVED" /\ new.result = "WIN_TP2"
      BY <2>9 DEF new, Apply, SignalRow
    <3>4. QED
      BY <1>7, <3>2, <3>3 DEF Story, Ending
  <2>10. CASE v = "HOLD"
    <3>1. ~Entry(new, g, n) /\ ~Tp2(new, g, n)
      BY <2>2, <2>7, <2>10 DEF Verdict
    <3>2. \A j \in (i + 1)..Len(g) : ~Entry(new, g, j) /\ ~Tp2(new, g, j)
      BY <1>3, <1>4, <2>1, <3>1 DEF n
    <3>3. new = row
      BY <2>10 DEF new, Apply
    <3>4. QED
      BY <1>7, <1>10, <2>2, <2>3, <2>4, <3>2, <3>3 DEF Story
  <2>11. QED
    BY <2>2, <2>8, <2>9, <2>10, <1>1 DEF Verdict
<1>11. QED
  BY <1>9, <1>10 DEF OpenStatus

(* The candles on their way to the rows, and those applied to them, cover  *)
(* minutes that are on the path, so no later minute changes what they      *)
(* touched; and every row has come as far as its candles tell.             *)
Known(c) == 1 <= c.from /\ c.to <= minute

StoryInv ==
  /\ IInv
  /\ \A c \in pending \cup ({candle} \ {NoCandle}) : Known(c)
  /\ \A s \in Signals : \A i \in 1..Len(seen[s]) : Known(seen[s][i])
  /\ \A s \in Signals : Story(signals[s], seen[s])

LEMMA DividesAtMost ==
  ASSUME NEW t \in Nat \ {0}, NEW k \in Nat \ {0}, t % k = 0
  PROVE  k <= t
OBVIOUS

(* A minute that is added to the path leaves what a known candle touched.  *)
LEMMA KnownStays ==
  ASSUME LifecycleTypeOK, NEW b \in Bars, Minute(b), NEW c \in Candles, Known(c)
  PROVE  \A plan, level : /\ Against(plan, c, level)' <=> Against(plan, c, level)
                          /\ Towards(plan, c, level)' <=> Towards(plan, c, level)
<1>1. c.from..c.to \subseteq 1..Len(path)
  <2>1. PICK t \in 1..LastMinute, n \in Lengths : c = [from |-> t - n + 1, to |-> t]
    BY DEF Candles
  <2>2. n \in Nat /\ t \in Nat /\ Len(path) = minute /\ minute \in Nat
    BY ConstantsAssumption DEF LifecycleTypeOK
  <2>3. QED
    BY <2>1, <2>2 DEF Known
<1>2. \A m \in 1..Len(path) : path'[m] = path[m]
  BY DEF LifecycleTypeOK, Minute
<1>3. \A level : (Falls(c, level)' <=> Falls(c, level)) /\ (Rises(c, level)' <=> Rises(c, level))
  BY <1>1, <1>2 DEF Falls, Rises
<1>4. QED
  BY <1>3 DEF Against, Towards

LEMMA StoryStays ==
  ASSUME LifecycleTypeOK, NEW b \in Bars, Minute(b), NEW row \in SignalRow, NEW h \in Seq(Candles),
         \A i \in 1..Len(h) : Known(h[i]), Story(row, h)
  PROVE  Story(row, h)'
<1>1. \A i \in 1..Len(h) :
        /\ Sl(row, h, i)' <=> Sl(row, h, i)
        /\ Entry(row, h, i)' <=> Entry(row, h, i)
        /\ Tp1(row, h, i)' <=> Tp1(row, h, i)
        /\ Tp2(row, h, i)' <=> Tp2(row, h, i)
        /\ Old(row, h, i)' <=> Old(row, h, i)
        /\ Quiet(row, h, i)' <=> Quiet(row, h, i)
  <2>1. SUFFICES ASSUME NEW i \in 1..Len(h)
                 PROVE  /\ Sl(row, h, i)' <=> Sl(row, h, i)
                        /\ Entry(row, h, i)' <=> Entry(row, h, i)
                        /\ Tp1(row, h, i)' <=> Tp1(row, h, i)
                        /\ Tp2(row, h, i)' <=> Tp2(row, h, i)
                        /\ Old(row, h, i)' <=> Old(row, h, i)
                        /\ Quiet(row, h, i)' <=> Quiet(row, h, i)
    OBVIOUS
  <2>2. h[i] \in Candles /\ Known(h[i])
    OBVIOUS
  <2>3. \A plan, level : /\ Against(plan, h[i], level)' <=> Against(plan, h[i], level)
                         /\ Towards(plan, h[i], level)' <=> Towards(plan, h[i], level)
    BY <2>2, KnownStays
  <2>4. QED
    BY <2>3 DEF Sl, Entry, Tp1, Tp2, Old, Quiet
<1>2. Len(h) \in Nat
  OBVIOUS
<1>3. \A i \in 1..Len(h) : (First(row, h, i)' <=> First(row, h, i)) /\ (Up(row, h, i)' <=> Up(row, h, i))
  BY <1>1, <1>2 DEF First, Up
<1>4. \A i, k \in 1..Len(h) : After(row, h, i, k)' <=> After(row, h, i, k)
  BY <1>1, <1>2 DEF After
<1>5. Ending(row, h)' <=> Ending(row, h)
  BY <1>1, <1>3, <1>4 DEF Ending, Lost, TimedOut, Flat, Won
<1>6. QED
  BY <1>1, <1>2, <1>3, <1>5 DEF Story

LEMMA StoryInductive == (LifecycleInit => StoryInv) /\ (StoryInv /\ [LifecycleNext]_lifecycle => StoryInv')
<1>1. LifecycleInit => StoryInv
  <2>1. SUFFICES ASSUME LifecycleInit PROVE StoryInv
    OBVIOUS
  <2>2. \A s \in Signals : signals[s] = NoSignal /\ seen[s] = <<>>
    BY <2>1 DEF LifecycleInit
  <2>3. 1..Len(<<>>) = {} /\ NoSignal.status = "NONE"
    BY DEF NoSignal
  <2>4. \A s \in Signals : Story(signals[s], seen[s]) /\ \A i \in 1..Len(seen[s]) : Known(seen[s][i])
    BY <2>2, <2>3 DEF Story
  <2>5. QED
    BY <2>1, <2>4, IInvInductive DEF StoryInv, LifecycleInit
<1>2. ASSUME StoryInv, [LifecycleNext]_lifecycle PROVE StoryInv'
  <2>1. IInv /\ IInv' /\ LifecycleTypeOK /\ LifecycleTypeOK'
    BY <1>2, IInvInductive DEF StoryInv, IInv
  <2>2. \A c \in pending \cup ({candle} \ {NoCandle}) : Known(c)
    BY <1>2 DEF StoryInv
  <2>3. \A s \in Signals : /\ signals[s] \in SignalRow /\ RowAgrees(signals[s]) /\ seen[s] \in Seq(Candles)
                           /\ Story(signals[s], seen[s])
                           /\ \A i \in 1..Len(seen[s]) : Known(seen[s][i])
    BY <1>2, <2>1 DEF StoryInv, IInv, LifecycleTypeOK
  <2>4. ASSUME NEW b \in Bars, Minute(b) PROVE StoryInv'
    <3>1. minute' = minute + 1 /\ minute \in Nat /\ minute' \in 1..LastMinute
      BY <2>1, <2>4 DEF Minute, LifecycleTypeOK
    <3>2. \A c \in Candles : Known(c) => Known(c)'
      <4>1. SUFFICES ASSUME NEW c \in Candles, Known(c) PROVE Known(c)'
        OBVIOUS
      <4>2. c.to \in Nat
        BY DEF Candles
      <4>3. QED
        BY <3>1, <4>1, <4>2 DEF Known
    <3>3. ASSUME NEW n \in Lengths, NEW t \in Nat \ {0}, t = minute', t % n = 0
          PROVE  Known([from |-> t - n + 1, to |-> t])'
      <4>1. n <= t
        BY <3>3, ConstantsAssumption, DividesAtMost
      <4>2. n \in Nat
        BY ConstantsAssumption
      <4>3. \A c : Known(c)' <=> 1 <= c.from /\ c.to <= minute'
        BY DEF Known
      <4>4. QED
        BY <3>3, <4>1, <4>2, <4>3
    <3>4. candle' = candle /\ pending \subseteq Candles /\ (candle # NoCandle => candle \in Candles)
      BY <2>1, <2>4 DEF Minute, LifecycleTypeOK
    <3>5. \A c \in pending' : c \in pending \/ \E n \in Lengths :
                                minute' % n = 0 /\ c = [from |-> minute' - n + 1, to |-> minute']
      BY <2>4 DEF Minute
    <3>6. (\A c \in pending \cup ({candle} \ {NoCandle}) : Known(c))'
      <4>1. PICK t \in Nat \ {0} : t = minute'
        BY <3>1
      <4>2. \A c \in pending' : Known(c)'
        BY <2>2, <3>2, <3>3, <3>4, <3>5, <4>1
      <4>3. \A c \in {candle'} \ {NoCandle} : Known(c)'
        BY <2>2, <3>2, <3>4
      <4>4. QED
        BY <4>2, <4>3
    <3>7. signals' = signals /\ seen' = seen
      BY <2>4 DEF Minute
    <3>8. \A row \in SignalRow, h \in Seq(Candles) :
            Story(row, h) /\ (\A i \in 1..Len(h) : Known(h[i])) => Story(row, h)'
      BY <2>1, <2>4, StoryStays
    <3>9. (\A s \in Signals : Story(signals[s], seen[s]))'
      BY <2>3, <3>7, <3>8
    <3>10. (\A s \in Signals : \A i \in 1..Len(seen[s]) : Known(seen[s][i]))'
      BY <2>3, <3>2, <3>7
    <3>11. QED
      BY <2>1, <3>6, <3>9, <3>10 DEF StoryInv
  <2>5. ASSUME minute' = minute, path' = path
        PROVE  /\ \A c : Known(c)' <=> Known(c)
               /\ \A row, h : Story(row, h)' <=> Story(row, h)
    BY <2>5 DEF Known, Story, Ending, Lost, TimedOut, Flat, Won, Up, After, First, Quiet,
                Sl, Entry, Tp1, Tp2, Old, Against, Towards, Falls, Rises
  <2>6. ASSUME minute' = minute, path' = path, signals' = signals, seen' = seen,
               pending' \cup ({candle'} \ {NoCandle}) \subseteq pending \cup ({candle} \ {NoCandle})
        PROVE  StoryInv'
    BY <1>2, <2>1, <2>5, <2>6 DEF StoryInv
  <2>7. ASSUME minute' = minute, path' = path, pending' = pending, candle' = candle,
               NEW s \in Signals, \A r \in Signals \ {s} : signals'[r] = signals[r] /\ seen'[r] = seen[r],
               NEW row, NEW h, row = signals'[s], h = seen'[s],
               Story(row, h), \A i \in 1..Len(h) : Known(h[i])
        PROVE  StoryInv'
    <3>1. (\A c \in pending \cup ({candle} \ {NoCandle}) : Known(c))'
      BY <2>2, <2>5, <2>7
    <3>2. Story(signals[s], seen[s])' /\ (\A i \in 1..Len(seen[s]) : Known(seen[s][i]))'
      BY <2>5, <2>7
    <3>3. ASSUME NEW r \in Signals \ {s}
          PROVE  Story(signals[r], seen[r])' /\ (\A i \in 1..Len(seen[r]) : Known(seen[r][i]))'
      BY <2>3, <2>5, <2>7
    <3>4. QED
      BY <2>1, <3>1, <3>2, <3>3 DEF StoryInv
  <2>8. ASSUME NEW s \in Signals, NEW plan \in Plans, Trigger(s, plan) PROVE StoryInv'
    <3>1. minute' = minute /\ path' = path /\ seen' = seen /\ pending' = pending /\ candle' = candle
      BY <2>8 DEF Trigger
    <3>2. seen[s] = <<>>
      BY <2>3, <2>8 DEF Trigger, Story
    <3>3. signals'[s].status = "TRIGGERED" /\ signals'[s].result = "NONE"
      BY <2>1, <2>8 DEF Trigger, NoSignal, LifecycleTypeOK
    <3>4. \A r \in Signals \ {s} : signals'[r] = signals[r]
      BY <2>1, <2>8 DEF Trigger, LifecycleTypeOK
    <3>5. 1..Len(<<>>) = {}
      OBVIOUS
    <3>6. \A row : row.status = "TRIGGERED" /\ row.result = "NONE" => Story(row, <<>>)
      BY <3>5 DEF Story
    <3>7. QED
      BY <2>7, <3>1, <3>2, <3>3, <3>4, <3>5, <3>6
  <2>9. ASSUME NEW s \in Signals, AdvanceSignal(s) PROVE StoryInv'
    <3>1. minute' = minute /\ path' = path /\ pending' = pending /\ candle' = candle
      BY <2>9 DEF AdvanceSignal
    <3>2. CASE signals[s].created >= candle.to
      BY <2>6, <2>9, <3>1, <3>2 DEF AdvanceSignal
    <3>3. CASE ~(signals[s].created >= candle.to)
      <4>1. signals' = [signals EXCEPT ![s] = Advance(signals[s], candle)]
        BY <2>9, <3>3 DEF AdvanceSignal
      <4>2. seen' = [seen EXCEPT ![s] = Append(seen[s], candle)]
        BY <2>9, <3>3 DEF AdvanceSignal
      <4>3. /\ signals'[s] = Advance(signals[s], candle) /\ seen'[s] = Append(seen[s], candle)
            /\ \A r \in Signals \ {s} : signals'[r] = signals[r] /\ seen'[r] = seen[r]
        BY <2>1, <4>1, <4>2 DEF LifecycleTypeOK
      <4>4. candle \in Candles /\ candle.to > signals[s].created /\ Known(candle)
        <5>1. signals[s].created \in Nat
          BY <2>3 DEF SignalRow
        <5>2. candle # NoCandle
          BY <3>3, <5>1 DEF NoCandle
        <5>3. candle \in Candles
          BY <2>1, <5>2 DEF LifecycleTypeOK
        <5>4. candle.to \in Nat
          BY <5>3 DEF Candles
        <5>5. QED
          BY <2>2, <3>3, <5>1, <5>2, <5>3, <5>4
      <4>5. signals[s].status \in OpenStatus
        BY <2>1, <2>9 DEF IInv, AdvanceSignal, Manageable
      <4>6. Story(Advance(signals[s], candle), Append(seen[s], candle))
        BY <2>3, <4>4, <4>5, StoryGoesOn
      <4>7. \A i \in 1..Len(Append(seen[s], candle)) : Known(Append(seen[s], candle)[i])
        BY <2>3, <4>4
      <4>8. QED
        BY <2>7, <3>1, <4>3, <4>6, <4>7
    <3>4. QED
      BY <3>2, <3>3
  <2>10. ASSUME NEW c \in pending, ReceiveCandle(c) PROVE StoryInv'
    BY <2>6, <2>10 DEF ReceiveCandle
  <2>11. ASSUME NEW c \in pending, Lose(c) PROVE StoryInv'
    BY <2>6, <2>11 DEF Lose
  <2>12. CASE Finish
    BY <2>6, <2>12 DEF Finish
  <2>13. CASE LifecycleCrash
    BY <2>6, <2>13 DEF LifecycleCrash
  <2>14. CASE UNCHANGED lifecycle
    BY <2>6, <2>14 DEF lifecycle
  <2>15. QED
    BY <1>2, <2>4, <2>8, <2>9, <2>10, <2>11, <2>12, <2>13, <2>14 DEF LifecycleNext
<1>3. QED
  BY <1>1, <1>2


(* The recorded result of every trade is the one that a second reading of  *)
(* all its candles gives, whatever candles were lost and wherever the      *)
(* process died.                                                           *)
THEOREM OutcomesAgree == LifecycleSpec => []OutcomeAgreesWithCandles
<1>1. StoryInv => OutcomeAgreesWithCandles
  <2>1. SUFFICES ASSUME StoryInv, NEW s \in Signals, signals[s].status # "NONE"
                 PROVE  /\ \A i \in DOMAIN seen[s] : seen[s][i].to > signals[s].created
                        /\ signals[s].result = ResultOf(signals[s], seen[s])
    BY DEF OutcomeAgreesWithCandles
  <2>2. /\ signals[s] \in SignalRow /\ RowAgrees(signals[s]) /\ seen[s] \in Seq(Candles)
        /\ Story(signals[s], seen[s])
    BY <2>1 DEF StoryInv, IInv, LifecycleTypeOK
  <2>3. DOMAIN seen[s] = 1..Len(seen[s])
    BY <2>2
  <2>4. QED
    BY <2>1, <2>2, <2>3, StoryTellsResult DEF Story
<1>2. QED
  BY <1>1, StoryInductive, PTL DEF LifecycleSpec
=============================================================================
