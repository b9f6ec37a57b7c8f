--------------------------- MODULE Reports_proofs ---------------------------
(***************************************************************************)
(* Proofs about the reports: LlmDecision and LlmReport, for any watch      *)
(* list, prices, answers and number of repairs; ReportSchedule, for any    *)
(* slots, grace time and delays; MarketData, for any symbols, answers and  *)
(* times.                                                                  *)
(***************************************************************************)
EXTENDS LlmReport, ReportSchedule, MarketData, SequenceTheorems, FiniteSetTheorems, TLAPS

(* A product with a natural number keeps the order.                        *)
LEMMA ScaledOrder ==
  ASSUME NEW a \in Int, NEW b \in Int, NEW k \in Nat, a <= b
  PROVE  a * k <= b * k /\ k * a <= k * b
BY SMT

(* Closer to the stop is better: a price between the stop and a price that *)
(* is worth it is worth it too.                                            *)
LEMMA WorthNearerStop ==
  ASSUME NEW c \in Contract, NEW asked \in Int, NEW fill \in Int,
         Worth(c, asked), Ahead(c, c.stop, fill), fill = asked \/ Ahead(c, fill, asked)
  PROVE  Worth(c, fill)
<1> DEFINE near == Abs(c.tp1 - asked)
           far  == Abs(c.tp1 - fill)
           risk == Abs(asked - c.stop)
           less == Abs(fill - c.stop)
<1>1. /\ c.stop \in Int /\ c.tp1 \in Int /\ c.direction \in {"LONG", "SHORT"}
      /\ RRNum \in Nat /\ RRDen \in Nat
  BY DecisionAssumption DEF Contract
<1>2. Ahead(c, c.stop, asked) /\ Ahead(c, asked, c.tp1) /\ near * RRDen >= RRNum * risk
  BY DEF Worth
<1>3. /\ near \in Int /\ far \in Int /\ risk \in Int /\ less \in Int
      /\ near <= far /\ less <= risk /\ Ahead(c, fill, c.tp1)
  BY <1>1, <1>2 DEF Ahead, Abs
<1> HIDE DEF near, far, risk, less
<1>4. near * RRDen <= far * RRDen /\ RRNum * less <= RRNum * risk
  BY <1>1, <1>3, ScaledOrder
<1>5. far * RRDen >= RRNum * less
  <2> DEFINE a == near * RRDen
             b == far * RRDen
             x == RRNum * risk
             y == RRNum * less
  <2>1. a \in Int /\ b \in Int /\ x \in Int /\ y \in Int
    BY <1>1, <1>3
  <2>2. a >= x /\ a <= b /\ y <= x
    BY <1>2, <1>4
  <2> HIDE DEF a, b, x, y
  <2>3. b >= y
    BY <2>1, <2>2
  <2> QED BY <2>3 DEF b, y
<1> QED BY <1>3, <1>5 DEF Worth, far, less

(* An accepted contract is worth its risk wherever in its zone - or at     *)
(* whatever price it is taken now - it is filled (validate_decision).      *)
THEOREM FillsAreWorthIt ==
  ASSUME NEW c \in Contract, NEW current \in Int
  PROVE  EveryFillIsWorthIt(c, current)
<1> SUFFICES ASSUME PricesAccepted(c, current), NEW fill \in Fills(c, current)
             PROVE  Worth(c, fill)
  BY DEF EveryFillIsWorthIt
<1> DEFINE asked == ExecutionPrice(c, current)
<1>1. Worth(c, asked) /\ Ordered(c)
  BY DEF PricesAccepted
<1>2. CASE c.mode = "NOW"
  BY <1>1, <1>2 DEF Fills, ExecutionPrice
<1>3. CASE c.mode # "NOW"
  <2>1. /\ c.low \in Int /\ c.high \in Int /\ c.stop \in Int /\ c.entry \in Int
        /\ c.direction \in {"LONG", "SHORT"}
    BY DEF Contract
  <2>2. fill \in Int /\ c.low <= fill /\ fill <= c.high
    BY <1>3, <2>1 DEF Fills
  <2>3. asked \in Int /\ (fill = asked \/ Ahead(c, fill, asked)) /\ Ahead(c, c.stop, fill)
    BY <1>1, <1>3, <2>1, <2>2 DEF ExecutionPrice, Near, Far, Ahead, Ordered
  <2> QED BY <1>1, <2>2, <2>3, WorthNearerStop
<1> QED BY <1>2, <1>3

-----------------------------------------------------------------------------
(* Appending keeps what was there and adds the element at the end.         *)
LEMMA AppendedSequence ==
  ASSUME NEW S, NEW seq \in Seq(S), NEW e \in S
  PROVE  /\ Append(seq, e) \in Seq(S)
         /\ Len(Append(seq, e)) = Len(seq) + 1
         /\ \A i \in 1..Len(seq) : Append(seq, e)[i] = seq[i]
         /\ Append(seq, e)[Len(seq) + 1] = e
OBVIOUS

(* Loading another price leaves the prices of the trades so far alone.     *)
LEMMA TradesKeepTheirPrices ==
  ASSUME StreamInv, NEW p \in Nat, snapshot' = Append(snapshot, p), UNCHANGED traded
  PROVE  TradesOK'
<1>1. snapshot \in Seq(Nat)
  BY DEF StreamInv, PriceOK
<1>2. /\ Len(snapshot') = Len(snapshot) + 1 /\ Len(snapshot) \in Nat
      /\ \A i \in 1..Len(snapshot) : snapshot'[i] = snapshot[i]
  BY <1>1, AppendedSequence
<1>3. \A t \in traded' : t.symbol \in 1..Len(snapshot')
  BY <1>2 DEF StreamInv, TradesOK
<1>4. \A t \in traded : snapshot'[t.symbol] = snapshot[t.symbol]
  BY <1>2 DEF StreamInv, TradesOK
<1>5. TradesAreWorthIt'
  BY <1>4 DEF StreamInv, TradesOK, TradesAreWorthIt
<1> QED BY <1>3, <1>5 DEF TradesOK

(* Giving a part moves on to the next symbol.                              *)
LEMMA GiveMovesOn ==
  ASSUME StreamInv, symbol <= NSymbols, Len(parts) = symbol - 1, ~over,
         NEW status \in {"TRADE", "NO_TRADE", "DATA_ERROR"}, Give(status),
         snapshot' \in Seq(Nat), Len(snapshot') = symbol, price' \in Nat
  PROVE  PlaceOK' /\ PriceOK' /\ AnswerOK'
<1>1. /\ symbol \in 1..NSymbols /\ NSymbols \in Nat /\ Repairs \in Nat
      /\ parts \in Seq([symbol : Nat, status : {"TRADE", "NO_TRADE", "DATA_ERROR"}])
  BY StreamAssumption DEF StreamInv, PlaceOK
<1>2. /\ parts' = Append(parts, [symbol |-> symbol, status |-> status])
      /\ symbol' = symbol + 1 /\ pc' = "load" /\ chats' = 0 /\ over' = over
  BY DEF Give
<1>3. PlaceOK'
  <2>1. [symbol |-> symbol, status |-> status]
          \in [symbol : Nat, status : {"TRADE", "NO_TRADE", "DATA_ERROR"}]
    BY <1>1
  <2>2. /\ parts' \in Seq([symbol : Nat, status : {"TRADE", "NO_TRADE", "DATA_ERROR"}])
        /\ Len(parts') = Len(parts) + 1
    BY <1>1, <1>2, <2>1, AppendedSequence
  <2> QED BY <1>1, <1>2, <2>2 DEF PlaceOK
<1>4. PriceOK'
  BY <1>1, <1>2 DEF PriceOK
<1>5. AnswerOK'
  BY <1>1, <1>2 DEF AnswerOK, RequestsBounded
<1> QED BY <1>3, <1>4, <1>5

(* The contract of an answer that has passed, at the price it was checked  *)
(* against.                                                                *)
LEMMA PassedContract ==
  ASSUME NEW p \in Payloads, NEW current \in Int, Valid(p, current), p.status = "TRADE",
         NEW fill \in Fills(p.contract, current)
  PROVE  Worth(p.contract, fill) /\ p.contract.position <= MaxPosition
<1>1. p.contract \in Contract
  BY StreamAssumption
<1>2. PricesAccepted(p.contract, current)
  BY DEF Valid
<1>3. EveryFillIsWorthIt(p.contract, current)
  BY <1>1, FillsAreWorthIt
<1> QED BY <1>2, <1>3 DEF EveryFillIsWorthIt, PricesAccepted

LEMMA StreamInvInit == StreamInit => StreamInv
<1> SUFFICES ASSUME StreamInit PROVE StreamInv
  OBVIOUS
<1>1. PlaceOK
  BY StreamAssumption DEF StreamInit, PlaceOK
<1>2. PriceOK
  BY DEF StreamInit, PriceOK
<1>3. AnswerOK
  BY StreamAssumption DEF StreamInit, AnswerOK, RequestsBounded
<1>4. TradesOK
  BY DEF StreamInit, TradesOK, TradesAreWorthIt
<1> QED BY <1>1, <1>2, <1>3, <1>4 DEF StreamInv

LEMMA StreamInvNext == StreamInv /\ [StreamNext]_stream => StreamInv'
<1> SUFFICES ASSUME StreamInv, [StreamNext]_stream PROVE StreamInv'
  OBVIOUS
<1> USE StreamAssumption
<1>1. ASSUME NEW p \in Prices \cup {0}, Load(p) PROVE StreamInv'
  <2>1. p \in Nat
    OBVIOUS
  <2>2. /\ pc = "load" /\ symbol <= NSymbols /\ ~over /\ symbol \in 1..NSymbols + 1
        /\ Len(snapshot) = symbol - 1 /\ snapshot \in Seq(Nat) /\ chats = 0
        /\ snapshot' = Append(snapshot, p) /\ price' = p
    BY <1>1 DEF Load, StreamInv, PlaceOK, PriceOK, AnswerOK
  <2>3. /\ snapshot' \in Seq(Nat) /\ Len(snapshot') = symbol /\ snapshot'[symbol] = p
    <3>1. /\ snapshot' \in Seq(Nat) /\ Len(snapshot') = Len(snapshot) + 1
          /\ snapshot'[Len(snapshot) + 1] = p
      BY <2>1, <2>2, AppendedSequence
    <3> QED BY <2>2, <3>1
  <2>4. traded' = traded
    BY <1>1 DEF Load
  <2>5. TradesOK'
    BY <2>1, <2>2, <2>4, TradesKeepTheirPrices
  <2>6. CASE p = 0
    <3>1. Give("DATA_ERROR")
      BY <1>1, <2>6 DEF Load
    <3>2. PlaceOK' /\ PriceOK' /\ AnswerOK'
      BY <2>1, <2>2, <2>3, <3>1, GiveMovesOn DEF StreamInv, PlaceOK
    <3> QED BY <2>5, <3>2 DEF StreamInv
  <2>7. CASE p # 0
    <3>1. pc' = "ask" /\ UNCHANGED <<symbol, raw, chats, parts, over>>
      BY <1>1, <2>7 DEF Load
    <3>2. PlaceOK'
      BY <2>2, <3>1 DEF StreamInv, PlaceOK
    <3>3. PriceOK'
      BY <2>1, <2>2, <2>3, <2>7, <3>1 DEF PriceOK
    <3>4. AnswerOK'
      BY <2>2, <3>1 DEF AnswerOK, RequestsBounded
    <3> QED BY <2>5, <3>2, <3>3, <3>4 DEF StreamInv
  <2> QED BY <2>6, <2>7
<1>2. ASSUME NotReady \/ ChatFails \/ Reject PROVE StreamInv'
  <2>1. pc \in {"ask", "check"} /\ Give("DATA_ERROR") /\ UNCHANGED <<price, traded, snapshot>>
    BY <1>2 DEF NotReady, ChatFails, Reject
  <2>2. PlaceOK' /\ PriceOK' /\ AnswerOK'
    BY <2>1, GiveMovesOn DEF StreamInv, PlaceOK, PriceOK
  <2>3. TradesOK'
    BY <2>1 DEF StreamInv, TradesOK, TradesAreWorthIt
  <2> QED BY <2>2, <2>3 DEF StreamInv
<1>3. ASSUME NEW p \in Payloads, Chat(p) PROVE StreamInv'
  <2>1. /\ pc = "ask" /\ raw' = <<p>> /\ chats' = chats + 1 /\ pc' = "check"
        /\ UNCHANGED <<symbol, price, parts, traded, snapshot, over>>
    BY <1>3 DEF Chat
  <2>2. PlaceOK' /\ PriceOK'
    BY <2>1 DEF StreamInv, PlaceOK, PriceOK
  <2>3. AnswerOK'
    BY <2>1 DEF StreamInv, AnswerOK, RequestsBounded, PriceOK
  <2>4. TradesOK'
    BY <2>1 DEF StreamInv, TradesOK, TradesAreWorthIt
  <2> QED BY <2>2, <2>3, <2>4 DEF StreamInv
<1>4. ASSUME Accept PROVE StreamInv'
  <2>1. PICK p \in Payloads : raw = <<p>>
    BY <1>4 DEF Accept, StreamInv, AnswerOK
  <2>2. /\ pc = "check" /\ Valid(p, price) /\ Give(p.status)
        /\ traded' = IF p.status = "TRADE"
                     THEN traded \cup {[symbol |-> symbol, contract |-> p.contract]} ELSE traded
        /\ UNCHANGED <<price, snapshot>>
    BY <1>4, <2>1 DEF Accept
  <2>3. p.status \in {"TRADE", "NO_TRADE", "DATA_ERROR"}
    BY <2>2 DEF Valid, WellFormed
  <2>4. /\ symbol \in 1..NSymbols /\ Len(snapshot) = symbol /\ price = snapshot[symbol]
        /\ price \in Nat /\ ~over
    BY <2>2 DEF StreamInv, PlaceOK, PriceOK
  <2>5. PlaceOK' /\ PriceOK' /\ AnswerOK'
    BY <2>2, <2>3, <2>4, GiveMovesOn DEF StreamInv, PlaceOK, PriceOK
  <2>6. ASSUME NEW t \in traded'
        PROVE  /\ t.symbol \in 1..Len(snapshot)
               /\ \A fill \in Fills(t.contract, snapshot[t.symbol]) :
                    Worth(t.contract, fill) /\ t.contract.position <= MaxPosition
    <3>1. CASE t \in traded
      BY <3>1 DEF StreamInv, TradesOK, TradesAreWorthIt
    <3>2. CASE t \notin traded
      <4>1. p.status = "TRADE" /\ t = [symbol |-> symbol, contract |-> p.contract]
        BY <2>2, <2>6, <3>2
      <4>2. t.symbol = symbol /\ t.contract = p.contract
        BY <4>1
      <4>3. \A fill \in Fills(p.contract, price) :
              Worth(p.contract, fill) /\ p.contract.position <= MaxPosition
        BY <2>2, <2>4, <4>1, PassedContract
      <4> QED BY <2>4, <4>2, <4>3
    <3> QED BY <3>1, <3>2
  <2>7. TradesOK'
    BY <2>2, <2>6 DEF TradesOK, TradesAreWorthIt
  <2> QED BY <2>5, <2>7 DEF StreamInv
<1>5. ASSUME Repair PROVE StreamInv'
  <2>1. /\ pc = "check" /\ pc' = "ask" /\ chats <= Repairs
        /\ UNCHANGED <<symbol, price, raw, chats, parts, traded, snapshot, over>>
    BY <1>5 DEF Repair, MayRepair
  <2>2. PlaceOK' /\ PriceOK' /\ AnswerOK'
    BY <2>1 DEF StreamInv, PlaceOK, PriceOK, AnswerOK, RequestsBounded
  <2>3. TradesOK'
    BY <2>1 DEF StreamInv, TradesOK, TradesAreWorthIt
  <2> QED BY <2>2, <2>3 DEF StreamInv
<1>6. ASSUME Break \/ Exhausted PROVE StreamInv'
  <2>1. /\ pc \in {"load", "check"} /\ pc' = "archive"
        /\ UNCHANGED <<symbol, price, raw, chats, parts, traded, snapshot, over>>
    BY <1>6 DEF Break, Exhausted
  <2>2. PlaceOK' /\ PriceOK' /\ AnswerOK'
    BY <2>1 DEF StreamInv, PlaceOK, PriceOK, AnswerOK, RequestsBounded
  <2>3. TradesOK'
    BY <2>1 DEF StreamInv, TradesOK, TradesAreWorthIt
  <2> QED BY <2>2, <2>3 DEF StreamInv
<1>7. ASSUME NEW stored, Archive(stored) PROVE StreamInv'
  <2>1. /\ pc = "archive" /\ pc' = "over" /\ over' = TRUE
        /\ UNCHANGED <<symbol, price, raw, chats, parts, traded, snapshot>>
    BY <1>7 DEF Archive
  <2>2. PlaceOK' /\ PriceOK' /\ AnswerOK'
    BY <2>1 DEF StreamInv, PlaceOK, PriceOK, AnswerOK, RequestsBounded
  <2>3. TradesOK'
    BY <2>1 DEF StreamInv, TradesOK, TradesAreWorthIt
  <2> QED BY <2>2, <2>3 DEF StreamInv
<1>8. ASSUME UNCHANGED stream PROVE StreamInv'
  BY <1>8 DEF stream, StreamInv, PlaceOK, PriceOK, AnswerOK, RequestsBounded, TradesOK,
              TradesAreWorthIt
<1> QED BY <1>1, <1>2, <1>3, <1>4, <1>5, <1>6, <1>7, <1>8 DEF StreamNext

LEMMA StreamInvAlways == Stream => []StreamInv
<1> QED BY StreamInvInit, StreamInvNext, PTL DEF Stream

(* However many answers are repaired, every trade the stream gives is      *)
(* worth its risk wherever it is filled, at the price of its own symbol.   *)
THEOREM TradesAlwaysWorthIt == Stream => []TradesAreWorthIt
<1>1. StreamInv => TradesAreWorthIt
  BY DEF StreamInv, TradesOK
<1> QED BY <1>1, StreamInvAlways, PTL

(* No symbol costs more requests than one and its repairs.                 *)
THEOREM RequestsAlwaysBounded == Stream => []RequestsBounded
<1>1. StreamInv => RequestsBounded
  BY DEF StreamInv, AnswerOK
<1> QED BY <1>1, StreamInvAlways, PTL

(* The stream gives the sender one part per symbol, in order.              *)
THEOREM StreamImplementsParts == Stream => ImplementsStream
<1>1. StreamInit => Abstract!StreamInit
  BY DEF StreamInit, Abstract!StreamInit
<1>2. ASSUME StreamInv, [StreamNext]_stream
      PROVE  [Abstract!Part \/ Abstract!End]_<<parts, over>>
  <2> USE StreamAssumption
  <2>1. ASSUME NEW status \in {"TRADE", "NO_TRADE", "DATA_ERROR"}, Give(status),
               symbol <= NSymbols, ~over
        PROVE  Abstract!Part
    <3>1. symbol = Len(parts) + 1 /\ Len(parts) < NSymbols
      BY <1>2, <2>1 DEF StreamInv, PlaceOK
    <3>2. parts' = Append(parts, [symbol |-> Len(parts) + 1, status |-> status]) /\ over' = over
      BY <2>1, <3>1 DEF Give
    <3> QED BY <2>1, <3>1, <3>2 DEF Abstract!Part
  <2>2. ASSUME NEW p \in Prices \cup {0}, Load(p) PROVE Abstract!Part \/ UNCHANGED <<parts, over>>
    <3>1. pc = "load" /\ symbol <= NSymbols /\ ~over
      BY <1>2, <2>2 DEF Load, StreamInv, PlaceOK
    <3>2. Give("DATA_ERROR") \/ UNCHANGED <<parts, over>>
      BY <2>2 DEF Load
    <3> QED BY <2>1, <3>1, <3>2
  <2>3. ASSUME NotReady \/ ChatFails \/ Reject PROVE Abstract!Part
    <3>1. pc \in {"ask", "check"} /\ Give("DATA_ERROR")
      BY <2>3 DEF NotReady, ChatFails, Reject
    <3>2. symbol <= NSymbols /\ ~over
      BY <1>2, <3>1 DEF StreamInv, PlaceOK
    <3> QED BY <2>1, <3>1, <3>2
  <2>4. ASSUME Accept PROVE Abstract!Part
    <3>1. pc = "check" /\ Give(raw[1].status) /\ raw[1].status \in {"TRADE", "NO_TRADE", "DATA_ERROR"}
      BY <2>4 DEF Accept, Valid, WellFormed
    <3>2. symbol <= NSymbols /\ ~over
      BY <1>2, <3>1 DEF StreamInv, PlaceOK
    <3> QED BY <2>1, <3>1, <3>2
  <2>5. ASSUME NEW stored, Archive(stored) PROVE Abstract!End
    <3>1. pc = "archive" /\ over' = TRUE /\ parts' = parts
      BY <2>5 DEF Archive
    <3>2. ~over
      BY <1>2, <3>1 DEF StreamInv, PlaceOK
    <3> QED BY <3>1, <3>2 DEF Abstract!End
  <2>6. ASSUME \/ \E p \in Payloads : Chat(p)
               \/ Repair \/ Break \/ Exhausted \/ UNCHANGED stream
        PROVE  UNCHANGED <<parts, over>>
    BY <2>6 DEF Chat, Repair, Break, Exhausted, stream
  <2> QED BY <1>2, <2>2, <2>3, <2>4, <2>5, <2>6 DEF StreamNext
<1> QED BY <1>1, <1>2, StreamInvAlways, PTL DEF Stream, ImplementsStream, Abstract!StreamSpec

-----------------------------------------------------------------------------
(* The schedule of the reports.                                            *)

(* What the exchange publishes is what the calendar computes.              *)
CalendarAgrees ==
  \A d \in DOMAIN Sessions :
    Sessions[d] = IF TradingDay(d[1], d[2]) THEN CloseOf(d[1], d[2]) ELSE 0

(* The local time of the candidate that starts at hour h, if it is prompt. *)
Local(h) == (h - offset) * 60 + 30

(* The own candidate of the slot has come, and was not late.               *)
InTime(s) == s < Local(hour) /\ s \notin late

(* A slot has run iff its own candidate came in time, on a day and before  *)
(* a close the calendar knows.                                             *)
ScheduleInv ==
  /\ day \in DOMAIN Sessions /\ offset \in {4, 5}
  /\ hour \in FirstHour..(LastHour + 1)
  /\ runs \in [Slots -> Nat] /\ late \subseteq Slots
  /\ \A s \in late : s < Local(hour)
  /\ \A s \in Slots :
       runs[s] = IF InTime(s) /\ TradingDay(day[1], day[2]) /\ s < CloseOf(day[1], day[2])
                 THEN 1 ELSE 0

LEMMA Hours ==
  /\ FirstHour \in Nat /\ LastHour \in Nat /\ FirstHour <= LastHour
  /\ Candidates = FirstHour..LastHour
<1>1. PICK a, b \in Nat : a <= b /\ Candidates = a..b
  <2>1. PICK a, b \in Candidates : Candidates = a..b
    BY ScheduleAssumption
  <2>2. a \in Nat /\ b \in Nat
    BY ScheduleAssumption
  <2>3. a <= b
    BY <2>1, <2>2
  <2> QED BY <2>1, <2>2, <2>3
<1>2. FirstHour = a
  BY <1>1 DEF FirstHour
<1>3. LastHour = b
  BY <1>1 DEF LastHour
<1>4. QED
  BY <1>1, <1>2, <1>3

(* A slot has one candidate: only the one at its own hour is in time.      *)
LEMMA OwnCandidate ==
  ASSUME NEW s \in Slots, NEW h \in Nat, NEW o \in {4, 5}, NEW delay \in Delays
  PROVE  LET local == (h - o) * 60 + 30
         IN  /\ 0 <= local + delay - s /\ local + delay - s <= Grace
                  <=> s = local /\ delay <= Grace
             /\ s < local + 60 <=> s <= local
<1>1. s \in Int /\ s % 60 = 30 /\ delay \in 0..59 /\ Grace \in 0..29
  BY ScheduleAssumption DEF RegularOpen, RegularClose
<1>2. PICK q \in Int : s = 60 * q + 30
  <2>1. s = 60 * (s \div 60) + 30
    BY <1>1
  <2>2. QED
    BY <1>1, <2>1
<1>3. DEFINE n == h - o
<1>4. n \in Int /\ (h - o) * 60 + 30 = 60 * n + 30
  OBVIOUS
<1> HIDE DEF n
<1>5. (0 <= 60 * n + 30 + delay - s /\ 60 * n + 30 + delay - s <= Grace)
        <=> (s = 60 * n + 30 /\ delay <= Grace)
  BY <1>1, <1>2, <1>4
<1>6. s < 60 * n + 30 + 60 <=> s <= 60 * n + 30
  BY <1>1, <1>2, <1>4
<1>7. QED
  BY <1>4, <1>5, <1>6

LEMMA ScheduleStarts == ScheduleInit => ScheduleInv
<1>1. SUFFICES ASSUME ScheduleInit PROVE ScheduleInv
  OBVIOUS
<1>2. \A s \in Slots : ~(s < Local(hour))
  <2>1. SUFFICES ASSUME NEW s \in Slots, s < Local(hour) PROVE FALSE
    OBVIOUS
  <2>2. offset \in {4, 5} /\ hour = FirstHour
    BY <1>1 DEF ScheduleInit
  <2>3. PICK h \in Candidates : s = (h - offset) * 60 + 30
    BY <2>2, ScheduleAssumption
  <2>4. QED
    BY <2>1, <2>2, <2>3, Hours DEF Local
<1>3. QED
  BY <1>1, <1>2, Hours DEF ScheduleInit, ScheduleInv, InTime

(* The exchange closes at a full hour: a slot before the close is still    *)
(* before it when its candidate is in time.                                *)
LEMMA BeforeClose ==
  ASSUME NEW s \in Slots, NEW delay \in Delays, delay <= Grace, NEW y, NEW d
  PROVE  /\ RegularOpen <= s + delay
         /\ s + delay < CloseOf(y, d) <=> s < CloseOf(y, d)
<1>1. s \in Int /\ s % 60 = 30 /\ RegularOpen <= s /\ delay \in 0..59 /\ Grace \in 0..29
  BY ScheduleAssumption DEF RegularOpen, RegularClose
<1>2. CloseOf(y, d) \in {780, 960}
  BY DEF CloseOf, EarlyClose, RegularClose
<1>3. PICK q \in Int : s = 60 * q + 30
  <2>1. s = 60 * (s \div 60) + 30
    BY <1>1
  <2>2. QED
    BY <1>1, <2>1
<1>4. QED
  BY <1>1, <1>2, <1>3 DEF RegularOpen

LEMMA ScheduleStep == ScheduleInv /\ ScheduleNext => ScheduleInv'
<1>1. SUFFICES ASSUME ScheduleInv, NEW delay \in Delays, Candidate(delay) PROVE ScheduleInv'
  BY DEF ScheduleNext
<1> DEFINE local == (hour - offset) * 60 + 30
           accepted == Accepted(day[1], day[2], local + delay)
<1>2. /\ day \in DOMAIN Sessions /\ offset \in {4, 5} /\ hour \in Nat
      /\ FirstHour <= hour /\ hour <= LastHour /\ Weekday(day[2]) < 5
      /\ runs \in [Slots -> Nat] /\ late \subseteq Slots
      /\ hour' = hour + 1 /\ day' = day /\ offset' = offset
      /\ runs' = [s \in Slots |-> runs[s] + (IF s \in accepted THEN 1 ELSE 0)]
      /\ late' = IF delay > Grace THEN late \cup {s \in Slots : s = local} ELSE late
  BY <1>1, Hours DEF ScheduleInv, Candidate
<1>3. local \in Int /\ Local(hour) = local /\ Local(hour)' = local + 60 /\ delay \in Nat
  <2>0. delay \in 0..59
    BY ScheduleAssumption
  <2>1. offset \in Int /\ hour \in Int /\ delay \in 0..59
    BY <1>2, <2>0
  <2>2. Local(hour)' = (hour' - offset') * 60 + 30
    BY DEF Local
  <2>3. Local(hour)' = local + 60
    BY <1>2, <2>1, <2>2
  <2>4. QED
    BY <2>1, <2>3 DEF Local
<1>4. \A s \in Slots : /\ s \in Int
                       /\ 0 <= local + delay - s /\ local + delay - s <= Grace
                            <=> s = local /\ delay <= Grace
                       /\ s < local + 60 <=> s <= local
  <2>1. ASSUME NEW s \in Slots
        PROVE  /\ 0 <= local + delay - s /\ local + delay - s <= Grace
                    <=> s = local /\ delay <= Grace
               /\ s < local + 60 <=> s <= local
    BY <1>2, OwnCandidate
  <2>2. Slots \subseteq Int
    BY ScheduleAssumption DEF RegularOpen, RegularClose
  <2> HIDE DEF local
  <2>3. QED
    BY <2>1, <2>2
<1> HIDE DEF local
<1>5. \A s \in Slots : s \in accepted <=>
        s = local /\ delay <= Grace /\ TradingDay(day[1], day[2]) /\ s < CloseOf(day[1], day[2])
  <2>1. SUFFICES ASSUME NEW s \in Slots
                 PROVE  s \in accepted <=> /\ s = local /\ delay <= Grace
                                           /\ TradingDay(day[1], day[2]) /\ s < CloseOf(day[1], day[2])
    OBVIOUS
  <2>2. Weekday(day[2]) + 1 \in Weekdays
    <3>1. day[2] \in Nat
      BY <1>2, ScheduleAssumption
    <3>2. Weekday(day[2]) \in 0..4
      BY <1>2, <3>1 DEF Weekday
    <3>3. QED
      BY <3>2, ScheduleAssumption
  <2>3. s \in accepted <=>
          /\ TradingDay(day[1], day[2]) /\ RegularOpen <= local + delay
          /\ local + delay < CloseOf(day[1], day[2]) /\ s = local /\ delay <= Grace
    <3>1. s \in Due(local + delay) <=> s = local /\ delay <= Grace
      <4>1. (0 <= local + delay - s /\ local + delay - s <= Grace) <=> (s = local /\ delay <= Grace)
        BY <1>4
      <4>2. QED
        BY <1>3, <1>4, <4>1, SMT DEF Due
    <3>2. QED
      BY <2>2, <3>1, Zenon DEF Accepted
  <2>4. QED
    BY <2>3, BeforeClose
<1> HIDE DEF accepted
<1>6. late' \subseteq Slots /\ \A s \in late' : s < Local(hour)'
  BY <1>1, <1>2, <1>3, <1>4 DEF ScheduleInv
<1>7. ASSUME NEW s \in Slots
      PROVE  runs'[s] = IF InTime(s)' /\ TradingDay(day[1], day[2]) /\ s < CloseOf(day[1], day[2])
                        THEN 1 ELSE 0
  <2>1. runs[s] = IF InTime(s) /\ TradingDay(day[1], day[2]) /\ s < CloseOf(day[1], day[2])
                  THEN 1 ELSE 0
    BY <1>1 DEF ScheduleInv
  <2>2. runs'[s] = runs[s] + (IF s \in accepted THEN 1 ELSE 0)
    BY <1>2
  <2>3. CASE s = local /\ delay <= Grace
    <3>1. late' = late /\ s \notin late
      BY <1>1, <1>2, <1>3, <1>4, <2>3, ScheduleAssumption DEF ScheduleInv
    <3>2. ~InTime(s) /\ InTime(s)'
      BY <1>3, <1>4, <2>3, <3>1 DEF InTime
    <3>3. QED
      BY <1>5, <2>1, <2>2, <2>3, <3>2
  <2>4. CASE s = local /\ delay > Grace
    <3>1. ~InTime(s) /\ ~InTime(s)'
      BY <1>2, <1>3, <1>4, <2>4 DEF InTime
    <3>2. s \notin accepted
      BY <1>3, <1>5, <2>4, ScheduleAssumption
    <3>3. QED
      BY <2>1, <2>2, <3>1, <3>2
  <2>5. CASE s # local
    <3>1. InTime(s) <=> InTime(s)'
      BY <1>2, <1>3, <1>4, <2>5 DEF InTime
    <3>2. s \notin accepted
      BY <1>5, <2>5
    <3>3. QED
      BY <2>1, <2>2, <3>1, <3>2
  <2>6. delay <= Grace \/ delay > Grace
    <3>1. Grace \in 0..29 /\ Delays \subseteq 0..59
      BY ScheduleAssumption
    <3>2. delay \in Int /\ Grace \in Int
      BY <1>3, <3>1
    <3>3. QED
      BY <3>2
  <2>7. QED
    BY <2>3, <2>4, <2>5, <2>6
<1>8. runs' \in [Slots -> Nat]
  BY <1>2
<1>9. hour' \in FirstHour..(LastHour + 1)
  BY <1>2, Hours
<1>10. QED
  BY <1>2, <1>6, <1>7, <1>8, <1>9 DEF ScheduleInv

LEMMA ScheduleInvariant == ScheduleSpec => []ScheduleInv
<1>1. ScheduleInv /\ UNCHANGED sched => ScheduleInv'
  BY DEF ScheduleInv, sched, InTime, Local
<1>2. QED
  BY <1>1, ScheduleStarts, ScheduleStep, PTL DEF ScheduleSpec

(* However late the candidates of a day start within their hour, none of   *)
(* its slots is reported twice.                                            *)
THEOREM SlotsRunOnce == ScheduleSpec => []OncePerSlot
<1>1. ScheduleInv => OncePerSlot
  BY DEF ScheduleInv, OncePerSlot
<1>2. QED
  BY <1>1, ScheduleInvariant, PTL

(* If the calendar knows the sessions of the exchange, the slots of a day  *)
(* that have run at its end are those before the close whose candidate was *)
(* not late.                                                               *)
THEOREM SlotsRun ==
  ASSUME CalendarAgrees
  PROVE  ScheduleSpec => []EverySlotRuns
<1>1. ScheduleInv => EverySlotRuns
  <2>1. SUFFICES ASSUME ScheduleInv, hour > LastHour
                 PROVE  \A s \in Slots : runs[s] > 0 <=> s < Sessions[day] /\ s \notin late
    BY DEF EverySlotRuns
  <2>2. TAKE s \in Slots
  <2>3. /\ offset \in {4, 5} /\ day \in DOMAIN Sessions /\ hour = LastHour + 1
        /\ s \in Int /\ RegularOpen <= s
    BY <2>1, Hours, ScheduleAssumption DEF ScheduleInv, RegularOpen, RegularClose
  <2>4. PICK h \in Candidates : s = (h - offset) * 60 + 30
    BY <2>3, ScheduleAssumption
  <2>5. s < Local(hour)
    BY <2>3, <2>4, Hours DEF Local
  <2>6. runs[s] > 0 <=>
          s \notin late /\ TradingDay(day[1], day[2]) /\ s < CloseOf(day[1], day[2])
    BY <2>1, <2>5 DEF ScheduleInv, InTime
  <2>7. Sessions[day] = IF TradingDay(day[1], day[2]) THEN CloseOf(day[1], day[2]) ELSE 0
    BY <2>3 DEF CalendarAgrees
  <2>8. QED
    BY <2>3, <2>6, <2>7 DEF RegularOpen
<1>2. QED
  BY <1>1, ScheduleInvariant, PTL

-----------------------------------------------------------------------------
(* The market data of a report.                                            *)

Names == {"Binance", "OKX", "Yahoo"}
Series == {"1h", "4h", "quote"}

(* A bar of a provider, or one put together from bars of an hour.          *)
Bar == [opens : Int, length : Int, final : BOOLEAN, source : Names]
         \cup [opens : Int, length : Int, source : Names]

(* A bar of a series of provider `name`, asked for by time `at`.           *)
SoundBar(name, s, at, b) ==
  /\ b \in Bar /\ b.source = name /\ b.opens + b.length <= at
  /\ name = "OKX" => b.final
  /\ s = "4h" => b.opens % (4 * Hour) = 0 /\ b.length = 4 * Hour

SoundSeries(name, series, at) ==
  \A s \in DOMAIN series : \A b \in series[s] : SoundBar(name, s, at, b)

(* The providers that have failed when the n-th is asked.                  *)
Tried(n) == SubSeq(Sources, 1, n - 1)

Asked == [Binance |-> {{}, {"1h"}, {"1h", "4h"}}, OKX |-> {{}, {"1h"}, {"1h", "4h"}}, Yahoo |-> {{}}]

SoundEntry ==
  {[failed |-> Sources]}
    \cup {e \in [source : Names, series : UNION {[D -> SUBSET Bar] : D \in SUBSET Series},
                 failed : Seq(Names), at : Nat] :
            /\ SoundSeries(e.source, e.series, e.at)
            /\ \E i \in 1..3 : e.source = Sources[i] /\ e.failed = Tried(i)}

MarketInv ==
  /\ clock \in Nat /\ source \in 1..3 /\ notes = Tried(source)
  /\ DOMAIN got \in Asked[Name] /\ got \in [DOMAIN got -> SUBSET Bar]
  /\ SoundSeries(Name, got, clock)
  /\ data \in Seq(SoundEntry)

LEMMA Providers ==
  /\ Sources[1] = "Binance" /\ Sources[2] = "OKX" /\ Sources[3] = "Yahoo"
  /\ Len(Sources) = 3 /\ Sources \in Seq(Names)
  /\ Tried(1) = <<>> /\ \A i \in 1..3 : Tried(i) \in Seq(Names)
  /\ \A i \in 1..2 : Append(Tried(i), Sources[i]) = Tried(i + 1)
  /\ Append(Tried(3), Sources[3]) = Sources
<1>1. /\ Sources[1] = "Binance" /\ Sources[2] = "OKX" /\ Sources[3] = "Yahoo"
      /\ Len(Sources) = 3 /\ Sources \in Seq(Names)
  BY DEF Sources, Names
<1>2. ASSUME NEW n \in 1..3
      PROVE  /\ SubSeq(Sources, 1, n - 1) \in Seq(Names)
             /\ Append(SubSeq(Sources, 1, n - 1), Sources[n]) = SubSeq(Sources, 1, n)
  <2>1. \A i \in 1..(n - 1) : Sources[i] \in Names
    BY <1>1 DEF Names
  <2>2. SubSeq(Sources, 1, n - 1) \in Seq(Names)
    BY <2>1, SubSeqProperties
  <2>3. SubSeq(Sources, 1, n) = SubSeq(Sources, 1, n - 1) \o <<Sources[n]>>
    BY <1>1, SubSeqRecursiveSecond
  <2>4. Sources[n] \in Names
    BY <1>1 DEF Names
  <2>5. QED
    BY <2>2, <2>3, <2>4, AppendIsConcat
<1>3. SubSeq(Sources, 1, 1 - 1) = <<>>
  BY SubSeqEmpty
<1>4. SubSeq(Sources, 1, 3) = Sources
  BY <1>1, SubSeqFull
<1>5. \A i \in 1..2 : (i + 1) - 1 = i /\ i \in 1..3
  OBVIOUS
<1>6. \A i \in 1..2 : Append(Tried(i), Sources[i]) = Tried(i + 1)
  BY <1>2, <1>5 DEF Tried
<1>7. QED
  BY <1>1, <1>2, <1>3, <1>4, <1>6 DEF Tried

(* The prefix an entry names is the one before its provider.               *)
LEMMA Before ==
  ASSUME NEW i \in 1..3, NEW name, name = Sources[i]
  PROVE  SubSeq(Sources, 1, CHOOSE n \in 0..2 : Sources[n + 1] = name) = Tried(i)
<1>1. i - 1 \in 0..2 /\ Sources[(i - 1) + 1] = name
  OBVIOUS
<1>2. \A n \in 0..2 : Sources[n + 1] = name => n = i - 1
  BY Providers
<1>3. (CHOOSE n \in 0..2 : Sources[n + 1] = name) = i - 1
  BY <1>1, <1>2
<1>4. QED
  BY <1>3 DEF Tried

(* What is asked next, and when a provider has served all its requests.    *)
LEMMA NextRequest ==
  ASSUME MarketInv
  PROVE  /\ Name = "Yahoo" => Wanted = "1h" /\ DOMAIN got = {}
         /\ Name # "Yahoo" => Wanted \in {"1h", "4h", "quote"} /\ Wanted \notin DOMAIN got
         /\ LET asked == DOMAIN got \cup {Wanted} IN
              Len(Requests[Name]) > Cardinality(asked) => asked \in Asked[Name]
         /\ Name \in {"Binance", "OKX", "Yahoo"}
<1>1. Name \in {"Binance", "OKX", "Yahoo"}
  BY Providers DEF MarketInv, Name
<1>2. /\ Cardinality({}) = 0 /\ Cardinality({"1h"}) = 1
      /\ Cardinality({"1h", "4h"}) = 2 /\ Cardinality({"1h", "4h", "quote"}) = 3
  <2>1. Cardinality({}) = 0 /\ IsFiniteSet({})
    BY FS_EmptySet
  <2>2. Cardinality({"1h"}) = 1 /\ IsFiniteSet({"1h"})
    BY FS_Singleton
  <2>3. Cardinality({"1h"} \cup {"4h"}) = 2 /\ IsFiniteSet({"1h"} \cup {"4h"})
    BY <2>2, FS_AddElement
  <2>4. Cardinality(({"1h"} \cup {"4h"}) \cup {"quote"}) = 3
    BY <2>3, FS_AddElement
  <2>5. {"1h"} \cup {"4h"} = {"1h", "4h"} /\ ({"1h"} \cup {"4h"}) \cup {"quote"} = {"1h", "4h", "quote"}
    OBVIOUS
  <2>6. QED
    BY <2>1, <2>2, <2>3, <2>4, <2>5
<1>3. CASE Name = "Yahoo"
  <2>1. DOMAIN got = {} /\ Requests[Name] = <<"1h">>
    BY <1>3 DEF MarketInv, Asked, Requests
  <2>2. Wanted = "1h"
    BY <1>2, <2>1 DEF Wanted
  <2>3. DOMAIN got \cup {Wanted} = {"1h"}
    BY <2>1, <2>2
  <2>4. Len(Requests[Name]) = 1
    BY <2>1
  <2>5. QED
    BY <1>1, <1>2, <1>3, <2>1, <2>2, <2>3, <2>4
<1>4. CASE Name \in {"Binance", "OKX"}
  <2>0. /\ Requests["Binance"] = <<"1h", "4h", "quote">> /\ Requests["OKX"] = <<"1h", "4h", "quote">>
        /\ Asked["Binance"] = {{}, {"1h"}, {"1h", "4h"}} /\ Asked["OKX"] = {{}, {"1h"}, {"1h", "4h"}}
    BY DEF Requests, Asked
  <2>1. /\ DOMAIN got \in {{}, {"1h"}, {"1h", "4h"}} /\ Requests[Name] = <<"1h", "4h", "quote">>
        /\ Asked[Name] = {{}, {"1h"}, {"1h", "4h"}}
    BY <1>4, <2>0 DEF MarketInv
  <2>2. Len(Requests[Name]) = 3
    BY <2>1
  <2>3. CASE DOMAIN got = {}
    <3>1. Wanted = "1h"
      BY <1>2, <2>1, <2>3 DEF Wanted
    <3>2. DOMAIN got \cup {Wanted} = {"1h"}
      BY <2>3, <3>1
    <3>3. QED
      BY <1>1, <1>4, <2>1, <2>3, <3>1, <3>2
  <2>4. CASE DOMAIN got = {"1h"}
    <3>1. Wanted = "4h"
      BY <1>2, <2>1, <2>4 DEF Wanted
    <3>2. DOMAIN got \cup {Wanted} = {"1h", "4h"}
      BY <2>4, <3>1
    <3>3. QED
      BY <1>1, <1>4, <2>1, <2>4, <3>1, <3>2
  <2>5. CASE DOMAIN got = {"1h", "4h"}
    <3>1. Wanted = "quote"
      BY <1>2, <2>1, <2>5 DEF Wanted
    <3>2. DOMAIN got \cup {Wanted} = {"1h", "4h", "quote"}
      BY <2>5, <3>1
    <3>3. QED
      BY <1>1, <1>2, <1>4, <2>1, <2>2, <2>5, <3>1, <3>2
  <2>6. QED
    BY <2>1, <2>3, <2>4, <2>5
<1>5. QED
  BY <1>1, <1>3, <1>4

(* The bars of an answer, and what the loader keeps of them.               *)
LEMMA ClosedBars ==
  ASSUME NEW at \in Nat, NEW later \in Nat, at <= later,
         NEW request \in {"1h", "4h", "quote"}, Name = "Yahoo" => request = "1h",
         Name \in {"Binance", "OKX", "Yahoo"}, NEW bars \in Answers(request, at)
  PROVE  /\ \A b \in Closed(bars, later) : SoundBar(Name, request, later, b)
         /\ Name = "Yahoo" => \A b \in FourHours(Closed(bars, later)) : SoundBar(Name, "4h", later, b)
<1>0. Hour \in Nat \ {0} /\ Served \in Nat \ {0}
  BY MarketAssumption
<1>1. ASSUME NEW length \in Nat, NEW b \in BarsOf(length, at)
      PROVE  /\ b \in [opens : Int, length : Int, final : BOOLEAN, source : Names]
             /\ b.source = Name /\ b.length = length /\ b.opens % length = 0
             /\ b.final <=> b.opens + b.length <= at
  <2>1. PICK o \in {o \in (at - Served * length + 1)..at : o % length = 0} :
          b = [opens |-> o, length |-> length, final |-> o + length <= at, source |-> Name]
    BY <1>1 DEF BarsOf
  <2>2. o \in Int /\ Name \in Names /\ (o + length <= at) \in BOOLEAN
    BY <1>0 DEF Names
  <2>3. b \in [opens : Int, length : Int, final : BOOLEAN, source : Names]
    BY <2>1, <2>2
  <2>4. b.final <=> b.opens + b.length <= at
    BY <2>1, Zenon
  <2>5. QED
    BY <2>1, <2>3, <2>4
<1>2. CASE Name = "Yahoo"
  <2>1. ASSUME NEW b \in bars
        PROVE  /\ b \in Bar /\ b.source = Name /\ b.length = Hour /\ b.opens \in Int
    <3>1. b \in BarsOf(Hour, at) \/ b = Quote(at)
      BY <1>2 DEF Answers
    <3>2. CASE b \in BarsOf(Hour, at)
      BY <1>0, <1>1, <3>2 DEF Bar
    <3>3. CASE b = Quote(at)
      <4>1. b = [opens |-> at, length |-> Hour, final |-> FALSE, source |-> "Yahoo"]
        BY <3>3 DEF Quote
      <4>2. b \in [opens : Int, length : Int, final : BOOLEAN, source : Names]
        BY <1>0, <4>1 DEF Names
      <4>3. QED
        BY <1>2, <4>1, <4>2 DEF Bar
    <3>4. QED
      BY <3>1, <3>2, <3>3
  <2>2. ASSUME NEW b \in Closed(bars, later)
        PROVE  b \in bars /\ b.opens + b.length <= later
    BY <1>2 DEF Closed, OverBy
  <2>3. \A b \in Closed(bars, later) : SoundBar(Name, request, later, b)
    BY <1>2, <2>1, <2>2 DEF SoundBar
  <2>4. ASSUME NEW b \in FourHours(Closed(bars, later))
        PROVE  SoundBar(Name, "4h", later, b)
    <3> DEFINE starts == {c.opens : c \in {c \in Closed(bars, later) : c.opens % Hour = 0}}
    <3>1. PICK o \in starts : /\ o % (4 * Hour) = 0 /\ {o + h * Hour : h \in 1..3} \subseteq starts
                              /\ b = [opens |-> o, length |-> 4 * Hour, source |-> "Yahoo"]
      BY DEF FourHours
    <3>2. o + 3 * Hour \in starts
      <4>1. 3 \in 1..3
        OBVIOUS
      <4>2. o + 3 * Hour \in {o + h * Hour : h \in 1..3}
        BY <4>1
      <4> HIDE DEF starts
      <4>3. QED
        BY <3>1, <4>2
    <3>3. PICK c \in Closed(bars, later) : c.opens = o + 3 * Hour
      BY <3>2
    <3>4. o \in Int
      BY <2>1, <2>2
    <3>5. (o + 3 * Hour) + Hour <= later
      BY <2>1, <2>2, <3>3
    <3>6. o + 4 * Hour <= later
      BY <1>0, <3>4, <3>5
    <3>7. b \in Bar
      BY <1>0, <3>1, <3>4 DEF Bar, Names
    <3>8. QED
      BY <1>2, <3>1, <3>6, <3>7 DEF SoundBar
  <2>5. QED
    BY <2>3, <2>4
<1>3. CASE Name # "Yahoo" /\ request = "quote"
  BY <1>3 DEF Answers, Closed
<1>4. CASE Name # "Yahoo" /\ request \in {"1h", "4h"}
  <2>1. Length[request] = IF request = "1h" THEN Hour ELSE 4 * Hour
    BY <1>4 DEF Length
  <2>2. Length[request] \in Nat
    BY <1>0, <2>1
  <2>3. bars = BarsOf(Length[request], at)
    BY <1>4 DEF Answers
  <2>4. ASSUME NEW b \in Closed(bars, later)
        PROVE  SoundBar(Name, request, later, b)
    <3>1. b \in bars /\ IF Name = "OKX" THEN b.final ELSE b.opens + b.length <= later
      BY DEF Closed, OverBy
    <3>2. /\ b \in [opens : Int, length : Int, final : BOOLEAN, source : Names]
          /\ b.source = Name /\ b.length = Length[request] /\ b.opens % Length[request] = 0
          /\ b.final <=> b.opens + b.length <= at
      BY <1>1, <2>2, <2>3, <3>1
    <3>3. b.opens + b.length <= later /\ (Name = "OKX" => b.final)
      BY <3>1, <3>2
    <3>4. request = "4h" => b.opens % (4 * Hour) = 0 /\ b.length = 4 * Hour
      BY <2>1, <3>2
    <3>5. QED
      BY <3>2, <3>3, <3>4 DEF SoundBar, Bar
  <2>5. QED
    BY <1>4, <2>4
<1>5. QED
  BY <1>2, <1>3, <1>4

LEMMA MarketStarts == MarketInit => MarketInv
<1>1. SUFFICES ASSUME MarketInit PROVE MarketInv
  OBVIOUS
<1>2. clock \in Nat /\ source = 1 /\ notes = <<>> /\ data = <<>> /\ DOMAIN got = {}
  BY <1>1, MarketAssumption DEF MarketInit, NoAnswer
<1>3. Name = "Binance" /\ {} \in Asked["Binance"]
  BY <1>2, Providers DEF Name, Asked
<1>4. got \in [DOMAIN got -> SUBSET Bar]
  BY <1>1, <1>2 DEF MarketInit, NoAnswer
<1>5. QED
  BY <1>2, <1>3, <1>4, Providers DEF MarketInv, SoundSeries

(* A provider that fails leaves the next one to be asked from the start.   *)
LEMMA NextIsTried ==
  ASSUME MarketInv, TryNext, clock' \in Nat
  PROVE  MarketInv'
<1>1. /\ source \in 1..3 /\ notes = Tried(source) /\ data \in Seq(SoundEntry)
      /\ Name = Sources[source] /\ got' = NoAnswer
  BY DEF MarketInv, TryNext, Name
<1>2. /\ DOMAIN got' = {} /\ got' \in [DOMAIN got' -> SUBSET Bar]
  BY <1>1 DEF NoAnswer
<1>3. ASSUME source' \in 1..3 PROVE {} \in Asked[Name']
  <2>1. Name' \in {"Binance", "OKX", "Yahoo"}
    BY <1>3, Providers DEF Name
  <2>2. QED
    BY <2>1 DEF Asked
<1>4. SoundSeries(Name, got, clock)'
  BY <1>2 DEF SoundSeries
<1>5. CASE source < Len(Sources)
  <2>1. source \in 1..2 /\ source' = source + 1 /\ notes' = Append(notes, Name) /\ data' = data
    BY <1>1, <1>5, Providers DEF TryNext
  <2>2. notes' = Tried(source')
    BY <1>1, <2>1, Providers
  <2>3. QED
    BY <1>1, <1>2, <1>3, <1>4, <2>1, <2>2 DEF MarketInv
<1>6. CASE ~(source < Len(Sources))
  <2>1. /\ source = 3 /\ source' = 1 /\ notes' = <<>>
        /\ data' = Append(data, [failed |-> Append(notes, Name)])
    BY <1>1, <1>6, Providers DEF TryNext
  <2>2. Append(notes, Name) = Sources
    BY <1>1, <2>1, Providers
  <2>3. data' \in Seq(SoundEntry)
    <3>1. [failed |-> Sources] \in SoundEntry
      BY DEF SoundEntry
    <3>2. QED
      BY <1>1, <2>1, <2>2, <3>1, AppendProperties
  <2>4. QED
    BY <1>1, <1>2, <1>3, <1>4, <2>1, <2>3, Providers DEF MarketInv
<1>7. QED
  BY <1>5, <1>6

(* A symbol whose series are sound is done.                                *)
LEMMA SymbolDone ==
  ASSUME MarketInv, NEW D \in SUBSET Series, NEW series \in [D -> SUBSET Bar],
         clock' \in Nat, SoundSeries(Name, series, clock'), Done(series)
  PROVE  MarketInv'
<1>1. /\ source \in 1..3 /\ notes = Tried(source) /\ data \in Seq(SoundEntry)
      /\ Name = Sources[source]
      /\ source' = 1 /\ got' = NoAnswer /\ notes' = <<>>
      /\ data' = Append(data, [source |-> Name, series |-> series, failed |-> notes, at |-> clock'])
  BY DEF MarketInv, Done, Name
<1> DEFINE e == [source |-> Name, series |-> series, failed |-> notes, at |-> clock']
<1>2. e \in SoundEntry
  <2>1. Name \in Names /\ notes \in Seq(Names)
    BY <1>1, Providers
  <2>2. series \in UNION {[X -> SUBSET Bar] : X \in SUBSET Series}
    OBVIOUS
  <2>3. e \in [source : Names, series : UNION {[X -> SUBSET Bar] : X \in SUBSET Series},
               failed : Seq(Names), at : Nat]
    BY <2>1, <2>2
  <2>4. /\ SoundSeries(e.source, e.series, e.at)
        /\ e.source = Sources[source] /\ e.failed = Tried(source)
    BY <1>1
  <2> HIDE DEF e
  <2>5. QED
    BY <1>1, <2>3, <2>4 DEF SoundEntry
<1> HIDE DEF e
<1>3. data' \in Seq(SoundEntry)
  BY <1>1, <1>2, AppendProperties DEF e
<1>4. DOMAIN got' = {} /\ got' \in [DOMAIN got' -> SUBSET Bar]
  BY <1>1 DEF NoAnswer
<1>5. Name' = "Binance" /\ {} \in Asked["Binance"]
  BY <1>1, Providers DEF Name, Asked
<1>6. SoundSeries(Name, got, clock)'
  BY <1>4 DEF SoundSeries
<1>7. QED
  BY <1>1, <1>3, <1>4, <1>5, <1>6, Providers DEF MarketInv

LEMMA MarketStep == MarketInv /\ MarketNext => MarketInv'
<1>1. SUFFICES ASSUME MarketInv, MarketNext PROVE MarketInv'
  OBVIOUS
<1>2. CASE ProviderFails
  <2>1. TryNext /\ clock' \in Nat
    BY <1>1, <1>2 DEF ProviderFails, MarketInv
  <2>2. QED
    BY <1>1, <2>1, NextIsTried
<1>3. CASE ProviderServes
  <2>1. PICK before \in Waits, after \in Waits :
          /\ clock' = clock + before + after
          /\ \E bars \in Answers(Wanted, clock + before) :
               LET closed == Closed(bars, clock')
                   answers == [s \in DOMAIN got \cup {Wanted} |-> IF s = Wanted THEN closed ELSE got[s]]
                   hours == [s \in {"1h", "4h"} |-> IF s = "1h" THEN closed ELSE FourHours(closed)]
               IN IF NoBars(closed, FourHours(closed))
                  THEN TryNext
                  ELSE IF Len(Requests[Name]) > Cardinality(DOMAIN answers)
                       THEN got' = answers /\ UNCHANGED <<source, data, notes>>
                       ELSE Done(IF Name = "Yahoo" THEN hours ELSE answers)
    BY <1>3 DEF ProviderServes
  <2>2. PICK bars \in Answers(Wanted, clock + before) :
          LET closed == Closed(bars, clock')
              answers == [s \in DOMAIN got \cup {Wanted} |-> IF s = Wanted THEN closed ELSE got[s]]
              hours == [s \in {"1h", "4h"} |-> IF s = "1h" THEN closed ELSE FourHours(closed)]
          IN IF NoBars(closed, FourHours(closed))
             THEN TryNext
             ELSE IF Len(Requests[Name]) > Cardinality(DOMAIN answers)
                  THEN got' = answers /\ UNCHANGED <<source, data, notes>>
                  ELSE Done(IF Name = "Yahoo" THEN hours ELSE answers)
    BY <2>1
  <2> DEFINE closed == Closed(bars, clock')
             answers == [s \in DOMAIN got \cup {Wanted} |-> IF s = Wanted THEN closed ELSE got[s]]
             hours == [s \in {"1h", "4h"} |-> IF s = "1h" THEN closed ELSE FourHours(closed)]
  <2>3. /\ clock \in Nat /\ clock' \in Nat /\ clock + before \in Nat
        /\ clock <= clock' /\ clock + before <= clock'
    BY <1>1, <2>1, MarketAssumption DEF MarketInv
  <2>4. /\ Name \in {"Binance", "OKX", "Yahoo"} /\ Wanted \in {"1h", "4h", "quote"}
        /\ Name = "Yahoo" => Wanted = "1h"
        /\ Len(Requests[Name]) > Cardinality(DOMAIN got \cup {Wanted})
             => DOMAIN got \cup {Wanted} \in Asked[Name]
    BY <1>1, NextRequest
  <2>5. /\ \A b \in closed : SoundBar(Name, Wanted, clock', b)
        /\ Name = "Yahoo" => \A b \in FourHours(closed) : SoundBar(Name, "4h", clock', b)
    BY <2>3, <2>4, ClosedBars
  <2> HIDE DEF closed
  <2>6. /\ answers \in [DOMAIN got \cup {Wanted} -> SUBSET Bar]
        /\ DOMAIN answers = DOMAIN got \cup {Wanted}
        /\ SoundSeries(Name, answers, clock')
    <3>1. closed \in SUBSET Bar
      BY <2>5 DEF SoundBar
    <3>2. got \in [DOMAIN got -> SUBSET Bar]
      BY <1>1 DEF MarketInv
    <3>3. ASSUME NEW s \in DOMAIN got, NEW b \in got[s] PROVE SoundBar(Name, s, clock', b)
      <4>1. SoundBar(Name, s, clock, b)
        BY <1>1 DEF MarketInv, SoundSeries
      <4>2. b.opens + b.length \in Int
        BY <4>1 DEF SoundBar, Bar
      <4>3. QED
        BY <2>3, <4>1, <4>2 DEF SoundBar
    <3>4. QED
      BY <2>5, <3>1, <3>2, <3>3 DEF SoundSeries
  <2>7. Name = "Yahoo" =>
          /\ hours \in [{"1h", "4h"} -> SUBSET Bar] /\ SoundSeries(Name, hours, clock')
    <3>1. SUFFICES ASSUME Name = "Yahoo"
                   PROVE  hours \in [{"1h", "4h"} -> SUBSET Bar] /\ SoundSeries(Name, hours, clock')
      OBVIOUS
    <3>2. closed \in SUBSET Bar /\ FourHours(closed) \in SUBSET Bar
      BY <2>5, <3>1 DEF SoundBar
    <3>3. QED
      BY <2>4, <2>5, <3>1, <3>2 DEF SoundSeries
  <2>8. DOMAIN got \cup {Wanted} \in SUBSET Series
    <3>1. DOMAIN got \in SUBSET Series
      <4>1. DOMAIN got \in Asked[Name]
        BY <1>1 DEF MarketInv
      <4>2. QED
        BY <2>4, <4>1 DEF Asked, Series
    <3>2. QED
      BY <2>4, <3>1 DEF Series
  <2>9. \/ TryNext
        \/ /\ Len(Requests[Name]) > Cardinality(DOMAIN answers)
           /\ got' = answers /\ UNCHANGED <<source, data, notes>>
        \/ Name = "Yahoo" /\ Done(hours)
        \/ Name # "Yahoo" /\ Done(answers)
    BY <2>2 DEF closed
  <2> HIDE DEF answers, hours
  <2>10. CASE TryNext
    BY <1>1, <2>3, <2>10, NextIsTried
  <2>11. CASE /\ Len(Requests[Name]) > Cardinality(DOMAIN answers)
              /\ got' = answers /\ UNCHANGED <<source, data, notes>>
    <3>1. Name' = Name
      BY <2>11 DEF Name
    <3>2. DOMAIN got' \in Asked[Name] /\ got' \in [DOMAIN got' -> SUBSET Bar]
      BY <2>4, <2>6, <2>11
    <3>3. SoundSeries(Name, got, clock)'
      BY <2>6, <2>11, <3>1 DEF SoundSeries
    <3>4. QED
      BY <1>1, <2>3, <2>11, <3>1, <3>2, <3>3 DEF MarketInv
  <2>12. CASE Name = "Yahoo" /\ Done(hours)
    <3>1. {"1h", "4h"} \in SUBSET Series
      BY DEF Series
    <3>2. QED
      BY <1>1, <2>3, <2>7, <2>12, <3>1, SymbolDone
  <2>13. CASE Name # "Yahoo" /\ Done(answers)
    BY <1>1, <2>3, <2>6, <2>8, <2>13, SymbolDone
  <2>14. QED
    BY <2>9, <2>10, <2>11, <2>12, <2>13
<1>4. QED
  BY <1>1, <1>2, <1>3 DEF MarketNext

LEMMA MarketInvariant == MarketSpec => []MarketInv
<1>1. MarketInv /\ UNCHANGED market => MarketInv'
  BY DEF MarketInv, market, Name, SoundSeries
<1>2. QED
  BY <1>1, MarketStarts, MarketStep, PTL DEF MarketSpec

(* Whatever fails and however long the answers take, the series of a       *)
(* symbol are from the one provider named with them, their bars are over,  *)
(* and the providers tried before it are named.                            *)
THEOREM SeriesAreSound == MarketSpec => []SeriesSound
<1>1. MarketInv => SeriesSound
  <2>1. SUFFICES ASSUME data \in Seq(SoundEntry) PROVE SeriesSound
    BY DEF MarketInv
  <2>2. ASSUME NEW k \in DOMAIN data
        PROVE  \/ data[k] = [failed |-> Sources] /\ "source" \notin DOMAIN data[k]
               \/ /\ "source" \in DOMAIN data[k]
                  /\ SoundSeries(data[k].source, data[k].series, data[k].at)
                  /\ \E i \in 1..3 : data[k].source = Sources[i] /\ data[k].failed = Tried(i)
    <3>1. data[k] \in SoundEntry
      BY <2>1
    <3>2. CASE data[k] = [failed |-> Sources]
      BY <3>2
    <3>3. CASE data[k] # [failed |-> Sources]
      <4>1. /\ data[k] \in [source : Names, series : UNION {[D -> SUBSET Bar] : D \in SUBSET Series},
                            failed : Seq(Names), at : Nat]
            /\ SoundSeries(data[k].source, data[k].series, data[k].at)
            /\ \E i \in 1..3 : data[k].source = Sources[i] /\ data[k].failed = Tried(i)
        BY <3>1, <3>3 DEF SoundEntry
      <4>2. "source" \in DOMAIN data[k]
        BY <4>1
      <4>3. QED
        BY <4>1, <4>2
    <3>4. QED
      BY <3>2, <3>3
  <2>3. \A k \in DOMAIN data : data[k] \in LoadedData <=> "source" \in DOMAIN data[k]
    BY DEF LoadedData
  <2>4. ASSUME NEW d \in LoadedData, NEW s \in DOMAIN d.series, NEW b \in d.series[s]
        PROVE  /\ b.source = d.source
               /\ b.opens + b.length <= d.at
               /\ d.source = "OKX" => b.final
               /\ s = "4h" => b.opens % (4 * Hour) = 0 /\ b.length = 4 * Hour
    <3>1. PICK k \in DOMAIN data : d = data[k] /\ "source" \in DOMAIN data[k]
      BY DEF LoadedData
    <3>2. SoundBar(d.source, s, d.at, b)
      BY <2>2, <3>1 DEF SoundSeries
    <3>3. QED
      BY <3>2 DEF SoundBar
  <2>5. ASSUME NEW k \in DOMAIN data
        PROVE  data[k].failed = IF data[k] \in LoadedData
                                THEN SubSeq(Sources, 1, CHOOSE n \in 0..2 : Sources[n + 1] = data[k].source)
                                ELSE Sources
    <3>1. CASE data[k] = [failed |-> Sources] /\ "source" \notin DOMAIN data[k]
      BY <2>3, <3>1
    <3>2. ASSUME "source" \in DOMAIN data[k], NEW i \in 1..3,
                 data[k].source = Sources[i], data[k].failed = Tried(i)
          PROVE  /\ data[k] \in LoadedData
                 /\ data[k].failed =
                      SubSeq(Sources, 1, CHOOSE n \in 0..2 : Sources[n + 1] = data[k].source)
      BY <2>3, <3>2, Before
    <3>3. QED
      BY <2>2, <3>1, <3>2
  <2>6. QED
    BY <2>4, <2>5 DEF SeriesSound
<1>2. QED
  BY <1>1, MarketInvariant, PTL

=============================================================================
