------------------------------ MODULE LlmReport ------------------------------
(***************************************************************************)
(* app/review/llm_protocol_report.py: for every symbol of the watch list,  *)
(* load its data, ask the LLM, check the answer, ask again if it does not  *)
(* pass, and give a part to the sender.  What was loaded is archived when  *)
(* the stream ends, whichever way it ends.                                 *)
(***************************************************************************)
EXTENDS LlmDecision, FiniteSets

CONSTANTS
  NSymbols,  \* the watch list is 1..NSymbols
  Prices,    \* bound: what the data of a symbol may say its price is
  Payloads,  \* bound: what the LLM may answer
  Repairs    \* report.llm_decision.repair_attempts

ASSUME StreamAssumption ==
  /\ NSymbols \in Nat /\ Repairs \in Nat
  /\ Prices \subseteq Nat \ {0}
  /\ \A p \in Payloads :
       /\ p.status \in {"TRADE", "NO_TRADE", "DATA_ERROR", "UNPARSED"}
       /\ p.status = "TRADE" => p.contract \in Contract

VARIABLES
  ready,     \* the LLM is configured and the protocol files are there
  symbol,    \* the symbol being analysed
  pc,        \* where the generator is
  price,     \* item["price"] of the symbol, 0 when its data are not ok
  raw,       \* the answer to be checked, as a sequence of one or none
  chats,     \* requests made for the symbol
  parts,     \* symbol and status of every part given
  traded,    \* history: symbol and contract of the parts that are trades
  snapshot,  \* final_snapshot: the price of every symbol loaded
  over,      \* the stream has ended
  archive    \* where the snapshot has been archived

stream == <<ready, symbol, pc, price, raw, chats, parts, traded, snapshot, over, archive>>

StreamInit ==
  /\ ready \in BOOLEAN /\ symbol = 1 /\ pc = "load" /\ price = 0 /\ raw = <<>> /\ chats = 0
  /\ parts = <<>> /\ traded = {} /\ snapshot = <<>> /\ over = FALSE /\ archive = {}

(* One part, and on to the next symbol.                                    *)
Give(status) ==
  /\ parts' = Append(parts, [symbol |-> symbol, status |-> status])
  /\ symbol' = symbol + 1 /\ pc' = "load" /\ raw' = <<>> /\ chats' = 0
  /\ UNCHANGED <<ready, over, archive>>

(* Mutants of Load: a symbol without data is left out; the price of the    *)
(* symbol before stays in force.                                           *)
LoadSkips(p) ==
  /\ pc = "load" /\ symbol <= NSymbols
  /\ snapshot' = Append(snapshot, p) /\ price' = p
  /\ IF p = 0
     THEN /\ symbol' = symbol + 1
          /\ UNCHANGED <<pc, raw, chats, parts, traded, ready, over, archive>>
     ELSE pc' = "ask" /\ UNCHANGED <<ready, symbol, raw, chats, parts, traded, over, archive>>

LoadKeepsPrice(p) ==
  /\ pc = "load" /\ symbol <= NSymbols
  /\ snapshot' = Append(snapshot, p) /\ price' = IF price = 0 THEN p ELSE price
  /\ IF p = 0 THEN Give("DATA_ERROR") /\ UNCHANGED traded
     ELSE pc' = "ask" /\ UNCHANGED <<ready, symbol, raw, chats, parts, traded, over, archive>>

(* The data of the next symbol, or an error in their place: then there is  *)
(* nothing to ask.                                                         *)
Load(p) ==
  /\ pc = "load" /\ symbol <= NSymbols
  /\ snapshot' = Append(snapshot, p) /\ price' = p
  /\ IF p = 0 THEN Give("DATA_ERROR") /\ UNCHANGED traded
     ELSE pc' = "ask" /\ UNCHANGED <<ready, symbol, raw, chats, parts, traded, over, archive>>

NotReady ==
  /\ pc = "ask" /\ ~ready
  /\ Give("DATA_ERROR")
  /\ UNCHANGED <<price, traded, snapshot>>

(* The first request, or one that quotes the answer that did not pass.     *)
Chat(p) ==
  /\ pc = "ask" /\ ready
  /\ raw' = <<p>> /\ chats' = chats + 1 /\ pc' = "check"
  /\ UNCHANGED <<ready, symbol, price, parts, traded, snapshot, over, archive>>

ChatFails ==
  /\ pc = "ask" /\ ready
  /\ Give("DATA_ERROR")
  /\ UNCHANGED <<price, traded, snapshot>>

(* The answer has passed: it is the decision.                              *)
Accept ==
  /\ pc = "check" /\ Valid(raw[1], price)
  /\ Give(raw[1].status)
  /\ traded' = IF raw[1].status = "TRADE"
               THEN traded \cup {[symbol |-> symbol, contract |-> raw[1].contract]}
               ELSE traded
  /\ UNCHANGED <<price, snapshot>>

MayRepair == chats <= Repairs

Repair ==
  /\ pc = "check" /\ ~Valid(raw[1], price) /\ MayRepair
  /\ pc' = "ask"
  /\ UNCHANGED <<ready, symbol, price, raw, chats, parts, traded, snapshot, over, archive>>

Reject ==
  /\ pc = "check" /\ ~Valid(raw[1], price) /\ ~MayRepair
  /\ Give("DATA_ERROR")
  /\ UNCHANGED <<price, traded, snapshot>>

(* An exception outside the requests, or the end of the watch list: the    *)
(* finally is entered.                                                     *)
Break ==
  /\ pc \in {"load", "check"} /\ pc' = "archive"
  /\ UNCHANGED <<ready, symbol, price, raw, chats, parts, traded, snapshot, over, archive>>

Exhausted ==
  /\ pc = "load" /\ symbol > NSymbols /\ pc' = "archive"
  /\ UNCHANGED <<ready, symbol, price, raw, chats, parts, traded, snapshot, over, archive>>

(* The database first, then the file; an error skips the rest.             *)
Archive(stored) ==
  /\ pc = "archive"
  /\ archive' = IF snapshot = <<>> THEN {} ELSE stored
  /\ pc' = "over" /\ over' = TRUE
  /\ UNCHANGED <<ready, symbol, price, raw, chats, parts, traded, snapshot>>

StreamNext ==
  \/ \E p \in Prices \cup {0} : Load(p)
  \/ NotReady \/ ChatFails \/ \E p \in Payloads : Chat(p)
  \/ Accept \/ Repair \/ Reject \/ Break \/ Exhausted
  \/ \E stored \in {{}, {"database"}, {"database", "file"}} : Archive(stored)

Stream == StreamInit /\ [][StreamNext]_stream

-----------------------------------------------------------------------------
(* Every part that calls for a trade carries a contract that is worth it   *)
(* wherever it is filled, at the price of its own symbol.                  *)
TradesAreWorthIt ==
  \A t \in traded : \A fill \in Fills(t.contract, snapshot[t.symbol]) :
    Worth(t.contract, fill) /\ t.contract.position <= MaxPosition

(* A symbol costs one request and one per repair, and none when its data   *)
(* could not be loaded.                                                    *)
RequestsBounded == chats <= 1 + Repairs /\ (price = 0 => chats = 0)

(* The inductive invariant.  What is being analysed is the symbol loaded   *)
(* last, all symbols before it have their part ...                         *)
PlaceOK ==
  /\ pc \in {"load", "ask", "check", "archive", "over"}
  /\ symbol \in 1..NSymbols + 1 /\ (pc \in {"ask", "check"} => symbol <= NSymbols)
  /\ parts \in Seq([symbol : Nat, status : {"TRADE", "NO_TRADE", "DATA_ERROR"}])
  /\ Len(parts) = symbol - 1
  /\ over <=> pc = "over"

(* ... the price in force is its own ...                                   *)
PriceOK ==
  /\ snapshot \in Seq(Nat) /\ price \in Nat
  /\ pc = "load" => Len(snapshot) = symbol - 1
  /\ pc \in {"ask", "check"} =>
       Len(snapshot) = symbol /\ price = snapshot[symbol] /\ price # 0

(* ... its requests are counted ...                                        *)
AnswerOK ==
  /\ chats \in Nat /\ RequestsBounded
  /\ pc = "load" => chats = 0
  /\ pc = "ask" => chats <= Repairs
  /\ pc = "check" => \E p \in Payloads : raw = <<p>>

(* ... and every trade so far refers to a price in the snapshot.           *)
TradesOK ==
  /\ \A t \in traded : t.symbol \in 1..Len(snapshot)
  /\ TradesAreWorthIt

StreamInv == PlaceOK /\ PriceOK /\ AnswerOK /\ TradesOK

(* The sender gets one part per symbol in the order of the watch list.     *)
Abstract == INSTANCE PartStream
ImplementsStream == Abstract!StreamSpec
=============================================================================
