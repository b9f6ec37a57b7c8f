----------------------------- MODULE LlmDecision -----------------------------
(***************************************************************************)
(* app/review/llm_decision.py: the contract an answer of the LLM has to    *)
(* fulfil before it is called a trade.  Prices are integers; texts are     *)
(* reduced to what the checks ask of them.                                 *)
(***************************************************************************)
EXTENDS Integers, Sequences, Functions

CONSTANTS
  RRNum, RRDen,  \* min_rr, as a fraction
  MaxPosition    \* max_position_r

ASSUME DecisionAssumption == RRNum \in Nat \ {0} /\ RRDen \in Nat \ {0} /\ MaxPosition \in Nat

(* What a trade carries; tp2 is 0 when there is none.                      *)
Contract ==
  [direction : {"LONG", "SHORT"}, mode : {"NOW", "LIMIT", "STOP"}, entry : Int,
   low : Int, high : Int, stop : Int, tp1 : Int, tp2 : Int, position : Int]

(* The directions mirror each other: Ahead is "further with the trade".    *)
Ahead(c, x, y) == IF c.direction = "LONG" THEN x < y ELSE y < x

(* The edge of the entry zone at which a fill is worst, and the other one. *)
Near(c) == IF c.direction = "LONG" THEN c.high ELSE c.low
Far(c)  == IF c.direction = "LONG" THEN c.low ELSE c.high

(* Mutant of ExecutionPrice: the price the LLM hopes for.                  *)
ExecutionAtFar(c, current) == IF c.mode = "NOW" THEN current ELSE Far(c)

ExecutionPrice(c, current) == IF c.mode = "NOW" THEN current ELSE Near(c)

Abs(x) == IF x < 0 THEN -x ELSE x

Worth(c, price) ==
  /\ Ahead(c, c.stop, price) /\ Ahead(c, price, c.tp1)
  /\ Abs(c.tp1 - price) * RRDen >= RRNum * Abs(price - c.stop)

(* stop, zone, entry and targets in the order of the direction.            *)
Ordered(c) ==
  /\ c.low <= c.entry /\ c.entry <= c.high
  /\ Ahead(c, c.stop, Far(c)) /\ Ahead(c, Near(c), c.tp1)
  /\ c.tp2 = 0 \/ Ahead(c, c.tp1, c.tp2)

(* NOW: the price is in the zone.  LIMIT: it has yet to come back to it.   *)
(* STOP: it has yet to reach it.                                           *)
ModeFits(c, current) ==
  CASE c.mode = "NOW"   -> c.low <= current /\ current <= c.high
    [] c.mode = "LIMIT" -> Ahead(c, Near(c), current)
    [] c.mode = "STOP"  -> Ahead(c, current, Far(c))

(* validate_decision of a TRADE, as the conjunction of its checks.         *)
PricesAccepted(c, current) ==
  /\ Ordered(c)
  /\ c.position <= MaxPosition
  /\ ModeFits(c, current)
  /\ c.entry = ExecutionPrice(c, current)
  /\ Worth(c, ExecutionPrice(c, current))

-----------------------------------------------------------------------------
(* validate_status_contract.  fields: how many of the fields only a trade  *)
(* has are filled; digits: each text that needs a number has one.          *)
TradeForm(p) ==
  /\ p.fields = "all" /\ p.summary /\ p.digits /\ ~p.reasons
  /\ Len(p.evidence) = 3 /\ IsInjective(p.evidence)

OtherForm(p) ==
  /\ p.fields = "none" /\ p.evidence = <<>> /\ p.summary /\ p.reasons
  /\ p.status = "NO_TRADE" => ~p.vague

(* A payload that is no JSON object is UNPARSED.                         *)
WellFormed(p) ==
  \/ p.status = "TRADE" /\ TradeForm(p)
  \/ p.status \in {"NO_TRADE", "DATA_ERROR"} /\ OtherForm(p)

Valid(p, current) ==
  WellFormed(p) /\ (p.status = "TRADE" => PricesAccepted(p.contract, current))

-----------------------------------------------------------------------------
(* The prices at which an order may be filled while its contract holds.    *)
Fills(c, current) == IF c.mode = "NOW" THEN {current} ELSE c.low..c.high

(* An accepted trade is worth taking wherever in its zone it is filled.    *)
EveryFillIsWorthIt(c, current) ==
  PricesAccepted(c, current) => \A price \in Fills(c, current) : Worth(c, price)
=============================================================================
