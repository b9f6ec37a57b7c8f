----------------------------- MODULE PaperTrade -----------------------------
(***************************************************************************)
(* What the paper-trade ledger promises, whatever candles arrive: a trade  *)
(* is opened once, may be confirmed once (TP1, after which it can no       *)
(* longer lose), and reaches at most one outcome, which is final.  A win   *)
(* or a breakeven is recorded only for a confirmed trade, a loss or a time *)
(* stop only for one that was not.                                         *)
(***************************************************************************)
CONSTANT Signals

VARIABLE trade    \* Signals -> the trade's place in its life

Phases == {"absent", "open", "confirmed", "won", "flat", "lost", "timedOut"}

TradeTypeOK == trade \in [Signals -> Phases]

TradeInit == trade = [s \in Signals |-> "absent"]

Move(s, from, to) == trade[s] = from /\ trade' = [trade EXCEPT ![s] = to]

Open(s)    == Move(s, "absent", "open")
Confirm(s) == Move(s, "open", "confirmed")
Lose(s)    == Move(s, "open", "lost")
TimeOut(s) == Move(s, "open", "timedOut")
Win(s)     == Move(s, "confirmed", "won")
Flatten(s) == Move(s, "confirmed", "flat")

TradeNext == \E s \in Signals : \/ Open(s) \/ Confirm(s) \/ Lose(s)
                                \/ TimeOut(s) \/ Win(s) \/ Flatten(s)

TradeSpec == TradeInit /\ [][TradeNext]_trade
=============================================================================
