----------------------------- MODULE PartStream -----------------------------
(***************************************************************************)
(* What the report sender relies on: the stream gives one part per symbol, *)
(* in the order of the watch list, and then ends or breaks.                *)
(***************************************************************************)
EXTENDS Integers, Sequences

CONSTANT NSymbols

VARIABLES parts, over   \* the parts given so far; whether the stream ended

StreamInit == parts = <<>> /\ over = FALSE

Part ==
  /\ ~over /\ Len(parts) < NSymbols
  /\ \E status \in {"TRADE", "NO_TRADE", "DATA_ERROR"} :
       parts' = Append(parts, [symbol |-> Len(parts) + 1, status |-> status])
  /\ UNCHANGED over

End == ~over /\ over' = TRUE /\ UNCHANGED parts

StreamSpec == StreamInit /\ [][Part \/ End]_<<parts, over>>
=============================================================================
