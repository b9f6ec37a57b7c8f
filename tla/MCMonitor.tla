------------------------------ MODULE MCMonitor ------------------------------
(* Hours are scaled down: a hold of 2 and a cooldown of 2 leave room, in 7  *)
(* hours, for a trade, its time stop, a re-entry and the outcome of both.   *)
EXTENDS MonitorInvariant
=============================================================================
