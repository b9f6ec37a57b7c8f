------------------------------ MODULE MCSignals ------------------------------
(* One of two who write the table "signals": the manager who moves the     *)
(* rows of two plans along with the prices, or the monitor with two        *)
(* strategies that trade, and one that only observes, in one cluster with  *)
(* room for one full position.                                             *)
EXTENDS MCSignalLifecycle, Monitor

VARIABLE which

SignalsInit == which \in {"LIFECYCLE", "MONITOR"} /\ LifecycleInit /\ Init
SignalsNext ==
  /\ UNCHANGED which
  /\ \/ which = "LIFECYCLE" /\ LifecycleNext /\ UNCHANGED vars
     \/ which = "MONITOR" /\ Next /\ UNCHANGED lifecycle
SignalsSpec == SignalsInit /\ [][SignalsNext]_<<which, lifecycle, vars>>
=============================================================================
