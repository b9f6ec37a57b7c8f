----------------------------- MODULE MCReporter -----------------------------
(* Two symbols and two channels: an opportunity can be shown on one channel *)
(* and missing on the other, next to a symbol that fails.                   *)
EXTENDS ReporterInvariant
=============================================================================
