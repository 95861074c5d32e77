--------------------------- MODULE MCSignalLogger ---------------------------
(* Instances of SignalLogger for TLC. *)
EXTENDS SignalLogger, TLC

CONSTANTS t1, pay1, pay2, empty
=============================================================================
