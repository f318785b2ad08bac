-------------------------- MODULE MCConsoleSignal --------------------------
(***************************************************************************)
(* The constants of the run of ConsoleSignal.                              *)
(***************************************************************************)
EXTENDS ConsoleSignal

MCThreads == Guards \cup Users \cup Signals
=============================================================================
