----------------------------- MODULE MCWatchdog -----------------------------
(* The two watchdogs of a process for TLC.                                  *)
EXTENDS Watchdog
=============================================================================
