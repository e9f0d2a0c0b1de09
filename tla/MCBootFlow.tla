----------------------------- MODULE MCBootFlow -----------------------------
(* Small instances of BootFlow for TLC. *)
EXTENDS BootFlow
=============================================================================
