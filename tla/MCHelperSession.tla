--------------------------- MODULE MCHelperSession ---------------------------
(* Overlapping exchanges for TLC: one whose client may hang, one whose      *)
(* helper may.                                                              *)
EXTENDS HelperSession
=============================================================================
