--------------------------- MODULE MCGuiController ---------------------------
(* A small instance of GuiController for TLC.                               *)
EXTENDS GuiController
=============================================================================
