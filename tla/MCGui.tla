------------------------------- MODULE MCGui -------------------------------
(* Small instances of Gui. *)
EXTENDS Gui, TLC
=============================================================================
