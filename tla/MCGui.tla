------------------------------- MODULE MCGui -------------------------------
(* Gui as TLC runs it: the configurations give the bounds.                  *)
EXTENDS Gui
=============================================================================
