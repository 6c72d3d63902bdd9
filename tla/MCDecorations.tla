--------------------------- MODULE MCDecorations ---------------------------
(* Constant values for TLC: the cast of the Decorations runs. *)
EXTENDS Decorations

CONSTANTS app, dialog
=============================================================================
