--------------------------- MODULE MCEventDispatch ---------------------------
(* EventDispatch with client messages, damage events and two windows. *)
EXTENDS EventDispatch

CONSTANTS w1, w2

MCTypes   == {ClientMessage, DamageNotify}
MCWindows == {w1, w2}
=============================================================================
