------------------------------ MODULE MCPings ------------------------------
(* Constant values for TLC: the cast of the Pings runs. *)
EXTENDS Pings

CONSTANTS a, b

Queues == (a :> 2) @@ (b :> 1)
=============================================================================
