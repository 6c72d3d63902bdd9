----------------------------- MODULE MCStackList -----------------------------
(* StackList with three applications, a desktop and a panel. *)
EXTENDS StackList, TLC

CONSTANTS a1, a2, a3, d, p

MCClients    == {a1, a2, a3, d, p}
MCClientType == (a1 :> "App") @@ (a2 :> "App") @@ (a3 :> "App")
                @@ (d :> "Desktop") @@ (p :> "Panel")
MCCycled     == {"App"}
MCFollowed   == {"App", "Desktop"}
=============================================================================
