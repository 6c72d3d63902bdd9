------------------------------ MODULE MCFocus ------------------------------
(* Constant values for TLC: the cast of the Focus runs. *)
EXTENDS Focus

CONSTANTS home, app, sub, sys

\* The home screen, an application, a modal dialog for it, and a dialog for
\* nothing.
Types ==
  (home :> "Desktop") @@ (app :> "App") @@ (sub :> "Dialog") @@ (sys :> "Dialog")
Targets ==
  (home :> {None}) @@ (app :> {None}) @@ (sub :> {app}) @@ (sys :> {None})
Layers == [c \in Clients |-> {0}]
=============================================================================
