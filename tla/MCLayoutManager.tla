--------------------------- MODULE MCLayoutManager ---------------------------
(***************************************************************************)
(* A screen that turns, with a panel of the theme's, an application with   *)
(* decors, its input method and its dialog, a note and a menu.             *)
(***************************************************************************)
EXTENDS LayoutManager

CONSTANTS bar, side, app, keyboard, dialog, note, menu, home, other

MCKind == (bar :> "Panel") @@ (side :> "Panel") @@ (app :> "App") @@ (other :> "App")
          @@ (keyboard :> "Input") @@ (dialog :> "Dialog") @@ (note :> "Note")
          @@ (menu :> "Menu") @@ (home :> "Desktop")

MCCasts == {{bar, side, app, keyboard}, {bar, app, keyboard, dialog},
            {home, bar, other, note}, {home, menu, app, dialog}, {other, keyboard, app}}

MCScreens == <<[width |-> 8, height |-> 6], [width |-> 6, height |-> 8]>>

Bare == [north |-> 0, south |-> 0, west |-> 0, east |-> 0]
Frame == [north |-> 1, south |-> 0, west |-> 0, east |-> 1]
MCDecorated == Clients \cap {app, dialog}
MCDecor == [c \in Clients |-> IF c \in MCDecorated THEN Frame ELSE Bare]

MCOpening ==
  [c \in Clients |->
     CASE c = bar -> {Rect(0, 0, 4, 1), Rect(2, 5, 3, 1)}
       [] c = side -> {Rect(1, 0, 2, 1)}
       [] c \in {app, other, home} -> {Rect(0, 0, 3, 3)}
       [] c = keyboard -> {Rect(0, 3, 4, 1)}
       [] c = dialog -> {Rect(0, 0, 2, 2), Rect(7, 4, 3, 3)}
       [] c = note -> {Rect(5, 1, 2, 2)}
       [] c = menu -> {Rect(6, 4, 3, 3)}]

MCWanted ==
  [c \in Clients |->
     CASE c = bar -> {Rect(1, 4, 2, 1)}
       [] c \in {app, other} -> {Rect(0, 0, 8, 6)}
       [] c = keyboard -> {Rect(0, 3, 4, 2)}
       [] c = dialog -> {Rect(6, 0, 2, 3), Rect(-1, 2, 9, 9)}
       [] OTHER -> {}]

MCFor == [c \in Clients |-> IF c \in {keyboard, dialog} THEN app ELSE NULL]
MCGravity == [c \in Clients |-> IF c = note THEN "South" ELSE "Center"]
MCPrescribed ==
  [c \in Clients |->
     IF c = side
     THEN [hints |-> {"EdgeEast"}, geometry |-> Rect(-1, -1, 1, -1)]
     ELSE [hints |-> {}, geometry |-> Rect(-1, -1, -1, -1)]]
=============================================================================
