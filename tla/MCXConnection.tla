--------------------------- MODULE MCXConnection ----------------------------
(* Constant values for TLC: what the windows of XConnection are like. *)
EXTENDS XConnection

CONSTANTS w1

\* A window without a type that changes its title and stops being a live
\* background.
Plain ==
  [k \in ToSet(Asked) |->
     CASE k = "ATTR" -> FALSE [] k = "GEOMETRY" -> Screen
       [] k = "NET_STATE" -> {} [] k = "LIVE_BACKGROUND" -> 1 [] OTHER -> None]
Changes == ("NAME_UTF8" :> {"title"}) @@ ("LIVE_BACKGROUND" :> {None})

\* A key with a modifier that is also the one of Num Lock, and keys that cannot
\* be bound: one the keyboard does not have, one with a modifier it lacks.
Wanted ==
  {[names |-> {"alt", "mod2"}, keysym |-> "F1"], [names |-> {}, keysym |-> "F9"],
   [names |-> {"ctrl"}, keysym |-> "F1"], [names |-> {"hyper"}, keysym |-> "F1"]}
Keyboard == [Alt |-> {}, Meta |-> {"Mod1"}, NumLock |-> {"Mod2"}, ScrollLock |-> {}]
=============================================================================
