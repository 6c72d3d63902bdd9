--------------------------- MODULE HandlerRegistry ---------------------------
(***************************************************************************)
(* What core/mb-wm-main-context.h promises of X event handlers: a handler  *)
(* may be called from its registration to its removal, both of which take  *)
(* effect at once, even while handlers are running and events nest.        *)
(***************************************************************************)
EXTENDS Integers, Sequences

CONSTANT RootWindow  \* the handler of root window messages, never removed

VARIABLES
  issued,      \* ids given out so far
  registered,  \* ids added and not removed
  running      \* handlers that are being called, the innermost last

vars == <<issued, registered, running>>

Init ==
  /\ issued = {}
  /\ registered = {}
  /\ running = << >>

Register(i) ==
  /\ i \in Nat \ issued
  /\ issued' = issued \cup {i}
  /\ registered' = registered \cup {i}
  /\ UNCHANGED running

\* The id of an event type that has no handlers.
Refuse(i) ==
  /\ i \in Nat \ issued
  /\ issued' = issued \cup {i}
  /\ UNCHANGED <<registered, running>>

Unregister(i) ==
  /\ registered' = registered \ {i}
  /\ UNCHANGED <<issued, running>>

Call(i) ==
  /\ i \in registered \cup {RootWindow}
  /\ running' = Append(running, i)
  /\ UNCHANGED <<issued, registered>>

Return ==
  /\ running # << >>
  /\ running' = SubSeq(running, 1, Len(running) - 1)
  /\ UNCHANGED <<issued, registered>>

Next ==
  \/ \E i \in issued' : Register(i) \/ Refuse(i)
  \/ \E i \in registered : Unregister(i)
  \/ \E i \in registered \cup {RootWindow} : Call(i)
  \/ Return

Spec == Init /\ [][Next]_vars
=============================================================================
