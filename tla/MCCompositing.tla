--------------------------- MODULE MCCompositing ---------------------------
(***************************************************************************)
(* Casts for TLC, one of which takes part in a behaviour: a and b are      *)
(* applications on one desktop, whose textures ignore DontUpdate or not    *)
(* and of which a comes back from fullscreen; o is an override window; p   *)
(* is an application while the user goes to and fro between two desktops.  *)
(***************************************************************************)
EXTENDS Compositing, TLC

CONSTANTS a, b, p, o

VARIABLE cast

MCMessages ==
  (a :> {"SetFullscreen", "ClearFullscreen"}) @@ (b :> {"SetFullscreen", "Iconify"})
  @@ (p :> {}) @@ (o :> {})

MCInit ==
  /\ cast \in {{a}, {b}, {p}, {o}}
  /\ InitWith(Preexisting \cap cast)
  /\ cm = [w \in Windows |-> IF client[w].alive THEN Registered(NoCm) ELSE NoCm]

\* With two desktops everything comes to rest before the application or the user does
\* something again: a map that is still under way would clear hiding_from_desktop,
\* without which the window is not composited again.
FromApp(q) == Cardinality({i \in DOMAIN q : q[i].by = "app"})
Turns(q) == {i \in DOMAIN q : q[i].type = "Desktop"}

MCNext ==
  /\ CmNext
  /\ UNCHANGED cast
  /\ \A w \in Windows \ cast : win'[w] = win[w] /\ client'[w] = client[w]
  /\ cast # {p} => Turns(queue') = {}
  /\ cast = {p} /\ FromApp(queue') > FromApp(queue) => AtRest

MCSpec == MCInit /\ [][MCNext]_<<cmVars, cast>>
=============================================================================
