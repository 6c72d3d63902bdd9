------------------------- MODULE MCClientLifecycle -------------------------
(***************************************************************************)
(* Constant values for TLC: two applications on one desktop, of which both *)
(* go fullscreen and one comes back; or a window found at startup and an   *)
(* override window on two desktops.  A behaviour keeps its cast.           *)
(***************************************************************************)
EXTENDS ClientLifecycle, TLC

CONSTANTS a, b, p, o

VARIABLE cast

MCMessages ==
  (a :> {"SetFullscreen", "Iconify"}) @@ (b :> {"SetFullscreen", "ClearFullscreen"})
  @@ (p :> {"Iconify"}) @@ (o :> {})

NoMessages == a :> {}

MCInit ==
  \/ cast = {a, b} /\ InitWith({})
  \/ cast = {p, o} /\ Init

MCNext ==
  /\ Next
  /\ UNCHANGED cast
  /\ \A w \in Windows \ cast : win'[w] = win[w]
  /\ cast = {a, b} => \A i \in DOMAIN queue' : queue'[i].type # "Desktop"

MCSpec == MCInit /\ [][MCNext]_<<vars, cast>>

\* Every window, on all desktops.
AllSpec == cast = Windows /\ Init /\ [][Next /\ UNCHANGED cast]_<<vars, cast>>

\* No freed client is on the stack or in wm->clients as long as there is only one
\* desktop, on which no client is hidden: mb_wm_handle_destroy_notify frees a hidden
\* one on the stack.  (The types of all records are checked along.)
NoDanglingOnOneDesktop == TypeOK /\ (cast = {a, b} => NoDanglingClient)
=============================================================================
