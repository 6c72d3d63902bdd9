---------------------------- MODULE Compositing ----------------------------
(***************************************************************************)
(* Does the compositor show what applications draw?  The compositor        *)
(* clients of comp-mgr/mb-wm-comp-mgr.c and mb-wm-comp-mgr-clutter.c,      *)
(* added to the life of the clients they belong to: each step of           *)
(* ClientLifecycle is taken together with what it does to them.            *)
(*                                                                         *)
(* A compositor client copies its window's pixmap into a texture.  The X   *)
(* server gives a window a new pixmap whenever it becomes viewable, of     *)
(* which the texture must be told (fetch_texture), and reports drawing     *)
(* once: no more reports come until the damage is subtracted.              *)
(*                                                                         *)
(* The X server, Clutter and the effects of the program that uses the      *)
(* library are external.  Damage reports are not ordered among the other   *)
(* events here, which allows more than the X connection does.  The event   *)
(* filters of the main loop sync after every event.  Compositing stays     *)
(* switched on and windows stay redirected.                                *)
(***************************************************************************)
EXTENDS ClientLifecycle

CONSTANTS
  Ignoring, \* windows whose textures ignore DontUpdate, as all do with EGLX
  Animated, \* windows on which the program runs effects without updates
  Pausing,  \* windows whose damage the program stops tracking for a while
  MaxReports \* bound: applications and program wait while so many reports are unhandled

ASSUME CompositingAssumption ==
  /\ Ignoring \subseteq Windows /\ Animated \subseteq Windows /\ Pausing \subseteq Windows
  /\ MaxReports \in Nat \ {0}

VARIABLE cm  \* the compositor client of each window

cmVars == <<win, queue, client, desktop, pending, cm>>

\* linked: it exists; mapped and waits are the flags Mapped and DontUpdate; paused is
\* damage_handling_off; damage is the damage object; reports counts the window's damage
\* events under way.  A texture is bound to the window's pixmap ("current", or "stale"
\* when the window was drawn on, "skipped" when a drawing was left out), to an "old" one
\* or to none.
NoCm ==
  [linked |-> FALSE, mapped |-> FALSE, waits |-> FALSE, paused |-> FALSE,
   fullscreen |-> FALSE, texture |-> "none", damage |-> "none", reports |-> 0]

InView(w) == Viewable(win[w])
NowViewable(w) == Viewable(win'[w])

-----------------------------------------------------------------------------
(* The X server. *)

\* The windows among the events added behind the first n that were unmapped.
UnmappedAfter(n) ==
  {queue'[i].window : i \in {j \in n + 1 .. Len(queue') : queue'[j].type = "Unmap"}}

\* The compositor client of w after a step of the X server.
Aged(w, n) ==
  [cm[w] EXCEPT !.texture =
     IF @ # "none" /\ (w \in UnmappedAfter(n) \/ ~NowViewable(w)) THEN "old" ELSE @]

Aging(n) == [w \in Windows |-> Aged(w, n)]

\* Drawing is reported if the damage was empty.
Reported(c) ==
  IF c.damage = "empty" THEN [c EXCEPT !.damage = "full", !.reports = @ + 1] ELSE c

Subtracted(c) == [c EXCEPT !.damage = IF @ = "full" THEN "empty" ELSE @]

-----------------------------------------------------------------------------
(* Compositor clients. *)

Registered(c) == IF c.linked THEN c ELSE [NoCm EXCEPT !.linked = TRUE, !.reports = c.reports]
Unregistered(c) == [NoCm EXCEPT !.reports = c.reports]

\* mb_wm_comp_mgr_clutter_fetch_texture: only a viewable window has a pixmap.
Fetched(c, w) ==
  IF c.mapped THEN [c EXCEPT !.texture = IF NowViewable(w) THEN "current" ELSE "none"] ELSE c

\* mb_wm_comp_mgr_clutter_client_track_damage: a new damage object has the whole of the
\* window, if there is anything to be seen of it.
Tracked(c, w) ==
  LET damaged == [c EXCEPT !.paused = FALSE, !.damage = "empty"]
  IN IF c.damage # "none" THEN c
     ELSE Fetched(IF NowViewable(w) THEN Reported(damaged) ELSE damaged, w)

Untracked(c) ==
  [c EXCEPT !.paused = TRUE, !.damage = "none", !.texture = "none"]

\* mb_wm_comp_mgr_map_notify, for the client of w as it was before.
MapNotified(c, w) ==
  LET was == client[w]
      seen == [c EXCEPT !.fullscreen = was.fullscreen]
      bound == CASE was.hiding -> Fetched(seen, w)
                 [] ~was.hiding /\ c.mapped -> seen
                 [] OTHER -> LET m == [seen EXCEPT !.mapped = TRUE]
                             IN Fetched(Tracked(m, w), w)
  IN [bound EXCEPT !.waits = FALSE]

\* Mutant: the texture stays with the pixmap of before.
Configured_NoFetch(c, w) == [c EXCEPT !.fullscreen = client[w].fullscreen]

\* mb_wm_comp_mgr_clutter_client_configure_real
Configured(c, w) ==
  IF c.fullscreen = client[w].fullscreen THEN c
  ELSE Fetched([c EXCEPT !.fullscreen = client[w].fullscreen], w)

\* mb_wm_client_base_display_sync computes the geometry again when fullscreen changed,
\* and tells the compositor of it.
Resized(w) ==
  /\ w \notin Overrides
  /\ client[w].stacked /\ client[w].wanted /\ "Fullscreen" \in client[w].sync

\* Mutant: damage that is not to be shown is not subtracted either.
Repaired_KeepsDamage(c, w) ==
  IF c.paused \/ (c.waits /\ ~(c.mapped /\ w \in Ignoring)) THEN c
  ELSE [Subtracted(c) EXCEPT !.texture = IF @ = "stale" THEN "current" ELSE @]

\* mb_wm_comp_mgr_clutter_handle_damage and repair_real.
Repaired(c, w) ==
  IF c.paused THEN c
  ELSE [Subtracted(c) EXCEPT !.texture =
          IF @ # "stale" THEN @
          ELSE IF c.waits /\ w \notin Ignoring THEN "skipped" ELSE "current"]

-----------------------------------------------------------------------------
(* The window manager. *)

CmSync ==
  /\ Sync
  /\ cm' = [w \in Windows |->
              LET c == Aged(w, Len(queue))
              IN IF Resized(w) /\ c.linked THEN Configured(c, w) ELSE c]

\* The handlers of ClientLifecycle, of which n events are left.
Left == Len(queue) - 1
Receiver == Head(queue).window
CmBecomes(c) == cm' = [Aging(Left) EXCEPT ![Receiver] = c]

CmMapRequest ==
  /\ HandleMapRequest
  /\ CmBecomes(IF client'[Receiver].stacked THEN Registered(cm[Receiver]) ELSE cm[Receiver])

\* Only the map of the window itself is passed on, and only one that is not owed.
CmMapNotify ==
  /\ HandleMapNotify
  /\ LET w == Receiver
         passed == \/ client[w].stacked /\ client[w].skipMaps = 0 /\ Head(queue).type = "Map"
                   \/ ~client[w].stacked /\ client'[w].stacked
     IN CmBecomes(IF passed THEN MapNotified(Registered(cm[w]), w) ELSE cm[w])

\* mb_wm_unmanage_client, or the destruction of the client, unregisters it.
HandleGone ==
  /\ HandleUnmapNotify \/ HandleDestroyNotify
  /\ LET w == Receiver
     IN IF client[w].alive /\ ~client'[w].alive THEN CmBecomes(Unregistered(cm[w]))
        ELSE cm' = Aging(Left)

HandleMessage ==
  /\ HandleFullscreen \/ HandleIconify \/ HandleDesktop
  /\ cm' = Aging(Left)

\* A damage event for a window without a client is let go.
HandleDamage(w) ==
  /\ cm[w].reports > 0
  /\ LET c == [cm[w] EXCEPT !.reports = @ - 1]
     IN cm' = [cm EXCEPT ![w] = IF client[w].listed /\ c.linked THEN Repaired(c, w) ELSE c]
  /\ UNCHANGED <<win, queue, client, desktop, pending>>

CmActivate(w) == Activate(w) /\ UNCHANGED cm

\* With a sync after every event, and after every activation.
Handle ==
  /\ ~pending
  /\ \/ CmMapRequest
     \/ CmMapNotify
     \/ HandleGone
     \/ HandleMessage
     \/ \E w \in Windows : HandleDamage(w) \/ CmActivate(w)

-----------------------------------------------------------------------------
(* Applications, and the program that uses the library. *)

Calm == \A w \in Windows : cm[w].reports < MaxReports

App ==
  /\ Calm
  /\ \/ \E w \in Windows : AppMap(w) \/ AppWithdraw(w) \/ AppDestroy(w)
     \/ Message
  /\ cm' = Aging(Len(queue))

Changes(w, c) ==
  /\ Calm
  /\ c # cm[w]
  /\ cm' = [cm EXCEPT ![w] = c]
  /\ UNCHANGED <<win, queue, client, desktop, pending>>

Draw(w) ==
  /\ InView(w)
  /\ Changes(w, Reported([cm[w] EXCEPT !.texture = IF @ = "current" THEN "stale" ELSE @]))

\* mb_wm_comp_mgr_clutter_client_set_flags and _unset_flags with DontUpdate.
SetDontUpdate(w, on) ==
  /\ w \in Animated /\ cm[w].linked
  /\ Changes(w, [cm[w] EXCEPT !.waits = on])

TrackDamage(w, on) ==
  /\ w \in Pausing /\ cm[w].mapped
  /\ UNCHANGED win
  /\ Changes(w, IF on THEN Tracked(cm[w], w) ELSE Untracked(cm[w]))

CmInit ==
  /\ Init
  /\ cm = [w \in Windows |-> IF client[w].alive THEN Registered(NoCm) ELSE NoCm]

CmNext ==
  \/ CmSync
  \/ Handle
  \/ App
  \/ \E w \in Windows :
       \/ Draw(w)
       \/ \E on \in BOOLEAN : SetDontUpdate(w, on) \/ TrackDamage(w, on)

CmSpec == CmInit /\ [][CmNext]_cmVars

-----------------------------------------------------------------------------
(* Properties. *)

CmTypeOK ==
  /\ TypeOK
  /\ cm \in [Windows ->
       [linked : BOOLEAN, mapped : BOOLEAN, waits : BOOLEAN, paused : BOOLEAN,
        fullscreen : BOOLEAN, texture : {"none", "old", "stale", "skipped", "current"},
        damage : {"none", "empty", "full"}, reports : Nat]]

CmAtRest == AtRest /\ \A w \in Windows : cm[w].reports = 0

\* A compositor client lives as long as its client, and drawing is never lost track of:
\* as long as there is damage, a report of it is under way, without which none would
\* come again (mb_wm_comp_mgr_clutter_handle_damage, ChangeLog 1553).  (Types are
\* checked along.)
DamageHeard ==
  /\ CmTypeOK
  /\ \A w \in Windows :
       /\ cm[w].linked = client[w].alive
       /\ cm[w].damage = "full" => cm[w].reports > 0

\* When nothing is left to do, what can be seen of a client is what its application drew
\* last: however its window was reparented, hidden and mapped again, the texture was
\* bound to the last of its pixmaps.  Only drawing during an effect may be left out,
\* where DontUpdate is not ignored.
Drawn(w) == {"current"} \cup (IF w \in Ignoring THEN {} ELSE {"skipped"})
TexturesCurrent ==
  CmAtRest => \A w \in Windows :
    client[w].stacked /\ client[w].wanted /\ InView(w) /\ ~cm[w].paused
      => cm[w].texture \in Drawn(w)
=============================================================================
