-------------------------- MODULE ClientLifecycle --------------------------
(***************************************************************************)
(* The life of a client between the X server and the window manager: the   *)
(* handlers of core/mb-window-manager.c for the map, unmap and destroy     *)
(* events, and the part of mb_wm_sync that reparents, maps and unmaps      *)
(* windows (core/mb-wm-client-base.c).                                     *)
(*                                                                         *)
(* Events reach the window manager late and in order.  Reparenting a       *)
(* mapped window makes the X server unmap and map it, so the window manager*)
(* counts the UnmapNotify events it is owed in client->skip_unmaps; any    *)
(* other one means that the application withdrew its window.  An event     *)
(* carries here, in "by", what caused it: the window manager never sees    *)
(* that, only the properties do.                                           *)
(*                                                                         *)
(* One window has at most one client, which stands under the window's      *)
(* name.  The server grab makes mb_wm_sync one step.  A compositor is in   *)
(* use (ENABLE_COMPOSITE), without unredirection.                          *)
(***************************************************************************)
EXTENDS Integers, Sequences, FiniteSets, SequencesExt

CONSTANTS
  Windows,
  Overrides,    \* the override-redirect windows; the others are decorated
  Preexisting,  \* windows that are mapped when the window manager starts
  Messages,     \* the kinds of messages sent for each window
  Desktops,     \* the virtual desktops, 0 among them
  ActivatesNew, \* the compositor activates a client it registers with activate
  MaxQueue      \* bound: nobody adds to a queue of this length

ASSUME LifecycleAssumption ==
  /\ IsFiniteSet(Windows)
  /\ Overrides \subseteq Windows
  /\ Preexisting \subseteq Windows
  /\ Messages \in [Windows -> SUBSET {"SetFullscreen", "ClearFullscreen", "Iconify"}]
  /\ \A w \in Overrides : Messages[w] = {}
  /\ 0 \in Desktops
  /\ ActivatesNew \in BOOLEAN
  /\ MaxQueue \in Nat

VARIABLES
  win,      \* the X server's view of each window
  queue,    \* the events and messages the window manager has not handled
  client,   \* the client of each window
  desktop,  \* wm->active_desktop
  pending   \* wm->sync_type is not 0

vars == <<win, queue, client, desktop, pending>>

-----------------------------------------------------------------------------
(* The X server. *)

\* asked: the application wants it mapped; framed: the parent is the client's frame, else the root.
XWindow(isMapped) ==
  [asked |-> isMapped, exists |-> TRUE, mapped |-> isMapped, framed |-> FALSE,
   frameMapped |-> FALSE]

Viewable(x) == x.mapped /\ (x.framed => x.frameMapped)

Event(type, by) == [type |-> type, by |-> by]

\* The requests on a window, in the middle of which the records r = [x, c, out]
\* of the window, its client and the events caused so far stand.
XMap(r, by) ==
  IF r.x.mapped \/ ~r.x.exists THEN r
  ELSE [r EXCEPT !.x.mapped = TRUE, !.out = Append(@, Event("Map", by))]

XUnmap(r, by) ==
  IF ~r.x.mapped THEN r
  ELSE [r EXCEPT !.x.mapped = FALSE, !.out = Append(@, Event("Unmap", by))]

XReparent(r, toFrame, by) ==
  IF ~r.x.exists THEN r
  ELSE [r EXCEPT !.x.framed = toFrame,
                 !.out = IF r.x.mapped
                         THEN @ \o <<Event("Unmap", by), Event("Map", by)>>
                         ELSE @]

\* Its UnmapNotify finds no client and is left out.
XUnmapFrame(r) == [r EXCEPT !.x.frameMapped = FALSE]

XMapFrame(r) ==
  IF r.x.frameMapped THEN r
  ELSE [r EXCEPT !.x.frameMapped = TRUE, !.out = Append(@, Event("MapFrame", "wm"))]

-----------------------------------------------------------------------------
(* Clients. *)

\* No client.  alive: the object is not freed; listed: it is in wm->clients;
\* stacked: it is on the stack; wanted is priv->mapped; hidden and fullscreen
\* are ewmh_state; hiding is hiding_from_desktop; sync is sync_state.
NoClient ==
  [alive |-> FALSE, listed |-> FALSE, stacked |-> FALSE, realized |-> FALSE,
   wanted |-> FALSE, hidden |-> FALSE, hiding |-> FALSE, fullscreen |-> FALSE,
   confirmed |-> FALSE, skipUnmaps |-> 0, skipMaps |-> 0, desktop |-> 0,
   sync |-> {}]

NewClient(d) ==
  [NoClient EXCEPT !.alive = TRUE, !.listed = TRUE, !.stacked = TRUE, !.desktop = d]

\* mb_wm_client_show
Shown(c) ==
  [c EXCEPT !.wanted = TRUE, !.hidden = FALSE, !.sync = @ \cup {"Visibility"}]

\* mb_wm_client_hide
Hid(c) == [c EXCEPT !.wanted = FALSE, !.sync = @ \cup {"Visibility"}]

\* mb_wm_client_set_state for fullscreen and hidden.
SetFullscreen(c, on) ==
  IF c.fullscreen = on THEN c
  ELSE [c EXCEPT !.fullscreen = on, !.sync = @ \cup {"Fullscreen", "Visibility"}]

SetHidden(c, on) ==
  IF c.hidden = on THEN c
  ELSE IF on THEN Hid([c EXCEPT !.hidden = TRUE]) ELSE Shown(c)

\* mb_wm_client_desktop_change
DesktopChange(c, d) ==
  IF c.desktop = d THEN SetHidden(c, FALSE)
  ELSE SetHidden([c EXCEPT !.hiding = TRUE], TRUE)

\* mb_wm_manage_client, with the activation by the compositor.
Managed(d, activate) ==
  IF activate /\ ActivatesNew THEN Shown(NewClient(d)) ELSE NewClient(d)

-----------------------------------------------------------------------------
(* mb_wm_sync on one window. *)

\* Mutant: every window is taken to be mapped already.
Realize_Counts(r) ==
  IF r.c.realized THEN r
  ELSE [XReparent(r, ~r.c.fullscreen, "reparent")
          EXCEPT !.c.realized = TRUE, !.c.skipUnmaps = @ + 1]

\* mb_wm_client_base_realize; override windows are not realized.
Realize(r) ==
  IF r.c.realized THEN r
  ELSE [XReparent(r, ~r.c.fullscreen, "reparent") EXCEPT !.c.realized = TRUE]

\* Reparenting into the frame counts an unmap event that is owed.
Unfullscreen(r) ==
  XMap(XReparent(XMapFrame([r EXCEPT !.c.skipUnmaps = @ + 1]), TRUE, "reparent"),
       "wm")

\* Mutant: the unmap event is counted even if the window is not mapped.
Fullscreen_Counts(r) ==
  XMap(XUnmapFrame(XReparent([r EXCEPT !.c.skipUnmaps = @ + 1], FALSE, "reparent")),
       "wm")

\* Mutant: the window stays in its frame.
Fullscreen_InFrame(r) == XMap(XUnmapFrame(r), "wm")

\* Reparenting to the root counts one only if the window is mapped.
Fullscreen(r) ==
  XMap(XUnmapFrame(XReparent(
         [r EXCEPT !.c.skipUnmaps = @ + IF Viewable(r.x) THEN 1 ELSE 0],
         FALSE, "reparent")),
       "wm")

FullscreenSync(r) ==
  IF "Fullscreen" \notin r.c.sync \/ ~r.c.wanted THEN r
  ELSE IF r.c.fullscreen THEN Fullscreen(r) ELSE Unfullscreen(r)

\* XMapSubwindows and XUnmapSubwindows reach the window only inside its frame.
VisibilitySync(r) ==
  CASE "Visibility" \notin r.c.sync -> r
    [] "Visibility" \in r.c.sync /\ r.c.wanted ->
         LET s == IF r.c.fullscreen THEN XUnmapFrame(r) ELSE XMapFrame(r)
         IN  IF r.c.fullscreen \/ r.x.framed THEN XMap(s, "wm") ELSE s
    [] OTHER ->
         LET s == IF r.c.fullscreen THEN r ELSE XUnmapFrame(r)
         IN  IF r.c.fullscreen \/ r.x.framed THEN XUnmap(s, "hide") ELSE s

\* realize, then mb_wm_client_display_sync.  The class of override windows has
\* neither method.
Synced(w) ==
  LET r == [x |-> win[w], c |-> client[w], out |-> << >>]
      s == IF ~r.c.stacked \/ w \in Overrides THEN r
           ELSE VisibilitySync(FullscreenSync(Realize(r)))
  IN  [s EXCEPT !.c.sync = {}]

OnWindow(w, es) ==
  [i \in 1..Len(es) |-> [type |-> es[i].type, window |-> w, by |-> es[i].by]]

\* The windows in some order.  How the stack orders the windows decides only
\* how the events of one sync on different windows are mixed.
Sync ==
  /\ pending
  /\ win' = [w \in Windows |-> Synced(w).x]
  /\ client' = [w \in Windows |-> Synced(w).c]
  /\ queue' = queue \o FlattenSeq([i \in 1..Cardinality(Windows) |->
                 LET w == SetToSeq(Windows)[i] IN OnWindow(w, Synced(w).out)])
  /\ pending' = FALSE
  /\ UNCHANGED desktop

-----------------------------------------------------------------------------
(* The handlers of the window manager, one event at a time. *)

Receive(type) == queue # << >> /\ Head(queue).type = type

\* The event is done with, and es are added behind the others.
Done(es) == queue' = Tail(queue) \o es

Becomes(w, c) == client' = [client EXCEPT ![w] = c]

\* mb_wm_client_base_destroy
Released(w) ==
  LET r == [x |-> win[w], c |-> client[w], out |-> << >>]
      s == IF r.c.realized /\ w \notin Overrides THEN XReparent(r, FALSE, "release") ELSE r
  IN  [s EXCEPT !.x.framed = FALSE, !.x.frameMapped = FALSE]

\* Mutant: the client stays on the stack.
Unmanage_KeepsStacked(w) ==
  /\ Becomes(w, [NoClient EXCEPT !.stacked = TRUE])
  /\ win' = [win EXCEPT ![w] = Released(w).x]
  /\ Done(OnWindow(w, Released(w).out))
  /\ pending' = TRUE

\* mb_wm_unmanage_client with destroy.
Unmanage(w) ==
  /\ Becomes(w, NoClient)
  /\ win' = [win EXCEPT ![w] = Released(w).x]
  /\ Done(OnWindow(w, Released(w).out))
  /\ pending' = TRUE

HandleMapRequest ==
  /\ Receive("MapRequest")
  /\ LET w == Head(queue).window
     IN  \/ /\ client[w].stacked
            /\ Becomes(w, Shown(client[w]))
            /\ pending' = TRUE
         \/ /\ ~client[w].stacked
            /\ win[w].exists
            /\ Becomes(w, Managed(desktop, TRUE))
            /\ pending' = TRUE
         \/ /\ ~client[w].stacked
            /\ ~win[w].exists
            /\ UNCHANGED <<client, pending>>
  /\ Done(<< >>)
  /\ UNCHANGED <<win, desktop>>

\* A map that is not owed: the client is confirmed, and its window (not its
\* frame) ends the hiding.  An unknown override window gets a client.
HandleMapNotify ==
  /\ queue # << >>
  /\ Head(queue).type \in {"Map", "MapFrame"}
  /\ LET w == Head(queue).window
         c == client[w]
     IN  \/ /\ c.stacked
            /\ c.skipMaps # 0
            /\ Becomes(w, [c EXCEPT !.skipMaps = @ - 1])
            /\ UNCHANGED pending
         \/ /\ c.stacked
            /\ c.skipMaps = 0
            /\ Becomes(w, [c EXCEPT !.confirmed = TRUE,
                                    !.hiding = @ /\ Head(queue).type = "MapFrame"])
            /\ UNCHANGED pending
         \/ /\ ~c.stacked
            /\ win[w].exists /\ w \in Overrides
            /\ Becomes(w, [Managed(desktop, TRUE) EXCEPT !.confirmed = TRUE])
            /\ pending' = TRUE
         \/ /\ ~c.stacked
            /\ ~(win[w].exists /\ w \in Overrides)
            /\ UNCHANGED <<client, pending>>
  /\ Done(<< >>)
  /\ UNCHANGED <<win, desktop>>

Skipped(c) == [c EXCEPT !.skipUnmaps = @ - 1, !.skipMaps = @ + 1]

\* An unmap that is owed is skipped, and the map that comes with it; any other
\* one withdraws the window, unless it is hidden.
HandleUnmapNotify ==
  /\ Receive("Unmap")
  /\ LET w == Head(queue).window
         c == client[w]
     IN  \/ /\ c.listed
            /\ c.skipUnmaps > 0
            /\ Becomes(w, Skipped(c))
            /\ Done(<< >>)
            /\ UNCHANGED <<win, pending>>
         \/ /\ c.listed
            /\ c.skipUnmaps = 0
            /\ c.hidden
            /\ Becomes(w, [c EXCEPT !.confirmed = FALSE])
            /\ Done(<< >>)
            /\ UNCHANGED <<win, pending>>
         \/ /\ c.listed
            /\ c.skipUnmaps = 0
            /\ ~c.hidden
            /\ Unmanage(w)
         \/ /\ ~c.listed
            /\ Done(<< >>)
            /\ UNCHANGED <<win, client, pending>>
  /\ UNCHANGED desktop

\* A hidden client that is not on another desktop counts as minimised: it is
\* taken off wm->clients and freed, but not taken off the stack.
HandleDestroyNotify ==
  /\ Receive("Destroy")
  /\ LET w == Head(queue).window
         c == client[w]
     IN  \/ /\ c.listed
            /\ c.hidden => c.hiding
            /\ Unmanage(w)
         \/ /\ c.listed
            /\ c.hidden /\ ~c.hiding
            /\ Becomes(w, [c EXCEPT !.alive = FALSE, !.listed = FALSE])
            /\ win' = [win EXCEPT ![w] = Released(w).x]
            /\ Done(<< >>)
            /\ UNCHANGED pending
         \/ /\ ~c.listed
            /\ Done(<< >>)
            /\ UNCHANGED <<win, client, pending>>
  /\ UNCHANGED desktop

\* _NET_WM_STATE with _NET_WM_STATE_FULLSCREEN.
HandleFullscreen ==
  /\ queue # << >>
  /\ Head(queue).type \in {"SetFullscreen", "ClearFullscreen"}
  /\ LET w == Head(queue).window
         c == SetFullscreen(client[w], Head(queue).type = "SetFullscreen")
     IN  IF client[w].listed
         THEN /\ Becomes(w, c)
              /\ pending' = (pending \/ c # client[w])
         ELSE UNCHANGED <<client, pending>>
  /\ Done(<< >>)
  /\ UNCHANGED <<win, desktop>>

\* WM_CHANGE_STATE with IconicState: mb_wm_client_iconize only unmaps.
HandleIconify ==
  /\ Receive("Iconify")
  /\ LET w == Head(queue).window
         r == XUnmap([x |-> win[w], c |-> client[w], out |-> << >>], "iconify")
     IN  IF client[w].listed
         THEN /\ win' = [win EXCEPT ![w] = [r.x EXCEPT !.asked = @ /\ ~win[w].mapped]]
              /\ Done(OnWindow(w, r.out))
         ELSE UNCHANGED win /\ Done(<< >>)
  /\ UNCHANGED <<client, desktop, pending>>

\* _NET_CURRENT_DESKTOP: mb_wm_select_desktop.
HandleDesktop ==
  /\ Receive("Desktop")
  /\ LET d == Head(queue).window
     IN  IF d = desktop THEN UNCHANGED <<client, desktop, pending>>
         ELSE /\ desktop' = d
              /\ client' = [w \in Windows |->
                   IF client[w].stacked THEN DesktopChange(client[w], d) ELSE client[w]]
              /\ pending' = (pending \/ client' # client)
  /\ Done(<< >>)
  /\ UNCHANGED win

\* The compositor or a pager's message activates a client.
Activate(w) ==
  /\ client[w].stacked
  /\ Becomes(w, Shown(client[w]))
  /\ pending' = TRUE
  /\ UNCHANGED <<win, queue, desktop>>

-----------------------------------------------------------------------------
(* Applications and pagers. *)

Room == Len(queue) < MaxQueue

Send(w, es) == Room /\ queue' = queue \o OnWindow(w, es)

\* XMapWindow: the window manager holds the redirect of the root and of frames.
AppMap(w) ==
  /\ win[w].exists /\ ~win[w].asked
  /\ win' = [win EXCEPT ![w].asked = TRUE, ![w].mapped = @ \/ w \in Overrides]
  /\ IF win[w].mapped THEN UNCHANGED queue
     ELSE Send(w, <<Event(IF w \in Overrides THEN "Map" ELSE "MapRequest", "app")>>)
  /\ UNCHANGED <<client, desktop, pending>>

\* XUnmapWindow or XWithdrawWindow; synthetic events are ignored.
AppWithdraw(w) ==
  /\ win[w].asked /\ win[w].mapped
  /\ win' = [win EXCEPT ![w].asked = FALSE, ![w].mapped = FALSE]
  /\ Send(w, <<Event("Unmap", "app")>>)
  /\ UNCHANGED <<client, desktop, pending>>

AppDestroy(w) ==
  /\ win[w].exists
  /\ win' = [win EXCEPT ![w].asked = FALSE, ![w].exists = FALSE, ![w].mapped = FALSE]
  /\ Send(w, (IF win[w].mapped THEN <<Event("Unmap", "app")>> ELSE << >>)
             \o <<Event("Destroy", "app")>>)
  /\ UNCHANGED <<client, desktop, pending>>

\* _NET_WM_STATE and WM_CHANGE_STATE messages, which EWMH and ICCCM have for
\* mapped windows, and _NET_CURRENT_DESKTOP.
Message ==
  /\ \/ \E w \in Windows : \E type \in Messages[w] :
          win[w].mapped /\ Send(w, <<Event(type, "app")>>)
     \/ \E d \in Desktops : Send(d, <<Event("Desktop", "app")>>)
  /\ UNCHANGED <<win, client, desktop, pending>>

-----------------------------------------------------------------------------
\* After mb_wm_manage_preexisting_wins, which found these windows.
InitWith(found) ==
  /\ win = [w \in Windows |-> XWindow(w \in found)]
  /\ queue = << >>
  /\ client = [w \in Windows |->
       IF w \in found
       THEN [Managed(0, FALSE) EXCEPT !.skipUnmaps = 1, !.skipMaps = -1]
       ELSE NoClient]
  /\ desktop = 0
  /\ pending = (found # {})

Init == InitWith(Preexisting)

\* What the window manager does by itself.
Step ==
  \/ Sync
  \/ HandleMapRequest
  \/ HandleMapNotify
  \/ HandleUnmapNotify
  \/ HandleDestroyNotify
  \/ HandleFullscreen
  \/ HandleIconify
  \/ HandleDesktop

Next ==
  \/ Step
  \/ \E w \in Windows :
       \/ AppMap(w)
       \/ AppWithdraw(w)
       \/ AppDestroy(w)
       \/ Activate(w)
  \/ Message

Spec == Init /\ [][Next]_vars

-----------------------------------------------------------------------------
(* Properties. *)

EventTypes == {"Map", "MapFrame", "Unmap", "Destroy", "MapRequest",
               "SetFullscreen", "ClearFullscreen", "Iconify", "Desktop"}

Clients ==
  [alive : BOOLEAN, listed : BOOLEAN, stacked : BOOLEAN, realized : BOOLEAN,
   wanted : BOOLEAN, hidden : BOOLEAN, hiding : BOOLEAN, fullscreen : BOOLEAN,
   confirmed : BOOLEAN, skipUnmaps : Nat, skipMaps : Int, desktop : Desktops,
   sync : SUBSET {"Fullscreen", "Visibility"}]

TypeOK ==
  /\ win \in [Windows -> [asked : BOOLEAN, exists : BOOLEAN, mapped : BOOLEAN, framed : BOOLEAN,
                          frameMapped : BOOLEAN]]
  /\ \A i \in 1..Len(queue) :
       /\ queue[i].type \in EventTypes
       /\ IF queue[i].type = "Desktop" THEN queue[i].window \in Desktops
          ELSE queue[i].window \in Windows
       /\ queue[i].by \in {"app", "wm", "reparent", "release", "hide", "iconify"}
  /\ client \in [Windows -> Clients]
  /\ desktop \in Desktops
  /\ pending \in BOOLEAN

\* No freed client is reachable: a client is on the stack, which every sync and
\* every map event walks, and in wm->clients exactly as long as its object
\* lives.  The stack and the list are left at different places of the code.
NoDanglingClient ==
  \A w \in Windows : client[w].stacked = client[w].alive /\ client[w].listed = client[w].alive

AtRest == queue = << >> /\ ~pending

\* When nothing is left to do, every window that was shown can be seen: however
\* the messages, the pager's activations and the withdrawals are mixed with the
\* syncs, the window ends up mapped, and in the frame only if that is mapped.
ShownIsViewable ==
  AtRest => \A w \in Windows \ Overrides :
              client[w].wanted /\ win[w].exists => Viewable(win[w])

\* When nothing is left to do, no client waits for an unmap or map event that
\* will not come: skip_unmaps and skip_maps are back to zero.
NothingOwed ==
  AtRest => \A w \in Windows :
              client[w].alive => client[w].skipUnmaps = 0 /\ client[w].skipMaps = 0

\* When nothing is left to do, no window of a hidden client is in view.
HiddenIsUnmapped ==
  AtRest => \A w \in Windows \ Overrides :
              client[w].hidden => ~Viewable(win[w])

\* When nothing is left to do, the windows in view are those of the clients that were
\* shown, and of none that is hidden.
ViewAgrees == ShownIsViewable /\ HiddenIsUnmapped

\* When nothing is left to do, w has a client only if its application wants it
\* mapped: its withdrawal was not taken for the window manager's own doing.
Heeded(w) == client[w].alive => win[w].asked

\* Windows the window manager found mapped, or brings back from fullscreen, are
\* counted on to be mapped at that time; their withdrawal may be swallowed.  An
\* override window that is unmapped while its client is on another desktop keeps
\* the client.
EntersOnly(w) ==
  w \notin Preexisting \cup Overrides /\ "ClearFullscreen" \notin Messages[w]

WithdrawnIsUnmanagedInTime == AtRest => \A w \in Windows : EntersOnly(w) => Heeded(w)
=============================================================================
