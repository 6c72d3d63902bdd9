---------------------------- MODULE LayoutManager ----------------------------
(***************************************************************************)
(* Who decides where a window is.  Applications map windows, ask to be     *)
(* configured and go away; the user minimizes them; the screen turns.  The *)
(* window manager keeps two rectangles for each client, the window and the *)
(* frame, lays the clients out again in mb_wm_sync when a sync of the      *)
(* geometry is queued, and only then moves the windows of the X server.    *)
(*                                                                         *)
(* The stack is the order of mapping: what WindowStack does to it is not   *)
(* repeated here, every order of mapping is.  No client of the model is in *)
(* a window group or asks for portrait.                                    *)
(***************************************************************************)
EXTENDS Layout, FiniteSets

CONSTANTS Clients,
          Casts,       \* the sets of windows that live together in a behaviour
          Opening,     \* the rectangles a window may be mapped with
          Wanted,      \* the rectangles an application may ask for
          For,         \* the window a window is transient for, or NULL
          Prescribed,  \* what the theme says of a panel: [hints, geometry]
          Gravity,     \* win->gravity of a note
          CanFill,     \* the clients that go to fullscreen and back
          CanHide,     \* the clients that the user minimizes
          Screens,     \* the sizes of the screen, the first one first
          SyncsAtOnce, \* the main loop syncs after each event, not after a batch
          MaxAsks, MaxMaps

ASSUME LayoutAssumption ==
  /\ NULL \notin Clients
  /\ Kind \in [Clients -> {"App", "Desktop", "Dialog", "Note", "Panel", "Input", "Menu"}]
  /\ Decor \in [Clients -> [north : Int, south : Int, west : Int, east : Int]]
  /\ For \in [Clients -> Clients \cup {NULL}]
  /\ \A c \in Clients : Opening[c] \cup Wanted[c] \subseteq Rects
  /\ Prescribed \in [Clients -> [hints : SUBSET AllHints, geometry : Rects]]
  /\ Screens \in Seq([width : Int, height : Int]) /\ Screens # << >>

VARIABLES screen,   \* wm->xdpy_width, xdpy_height
          order,    \* wm->stack_bottom and up
          clients,  \* the records of the managed clients
          sync,     \* wm->sync_type
          server,   \* where the X server has the frame (or the window) and the window in it
          asked,    \* ConfigureRequests not answered by a ConfigureNotify
          asks, maps, turns   \* counters that bound the model

vars == <<screen, order, clients, sync, server, asked, asks, maps, turns>>

Managed == DOMAIN clients
Nowhere == Rect(0, 0, 0, 0)
Init ==
  /\ screen = Screens[1]
  /\ order = << >>
  /\ clients = << >>
  /\ sync = {}
  /\ server = << >>
  /\ asked = {}
  /\ asks = 0
  /\ \E cast \in Casts : maps = [c \in Clients |-> IF c \in cast THEN 0 ELSE MaxMaps]
  /\ turns = 0

\* The main loop handles the next event.
Idle == SyncsAtOnce => sync = {}

(***************************************************************************)
(* A window is mapped: mb_wm_client_init and the init of its type.         *)
(***************************************************************************)

\* mb_wm_client_init: the geometry is dirty, whatever the type.
Fresh(g, t) ==
  [window |-> g, frame |-> Nowhere, framed |-> FALSE, full |-> FALSE, hints |-> {},
   parent |-> t, dirty |-> {"Geometry"}, mapped |-> TRUE, realized |-> FALSE, x |-> g]

AppInit(r, c) == [r EXCEPT !.hints = {"Grow"}]

DesktopInit(r, c) ==
  DesktopRequest([r EXCEPT !.hints = {"Fullscreen"}], c,
                 Rect(0, 0, screen.width, screen.height), "Forced")

InputInit(r, c) == [r EXCEPT !.hints = {"South"}]

\* A dialog at the origin is moved to the middle of the screen.
DialogInit(r, c) ==
  LET g == r.window
      at == IF Kind[c] = "Dialog" /\ g.x = 0 /\ g.y = 0
            THEN [g EXCEPT !.x = (screen.width - g.width) \div 2,
                           !.y = (screen.height - g.height) \div 2]
            ELSE g
      placed == [r EXCEPT !.hints = {"Free", "Movable"}, !.window = at]
  IN DialogRequest(placed, c, [Around(c, at) EXCEPT !.x = at.x, !.y = at.y], "Forced")

\* A note is a dialog that stays on the screen, at the edge its gravity names.
NoteInit(r, c) ==
  LET d == DialogInit(r, c)
      right == screen.width - d.frame.width
      bottom == screen.height - d.frame.height
      x == CASE Gravity[c] \in {"East", "SouthEast"} -> right
             [] Gravity[c] = "West" -> 0
             [] OTHER -> IF d.frame.x >= screen.width THEN right ELSE d.frame.x
      y == CASE Gravity[c] \in {"South", "SouthEast"} -> bottom
             [] Gravity[c] = "North" -> 0
             [] OTHER -> IF d.frame.y >= screen.height THEN bottom ELSE d.frame.y
  IN DialogRequest(d, c, [d.frame EXCEPT !.x = x, !.y = y], "Forced")

\* mb_wm_theme_get_client_layout_hints, which mb_wm_client_init calls, and
\* mb_wm_theme_get_client_geometry: what the theme does not say is negative.  A theme
\* prescribes by client type; a product may have types of its own.
ThemeHints(c) == Prescribed[c].hints
ThemeGeometry(c, g) ==
  [f \in Fields |-> IF Prescribed[c].geometry[f] < 0 THEN g[f] ELSE Prescribed[c].geometry[f]]

\* A panel is where the theme says, or at the edge its shape and place suggest.
PanelInit(r, c) ==
  LET g == ThemeGeometry(c, r.window)
      edge == IF g.width > g.height
              THEN IF g.y < screen.height \div 2 THEN "EdgeNorth" ELSE "EdgeSouth"
              ELSE IF g.x < screen.width \div 2 THEN "EdgeWest" ELSE "EdgeEast"
  IN [r EXCEPT !.window = g,
               !.hints = IF ThemeHints(c) = {} THEN {edge} ELSE ThemeHints(c)]

MenuInit(r, c) ==
  MenuRequest([r EXCEPT !.hints = {"Free", "FixedX", "FixedY"}], c,
              Around(c, r.window), "Forced", screen)

Opened(c, g) ==
  LET r == Fresh(g, IF For[c] \in Managed THEN For[c] ELSE NULL)
  IN CASE Kind[c] = "App" -> AppInit(r, c)
       [] Kind[c] = "Desktop" -> DesktopInit(r, c)
       [] Kind[c] = "Dialog" -> DialogInit(r, c)
       [] Kind[c] = "Note" -> NoteInit(r, c)
       [] Kind[c] = "Panel" -> PanelInit(r, c)
       [] Kind[c] = "Input" -> InputInit(r, c)
       [] Kind[c] = "Menu" -> MenuInit(r, c)

\* An application links the transients that were mapped before it.
Adopted(c, d) ==
  IF Kind[c] = "App" /\ For[d] = c THEN [clients[d] EXCEPT !.parent = c] ELSE clients[d]

HandleMapRequest(c, g) ==
  /\ Idle
  /\ c \notin Managed
  /\ maps[c] < MaxMaps
  /\ clients' = [d \in Managed \cup {c} |-> IF d = c THEN Opened(c, g) ELSE Adopted(c, d)]
  /\ order' = Append(order, c)
  /\ sync' = sync \cup {"Geometry", "Visibility"}
  /\ server' = [d \in Managed \cup {c} |->
                  IF d = c THEN [top |-> g, inner |-> g] ELSE server[d]]
  /\ maps' = [maps EXCEPT ![c] = @ + 1]
  /\ UNCHANGED <<screen, asked, asks, turns>>

(***************************************************************************)
(* Requests and changes.                                                   *)
(***************************************************************************)

\* Whatever becomes of the request, an answer is owed.
HandleConfigureRequest(c, g) ==
  /\ Idle
  /\ c \in Managed
  /\ asks < MaxAsks
  /\ LET r == Requested([clients[c] EXCEPT !.dirty = @ \cup {"Ack"}], c, g, "Configure", screen)
     IN /\ clients' = [clients EXCEPT ![c] = r]
        /\ sync' = sync \cup {"Ack"} \cup (r.dirty \cap {"Geometry"})
  /\ asked' = asked \cup {c}
  /\ asks' = asks + 1
  /\ UNCHANGED <<screen, order, server, maps, turns>>

\* _NET_WM_STATE: mb_wm_client_set_state and mb_wm_client_fullscreen_mark_dirty.
HandleFullscreen(c) ==
  /\ Idle
  /\ c \in Managed \cap CanFill
  /\ clients' = [clients EXCEPT ![c].full = ~@,
                                ![c].dirty = @ \cup {"Fullscreen", "Geometry", "Visibility"}]
  /\ sync' = sync \cup {"Fullscreen", "Geometry", "Visibility", "Stacking"}
  /\ UNCHANGED <<screen, order, server, asked, asks, maps, turns>>

\* mb_wm_client_hide and, on activation, mb_wm_client_show.
SetMapped(c, on) ==
  /\ Idle
  /\ c \in Managed \cap CanHide
  /\ clients[c].mapped # on
  /\ clients' = [clients EXCEPT ![c].mapped = on, ![c].dirty = @ \cup {"Visibility"}]
  /\ sync' = sync \cup {"Visibility"} \cup (IF on THEN {"Stacking"} ELSE {})
  /\ UNCHANGED <<screen, order, server, asked, asks, maps, turns>>

Hide(c) == SetMapped(c, FALSE)
Show(c) == SetMapped(c, TRUE)

\* The client is unmanaged and destroyed.  The geometry is synced if it was one that
\* took room; mb_wm_client_input_detransitise compares a type with App|Dialog, which
\* no client has, and so gives nothing back to the parent.
HandleUnmap(c) ==
  /\ Idle
  /\ c \in Managed
  /\ clients' = [d \in Managed \ {c} |->
                   IF clients[d].parent = c THEN [clients[d] EXCEPT !.parent = NULL]
                   ELSE clients[d]]
  /\ order' = RemoveAt(order, CHOOSE i \in DOMAIN order : order[i] = c)
  /\ sync' = sync \cup {"Stacking"}
                  \cup (IF Kind[c] \in {"Panel", "Input"} THEN {"Geometry"} ELSE {})
  /\ server' = [d \in Managed \ {c} |-> server[d]]
  /\ asked' = asked \ {c}
  /\ UNCHANGED <<screen, asks, maps, turns>>

\* ConfigureNotify of the root window.
HandleRootConfigNotify ==
  /\ Idle
  /\ turns + 1 < Len(Screens)
  /\ screen' = Screens[turns + 2]
  /\ sync' = sync \cup {"Geometry"}
  /\ turns' = turns + 1
  /\ UNCHANGED <<order, clients, server, asked, asks, maps>>

(***************************************************************************)
(* mb_wm_sync: the layout, the frames, then each client that is dirty.     *)
(***************************************************************************)

\* mb_wm_client_base_realize and the realize of panels and inputs; the window is
\* reparented to the corner of its frame or of the root window.
Realized(cs) ==
  [c \in Managed |->
     [cs[c] EXCEPT !.realized = TRUE,
                   !.framed = Kind[c] \notin {"Panel", "Input"} /\ c \in Decorated]]
Reparented(c, r) ==
  IF clients[c].realized THEN server[c]
  ELSE [top |-> IF r.framed /\ ~r.full THEN r.frame
                ELSE [server[c].inner EXCEPT !.x = 0, !.y = 0],
        inner |-> [server[c].inner EXCEPT !.x = 0, !.y = 0]]

\* The change of fullscreen in mb_wm_client_base_display_sync: the window moves
\* between its frame and the root, and the geometry is computed again.
Refilled(c, r) ==
  IF "Fullscreen" \in r.dirty THEN Requested(r, c, r.frame, "Forced", screen) ELSE r

\* Where the window belongs: in its frame, or in the root window when fullscreen.
Place(r) ==
  IF r.full \/ ~r.framed THEN r.window
  ELSE [r.window EXCEPT !.x = @ - r.frame.x, !.y = @ - r.frame.y]

\* Mutant: every request is answered by hand.
Answers_Always(r) == "Ack" \in r.dirty

\* move_resize_client_xwin: a move that changes nothing is answered by hand.
Answers(r) == "Ack" \in r.dirty /\ Place(r) = r.x

Applies(r) == r.mapped /\ "Geometry" \in r.dirty

\* The server after the sync of a client, and whether the client heard of it.
Moved(c, r, s) ==
  LET reparents == "Fullscreen" \in r.dirty /\ r.mapped /\ r.framed
      from == IF reparents THEN [s EXCEPT !.inner.x = 0, !.inner.y = 0] ELSE s
      inner == IF Answers(r) THEN from.inner ELSE Place(r)
      top == IF r.full \/ ~r.framed THEN inner ELSE r.frame
  IN IF Applies(r)
     THEN [server |-> [top |-> top, inner |-> inner],
           told |-> Answers(r) \/ inner # from.inner]
     ELSE [server |-> from, told |-> "Ack" \in r.dirty]

\* window->x_geometry remembers the last move; sync_state is cleared in any case.
Synced(r) ==
  [r EXCEPT !.x = IF Applies(r) /\ ~Answers(r) THEN Place(r) ELSE @, !.dirty = {}]

\* The clients as the layout leaves them.
Laid == IF "Geometry" \in sync THEN Updated(clients, order, screen) ELSE clients

\* First every client that changes between its frame and the root window is laid out
\* for it, then each one's windows are moved.
Refreshed(cs) == [c \in Managed |-> Refilled(c, cs[c])]
SyncDisplay(cs) ==
  LET put == [c \in Managed |-> Moved(c, cs[c], Reparented(c, cs[c]))]
  IN /\ clients' = [c \in Managed |-> Synced(cs[c])]
     /\ server' = [c \in Managed |-> put[c].server]
     /\ asked' = {c \in asked : ~put[c].told}

Sync ==
  /\ sync # {}
  /\ SyncDisplay(Refreshed(Realized(Laid)))
  /\ sync' = {}
  /\ UNCHANGED <<screen, order, asks, maps, turns>>

Next ==
  \/ Sync
  \/ HandleRootConfigNotify
  \/ \E c \in Clients :
       \/ \E g \in Opening[c] : HandleMapRequest(c, g)
       \/ \E g \in Wanted[c] : HandleConfigureRequest(c, g)
       \/ HandleFullscreen(c)
       \/ Hide(c)
       \/ Show(c)
       \/ HandleUnmap(c)

Spec == Init /\ [][Next]_vars

(***************************************************************************)
(* Properties.                                                             *)
(***************************************************************************)

\* Nothing waits for a sync.
Settled == sync = {}

Area(g) == g.width * g.height
Apart(g, h) ==
  \/ g.x + g.width <= h.x \/ h.x + h.width <= g.x
  \/ g.y + g.height <= h.y \/ h.y + h.height <= g.y
Within(g, h) ==
  /\ h.x <= g.x /\ g.x + g.width <= h.x + h.width
  /\ h.y <= g.y /\ g.y + g.height <= h.y + h.height
Screen == Rect(0, 0, screen.width, screen.height)
\* An input method whose application is gone is laid out again with the next sync of
\* the geometry only, which the going of an application does not queue.
Orphans == {c \in Managed : Kind[c] = "Input" /\ clients[c].parent = NULL}
OfFull(c) == clients[c].parent # NULL /\ clients[clients[c].parent].full
\* The clients that others make room for.
Reserving ==
  {c \in Managed \ Orphans : /\ Kind[c] \in {"Panel", "Input"}
                              /\ "Overlaps" \notin clients[c].hints
                              /\ ~OfFull(c)}
Growing == {c \in Managed : Hints(clients[c]) = {"Grow"}}
Cover(c) == Coverage(clients[c])

\* The stack holds each managed client once, every record is a rectangle in a rectangle,
\* and a transient points to a client that is managed.
TypeOK ==
  /\ Len(order) = Cardinality(Managed) /\ {order[i] : i \in DOMAIN order} = Managed
  /\ \A c \in Managed :
       /\ clients[c].window \in [Fields -> Int] /\ clients[c].frame \in [Fields -> Int]
       /\ clients[c].parent \in Managed \cup {NULL}
       /\ clients[c].dirty \subseteq sync
  /\ DOMAIN server = Managed /\ asked \subseteq Managed

\* Panels and input methods lie beside each other on the screen, whatever the order in
\* which they came and whatever they asked for (mb_wm_layout_real_layout_panels and
\* mb_wm_layout_real_layout_input give each the room its predecessors left).  (The types
\* of all records are checked along.)
ReservedApart ==
  /\ TypeOK
  /\ Settled => \A c \in Reserving :
       /\ Within(Cover(c), Screen)
       /\ \A d \in Reserving \ {c} : Apart(Cover(c), Cover(d))

\* An application covers exactly what panels and input methods leave: it is beside each
\* of them and no room is wasted (mb_wm_layout_real_layout_free).
AppsFillTheRest ==
  Settled => \A c \in Growing :
    /\ Within(Cover(c), Screen)
    /\ \A d \in Reserving : Apart(Cover(c), Cover(d))
    /\ (\A d \in Managed : Kind[d] = "Input" => d \in Reserving)
         => Area(Cover(c)) = Area(Screen)
                               - FoldSet(LAMBDA d, n : Area(Cover(d)) + n, 0, Reserving)

\* A fullscreen application does not lie under its own input method
\* (mb_wm_layout_real_layout_fullscreen).
FullscreenClearOfInput ==
  Settled => \A c, d \in Managed :
    clients[c].full /\ Kind[d] = "Input" /\ clients[d].parent = c => Apart(Cover(c), Cover(d))

\* Running the layout again would move nothing but a dialog: what is on the screen does
\* not depend on how often mb_wm_sync happens to lay it out.
LayoutStable ==
  Settled /\ Orphans = {} =>
             LET again == Updated(clients, order, screen)
             IN \A c \in Managed : "Free" \notin clients[c].hints
                                     => Coverage(again[c]) = Cover(c)

\* A dialog or a note that has its frame, or needs none, is on the screen and clear of
\* panels and input methods after each layout, wherever the application or its gravity
\* put it.
DialogsInside ==
  [][Sync /\ "Geometry" \in sync
       => \A c \in Managed :
            /\ Kind[c] \in {"Dialog", "Note"}
            /\ clients[c].framed \/ c \notin Decorated
            => /\ Within(Cover(c)', Screen)
               /\ \A d \in Reserving : Apart(Cover(c)', Cover(d)')]_vars

\* The X server has a window where the window manager thinks it is.
InPlace(c) ==
  LET r == clients[c]
  IN /\ server[c].inner = Place(r)
     /\ r.framed /\ ~r.full => server[c].top = r.frame

\* A sync answers each ConfigureRequest, with a ConfigureNotify of the server when the
\* window changed and with a synthetic one when it did not, and leaves every window that
\* was never minimized where the window manager thinks it is: neither may be done in
\* place of the other (mb_wm_client_base_display_sync, move_resize_client_xwin).
AnsweredInPlace ==
  Settled => /\ asked = {}
             /\ \A c \in Managed \ CanHide : InPlace(c)

=============================================================================
