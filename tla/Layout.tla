------------------------------- MODULE Layout -------------------------------
(***************************************************************************)
(* The layout manager (mb-wm-layout.c) and the answers of the client types *)
(* to a request for geometry, as functions.  The records of the managed    *)
(* clients are a function from clients; the fields are those of            *)
(* MBWindowManagerClient and MBWMClientWindow that the layout reads:       *)
(*   window, frame   client->window->geometry, client->frame_geometry      *)
(*   framed          client->xwin_frame # None                             *)
(*   full            the fullscreen bit of window->ewmh_state              *)
(*   hints           client->layout_hints, without LayoutPrefVisible,      *)
(*                   which every client type sets and nothing clears       *)
(*   parent          client->transient_for                                 *)
(*   dirty           client->priv->sync_state                              *)
(***************************************************************************)
EXTENDS Geometry, Sequences, SequencesExt

CONSTANTS Kind,       \* the client type of each client
          Decor,      \* mb_wm_theme_get_decor_dimensions of each client
          Decorated,  \* the clients with decors
          NULL

\* MBWMClientLayoutHints, without those for what is visible or resizable.
AllHints ==
  {"EdgeNorth", "EdgeSouth", "EdgeEast", "EdgeWest", "North", "South", "East", "West", "Grow",
   "Fullscreen", "Free", "FixedX", "FixedY", "Overlaps", "Movable"}

Border == 1           \* of mb_wm_client_menu_request_geometry

\* mb_wm_client_get_coverage
Coverage(r) == IF r.framed THEN r.frame ELSE r.window

\* mb_wm_client_get_layout_hints
Hints(r) == IF r.full THEN {"Fullscreen"} ELSE r.hints

\* The window inside, and the frame around, the decors of the theme.
Inside(c, g) ==
  LET d == Decor[c]
  IN Rect(g.x + d.west, g.y + d.north,
          g.width - (d.west + d.east), g.height - (d.north + d.south))
Around(c, g) ==
  LET d == Decor[c]
  IN Rect(g.x - d.west, g.y - d.north,
          g.width + (d.west + d.east), g.height + (d.north + d.south))

Given(r, window, frame) ==
  [r EXCEPT !.window = window, !.frame = frame, !.dirty = @ \cup {"Geometry"}]

\* mb_wm_client_app_request_geometry: what an application asks for itself is ignored.
AppRequest(r, c, g, via) ==
  IF via = "Configure" THEN r
  ELSE IF r.full \/ c \notin Decorated THEN Given(r, g, g)
  ELSE Given(r, Inside(c, g), g)

\* mb_wm_client_desktop_request_geometry
DesktopRequest(r, c, g, via) ==
  IF via = "Configure" THEN r ELSE Given(r, Inside(c, g), g)

\* mb_wm_client_dialog_request_geometry: the application asks for its window, the
\* window manager for the frame; a mere move moves both by the same amount.
DialogRequest(r, c, g, via) ==
  LET old == IF via = "Configure" THEN r.window ELSE r.frame
      dx == g.x - old.x
      dy == g.y - old.y
      Moved(q) == [q EXCEPT !.x = @ + dx, !.y = @ + dy]
  IN IF g.width # old.width \/ g.height # old.height
     THEN IF via = "Configure" THEN Given(r, g, Around(c, g))
          ELSE Given(r, Inside(c, g), g)
     ELSE IF g # old THEN Given(r, Moved(r.window), Moved(r.frame))
     ELSE r

\* mb_wm_client_panel_request_geometry: a panel has no frame.
PanelRequest(r, c, g, via) ==
  IF g = r.window THEN r ELSE Given(r, g, r.frame)

\* mb_wm_client_input_request_geometry
InputRequest(r, c, g, via) ==
  IF via \in {"Configure", "Layout"} THEN Given(r, g, g) ELSE r

\* One axis of the fitting of a menu into a screen of size len.
FittedAxis(p, s, len) ==
  LET end == len - Border
      p1 == IF p + s > end THEN end - s ELSE p
      p2 == IF p1 < Border THEN Border ELSE p1
  IN [at |-> p2, size |-> IF p2 + s > end THEN end - p2 ELSE s]

\* mb_wm_client_menu_request_geometry
MenuRequest(r, c, g, via, screen) ==
  LET want == IF via = "Configure" THEN Around(c, g) ELSE g
      h == FittedAxis(want.x, want.width, screen.width)
      v == FittedAxis(want.y, want.height, screen.height)
      fit == Rect(h.at, v.at, h.size, v.size)
  IN Given(r, Inside(c, fit), fit)

\* mb_wm_client_request_geometry
Requested(r, c, g, via, screen) ==
  CASE Kind[c] = "App" -> AppRequest(r, c, g, via)
    [] Kind[c] = "Desktop" -> DesktopRequest(r, c, g, via)
    [] Kind[c] \in {"Dialog", "Note"} -> DialogRequest(r, c, g, via)
    [] Kind[c] = "Panel" -> PanelRequest(r, c, g, via)
    [] Kind[c] = "Input" -> InputRequest(r, c, g, via)
    [] Kind[c] = "Menu" -> MenuRequest(r, c, g, via, screen)

(***************************************************************************)
(* The passes.  Each goes over the stack from the bottom and carries the   *)
(* records of the clients, the area still available and need_change, which *)
(* layout_input keeps from one client to the next.                         *)
(***************************************************************************)

\* The client is asked to take g, if the layout found need of it.
Ask(acc, c, g, need) ==
  [acc EXCEPT !.change = need,
              !.clients[c] = IF need THEN Requested(@, c, g, "Layout", acc.screen) ELSE @]

\* Mutant: the area moves down, but stays as high.
TakeNorth_AsHigh(area, g) == Rect(area.x, g.y + g.height, area.width, area.height)

\* Mutant: the next client at the same edge is given the same room.
TakeEnd_Nothing(area, g, field) == area

\* The edge a client takes is gone from the area.
TakeNorth(area, g) == Rect(area.x, g.y + g.height, area.width, area.height - g.height)
TakeWest(area, g) == Rect(g.x + g.width, area.y, area.width - g.width, area.height)
TakeEnd(area, g, field) == [area EXCEPT ![field] = @ - g[field]]

FlagsOf(h) ==
  [across |-> IF "FixedX" \in h THEN {} ELSE {"x", "width"},
   along |-> IF "FixedY" \in h THEN {} ELSE {"y", "height"}]

\* A panel that overlaps the others takes nothing away from them.
Left(acc, h, area) == [acc EXCEPT !.avail = IF "Overlaps" \in h THEN @ ELSE area]

\* The four loops of mb_wm_layout_real_layout_panels.
EdgeNorth(acc, c) ==
  LET h == Hints(acc.clients[c])
      m == Maximised(Coverage(acc.clients[c]), acc.avail, {"y"} \cup FlagsOf(h).across)
      k == Clipped(m.geom, acc.avail, {"height"})
  IN IF "EdgeNorth" \notin h THEN acc
     ELSE Left(Ask(acc, c, k.geom, m.changed \/ k.changed), h, TakeNorth(acc.avail, k.geom))

EdgeSouth(acc, c) ==
  LET h == Hints(acc.clients[c])
      m == Maximised(Coverage(acc.clients[c]), acc.avail, FlagsOf(h).across)
      y == acc.avail.y + acc.avail.height - m.geom.height
      k == Clipped([m.geom EXCEPT !.y = y], acc.avail, {"height"})
  IN IF "EdgeSouth" \notin h THEN acc
     ELSE Left(Ask(acc, c, k.geom, m.changed \/ y # m.geom.y \/ k.changed), h,
               TakeEnd(acc.avail, k.geom, "height"))

EdgeWest(acc, c) ==
  LET h == Hints(acc.clients[c])
      m == Maximised(Coverage(acc.clients[c]), acc.avail, {"x"} \cup FlagsOf(h).along)
      k == Clipped(m.geom, acc.avail, {"width"})
  IN IF "EdgeWest" \notin h THEN acc
     ELSE Left(Ask(acc, c, k.geom, m.changed \/ k.changed), h, TakeWest(acc.avail, k.geom))

EdgeEast(acc, c) ==
  LET h == Hints(acc.clients[c])
      m == Maximised(Coverage(acc.clients[c]), acc.avail, FlagsOf(h).along)
      x == acc.avail.x + acc.avail.width - m.geom.width
      k == Clipped([m.geom EXCEPT !.x = x], acc.avail, {"width"})
  IN IF "EdgeEast" \notin h THEN acc
     ELSE Left(Ask(acc, c, k.geom, m.changed \/ x # m.geom.x \/ k.changed), h,
               TakeEnd(acc.avail, k.geom, "width"))

\* The input method of a fullscreen client is as wide, or as high, as the screen.
OfFullscreen(acc, c) ==
  LET p == acc.clients[c].parent
  IN p # NULL /\ acc.clients[p].full
Wide(acc, c, g) ==
  IF OfFullscreen(acc, c) /\ g.width # acc.screen.width
  THEN [geom |-> [g EXCEPT !.x = 0, !.width = acc.screen.width], changed |-> TRUE]
  ELSE [geom |-> g, changed |-> FALSE]
High(acc, c, g) ==
  IF OfFullscreen(acc, c) /\ g.height # acc.screen.height
  THEN [geom |-> [g EXCEPT !.y = 0, !.height = acc.screen.height], changed |-> TRUE]
  ELSE [geom |-> g, changed |-> FALSE]

\* The four loops of mb_wm_layout_real_layout_input.
InputNorth(acc, c) ==
  LET m == Maximised(Coverage(acc.clients[c]), acc.avail, {"x", "y", "width"})
      w == Wide(acc, c, m.geom)
      k == Clipped(w.geom, acc.avail, {"height"})
  IN IF Hints(acc.clients[c]) # {"North"} THEN acc
     ELSE [Ask(acc, c, k.geom, m.changed \/ w.changed \/ k.changed)
             EXCEPT !.avail = TakeNorth(acc.avail, k.geom)]

InputSouth(acc, c) ==
  LET g == Coverage(acc.clients[c])
      bottom == acc.avail.y + acc.avail.height
      y == IF bottom - g.height < 0 THEN 0 ELSE bottom - g.height
      m == Maximised([g EXCEPT !.y = y], acc.avail, {"x", "width"})
      w == Wide(acc, c, m.geom)
      k == Clipped(w.geom, acc.avail, {"height"})
      last == [k.geom EXCEPT !.y = bottom - k.geom.height]
  IN IF Hints(acc.clients[c]) # {"South"} THEN acc
     ELSE [Ask(acc, c, last, \/ acc.change \/ y # g.y \/ m.changed \/ w.changed \/ k.changed
                             \/ last # k.geom)
             EXCEPT !.avail = TakeEnd(acc.avail, last, "height")]

InputWest(acc, c) ==
  LET m == Maximised(Coverage(acc.clients[c]), acc.avail, {"x", "y", "height"})
      w == High(acc, c, m.geom)
      k == Clipped(w.geom, acc.avail, {"width"})
  IN IF Hints(acc.clients[c]) # {"West"} THEN acc
     ELSE [Ask(acc, c, k.geom, m.changed \/ w.changed \/ k.changed)
             EXCEPT !.avail = TakeWest(acc.avail, k.geom)]

\* The position at the eastern edge is computed after the client was asked.
InputEast(acc, c) ==
  LET m == Maximised(Coverage(acc.clients[c]), acc.avail, {"y", "height"})
      w == High(acc, c, m.geom)
      k == Clipped(w.geom, acc.avail, {"width"})
  IN IF Hints(acc.clients[c]) # {"East"} THEN acc
     ELSE [Ask(acc, c, k.geom, m.changed \/ w.changed \/ k.changed)
             EXCEPT !.avail = TakeEnd(acc.avail, k.geom, "width")]

\* mb_wm_layout_real_layout_free
Grow(acc, c) ==
  IF Hints(acc.clients[c]) # {"Grow"} THEN acc ELSE Ask(acc, c, acc.avail, TRUE)

Free(acc, c) ==
  LET h == Hints(acc.clients[c])
      k == Clipped(Coverage(acc.clients[c]), acc.avail, Fields)
  IN IF "Free" \notin h \/ h \cap {"FixedX", "FixedY"} # {} THEN acc
     ELSE Ask(acc, c, k.geom, k.changed)

\* Mutant: the input method is looked for below the area.
BesidesInput_Beyond(acc, c) ==
  LET inputs == {d \in DOMAIN acc.clients : acc.clients[d].parent = c /\ Kind[d] = "Input"}
  IN IF inputs = {} THEN acc.avail
     ELSE LET g == Coverage(acc.clients[CHOOSE d \in inputs : TRUE])
          IN IF g.y > acc.avail.y + acc.avail.height
             THEN [acc.avail EXCEPT !.height = g.y - acc.avail.y]
             ELSE acc.avail

\* The area left by the input method of c, the first of its transients that is one.
BesidesInput(acc, c) ==
  LET inputs == {d \in DOMAIN acc.clients : acc.clients[d].parent = c /\ Kind[d] = "Input"}
      a == acc.avail
  IN IF inputs = {} THEN a
     ELSE LET d == CHOOSE d \in inputs : TRUE
              g == Coverage(acc.clients[d])
              at == Hints(acc.clients[d])
          IN CASE at = {"South"} /\ g.y < a.y + a.height ->
                    [a EXCEPT !.height = g.y - a.y]
               [] at = {"North"} /\ g.height # 0 /\ g.y + g.height > a.y ->
                    [a EXCEPT !.y = g.y + g.height,
                              !.height = @ - (a.y - (g.y + g.height))]
               [] at = {"West"} /\ g.x < a.x + a.width ->
                    [a EXCEPT !.width = g.x - a.x]
               [] at = {"East"} /\ g.width # 0 /\ g.x + g.width > a.x ->
                    [a EXCEPT !.x = g.x + g.width,
                              !.width = @ - (a.x - (g.x + g.width))]
               [] OTHER -> a

\* mb_wm_layout_real_layout_fullscreen: the area stays as small for the clients above.
Fullscreen(acc, c) ==
  LET area == BesidesInput(acc, c)
      r == acc.clients[c]
  IN IF Hints(r) # {"Fullscreen"} THEN acc
     ELSE [Ask(acc, c, area, Coverage(r) # area) EXCEPT !.avail = area]

\* One loop over the stack.
Over(Pass(_, _), acc, order) ==
  LET after[n \in 0..Len(order)] ==
        IF n = 0 THEN acc ELSE Pass(after[n - 1], order[n])
  IN  after[Len(order)]

Panels(acc, order) ==
  Over(EdgeEast,
       Over(EdgeWest, Over(EdgeSouth, Over(EdgeNorth, acc, order), order), order), order)

Inputs(acc, order) ==
  Over(InputEast,
       Over(InputWest,
            Over(InputSouth, Over(InputNorth, [acc EXCEPT !.change = FALSE], order), order),
            order),
       order)

\* Mutant: fullscreen clients are laid out before the input methods they make room for.
Updated_FullscreenFirst(clients, order, screen) ==
  LET whole == Rect(0, 0, screen.width, screen.height)
      start == [clients |-> clients, avail |-> whole, change |-> FALSE, screen |-> screen]
      full == [Over(Fullscreen, start, order) EXCEPT !.avail = whole]
  IN Over(Free, Over(Grow, Inputs(Panels(full, order), order), order), order).clients

\* mb_wm_layout_real_update
Updated(clients, order, screen) ==
  LET whole == Rect(0, 0, screen.width, screen.height)
      start == [clients |-> clients, avail |-> whole, change |-> FALSE, screen |-> screen]
      apps == Over(Grow, Inputs(Panels(start, order), order), order)
      free == Over(Free, apps, order)
  IN Over(Fullscreen, [free EXCEPT !.avail = whole], order).clients
=============================================================================
