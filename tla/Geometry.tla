------------------------------ MODULE Geometry ------------------------------
(***************************************************************************)
(* Rectangles, and the two helpers of mb-wm-layout.c that bend one to an   *)
(* area: mb_wm_layout_clip_geometry and mb_wm_layout_maximise_geometry.    *)
(* Both treat the two axes alike, so an axis is a position and a size.     *)
(* The flags SET_X ... SET_HEIGHT are a set of field names.  The integers  *)
(* are unbounded: an X coordinate is 16 bits wide, an int of C 32.         *)
(***************************************************************************)
EXTENDS Integers

Fields == {"x", "y", "width", "height"}

\* MBGeometry.
Rects == [x : Int, y : Int, width : Int, height : Int]

Rect(x, y, w, h) == [x |-> x, y |-> y, width |-> w, height |-> h]

\* Too long for the area: the size shrinks, but when the position may change too
\* the window first moves towards the start of the area.
ShrunkAxis(p, s, lo, len, moves) ==
  LET room == lo + len - p
      back == p - (s - room)
      to == IF back < lo THEN lo ELSE back
  IN IF moves /\ s > room /\ p > lo
     THEN [at |-> to, size |-> room + (p - to)]
     ELSE [at |-> p, size |-> room]

\* Mutant: a window that sticks out at the start of the area is left there.
ClippedAxis_EndOnly(p, s, lo, len, moves, sizes) ==
  LET out == moves /\ p > lo + len
      from == IF out THEN lo ELSE p
      over == sizes /\ from + s > lo + len
      fit == IF over THEN ShrunkAxis(from, s, lo, len, moves) ELSE [at |-> from, size |-> s]
  IN [at |-> fit.at, size |-> fit.size, changed |-> out \/ over]

\* One axis of the clipping: `moves` is SET_X or SET_Y, `sizes` is SET_WIDTH or SET_HEIGHT.
ClippedAxis(p, s, lo, len, moves, sizes) ==
  LET out == moves /\ (p < lo \/ p > lo + len)
      from == IF out THEN lo ELSE p
      over == sizes /\ from + s > lo + len
      fit == IF over THEN ShrunkAxis(from, s, lo, len, moves) ELSE [at |-> from, size |-> s]
  IN [at |-> fit.at, size |-> fit.size, changed |-> out \/ over]

\* mb_wm_layout_clip_geometry
Clipped(g, area, flags) ==
  LET h == ClippedAxis(g.x, g.width, area.x, area.width, "x" \in flags, "width" \in flags)
      v == ClippedAxis(g.y, g.height, area.y, area.height, "y" \in flags, "height" \in flags)
  IN [geom |-> Rect(h.at, v.at, h.size, v.size), changed |-> h.changed \/ v.changed]

\* mb_wm_layout_maximise_geometry
Maximised(g, area, flags) ==
  [geom |-> [f \in Fields |-> IF f \in flags THEN area[f] ELSE g[f]],
   changed |-> \E f \in flags : g[f] # area[f]]
=============================================================================
