------------------------- MODULE LayoutManagerProofs -------------------------
(***************************************************************************)
(* Proofs about Geometry, Layout and LayoutManager, for any set of clients *)
(* of any types, any decors, screens and requests.                         *)
(***************************************************************************)
EXTENDS LayoutManager, FiniteSetTheorems, WellFoundedInduction, TLAPS

(***************************************************************************)
(* Facts about the helpers, for all rectangles.                            *)
(***************************************************************************)

\* A window that may be moved and shrunk ends up inside the area, whatever the
\* application or the user asked for, and is never made larger
\* (mb_wm_layout_clip_geometry with SET_ALL, as dialogs are clipped).
THEOREM ClippedAxisInside ==
  ASSUME NEW p \in Int, NEW s \in Nat, NEW lo \in Int, NEW len \in Nat
  PROVE  LET r == ClippedAxis(p, s, lo, len, TRUE, TRUE)
         IN /\ r.at \in Int /\ lo <= r.at
            /\ r.size \in Nat /\ r.size <= s
            /\ r.at + r.size <= lo + len
<1>1. CASE (p < lo \/ p > lo + len) /\ s > len
  BY <1>1 DEF ClippedAxis, ShrunkAxis
<1>4. CASE (p < lo \/ p > lo + len) /\ ~(s > len)
  BY <1>4 DEF ClippedAxis, ShrunkAxis
<1>2. CASE ~(p < lo \/ p > lo + len) /\ p + s > lo + len
  BY <1>2 DEF ClippedAxis, ShrunkAxis
<1>3. CASE ~(p < lo \/ p > lo + len) /\ ~(p + s > lo + len)
  BY <1>3 DEF ClippedAxis
<1> QED BY <1>1, <1>2, <1>3, <1>4

\* Clipping what was clipped changes nothing, so that a second layout asks no
\* window to move again.
THEOREM ClippedAxisSettles ==
  ASSUME NEW p \in Int, NEW s \in Nat, NEW lo \in Int, NEW len \in Nat
  PROVE  LET r == ClippedAxis(p, s, lo, len, TRUE, TRUE)
         IN ~ClippedAxis(r.at, r.size, lo, len, TRUE, TRUE).changed
<1>1. \A at \in Int, size \in Nat :
        lo <= at /\ at + size <= lo + len
          => ~(at < lo \/ at > lo + len) /\ ~(at + size > lo + len)
  OBVIOUS
<1>2. \A at \in Int, size \in Nat :
        lo <= at /\ at + size <= lo + len
          => ~ClippedAxis(at, size, lo, len, TRUE, TRUE).changed
  BY <1>1, Zenon DEF ClippedAxis
<1> QED BY <1>2, ClippedAxisInside, Zenon

-----------------------------------------------------------------------------
(* Rectangles stay rectangles.                                               *)

Sizes == [width : Int, height : Int]

LEMMA RectIs ==
  ASSUME NEW x \in Int, NEW y \in Int, NEW w \in Int, NEW h \in Int
  PROVE  Rect(x, y, w, h) \in Rects
BY DEF Rect, Rects

LEMMA RectFields ==
  ASSUME NEW g \in Rects
  PROVE  /\ g.x \in Int /\ g.y \in Int /\ g.width \in Int /\ g.height \in Int
         /\ \A i \in Int : /\ [g EXCEPT !.x = i] \in Rects /\ [g EXCEPT !.y = i] \in Rects
                           /\ [g EXCEPT !.width = i] \in Rects /\ [g EXCEPT !.height = i] \in Rects
         /\ g = Rect(g.x, g.y, g.width, g.height)
         /\ DOMAIN g = Fields
         /\ \A f \in Fields : g[f] \in Int
BY DEF Rects, Rect, Fields

LEMMA ClippedAxisTyped ==
  ASSUME NEW p \in Int, NEW s \in Int, NEW lo \in Int, NEW len \in Int,
         NEW moves, NEW sizes
  PROVE  LET r == ClippedAxis(p, s, lo, len, moves, sizes)
         IN r.at \in Int /\ r.size \in Int
BY DEF ClippedAxis, ShrunkAxis

LEMMA ClippedTyped ==
  ASSUME NEW g \in Rects, NEW area \in Rects, NEW flags
  PROVE  Clipped(g, area, flags).geom \in Rects
<1> DEFINE h == ClippedAxis(g.x, g.width, area.x, area.width, "x" \in flags, "width" \in flags)
           v == ClippedAxis(g.y, g.height, area.y, area.height, "y" \in flags, "height" \in flags)
<1>1. /\ g.x \in Int /\ g.y \in Int /\ g.width \in Int /\ g.height \in Int
      /\ area.x \in Int /\ area.y \in Int /\ area.width \in Int /\ area.height \in Int
  BY RectFields
<1>2. h.at \in Int /\ h.size \in Int
  BY <1>1, ClippedAxisTyped
<1>3. v.at \in Int /\ v.size \in Int
  BY <1>1, ClippedAxisTyped
<1> HIDE DEF h, v
<1>4. Rect(h.at, v.at, h.size, v.size) \in Rects
  BY <1>2, <1>3, RectIs
<1> QED BY <1>4 DEF Clipped, h, v

LEMMA MaximisedTyped ==
  ASSUME NEW g \in Rects, NEW area \in Rects, NEW flags
  PROVE  Maximised(g, area, flags).geom \in Rects
<1>1. /\ g.x \in Int /\ g.y \in Int /\ g.width \in Int /\ g.height \in Int
      /\ area.x \in Int /\ area.y \in Int /\ area.width \in Int /\ area.height \in Int
  BY RectFields
<1> DEFINE m == [f \in Fields |-> IF f \in flags THEN area[f] ELSE g[f]]
<1>2. \A f \in Fields : area[f] \in Int /\ g[f] \in Int
  BY RectFields
<1>3. m = Rect(m.x, m.y, m.width, m.height)
  BY DEF Rect, Fields
<1>4. m.x \in Int /\ m.y \in Int /\ m.width \in Int /\ m.height \in Int
  BY <1>2 DEF Fields
<1> HIDE DEF m
<1>5. m \in Rects
  BY <1>3, <1>4, RectIs
<1> QED BY <1>5 DEF Maximised, m

LEMMA TakesTyped ==
  ASSUME NEW area \in Rects, NEW g \in Rects
  PROVE  /\ TakeNorth(area, g) \in Rects /\ TakeWest(area, g) \in Rects
         /\ TakeEnd(area, g, "width") \in Rects /\ TakeEnd(area, g, "height") \in Rects
<1>1. /\ g.x \in Int /\ g.y \in Int /\ g.width \in Int /\ g.height \in Int
      /\ area.x \in Int /\ area.y \in Int /\ area.width \in Int /\ area.height \in Int
  BY RectFields
<1>2. TakeNorth(area, g) \in Rects
  BY <1>1, RectIs DEF TakeNorth
<1>3. TakeWest(area, g) \in Rects
  BY <1>1, RectIs DEF TakeWest
<1>4. TakeEnd(area, g, "width") \in Rects
  BY <1>1 DEF TakeEnd, Rects
<1>5. TakeEnd(area, g, "height") \in Rects
  BY <1>1 DEF TakeEnd, Rects
<1> QED BY <1>2, <1>3, <1>4, <1>5

-----------------------------------------------------------------------------
(* What a request for geometry does with the record of a client.             *)

Bits == {"Geometry", "Ack", "Fullscreen", "Visibility"}

Records ==
  [window : Rects, frame : Rects, framed : BOOLEAN, full : BOOLEAN, hints : SUBSET AllHints,
   parent : Clients \cup {NULL}, dirty : SUBSET Bits, mapped : BOOLEAN, realized : BOOLEAN,
   x : Rects]

\* q is r with another geometry, of which it is marked, or with the same.
Relaid(r, q) ==
  /\ q.framed = r.framed /\ q.full = r.full /\ q.hints = r.hints /\ q.parent = r.parent
  /\ q.mapped = r.mapped /\ q.realized = r.realized /\ q.x = r.x
  /\ \/ q.dirty = r.dirty \cup {"Geometry"}
     \/ q.dirty = r.dirty /\ q.window = r.window /\ q.frame = r.frame

LEMMA GivenIs ==
  ASSUME NEW r \in Records, NEW w \in Rects, NEW f \in Rects
  PROVE  /\ Given(r, w, f) \in Records /\ Relaid(r, Given(r, w, f))
         /\ Given(r, w, f).window = w /\ Given(r, w, f).frame = f
BY DEF Given, Records, Relaid, Bits

LEMMA SameIs ==
  ASSUME NEW r \in Records
  PROVE  Relaid(r, r)
BY DEF Relaid

LEMMA InsideTyped ==
  ASSUME NEW c \in Clients, NEW g \in Rects
  PROVE  Inside(c, g) \in Rects /\ Around(c, g) \in Rects
<1>1. g.x \in Int /\ g.y \in Int /\ g.width \in Int /\ g.height \in Int
  BY RectFields
<1>2. Decor[c] \in [north : Int, south : Int, west : Int, east : Int]
  BY LayoutAssumption
<1>3. /\ Decor[c].north \in Int /\ Decor[c].south \in Int
      /\ Decor[c].west \in Int /\ Decor[c].east \in Int
  BY <1>2
<1> DEFINE d == Decor[c]
<1>4. /\ g.x + d.west \in Int /\ g.y + d.north \in Int
      /\ g.width - (d.west + d.east) \in Int /\ g.height - (d.north + d.south) \in Int
      /\ g.x - d.west \in Int /\ g.y - d.north \in Int
      /\ g.width + (d.west + d.east) \in Int /\ g.height + (d.north + d.south) \in Int
  BY <1>1, <1>3
<1> HIDE DEF d
<1>5. Inside(c, g) = Rect(g.x + d.west, g.y + d.north,
                          g.width - (d.west + d.east), g.height - (d.north + d.south))
  BY DEF Inside, d
<1>6. Around(c, g) = Rect(g.x - d.west, g.y - d.north,
                          g.width + (d.west + d.east), g.height + (d.north + d.south))
  BY DEF Around, d
<1> QED BY <1>4, <1>5, <1>6, RectIs

LEMMA RecordFields ==
  ASSUME NEW r \in Records
  PROVE  /\ r.window \in Rects /\ r.frame \in Rects /\ r.framed \in BOOLEAN
         /\ r.full \in BOOLEAN /\ r.hints \in SUBSET AllHints
         /\ r.parent \in Clients \cup {NULL} /\ r.dirty \in SUBSET Bits
         /\ r.mapped \in BOOLEAN /\ r.realized \in BOOLEAN /\ r.x \in Rects
         /\ Coverage(r) \in Rects
BY DEF Records, Coverage

LEMMA AppRequestIs ==
  ASSUME NEW r \in Records, NEW c \in Clients, NEW g \in Rects, NEW via
  PROVE  AppRequest(r, c, g, via) \in Records /\ Relaid(r, AppRequest(r, c, g, via))
BY GivenIs, SameIs, InsideTyped DEF AppRequest

LEMMA DesktopRequestIs ==
  ASSUME NEW r \in Records, NEW c \in Clients, NEW g \in Rects, NEW via
  PROVE  DesktopRequest(r, c, g, via) \in Records /\ Relaid(r, DesktopRequest(r, c, g, via))
BY GivenIs, SameIs, InsideTyped DEF DesktopRequest

LEMMA DialogRequestIs ==
  ASSUME NEW r \in Records, NEW c \in Clients, NEW g \in Rects, NEW via
  PROVE  DialogRequest(r, c, g, via) \in Records /\ Relaid(r, DialogRequest(r, c, g, via))
<1> DEFINE old == IF via = "Configure" THEN r.window ELSE r.frame
           dx == g.x - old.x
           dy == g.y - old.y
           Moved_(q) == [q EXCEPT !.x = @ + dx, !.y = @ + dy]
<1>1. r.window \in Rects /\ r.frame \in Rects
  BY RecordFields
<1>2. old \in Rects
  BY <1>1
<1>3. dx \in Int /\ dy \in Int
  BY <1>2, RectFields
<1> HIDE DEF old, dx, dy
<1>4. \A q \in Rects : Moved_(q) \in Rects
  <2> SUFFICES ASSUME NEW q \in Rects PROVE Moved_(q) \in Rects
    OBVIOUS
  <2>1. q.x + dx \in Int /\ q.y + dy \in Int
    BY <1>3, RectFields
  <2> QED BY <2>1 DEF Rects
<1>5. /\ Given(r, Moved_(r.window), Moved_(r.frame)) \in Records
      /\ Relaid(r, Given(r, Moved_(r.window), Moved_(r.frame)))
  BY <1>1, <1>4, GivenIs
<1>6. /\ Given(r, g, Around(c, g)) \in Records /\ Relaid(r, Given(r, g, Around(c, g)))
      /\ Given(r, Inside(c, g), g) \in Records /\ Relaid(r, Given(r, Inside(c, g), g))
  BY GivenIs, InsideTyped
<1>7. DialogRequest(r, c, g, via) \in
        {r, Given(r, Moved_(r.window), Moved_(r.frame)), Given(r, g, Around(c, g)),
         Given(r, Inside(c, g), g)}
  BY DEF DialogRequest, old, dx, dy
<1> QED BY <1>5, <1>6, <1>7, SameIs

LEMMA PanelRequestIs ==
  ASSUME NEW r \in Records, NEW c \in Clients, NEW g \in Rects, NEW via
  PROVE  PanelRequest(r, c, g, via) \in Records /\ Relaid(r, PanelRequest(r, c, g, via))
BY GivenIs, SameIs, RecordFields DEF PanelRequest

LEMMA InputRequestIs ==
  ASSUME NEW r \in Records, NEW c \in Clients, NEW g \in Rects, NEW via
  PROVE  InputRequest(r, c, g, via) \in Records /\ Relaid(r, InputRequest(r, c, g, via))
BY GivenIs, SameIs DEF InputRequest

LEMMA FittedTyped ==
  ASSUME NEW p \in Int, NEW s \in Int, NEW len \in Int
  PROVE  FittedAxis(p, s, len).at \in Int /\ FittedAxis(p, s, len).size \in Int
BY DEF FittedAxis, Border

LEMMA MenuRequestIs ==
  ASSUME NEW r \in Records, NEW c \in Clients, NEW g \in Rects, NEW via, NEW s \in Sizes
  PROVE  MenuRequest(r, c, g, via, s) \in Records /\ Relaid(r, MenuRequest(r, c, g, via, s))
<1> DEFINE want == IF via = "Configure" THEN Around(c, g) ELSE g
           h == FittedAxis(want.x, want.width, s.width)
           v == FittedAxis(want.y, want.height, s.height)
           fit == Rect(h.at, v.at, h.size, v.size)
<1>1. want \in Rects
  BY InsideTyped
<1> HIDE DEF want
<1>2. /\ want.x \in Int /\ want.y \in Int /\ want.width \in Int /\ want.height \in Int
      /\ s.width \in Int /\ s.height \in Int
  BY <1>1, RectFields DEF Sizes
<1>3. h.at \in Int /\ h.size \in Int
  BY <1>2, FittedTyped
<1>4. v.at \in Int /\ v.size \in Int
  BY <1>2, FittedTyped
<1> HIDE DEF h, v
<1>5. fit \in Rects
  BY <1>3, <1>4, RectIs
<1> HIDE DEF fit
<1>6. MenuRequest(r, c, g, via, s) = Given(r, Inside(c, fit), fit)
  BY DEF MenuRequest, want, h, v, fit
<1> QED BY <1>5, <1>6, GivenIs, InsideTyped

LEMMA RequestedIs ==
  ASSUME NEW r \in Records, NEW c \in Clients, NEW g \in Rects, NEW via, NEW s \in Sizes
  PROVE  Requested(r, c, g, via, s) \in Records /\ Relaid(r, Requested(r, c, g, via, s))
<1>1. Kind[c] \in {"App", "Desktop", "Dialog", "Note", "Panel", "Input", "Menu"}
  BY LayoutAssumption
<1>2. CASE Kind[c] = "App"
  BY <1>2, AppRequestIs DEF Requested
<1>3. CASE Kind[c] = "Desktop"
  BY <1>3, DesktopRequestIs DEF Requested
<1>4. CASE Kind[c] \in {"Dialog", "Note"}
  BY <1>4, DialogRequestIs DEF Requested
<1>5. CASE Kind[c] = "Panel"
  BY <1>5, PanelRequestIs DEF Requested
<1>6. CASE Kind[c] = "Input"
  BY <1>6, InputRequestIs DEF Requested
<1>7. CASE Kind[c] = "Menu"
  BY <1>7, MenuRequestIs DEF Requested
<1> QED BY <1>1, <1>2, <1>3, <1>4, <1>5, <1>6, <1>7

-----------------------------------------------------------------------------
(* A pass over the stack keeps what each of its steps keeps.  The recursive  *)
(* function of Over has the values its definition asks for (Walk).           *)

\* A nonempty set of natural numbers has a least element.
LEMMA LeastNumber ==
  ASSUME NEW T \in SUBSET Nat, T # {}
  PROVE  \E m \in T : \A k \in T : m <= k
<1> DEFINE R == OpToRel(<, Nat)
<1>1. PICK m \in T : \A k \in T : <<k, m>> \notin R
  BY WFMin, NatLessThanWellFounded, Zenon
<1>2. ASSUME NEW k \in Nat, NEW j \in Nat, k < j
      PROVE  <<k, j>> \in R
  BY <1>2 DEF OpToRel
<1> HIDE DEF R
<1>3. ASSUME NEW k \in T PROVE m <= k
  <2>1. k \in Nat /\ m \in Nat
    OBVIOUS
  <2>2. ~(k < m)
    BY <1>1, <1>2, <2>1, Zenon
  <2> QED
    BY <2>1, <2>2
<1> QED
  BY <1>3

\* What holds at the beginning and is kept by each step holds all along.
LEMMA Upward ==
  ASSUME NEW n \in Nat, NEW T, 0 \in T, \A m \in 0..(n - 1) : m \in T => m + 1 \in T
  PROVE  \A m \in 0..n : m \in T
<1> DEFINE U == {m \in 0..n : m \notin T}
<1> SUFFICES ASSUME U # {} PROVE FALSE
  OBVIOUS
<1>1. U \in SUBSET Nat
  OBVIOUS
<1>2. PICK m \in U : \A k \in U : m <= k
  <2> HIDE DEF U
  <2> QED BY <1>1, LeastNumber
<1>3. m # 0 /\ m - 1 \in 0..(n - 1) /\ m - 1 \notin U
  BY <1>2
<1>4. m - 1 \in T
  BY <1>3
<1>5. (m - 1) + 1 \in T
  BY <1>3, <1>4
<1> QED BY <1>2, <1>5

\* The loops, by their names.
Passes ==
  {"EdgeNorth", "EdgeSouth", "EdgeWest", "EdgeEast", "InputNorth", "InputSouth", "InputWest",
   "InputEast", "Grow", "Free", "Fullscreen"}

Step(pass, acc, c) ==
  CASE pass = "EdgeNorth" -> EdgeNorth(acc, c)
    [] pass = "EdgeSouth" -> EdgeSouth(acc, c)
    [] pass = "EdgeWest" -> EdgeWest(acc, c)
    [] pass = "EdgeEast" -> EdgeEast(acc, c)
    [] pass = "InputNorth" -> InputNorth(acc, c)
    [] pass = "InputSouth" -> InputSouth(acc, c)
    [] pass = "InputWest" -> InputWest(acc, c)
    [] pass = "InputEast" -> InputEast(acc, c)
    [] pass = "Grow" -> Grow(acc, c)
    [] pass = "Free" -> Free(acc, c)
    [] pass = "Fullscreen" -> Fullscreen(acc, c)

\* The values w has are those of the first k steps of the pass, and the m-th is in I[m].
Walked(pass, base, q, I, w, k) ==
  /\ w = [m \in 0..k |-> IF m = 0 THEN base ELSE Step(pass, w[m - 1], q[m])]
  /\ \A m \in 0..k : w[m] \in I[m]

\* Each step leads from a member of a set to a member of the next one.
Leads(pass, q, I) ==
  \A m \in 1..Len(q) : \A a \in I[m - 1] : Step(pass, a, q[m]) \in I[m]

LEMMA Walk ==
  ASSUME NEW E, NEW q \in Seq(E), NEW pass, NEW I, NEW base \in I[0], Leads(pass, q, I)
  PROVE  \E w : Walked(pass, base, q, I, w, Len(q))
<1> DEFINE T == {k \in 0..Len(q) : \E w : Walked(pass, base, q, I, w, k)}
<1>1. Len(q) \in Nat
  OBVIOUS
<1>2. 0 \in T
  <2> DEFINE v == [m \in 0..0 |-> base]
  <2>1. Walked(pass, base, q, I, v, 0)
    BY DEF Walked
  <2> HIDE DEF v
  <2> QED BY <2>1, <1>1
<1>3. ASSUME NEW k \in 0..(Len(q) - 1), k \in T PROVE k + 1 \in T
  <2>1. PICK w : Walked(pass, base, q, I, w, k)
    BY <1>3
  <2> DEFINE v == [m \in 0..(k + 1) |->
                     IF m = k + 1 THEN Step(pass, w[k], q[k + 1]) ELSE w[m]]
  <2>2. k \in Nat /\ k + 1 \in 1..Len(q) /\ (k + 1) - 1 = k /\ k + 1 # 0
    BY <1>1
  <2>3. w[k] \in I[k]
    BY <2>1, <2>2 DEF Walked
  <2>4. Step(pass, w[k], q[k + 1]) \in I[k + 1]
    BY <2>2, <2>3 DEF Leads
  <2>5. ASSUME NEW m \in 0..(k + 1)
        PROVE  /\ v[m] = (IF m = 0 THEN base ELSE Step(pass, v[m - 1], q[m]))
               /\ v[m] \in I[m]
    <3>1. CASE m = k + 1
      <4>1. v[m] = Step(pass, w[k], q[k + 1]) /\ m - 1 = k /\ m # 0
        BY <3>1, <2>2
      <4>2. v[k] = w[k]
        BY <2>2
      <4> HIDE DEF v
      <4> QED BY <3>1, <4>1, <4>2, <2>4
    <3>2. CASE m # k + 1
      <4>1. m \in 0..k
        BY <3>2, <2>2
      <4>2. v[m] = w[m]
        BY <3>2
      <4>3. w[m] = (IF m = 0 THEN base ELSE Step(pass, w[m - 1], q[m])) /\ w[m] \in I[m]
        BY <2>1, <4>1 DEF Walked
      <4>4. m # 0 => v[m - 1] = w[m - 1]
        BY <4>1, <2>2
      <4> HIDE DEF v
      <4> QED BY <4>2, <4>3, <4>4
    <3> QED BY <3>1, <3>2
  <2>6. v = [m \in 0..(k + 1) |-> v[m]]
    OBVIOUS
  <2> HIDE DEF v
  <2>7. Walked(pass, base, q, I, v, k + 1)
    BY <2>5, <2>6 DEF Walked
  <2> QED BY <2>2, <2>7
<1> HIDE DEF T
<1>4. \A k \in 0..Len(q) : k \in T
  BY <1>1, <1>2, <1>3, Upward
<1> QED BY <1>1, <1>4 DEF T

\* The function of a loop exists, and its last value is where the steps lead.
Follows(pass, base, q, f) ==
  f = [m \in 0..Len(q) |-> IF m = 0 THEN base ELSE Step(pass, f[m - 1], q[m])]

LEMMA LoopExists ==
  ASSUME NEW E, NEW q \in Seq(E), NEW pass, NEW I, NEW base \in I[0], Leads(pass, q, I)
  PROVE  \E f : Follows(pass, base, q, f)
<1>1. PICK w : Walked(pass, base, q, I, w, Len(q))
  BY Walk
<1> QED BY <1>1 DEF Walked, Follows

LEMMA LoopLeads ==
  ASSUME NEW E, NEW q \in Seq(E), NEW pass, NEW I, NEW base \in I[0], Leads(pass, q, I),
         NEW f, Follows(pass, base, q, f)
  PROVE  f[Len(q)] \in I[Len(q)]
<1> DEFINE n == Len(q)
           T == {m \in 0..n : f[m] \in I[m]}
<1>1. n \in Nat
  OBVIOUS
<1>2. f = [m \in 0..n |-> IF m = 0 THEN base ELSE Step(pass, f[m - 1], q[m])]
  BY DEF Follows
<1>3. 0 \in T
  BY <1>1, <1>2
<1>4. ASSUME NEW m \in 0..(n - 1), m \in T PROVE m + 1 \in T
  <2>1. m + 1 \in 1..n /\ (m + 1) - 1 = m /\ m + 1 \in 0..n /\ m + 1 # 0
    BY <1>1
  <2>2. f[m + 1] = Step(pass, f[m], q[m + 1])
    BY <1>2, <2>1
  <2>3. f[m] \in I[m]
    BY <1>4
  <2>4. Step(pass, f[m], q[m + 1]) \in I[m + 1]
    BY <2>1, <2>3 DEF Leads
  <2> QED BY <2>1, <2>2, <2>4
<1> HIDE DEF T, n
<1>5. \A m \in 0..n : m \in T
  BY <1>1, <1>3, <1>4, Upward
<1>6. n \in T
  BY <1>1, <1>5
<1> QED BY <1>6 DEF T, n

\* The same of the loops of the layout.
LEMMA EdgeNorthLeads ==
  ASSUME NEW E, NEW q \in Seq(E), NEW I, NEW base \in I[0], Leads("EdgeNorth", q, I)
  PROVE  Over(EdgeNorth, base, q) \in I[Len(q)]
<1> DEFINE after == CHOOSE f : f = [m \in 0..Len(q) |->
                                      IF m = 0 THEN base ELSE EdgeNorth(f[m - 1], q[m])]
<1>1. \A a, c : Step("EdgeNorth", a, c) = EdgeNorth(a, c)
  BY DEF Step
<1>2. PICK w : Follows("EdgeNorth", base, q, w)
  BY LoopExists
<1>3. w = [m \in 0..Len(q) |-> IF m = 0 THEN base ELSE EdgeNorth(w[m - 1], q[m])]
  BY <1>1, <1>2 DEF Follows
<1>4. after = [m \in 0..Len(q) |-> IF m = 0 THEN base ELSE EdgeNorth(after[m - 1], q[m])]
  BY <1>3
<1> HIDE DEF after
<1>5. Follows("EdgeNorth", base, q, after)
  BY <1>1, <1>4 DEF Follows
<1>6. after[Len(q)] \in I[Len(q)]
  BY <1>5, LoopLeads
<1> QED BY <1>6 DEF Over, after

LEMMA EdgeSouthLeads ==
  ASSUME NEW E, NEW q \in Seq(E), NEW I, NEW base \in I[0], Leads("EdgeSouth", q, I)
  PROVE  Over(EdgeSouth, base, q) \in I[Len(q)]
<1> DEFINE after == CHOOSE f : f = [m \in 0..Len(q) |->
                                      IF m = 0 THEN base ELSE EdgeSouth(f[m - 1], q[m])]
<1>1. \A a, c : Step("EdgeSouth", a, c) = EdgeSouth(a, c)
  BY DEF Step
<1>2. PICK w : Follows("EdgeSouth", base, q, w)
  BY LoopExists
<1>3. w = [m \in 0..Len(q) |-> IF m = 0 THEN base ELSE EdgeSouth(w[m - 1], q[m])]
  BY <1>1, <1>2 DEF Follows
<1>4. after = [m \in 0..Len(q) |-> IF m = 0 THEN base ELSE EdgeSouth(after[m - 1], q[m])]
  BY <1>3
<1> HIDE DEF after
<1>5. Follows("EdgeSouth", base, q, after)
  BY <1>1, <1>4 DEF Follows
<1>6. after[Len(q)] \in I[Len(q)]
  BY <1>5, LoopLeads
<1> QED BY <1>6 DEF Over, after

LEMMA EdgeWestLeads ==
  ASSUME NEW E, NEW q \in Seq(E), NEW I, NEW base \in I[0], Leads("EdgeWest", q, I)
  PROVE  Over(EdgeWest, base, q) \in I[Len(q)]
<1> DEFINE after == CHOOSE f : f = [m \in 0..Len(q) |->
                                      IF m = 0 THEN base ELSE EdgeWest(f[m - 1], q[m])]
<1>1. \A a, c : Step("EdgeWest", a, c) = EdgeWest(a, c)
  BY DEF Step
<1>2. PICK w : Follows("EdgeWest", base, q, w)
  BY LoopExists
<1>3. w = [m \in 0..Len(q) |-> IF m = 0 THEN base ELSE EdgeWest(w[m - 1], q[m])]
  BY <1>1, <1>2 DEF Follows
<1>4. after = [m \in 0..Len(q) |-> IF m = 0 THEN base ELSE EdgeWest(after[m - 1], q[m])]
  BY <1>3
<1> HIDE DEF after
<1>5. Follows("EdgeWest", base, q, after)
  BY <1>1, <1>4 DEF Follows
<1>6. after[Len(q)] \in I[Len(q)]
  BY <1>5, LoopLeads
<1> QED BY <1>6 DEF Over, after

LEMMA EdgeEastLeads ==
  ASSUME NEW E, NEW q \in Seq(E), NEW I, NEW base \in I[0], Leads("EdgeEast", q, I)
  PROVE  Over(EdgeEast, base, q) \in I[Len(q)]
<1> DEFINE after == CHOOSE f : f = [m \in 0..Len(q) |->
                                      IF m = 0 THEN base ELSE EdgeEast(f[m - 1], q[m])]
<1>1. \A a, c : Step("EdgeEast", a, c) = EdgeEast(a, c)
  BY DEF Step
<1>2. PICK w : Follows("EdgeEast", base, q, w)
  BY LoopExists
<1>3. w = [m \in 0..Len(q) |-> IF m = 0 THEN base ELSE EdgeEast(w[m - 1], q[m])]
  BY <1>1, <1>2 DEF Follows
<1>4. after = [m \in 0..Len(q) |-> IF m = 0 THEN base ELSE EdgeEast(after[m - 1], q[m])]
  BY <1>3
<1> HIDE DEF after
<1>5. Follows("EdgeEast", base, q, after)
  BY <1>1, <1>4 DEF Follows
<1>6. after[Len(q)] \in I[Len(q)]
  BY <1>5, LoopLeads
<1> QED BY <1>6 DEF Over, after

LEMMA InputNorthLeads ==
  ASSUME NEW E, NEW q \in Seq(E), NEW I, NEW base \in I[0], Leads("InputNorth", q, I)
  PROVE  Over(InputNorth, base, q) \in I[Len(q)]
<1> DEFINE after == CHOOSE f : f = [m \in 0..Len(q) |->
                                      IF m = 0 THEN base ELSE InputNorth(f[m - 1], q[m])]
<1>1. \A a, c : Step("InputNorth", a, c) = InputNorth(a, c)
  BY DEF Step
<1>2. PICK w : Follows("InputNorth", base, q, w)
  BY LoopExists
<1>3. w = [m \in 0..Len(q) |-> IF m = 0 THEN base ELSE InputNorth(w[m - 1], q[m])]
  BY <1>1, <1>2 DEF Follows
<1>4. after = [m \in 0..Len(q) |-> IF m = 0 THEN base ELSE InputNorth(after[m - 1], q[m])]
  BY <1>3
<1> HIDE DEF after
<1>5. Follows("InputNorth", base, q, after)
  BY <1>1, <1>4 DEF Follows
<1>6. after[Len(q)] \in I[Len(q)]
  BY <1>5, LoopLeads
<1> QED BY <1>6 DEF Over, after

LEMMA InputSouthLeads ==
  ASSUME NEW E, NEW q \in Seq(E), NEW I, NEW base \in I[0], Leads("InputSouth", q, I)
  PROVE  Over(InputSouth, base, q) \in I[Len(q)]
<1> DEFINE after == CHOOSE f : f = [m \in 0..Len(q) |->
                                      IF m = 0 THEN base ELSE InputSouth(f[m - 1], q[m])]
<1>1. \A a, c : Step("InputSouth", a, c) = InputSouth(a, c)
  BY DEF Step
<1>2. PICK w : Follows("InputSouth", base, q, w)
  BY LoopExists
<1>3. w = [m \in 0..Len(q) |-> IF m = 0 THEN base ELSE InputSouth(w[m - 1], q[m])]
  BY <1>1, <1>2 DEF Follows
<1>4. after = [m \in 0..Len(q) |-> IF m = 0 THEN base ELSE InputSouth(after[m - 1], q[m])]
  BY <1>3
<1> HIDE DEF after
<1>5. Follows("InputSouth", base, q, after)
  BY <1>1, <1>4 DEF Follows
<1>6. after[Len(q)] \in I[Len(q)]
  BY <1>5, LoopLeads
<1> QED BY <1>6 DEF Over, after

LEMMA InputWestLeads ==
  ASSUME NEW E, NEW q \in Seq(E), NEW I, NEW base \in I[0], Leads("InputWest", q, I)
  PROVE  Over(InputWest, base, q) \in I[Len(q)]
<1> DEFINE after == CHOOSE f : f = [m \in 0..Len(q) |->
                                      IF m = 0 THEN base ELSE InputWest(f[m - 1], q[m])]
<1>1. \A a, c : Step("InputWest", a, c) = InputWest(a, c)
  BY DEF Step
<1>2. PICK w : Follows("InputWest", base, q, w)
  BY LoopExists
<1>3. w = [m \in 0..Len(q) |-> IF m = 0 THEN base ELSE InputWest(w[m - 1], q[m])]
  BY <1>1, <1>2 DEF Follows
<1>4. after = [m \in 0..Len(q) |-> IF m = 0 THEN base ELSE InputWest(after[m - 1], q[m])]
  BY <1>3
<1> HIDE DEF after
<1>5. Follows("InputWest", base, q, after)
  BY <1>1, <1>4 DEF Follows
<1>6. after[Len(q)] \in I[Len(q)]
  BY <1>5, LoopLeads
<1> QED BY <1>6 DEF Over, after

LEMMA InputEastLeads ==
  ASSUME NEW E, NEW q \in Seq(E), NEW I, NEW base \in I[0], Leads("InputEast", q, I)
  PROVE  Over(InputEast, base, q) \in I[Len(q)]
<1> DEFINE after == CHOOSE f : f = [m \in 0..Len(q) |->
                                      IF m = 0 THEN base ELSE InputEast(f[m - 1], q[m])]
<1>1. \A a, c : Step("InputEast", a, c) = InputEast(a, c)
  BY DEF Step
<1>2. PICK w : Follows("InputEast", base, q, w)
  BY LoopExists
<1>3. w = [m \in 0..Len(q) |-> IF m = 0 THEN base ELSE InputEast(w[m - 1], q[m])]
  BY <1>1, <1>2 DEF Follows
<1>4. after = [m \in 0..Len(q) |-> IF m = 0 THEN base ELSE InputEast(after[m - 1], q[m])]
  BY <1>3
<1> HIDE DEF after
<1>5. Follows("InputEast", base, q, after)
  BY <1>1, <1>4 DEF Follows
<1>6. after[Len(q)] \in I[Len(q)]
  BY <1>5, LoopLeads
<1> QED BY <1>6 DEF Over, after

LEMMA GrowLeads ==
  ASSUME NEW E, NEW q \in Seq(E), NEW I, NEW base \in I[0], Leads("Grow", q, I)
  PROVE  Over(Grow, base, q) \in I[Len(q)]
<1> DEFINE after == CHOOSE f : f = [m \in 0..Len(q) |->
                                      IF m = 0 THEN base ELSE Grow(f[m - 1], q[m])]
<1>1. \A a, c : Step("Grow", a, c) = Grow(a, c)
  BY DEF Step
<1>2. PICK w : Follows("Grow", base, q, w)
  BY LoopExists
<1>3. w = [m \in 0..Len(q) |-> IF m = 0 THEN base ELSE Grow(w[m - 1], q[m])]
  BY <1>1, <1>2 DEF Follows
<1>4. after = [m \in 0..Len(q) |-> IF m = 0 THEN base ELSE Grow(after[m - 1], q[m])]
  BY <1>3
<1> HIDE DEF after
<1>5. Follows("Grow", base, q, after)
  BY <1>1, <1>4 DEF Follows
<1>6. after[Len(q)] \in I[Len(q)]
  BY <1>5, LoopLeads
<1> QED BY <1>6 DEF Over, after

LEMMA FreeLeads ==
  ASSUME NEW E, NEW q \in Seq(E), NEW I, NEW base \in I[0], Leads("Free", q, I)
  PROVE  Over(Free, base, q) \in I[Len(q)]
<1> DEFINE after == CHOOSE f : f = [m \in 0..Len(q) |->
                                      IF m = 0 THEN base ELSE Free(f[m - 1], q[m])]
<1>1. \A a, c : Step("Free", a, c) = Free(a, c)
  BY DEF Step
<1>2. PICK w : Follows("Free", base, q, w)
  BY LoopExists
<1>3. w = [m \in 0..Len(q) |-> IF m = 0 THEN base ELSE Free(w[m - 1], q[m])]
  BY <1>1, <1>2 DEF Follows
<1>4. after = [m \in 0..Len(q) |-> IF m = 0 THEN base ELSE Free(after[m - 1], q[m])]
  BY <1>3
<1> HIDE DEF after
<1>5. Follows("Free", base, q, after)
  BY <1>1, <1>4 DEF Follows
<1>6. after[Len(q)] \in I[Len(q)]
  BY <1>5, LoopLeads
<1> QED BY <1>6 DEF Over, after

LEMMA FullscreenLeads ==
  ASSUME NEW E, NEW q \in Seq(E), NEW I, NEW base \in I[0], Leads("Fullscreen", q, I)
  PROVE  Over(Fullscreen, base, q) \in I[Len(q)]
<1> DEFINE after == CHOOSE f : f = [m \in 0..Len(q) |->
                                      IF m = 0 THEN base ELSE Fullscreen(f[m - 1], q[m])]
<1>1. \A a, c : Step("Fullscreen", a, c) = Fullscreen(a, c)
  BY DEF Step
<1>2. PICK w : Follows("Fullscreen", base, q, w)
  BY LoopExists
<1>3. w = [m \in 0..Len(q) |-> IF m = 0 THEN base ELSE Fullscreen(w[m - 1], q[m])]
  BY <1>1, <1>2 DEF Follows
<1>4. after = [m \in 0..Len(q) |-> IF m = 0 THEN base ELSE Fullscreen(after[m - 1], q[m])]
  BY <1>3
<1> HIDE DEF after
<1>5. Follows("Fullscreen", base, q, after)
  BY <1>1, <1>4 DEF Follows
<1>6. after[Len(q)] \in I[Len(q)]
  BY <1>5, LoopLeads
<1> QED BY <1>6 DEF Over, after

-----------------------------------------------------------------------------
(* The passes, each client of the stack in its turn.  Records are in a set P *)
(* that the requests of a layout do not leave.                               *)

Accs(P, size) == [clients : P, avail : Rects, change : BOOLEAN, screen : {size}]

\* Whatever a pass asks of a client leads from records of P to records of P.
Closed(P, D, size) ==
  /\ \A f \in P : f \in [D -> Records]
  /\ \A f \in P, c \in D, g \in Rects :
       [f EXCEPT ![c] = Requested(f[c], c, g, "Layout", size)] \in P

LEMMA AccFields ==
  ASSUME NEW D, NEW P, NEW size, Closed(P, D, size), NEW a \in Accs(P, size)
  PROVE  /\ a.clients \in P /\ a.clients \in [D -> Records] /\ a.avail \in Rects
         /\ a.change \in BOOLEAN /\ a.screen = size
         /\ \A c \in D : a.clients[c] \in Records
BY DEF Accs, Closed

LEMMA AskIs ==
  ASSUME NEW D \in SUBSET Clients, NEW P, NEW size \in Sizes, Closed(P, D, size),
         NEW a \in Accs(P, size), NEW c \in D, NEW g \in Rects, NEW need \in BOOLEAN,
         NEW area \in Rects
  PROVE  /\ Ask(a, c, g, need) \in Accs(P, size)
         /\ [Ask(a, c, g, need) EXCEPT !.avail = area] \in Accs(P, size)
<1> DEFINE q == IF need THEN Requested(a.clients[c], c, g, "Layout", a.screen) ELSE a.clients[c]
           ds == [a.clients EXCEPT ![c] = q]
<1>1. a.clients \in P /\ a.clients \in [D -> Records] /\ a.screen = size
  BY AccFields
<1>2. ds \in P
  <2>1. CASE need
    <3>1. q = Requested(a.clients[c], c, g, "Layout", size)
      BY <1>1, <2>1
    <3> HIDE DEF q
    <3> QED BY <1>1, <3>1 DEF Closed
  <2>2. CASE ~need
    <3>1. ds = a.clients
      BY <1>1, <2>2
    <3> QED BY <1>1, <3>1
  <2> QED BY <2>1, <2>2
<1>3. Ask(a, c, g, need) = [a EXCEPT !.change = need, !.clients = ds]
  BY DEF Ask, Accs
<1> HIDE DEF ds
<1> QED BY <1>2, <1>3 DEF Accs

LEMMA TakenIs ==
  ASSUME NEW D \in SUBSET Clients, NEW P, NEW size \in Sizes, Closed(P, D, size),
         NEW a \in Accs(P, size), NEW c \in D, NEW g \in Rects, NEW need \in BOOLEAN,
         NEW h, NEW area \in Rects
  PROVE  Left(Ask(a, c, g, need), h, area) \in Accs(P, size)
<1>1. Ask(a, c, g, need) \in Accs(P, size)
  BY AskIs
<1> QED BY <1>1 DEF Left, Accs

\* Both helpers say whether they changed the rectangle.
LEMMA BentTyped ==
  ASSUME NEW g \in Rects, NEW area \in Rects, NEW flags
  PROVE  /\ Maximised(g, area, flags).geom \in Rects
         /\ Maximised(g, area, flags).changed \in BOOLEAN
         /\ Clipped(g, area, flags).geom \in Rects
         /\ Clipped(g, area, flags).changed \in BOOLEAN
<1>1. Maximised(g, area, flags).changed \in BOOLEAN
  BY DEF Maximised
<1>2. Clipped(g, area, flags).changed \in BOOLEAN
  BY DEF Clipped
<1> QED BY <1>1, <1>2, MaximisedTyped, ClippedTyped

LEMMA EdgeNorthIs ==
  ASSUME NEW D \in SUBSET Clients, NEW P, NEW size \in Sizes, Closed(P, D, size),
         NEW a \in Accs(P, size), NEW c \in D
  PROVE  EdgeNorth(a, c) \in Accs(P, size)
<1> DEFINE h == Hints(a.clients[c])
           m == Maximised(Coverage(a.clients[c]), a.avail, {"y"} \cup FlagsOf(h).across)
           k == Clipped(m.geom, a.avail, {"height"})
           need == m.changed \/ k.changed
<1>1. a.clients[c] \in Records /\ a.avail \in Rects /\ Coverage(a.clients[c]) \in Rects
  BY AccFields, RecordFields
<1> HIDE DEF h
<1>2. m.geom \in Rects /\ m.changed \in BOOLEAN
  BY <1>1, BentTyped
<1> HIDE DEF m
<1>3. k.geom \in Rects /\ k.changed \in BOOLEAN
  BY <1>1, <1>2, BentTyped
<1> HIDE DEF k
<1>4. need \in BOOLEAN /\ TakeNorth(a.avail, k.geom) \in Rects
  BY <1>1, <1>3, TakesTyped
<1> HIDE DEF need
<1>5. Left(Ask(a, c, k.geom, need), h, TakeNorth(a.avail, k.geom)) \in Accs(P, size)
  BY <1>3, <1>4, TakenIs
<1> QED BY <1>5 DEF EdgeNorth, h, m, k, need

LEMMA TwoFields ==
  ASSUME NEW g \in Rects, NEW i \in Int, NEW j \in Int
  PROVE  /\ [g EXCEPT !.x = i, !.width = j] \in Rects
         /\ [g EXCEPT !.y = i, !.height = j] \in Rects
<1>1. [g EXCEPT !.x = i] \in Rects /\ [g EXCEPT !.y = i] \in Rects
  BY DEF Rects
<1>2. \A q \in Rects : [q EXCEPT !.width = j] \in Rects /\ [q EXCEPT !.height = j] \in Rects
  BY DEF Rects
<1> DEFINE q == [g EXCEPT !.x = i]
           p == [g EXCEPT !.y = i]
<1>3. [q EXCEPT !.width = j] \in Rects /\ [p EXCEPT !.height = j] \in Rects
  BY <1>1, <1>2
<1> QED BY <1>3

LEMMA TwoFieldsBy ==
  ASSUME NEW g \in Rects, NEW i \in Int, NEW j \in Int
  PROVE  /\ [g EXCEPT !.x = i, !.width = @ - j] \in Rects
         /\ [g EXCEPT !.y = i, !.height = @ - j] \in Rects
<1>1. [g EXCEPT !.x = i] \in Rects /\ [g EXCEPT !.y = i] \in Rects
  BY DEF Rects
<1>2. \A q \in Rects : [q EXCEPT !.width = @ - j] \in Rects /\ [q EXCEPT !.height = @ - j] \in Rects
  BY DEF Rects
<1> DEFINE q == [g EXCEPT !.x = i]
           p == [g EXCEPT !.y = i]
<1>3. [q EXCEPT !.width = @ - j] \in Rects /\ [p EXCEPT !.height = @ - j] \in Rects
  BY <1>1, <1>2
<1> QED BY <1>3

LEMMA EdgeSouthIs ==
  ASSUME NEW D \in SUBSET Clients, NEW P, NEW size \in Sizes, Closed(P, D, size),
         NEW a \in Accs(P, size), NEW c \in D
  PROVE  EdgeSouth(a, c) \in Accs(P, size)
<1> DEFINE h == Hints(a.clients[c])
           m == Maximised(Coverage(a.clients[c]), a.avail, FlagsOf(h).across)
           y == a.avail.y + a.avail.height - m.geom.height
           k == Clipped([m.geom EXCEPT !.y = y], a.avail, {"height"})
           need == m.changed \/ y # m.geom.y \/ k.changed
<1>1. a.clients[c] \in Records /\ a.avail \in Rects /\ Coverage(a.clients[c]) \in Rects
  BY AccFields, RecordFields
<1> HIDE DEF h
<1>2. m.geom \in Rects /\ m.changed \in BOOLEAN
  BY <1>1, BentTyped
<1> HIDE DEF m
<1>3. y \in Int
  BY <1>1, <1>2, RectFields
<1> HIDE DEF y
<1>4. [m.geom EXCEPT !.y = y] \in Rects
  BY <1>2, <1>3, RectFields
<1>5. k.geom \in Rects /\ k.changed \in BOOLEAN
  BY <1>1, <1>4, BentTyped
<1> HIDE DEF k
<1>6. need \in BOOLEAN /\ TakeEnd(a.avail, k.geom, "height") \in Rects
  BY <1>1, <1>5, TakesTyped
<1> HIDE DEF need
<1>7. Left(Ask(a, c, k.geom, need), h, TakeEnd(a.avail, k.geom, "height")) \in Accs(P, size)
  BY <1>5, <1>6, TakenIs
<1> QED BY <1>7 DEF EdgeSouth, h, m, y, k, need

LEMMA EdgeWestIs ==
  ASSUME NEW D \in SUBSET Clients, NEW P, NEW size \in Sizes, Closed(P, D, size),
         NEW a \in Accs(P, size), NEW c \in D
  PROVE  EdgeWest(a, c) \in Accs(P, size)
<1> DEFINE h == Hints(a.clients[c])
           m == Maximised(Coverage(a.clients[c]), a.avail, {"x"} \cup FlagsOf(h).along)
           k == Clipped(m.geom, a.avail, {"width"})
           need == m.changed \/ k.changed
<1>1. a.clients[c] \in Records /\ a.avail \in Rects /\ Coverage(a.clients[c]) \in Rects
  BY AccFields, RecordFields
<1> HIDE DEF h
<1>2. m.geom \in Rects /\ m.changed \in BOOLEAN
  BY <1>1, BentTyped
<1> HIDE DEF m
<1>3. k.geom \in Rects /\ k.changed \in BOOLEAN
  BY <1>1, <1>2, BentTyped
<1> HIDE DEF k
<1>4. need \in BOOLEAN /\ TakeWest(a.avail, k.geom) \in Rects
  BY <1>1, <1>3, TakesTyped
<1> HIDE DEF need
<1>5. Left(Ask(a, c, k.geom, need), h, TakeWest(a.avail, k.geom)) \in Accs(P, size)
  BY <1>3, <1>4, TakenIs
<1> QED BY <1>5 DEF EdgeWest, h, m, k, need

LEMMA EdgeEastIs ==
  ASSUME NEW D \in SUBSET Clients, NEW P, NEW size \in Sizes, Closed(P, D, size),
         NEW a \in Accs(P, size), NEW c \in D
  PROVE  EdgeEast(a, c) \in Accs(P, size)
<1> DEFINE h == Hints(a.clients[c])
           m == Maximised(Coverage(a.clients[c]), a.avail, FlagsOf(h).along)
           x == a.avail.x + a.avail.width - m.geom.width
           k == Clipped([m.geom EXCEPT !.x = x], a.avail, {"width"})
           need == m.changed \/ x # m.geom.x \/ k.changed
<1>1. a.clients[c] \in Records /\ a.avail \in Rects /\ Coverage(a.clients[c]) \in Rects
  BY AccFields, RecordFields
<1> HIDE DEF h
<1>2. m.geom \in Rects /\ m.changed \in BOOLEAN
  BY <1>1, BentTyped
<1> HIDE DEF m
<1>3. x \in Int
  BY <1>1, <1>2, RectFields
<1> HIDE DEF x
<1>4. [m.geom EXCEPT !.x = x] \in Rects
  BY <1>2, <1>3, RectFields
<1>5. k.geom \in Rects /\ k.changed \in BOOLEAN
  BY <1>1, <1>4, BentTyped
<1> HIDE DEF k
<1>6. need \in BOOLEAN /\ TakeEnd(a.avail, k.geom, "width") \in Rects
  BY <1>1, <1>5, TakesTyped
<1> HIDE DEF need
<1>7. Left(Ask(a, c, k.geom, need), h, TakeEnd(a.avail, k.geom, "width")) \in Accs(P, size)
  BY <1>5, <1>6, TakenIs
<1> QED BY <1>7 DEF EdgeEast, h, m, x, k, need

LEMMA StretchedTyped ==
  ASSUME NEW D \in SUBSET Clients, NEW P, NEW size \in Sizes, Closed(P, D, size),
         NEW a \in Accs(P, size), NEW c \in D, NEW g \in Rects
  PROVE  /\ Wide(a, c, g).geom \in Rects /\ Wide(a, c, g).changed \in BOOLEAN
         /\ High(a, c, g).geom \in Rects /\ High(a, c, g).changed \in BOOLEAN
<1> DEFINE W == a.screen.width
           H == a.screen.height
<1>1. W \in Int /\ H \in Int /\ 0 \in Int
  BY AccFields DEF Sizes
<1> HIDE DEF W, H
<1>2. /\ [g EXCEPT !.x = 0, !.width = W] \in Rects
      /\ [g EXCEPT !.y = 0, !.height = H] \in Rects
  BY <1>1, TwoFields
<1> QED BY <1>2 DEF Wide, High, W, H

LEMMA InputNorthIs ==
  ASSUME NEW D \in SUBSET Clients, NEW P, NEW size \in Sizes, Closed(P, D, size),
         NEW a \in Accs(P, size), NEW c \in D
  PROVE  InputNorth(a, c) \in Accs(P, size)
<1> DEFINE m == Maximised(Coverage(a.clients[c]), a.avail, {"x", "y", "width"})
           w == Wide(a, c, m.geom)
           k == Clipped(w.geom, a.avail, {"height"})
           need == m.changed \/ w.changed \/ k.changed
<1>1. a.clients[c] \in Records /\ a.avail \in Rects /\ Coverage(a.clients[c]) \in Rects
  BY AccFields, RecordFields
<1>2. m.geom \in Rects /\ m.changed \in BOOLEAN
  BY <1>1, BentTyped
<1> HIDE DEF m
<1>3. w.geom \in Rects /\ w.changed \in BOOLEAN
  BY <1>2, StretchedTyped
<1> HIDE DEF w
<1>4. k.geom \in Rects /\ k.changed \in BOOLEAN
  BY <1>1, <1>3, BentTyped
<1> HIDE DEF k
<1>5. need \in BOOLEAN /\ TakeNorth(a.avail, k.geom) \in Rects
  BY <1>1, <1>4, TakesTyped
<1> HIDE DEF need
<1>6. [Ask(a, c, k.geom, need) EXCEPT !.avail = TakeNorth(a.avail, k.geom)] \in Accs(P, size)
  BY <1>4, <1>5, AskIs
<1> QED BY <1>6 DEF InputNorth, m, w, k, need

LEMMA InputWestIs ==
  ASSUME NEW D \in SUBSET Clients, NEW P, NEW size \in Sizes, Closed(P, D, size),
         NEW a \in Accs(P, size), NEW c \in D
  PROVE  InputWest(a, c) \in Accs(P, size)
<1> DEFINE m == Maximised(Coverage(a.clients[c]), a.avail, {"x", "y", "height"})
           w == High(a, c, m.geom)
           k == Clipped(w.geom, a.avail, {"width"})
           need == m.changed \/ w.changed \/ k.changed
<1>1. a.clients[c] \in Records /\ a.avail \in Rects /\ Coverage(a.clients[c]) \in Rects
  BY AccFields, RecordFields
<1>2. m.geom \in Rects /\ m.changed \in BOOLEAN
  BY <1>1, BentTyped
<1> HIDE DEF m
<1>3. w.geom \in Rects /\ w.changed \in BOOLEAN
  BY <1>2, StretchedTyped
<1> HIDE DEF w
<1>4. k.geom \in Rects /\ k.changed \in BOOLEAN
  BY <1>1, <1>3, BentTyped
<1> HIDE DEF k
<1>5. need \in BOOLEAN /\ TakeWest(a.avail, k.geom) \in Rects
  BY <1>1, <1>4, TakesTyped
<1> HIDE DEF need
<1>6. [Ask(a, c, k.geom, need) EXCEPT !.avail = TakeWest(a.avail, k.geom)] \in Accs(P, size)
  BY <1>4, <1>5, AskIs
<1> QED BY <1>6 DEF InputWest, m, w, k, need

LEMMA InputEastIs ==
  ASSUME NEW D \in SUBSET Clients, NEW P, NEW size \in Sizes, Closed(P, D, size),
         NEW a \in Accs(P, size), NEW c \in D
  PROVE  InputEast(a, c) \in Accs(P, size)
<1> DEFINE m == Maximised(Coverage(a.clients[c]), a.avail, {"y", "height"})
           w == High(a, c, m.geom)
           k == Clipped(w.geom, a.avail, {"width"})
           need == m.changed \/ w.changed \/ k.changed
<1>1. a.clients[c] \in Records /\ a.avail \in Rects /\ Coverage(a.clients[c]) \in Rects
  BY AccFields, RecordFields
<1>2. m.geom \in Rects /\ m.changed \in BOOLEAN
  BY <1>1, BentTyped
<1> HIDE DEF m
<1>3. w.geom \in Rects /\ w.changed \in BOOLEAN
  BY <1>2, StretchedTyped
<1> HIDE DEF w
<1>4. k.geom \in Rects /\ k.changed \in BOOLEAN
  BY <1>1, <1>3, BentTyped
<1> HIDE DEF k
<1>5. need \in BOOLEAN /\ TakeEnd(a.avail, k.geom, "width") \in Rects
  BY <1>1, <1>4, TakesTyped
<1> HIDE DEF need
<1>6. [Ask(a, c, k.geom, need) EXCEPT !.avail = TakeEnd(a.avail, k.geom, "width")] \in Accs(P, size)
  BY <1>4, <1>5, AskIs
<1> QED BY <1>6 DEF InputEast, m, w, k, need

LEMMA InputSouthIs ==
  ASSUME NEW D \in SUBSET Clients, NEW P, NEW size \in Sizes, Closed(P, D, size),
         NEW a \in Accs(P, size), NEW c \in D
  PROVE  InputSouth(a, c) \in Accs(P, size)
<1> DEFINE g == Coverage(a.clients[c])
           bottom == a.avail.y + a.avail.height
           y == IF bottom - g.height < 0 THEN 0 ELSE bottom - g.height
           m == Maximised([g EXCEPT !.y = y], a.avail, {"x", "width"})
           w == Wide(a, c, m.geom)
           k == Clipped(w.geom, a.avail, {"height"})
           last == [k.geom EXCEPT !.y = bottom - k.geom.height]
           need == \/ a.change \/ y # g.y \/ m.changed \/ w.changed \/ k.changed
                   \/ last # k.geom
<1>1. a.clients[c] \in Records /\ a.avail \in Rects /\ g \in Rects
  BY AccFields, RecordFields
<1> HIDE DEF g
<1>2. bottom \in Int /\ y \in Int
  BY <1>1, RectFields
<1> HIDE DEF bottom, y
<1>3. [g EXCEPT !.y = y] \in Rects
  BY <1>1, <1>2, RectFields
<1>4. m.geom \in Rects /\ m.changed \in BOOLEAN
  BY <1>1, <1>3, BentTyped
<1> HIDE DEF m
<1>5. w.geom \in Rects /\ w.changed \in BOOLEAN
  BY <1>4, StretchedTyped
<1> HIDE DEF w
<1>6. k.geom \in Rects /\ k.changed \in BOOLEAN
  BY <1>1, <1>5, BentTyped
<1> HIDE DEF k
<1>7. bottom - k.geom.height \in Int
  BY <1>2, <1>6, RectFields
<1>8. last \in Rects
  BY <1>6, <1>7, RectFields
<1> HIDE DEF last
<1>9. need \in BOOLEAN /\ TakeEnd(a.avail, last, "height") \in Rects
  BY <1>1, <1>8, TakesTyped
<1> HIDE DEF need
<1>10. [Ask(a, c, last, need) EXCEPT !.avail = TakeEnd(a.avail, last, "height")] \in Accs(P, size)
  BY <1>8, <1>9, AskIs
<1> QED BY <1>10 DEF InputSouth, g, bottom, y, m, w, k, last, need

LEMMA GrowIs ==
  ASSUME NEW D \in SUBSET Clients, NEW P, NEW size \in Sizes, Closed(P, D, size),
         NEW a \in Accs(P, size), NEW c \in D
  PROVE  Grow(a, c) \in Accs(P, size)
<1>1. a.avail \in Rects
  BY AccFields
<1> DEFINE need == TRUE
<1>2. need \in BOOLEAN
  OBVIOUS
<1> HIDE DEF need
<1>3. Ask(a, c, a.avail, need) \in Accs(P, size)
  BY <1>1, <1>2, AskIs
<1> QED BY <1>3 DEF Grow, need

LEMMA FreeIs ==
  ASSUME NEW D \in SUBSET Clients, NEW P, NEW size \in Sizes, Closed(P, D, size),
         NEW a \in Accs(P, size), NEW c \in D
  PROVE  Free(a, c) \in Accs(P, size)
<1> DEFINE k == Clipped(Coverage(a.clients[c]), a.avail, Fields)
<1>1. a.clients[c] \in Records /\ a.avail \in Rects /\ Coverage(a.clients[c]) \in Rects
  BY AccFields, RecordFields
<1>2. k.geom \in Rects /\ k.changed \in BOOLEAN
  BY <1>1, BentTyped
<1> HIDE DEF k
<1>3. Ask(a, c, k.geom, k.changed) \in Accs(P, size)
  BY <1>2, AskIs
<1> QED BY <1>3 DEF Free, k

LEMMA BesidesTyped ==
  ASSUME NEW D \in SUBSET Clients, NEW P, NEW size \in Sizes, Closed(P, D, size),
         NEW a \in Accs(P, size), NEW c \in D
  PROVE  BesidesInput(a, c) \in Rects
<1> DEFINE inputs == {d \in DOMAIN a.clients : a.clients[d].parent = c /\ Kind[d] = "Input"}
           d == CHOOSE d \in inputs : TRUE
           g == Coverage(a.clients[d])
           v == a.avail
<1>1. v \in Rects
  BY AccFields
<1>2. CASE inputs = {}
  BY <1>1, <1>2 DEF BesidesInput
<1>3. CASE inputs # {}
  <2>1. d \in inputs
    BY <1>3
  <2>2. g \in Rects
    <3>1. d \in D
      BY <2>1, AccFields
    <3> HIDE DEF inputs, d
    <3> QED BY <3>1, AccFields, RecordFields
  <2> HIDE DEF g, v
  <2>3. /\ g.x \in Int /\ g.y \in Int /\ g.width \in Int /\ g.height \in Int
        /\ v.x \in Int /\ v.y \in Int /\ v.width \in Int /\ v.height \in Int
    BY <1>1, <2>2, RectFields
  <2>4. /\ [v EXCEPT !.height = g.y - v.y] \in Rects
        /\ [v EXCEPT !.width = g.x - v.x] \in Rects
        /\ [v EXCEPT !.y = g.y + g.height, !.height = @ - (v.y - (g.y + g.height))] \in Rects
        /\ [v EXCEPT !.x = g.x + g.width, !.width = @ - (v.x - (g.x + g.width))] \in Rects
    <3>1. /\ g.y - v.y \in Int /\ g.x - v.x \in Int /\ g.y + g.height \in Int
          /\ g.x + g.width \in Int /\ v.y - (g.y + g.height) \in Int
          /\ v.x - (g.x + g.width) \in Int
      BY <2>3
    <3> QED BY <1>1, <3>1, RectFields, TwoFieldsBy
  <2>5. BesidesInput(a, c) \in
          {v, [v EXCEPT !.height = g.y - v.y], [v EXCEPT !.width = g.x - v.x],
           [v EXCEPT !.y = g.y + g.height, !.height = @ - (v.y - (g.y + g.height))],
           [v EXCEPT !.x = g.x + g.width, !.width = @ - (v.x - (g.x + g.width))]}
    BY <1>3 DEF BesidesInput, g, v
  <2> QED BY <1>1, <2>4, <2>5
<1> QED BY <1>2, <1>3

LEMMA FullscreenIs ==
  ASSUME NEW D \in SUBSET Clients, NEW P, NEW size \in Sizes, Closed(P, D, size),
         NEW a \in Accs(P, size), NEW c \in D
  PROVE  Fullscreen(a, c) \in Accs(P, size)
<1> DEFINE area == BesidesInput(a, c)
           need == Coverage(a.clients[c]) # area
<1>1. area \in Rects /\ need \in BOOLEAN
  BY BesidesTyped
<1> HIDE DEF area, need
<1>2. [Ask(a, c, area, need) EXCEPT !.avail = area] \in Accs(P, size)
  BY <1>1, AskIs
<1> QED BY <1>2 DEF Fullscreen, area, need

LEMMA StepIs ==
  ASSUME NEW D \in SUBSET Clients, NEW P, NEW size \in Sizes, Closed(P, D, size),
         NEW pass \in Passes
  PROVE  \A a \in Accs(P, size), c \in D : Step(pass, a, c) \in Accs(P, size)
<1> SUFFICES ASSUME NEW a \in Accs(P, size), NEW c \in D
             PROVE  Step(pass, a, c) \in Accs(P, size)
  OBVIOUS
<1>1. CASE pass = "EdgeNorth"
  BY <1>1, EdgeNorthIs DEF Step
<1>2. CASE pass = "EdgeSouth"
  BY <1>2, EdgeSouthIs DEF Step
<1>3. CASE pass = "EdgeWest"
  BY <1>3, EdgeWestIs DEF Step
<1>4. CASE pass = "EdgeEast"
  BY <1>4, EdgeEastIs DEF Step
<1>5. CASE pass = "InputNorth"
  BY <1>5, InputNorthIs DEF Step
<1>6. CASE pass = "InputSouth"
  BY <1>6, InputSouthIs DEF Step
<1>7. CASE pass = "InputWest"
  BY <1>7, InputWestIs DEF Step
<1>8. CASE pass = "InputEast"
  BY <1>8, InputEastIs DEF Step
<1>9. CASE pass = "Grow"
  BY <1>9, GrowIs DEF Step
<1>10. CASE pass = "Free"
  BY <1>10, FreeIs DEF Step
<1>11. CASE pass = "Fullscreen"
  BY <1>11, FullscreenIs DEF Step
<1> QED BY <1>1, <1>2, <1>3, <1>4, <1>5, <1>6, <1>7, <1>8, <1>9, <1>10, <1>11 DEF Passes

LEMMA PassIs ==
  ASSUME NEW D \in SUBSET Clients, NEW P, NEW size \in Sizes, Closed(P, D, size),
         NEW a \in Accs(P, size), NEW q \in Seq(D)
  PROVE  LET A == Accs(P, size)
         IN /\ Over(EdgeNorth, a, q) \in A
            /\ Over(EdgeSouth, a, q) \in A
            /\ Over(EdgeWest, a, q) \in A
            /\ Over(EdgeEast, a, q) \in A
            /\ Over(InputNorth, a, q) \in A
            /\ Over(InputSouth, a, q) \in A
            /\ Over(InputWest, a, q) \in A
            /\ Over(InputEast, a, q) \in A
            /\ Over(Grow, a, q) \in A
            /\ Over(Free, a, q) \in A
            /\ Over(Fullscreen, a, q) \in A
<1> DEFINE A == Accs(P, size)
           I == [m \in 0..Len(q) |-> A]
<1>1. /\ Len(q) \in 0..Len(q) /\ 0 \in 0..Len(q)
      /\ \A m \in 1..Len(q) : q[m] \in D /\ m - 1 \in 0..Len(q) /\ m \in 0..Len(q)
  OBVIOUS
<1>2. \A m \in 0..Len(q) : I[m] = A
  OBVIOUS
<1> HIDE DEF I
<1>3. \A pass \in Passes : Leads(pass, q, I)
  BY <1>1, <1>2, StepIs DEF Leads
<1>4. a \in I[0]
  BY <1>1, <1>2
<1>5. A = I[Len(q)]
  BY <1>1, <1>2
<1> HIDE DEF A
<1>6. Over(EdgeNorth, a, q) \in A
  BY <1>3, <1>4, <1>5, EdgeNorthLeads DEF Passes
<1>7. Over(EdgeSouth, a, q) \in A
  BY <1>3, <1>4, <1>5, EdgeSouthLeads DEF Passes
<1>8. Over(EdgeWest, a, q) \in A
  BY <1>3, <1>4, <1>5, EdgeWestLeads DEF Passes
<1>9. Over(EdgeEast, a, q) \in A
  BY <1>3, <1>4, <1>5, EdgeEastLeads DEF Passes
<1>10. Over(InputNorth, a, q) \in A
  BY <1>3, <1>4, <1>5, InputNorthLeads DEF Passes
<1>11. Over(InputSouth, a, q) \in A
  BY <1>3, <1>4, <1>5, InputSouthLeads DEF Passes
<1>12. Over(InputWest, a, q) \in A
  BY <1>3, <1>4, <1>5, InputWestLeads DEF Passes
<1>13. Over(InputEast, a, q) \in A
  BY <1>3, <1>4, <1>5, InputEastLeads DEF Passes
<1>14. Over(Grow, a, q) \in A
  BY <1>3, <1>4, <1>5, GrowLeads DEF Passes
<1>15. Over(Free, a, q) \in A
  BY <1>3, <1>4, <1>5, FreeLeads DEF Passes
<1>16. Over(Fullscreen, a, q) \in A
  BY <1>3, <1>4, <1>5, FullscreenLeads DEF Passes
<1> QED BY <1>6, <1>7, <1>8, <1>9, <1>10, <1>11, <1>12, <1>13, <1>14, <1>15, <1>16 DEF A

LEMMA LoopsIn ==
  ASSUME NEW D \in SUBSET Clients, NEW P, NEW size \in Sizes, Closed(P, D, size),
         NEW a \in Accs(P, size), NEW q \in Seq(D)
  PROVE  Panels(a, q) \in Accs(P, size) /\ Inputs(a, q) \in Accs(P, size)
<1> DEFINE A == Accs(P, size)
           p2 == Over(EdgeSouth, Over(EdgeNorth, a, q), q)
           b == [a EXCEPT !.change = FALSE]
           i2 == Over(InputSouth, Over(InputNorth, b, q), q)
<1>1. ASSUME NEW p \in A
      PROVE  /\ Over(EdgeNorth, p, q) \in A /\ Over(EdgeSouth, p, q) \in A
             /\ Over(EdgeWest, p, q) \in A /\ Over(EdgeEast, p, q) \in A
             /\ Over(InputNorth, p, q) \in A /\ Over(InputSouth, p, q) \in A
             /\ Over(InputWest, p, q) \in A /\ Over(InputEast, p, q) \in A
  BY PassIs
<1>2. b \in A
  BY DEF Accs
<1> HIDE DEF A, b
<1>3. p2 \in A /\ i2 \in A
  BY <1>1, <1>2 DEF A
<1> HIDE DEF p2, i2
<1>4. /\ Over(EdgeEast, Over(EdgeWest, p2, q), q) \in A
      /\ Over(InputEast, Over(InputWest, i2, q), q) \in A
  BY <1>1, <1>3
<1> QED BY <1>4 DEF A, Panels, Inputs, p2, i2, b

\* Where a layout starts.
Start(cs, size) ==
  [clients |-> cs, avail |-> Rect(0, 0, size.width, size.height), change |-> FALSE,
   screen |-> size]

\* What is left when applications have grown, and before fullscreen clients are filled.
Reached(cs, q, size) == Inputs(Panels(Start(cs, size), q), q)
Grown(cs, q, size) == Over(Grow, Reached(cs, q, size), q)
Filling(cs, q, size) ==
  [Over(Free, Grown(cs, q, size), q) EXCEPT !.avail = Rect(0, 0, size.width, size.height)]

LEMMA UpdatedBy ==
  ASSUME NEW cs, NEW q, NEW size
  PROVE  Updated(cs, q, size) = Over(Fullscreen, Filling(cs, q, size), q).clients
BY DEF Updated, Filling, Grown, Reached, Start

LEMMA ReachedIn ==
  ASSUME NEW D \in SUBSET Clients, NEW P, NEW size \in Sizes, Closed(P, D, size),
         NEW cs \in P, NEW q \in Seq(D)
  PROVE  Reached(cs, q, size) \in Accs(P, size)
<1> DEFINE start == Start(cs, size)
<1>1. Rect(0, 0, size.width, size.height) \in Rects
  BY RectIs DEF Sizes
<1>2. start \in Accs(P, size)
  BY <1>1 DEF Start, Accs
<1> HIDE DEF start
<1>3. Panels(start, q) \in Accs(P, size)
  BY <1>2, LoopsIn
<1>4. Inputs(Panels(start, q), q) \in Accs(P, size)
  BY <1>3, LoopsIn
<1> QED BY <1>4 DEF Reached, start

LEMMA FillingIn ==
  ASSUME NEW D \in SUBSET Clients, NEW P, NEW size \in Sizes, Closed(P, D, size),
         NEW cs, NEW q \in Seq(D), Grown(cs, q, size) \in Accs(P, size)
  PROVE  Filling(cs, q, size) \in Accs(P, size)
<1>1. Rect(0, 0, size.width, size.height) \in Rects
  BY RectIs DEF Sizes
<1>2. Over(Free, Grown(cs, q, size), q) \in Accs(P, size)
  BY PassIs
<1> QED BY <1>1, <1>2 DEF Filling, Accs

\* Whatever the stack, the records stay in P.
LEMMA UpdatedIn ==
  ASSUME NEW D \in SUBSET Clients, NEW P, NEW size \in Sizes, Closed(P, D, size),
         NEW cs \in P, NEW q \in Seq(D)
  PROVE  /\ Updated(cs, q, size) \in P
         /\ Grown(cs, q, size) \in Accs(P, size) /\ Filling(cs, q, size) \in Accs(P, size)
<1>1. Grown(cs, q, size) \in Accs(P, size)
  BY ReachedIn, PassIs DEF Grown
<1>2. Filling(cs, q, size) \in Accs(P, size)
  BY <1>1, FillingIn
<1>3. Over(Fullscreen, Filling(cs, q, size), q) \in Accs(P, size)
  BY <1>2, PassIs
<1> QED BY <1>1, <1>2, <1>3, UpdatedBy DEF Accs

\* The records a layout may make of the records cs: it moves and sizes the clients and
\* does nothing else to them.
Layouts(cs) ==
  {ds \in [DOMAIN cs -> Records] : \A c \in DOMAIN cs : Relaid(cs[c], ds[c])}

LEMMA RelaidTwice ==
  ASSUME NEW r \in Records, NEW q \in Records, NEW p \in Records, Relaid(r, q), Relaid(q, p)
  PROVE  Relaid(r, p)
BY DEF Relaid, Records, Bits

LEMMA LayoutsClosed ==
  ASSUME NEW D \in SUBSET Clients, NEW cs \in [D -> Records], NEW size \in Sizes
  PROVE  Closed(Layouts(cs), D, size)
<1> SUFFICES ASSUME NEW f \in Layouts(cs), NEW c \in D, NEW g \in Rects
             PROVE  [f EXCEPT ![c] = Requested(f[c], c, g, "Layout", size)] \in Layouts(cs)
  BY DEF Closed, Layouts
<1> DEFINE q == Requested(f[c], c, g, "Layout", size)
<1>1. /\ f \in [D -> Records] /\ \A d \in D : Relaid(cs[d], f[d])
      /\ cs[c] \in Records /\ f[c] \in Records /\ c \in Clients
  BY DEF Layouts
<1>2. q \in Records /\ Relaid(f[c], q)
  BY <1>1, RequestedIs
<1>3. Relaid(cs[c], q)
  BY <1>1, <1>2, RelaidTwice
<1> HIDE DEF q
<1>4. [f EXCEPT ![c] = q] \in Layouts(cs)
  BY <1>1, <1>2, <1>3 DEF Layouts
<1> QED BY <1>4 DEF q

LEMMA UpdatedIs ==
  ASSUME NEW D \in SUBSET Clients, NEW cs \in [D -> Records], NEW size \in Sizes,
         NEW q \in Seq(D)
  PROVE  Updated(cs, q, size) \in Layouts(cs)
<1>1. cs \in Layouts(cs)
  BY SameIs DEF Layouts
<1> QED BY <1>1, LayoutsClosed, UpdatedIn

-----------------------------------------------------------------------------
(* What a client is when its window is mapped.                               *)

NewRecord(r, t) ==
  /\ r \in Records /\ r.parent = t /\ r.dirty = {"Geometry"}
  /\ ~r.framed /\ ~r.full /\ r.mapped /\ ~r.realized

LEMMA RelaidNew ==
  ASSUME NEW r, NEW t, NewRecord(r, t), NEW q \in Records, Relaid(r, q)
  PROVE  NewRecord(q, t) /\ q.hints = r.hints
BY DEF NewRecord, Relaid

LEMMA FreshIs ==
  ASSUME NEW g \in Rects, NEW t \in Clients \cup {NULL}
  PROVE  NewRecord(Fresh(g, t), t) /\ Fresh(g, t).window = g /\ Fresh(g, t).x = g
<1>1. Nowhere \in Rects
  BY RectIs DEF Nowhere
<1>2. {} \in SUBSET AllHints /\ {"Geometry"} \in SUBSET Bits
  BY DEF Bits
<1>3. Fresh(g, t) \in Records
  BY <1>1, <1>2 DEF Fresh, Records
<1> QED BY <1>3 DEF Fresh, NewRecord, Records

LEMMA NewWith ==
  ASSUME NEW r, NEW t, NewRecord(r, t), NEW h \in SUBSET AllHints, NEW w \in Rects
  PROVE  NewRecord([r EXCEPT !.window = w, !.hints = h], t)
<1> DEFINE p == [r EXCEPT !.window = w]
<1>1. NewRecord(p, t)
  BY DEF NewRecord, Records
<1> HIDE DEF p
<1>2. NewRecord([p EXCEPT !.hints = h], t)
  BY <1>1 DEF NewRecord, Records
<1> QED BY <1>2 DEF p

With(r, h, w) == [r EXCEPT !.hints = h, !.window = w]

LEMMA HintedIs ==
  ASSUME NEW r, NEW t, NewRecord(r, t), NEW h \in SUBSET AllHints, NEW w \in Rects
  PROVE  NewRecord(With(r, h, w), t) /\ With(r, h, w).hints = h
<1> DEFINE q == [r EXCEPT !.hints = h]
<1>1. NewRecord(q, t) /\ q.hints = h
  BY DEF NewRecord, Records
<1> HIDE DEF q
<1>2. NewRecord([q EXCEPT !.window = w], t) /\ [q EXCEPT !.window = w].hints = h
  BY <1>1 DEF NewRecord, Records
<1> QED BY <1>2 DEF q, With

LEMMA CornerTyped ==
  ASSUME NEW g \in Rects, NEW i \in Int, NEW j \in Int
  PROVE  [g EXCEPT !.x = i, !.y = j] \in Rects
<1> DEFINE q == [g EXCEPT !.x = i]
<1>1. q \in Rects
  BY DEF Rects
<1>2. [q EXCEPT !.y = j] \in Rects
  BY <1>1, RectFields
<1> QED BY <1>2

LEMMA AppInitIs ==
  ASSUME NEW c \in Clients, NEW r, NEW t, NewRecord(r, t)
  PROVE  NewRecord(AppInit(r, c), t) /\ AppInit(r, c).hints = {"Grow"}
BY DEF AppInit, NewRecord, Records, AllHints

LEMMA InputInitIs ==
  ASSUME NEW c \in Clients, NEW r, NEW t, NewRecord(r, t)
  PROVE  NewRecord(InputInit(r, c), t) /\ InputInit(r, c).hints = {"South"}
BY DEF InputInit, NewRecord, Records, AllHints

LEMMA DesktopInitIs ==
  ASSUME NEW c \in Clients, NEW r, NEW t, NewRecord(r, t), screen \in Sizes
  PROVE  NewRecord(DesktopInit(r, c), t)
<1> DEFINE q == [r EXCEPT !.hints = {"Fullscreen"}]
           whole == Rect(0, 0, screen.width, screen.height)
<1>1. NewRecord(q, t)
  BY DEF NewRecord, Records, AllHints
<1>2. whole \in Rects
  BY RectIs DEF Sizes
<1> HIDE DEF q, whole
<1>3. /\ DesktopRequest(q, c, whole, "Forced") \in Records
      /\ Relaid(q, DesktopRequest(q, c, whole, "Forced"))
  BY <1>1, <1>2, DesktopRequestIs DEF NewRecord
<1>4. NewRecord(DesktopRequest(q, c, whole, "Forced"), t)
  BY <1>1, <1>3, RelaidNew
<1> QED BY <1>4 DEF DesktopInit, q, whole

LEMMA DialogInitIs ==
  ASSUME NEW c \in Clients, NEW r, NEW t, NewRecord(r, t), screen \in Sizes
  PROVE  /\ NewRecord(DialogInit(r, c), t) /\ DialogInit(r, c).frame \in Rects
         /\ DialogInit(r, c).hints = {"Free", "Movable"}
<1> DEFINE g == r.window
           mid == [g EXCEPT !.x = (screen.width - g.width) \div 2,
                            !.y = (screen.height - g.height) \div 2]
           at == IF Kind[c] = "Dialog" /\ g.x = 0 /\ g.y = 0 THEN mid ELSE g
           q == [r EXCEPT !.hints = {"Free", "Movable"}, !.window = at]
           to == [Around(c, at) EXCEPT !.x = at.x, !.y = at.y]
<1>1. g \in Rects
  BY RecordFields DEF NewRecord
<1> HIDE DEF g
<1>2. mid \in Rects
  <2> DEFINE X == (screen.width - g.width) \div 2
             Y == (screen.height - g.height) \div 2
  <2>1. X \in Int /\ Y \in Int
    BY <1>1, RectFields DEF Sizes
  <2> HIDE DEF X, Y
  <2>2. [g EXCEPT !.x = X, !.y = Y] \in Rects
    BY <1>1, <2>1, CornerTyped
  <2> QED BY <2>2 DEF X, Y
<1> HIDE DEF mid
<1>3. at \in Rects
  BY <1>1, <1>2
<1> HIDE DEF at
<1> DEFINE h == {"Free", "Movable"}
<1>4. h \in SUBSET AllHints
  BY DEF AllHints
<1> HIDE DEF h
<1>5. NewRecord(q, t) /\ q.hints = {"Free", "Movable"}
  <2>1. q = With(r, h, at)
    BY DEF h, With
  <2> HIDE DEF q
  <2>2. NewRecord(q, t) /\ q.hints = h
    BY <1>3, <1>4, <2>1, HintedIs
  <2> QED BY <2>2 DEF h
<1> HIDE DEF q
<1>6. at.x \in Int /\ at.y \in Int /\ Around(c, at) \in Rects
  BY <1>3, RectFields, InsideTyped
<1>7. to \in Rects
  BY <1>6, CornerTyped
<1> HIDE DEF to
<1>8. /\ DialogRequest(q, c, to, "Forced") \in Records
      /\ Relaid(q, DialogRequest(q, c, to, "Forced"))
  BY <1>5, <1>7, DialogRequestIs DEF NewRecord
<1>9. /\ NewRecord(DialogRequest(q, c, to, "Forced"), t)
      /\ DialogRequest(q, c, to, "Forced").hints = {"Free", "Movable"}
  BY <1>5, <1>8, RelaidNew
<1>10. DialogInit(r, c) = DialogRequest(q, c, to, "Forced")
  BY DEF DialogInit, to, q, at, mid, g
<1> QED BY <1>8, <1>9, <1>10, RecordFields

LEMMA NoteInitIs ==
  ASSUME NEW c \in Clients, NEW r, NEW t, NewRecord(r, t), screen \in Sizes
  PROVE  NewRecord(NoteInit(r, c), t) /\ NoteInit(r, c).hints = {"Free", "Movable"}
<1> DEFINE d == DialogInit(r, c)
           right == screen.width - d.frame.width
           bottom == screen.height - d.frame.height
           x == CASE Gravity[c] \in {"East", "SouthEast"} -> right
                  [] Gravity[c] = "West" -> 0
                  [] OTHER -> IF d.frame.x >= screen.width THEN right ELSE d.frame.x
           y == CASE Gravity[c] \in {"South", "SouthEast"} -> bottom
                  [] Gravity[c] = "North" -> 0
                  [] OTHER -> IF d.frame.y >= screen.height THEN bottom ELSE d.frame.y
           to == [d.frame EXCEPT !.x = x, !.y = y]
<1>1. NewRecord(d, t) /\ d.frame \in Rects /\ d.hints = {"Free", "Movable"}
  BY DialogInitIs
<1> HIDE DEF d
<1>2. right \in Int /\ bottom \in Int /\ d.frame.x \in Int /\ d.frame.y \in Int
  BY <1>1, RectFields DEF Sizes
<1> HIDE DEF right, bottom
<1>3. x \in Int
  BY <1>2
<1>4. y \in Int
  BY <1>2
<1> HIDE DEF x, y
<1>5. to \in Rects
  BY <1>1, <1>3, <1>4, CornerTyped
<1> HIDE DEF to
<1>6. /\ DialogRequest(d, c, to, "Forced") \in Records
      /\ Relaid(d, DialogRequest(d, c, to, "Forced"))
  BY <1>1, <1>5, DialogRequestIs DEF NewRecord
<1>7. /\ NewRecord(DialogRequest(d, c, to, "Forced"), t)
      /\ DialogRequest(d, c, to, "Forced").hints = {"Free", "Movable"}
  BY <1>1, <1>6, RelaidNew
<1> QED BY <1>7 DEF NoteInit, to, x, y, right, bottom, d

LEMMA PanelInitIs ==
  ASSUME NEW c \in Clients, NEW r, NEW t, NewRecord(r, t), screen \in Sizes
  PROVE  NewRecord(PanelInit(r, c), t)
<1> DEFINE g == ThemeGeometry(c, r.window)
           edge == IF g.width > g.height
                   THEN IF g.y < screen.height \div 2 THEN "EdgeNorth" ELSE "EdgeSouth"
                   ELSE IF g.x < screen.width \div 2 THEN "EdgeWest" ELSE "EdgeEast"
           h == IF ThemeHints(c) = {} THEN {edge} ELSE ThemeHints(c)
<1>1. Prescribed[c].geometry \in Rects /\ Prescribed[c].hints \in SUBSET AllHints
  BY LayoutAssumption
<1>2. r.window \in Rects
  BY RecordFields DEF NewRecord
<1>3. g \in Rects
  <2> DEFINE p == Prescribed[c].geometry
             w == r.window
             m == [f \in Fields |-> IF p[f] < 0 THEN w[f] ELSE p[f]]
  <2>1. \A f \in Fields : p[f] \in Int /\ w[f] \in Int
    BY <1>1, <1>2, RectFields
  <2> HIDE DEF p, w
  <2>2. m = Rect(m.x, m.y, m.width, m.height)
    BY DEF Rect, Fields
  <2>3. m.x \in Int /\ m.y \in Int /\ m.width \in Int /\ m.height \in Int
    BY <2>1 DEF Fields
  <2> HIDE DEF m
  <2>4. m \in Rects
    BY <2>2, <2>3, RectIs
  <2> QED BY <2>4 DEF ThemeGeometry, m, p, w
<1> HIDE DEF g
<1>4. h \in SUBSET AllHints
  BY <1>1 DEF ThemeHints, AllHints
<1> HIDE DEF h
<1>5. NewRecord([r EXCEPT !.window = g, !.hints = h], t)
  BY <1>3, <1>4, NewWith
<1> QED BY <1>5 DEF PanelInit, g, h

LEMMA MenuInitIs ==
  ASSUME NEW c \in Clients, NEW r, NEW t, NewRecord(r, t), screen \in Sizes
  PROVE  NewRecord(MenuInit(r, c), t) /\ MenuInit(r, c).hints = {"Free", "FixedX", "FixedY"}
<1> DEFINE q == [r EXCEPT !.hints = {"Free", "FixedX", "FixedY"}]
           g == Around(c, r.window)
<1>1. NewRecord(q, t) /\ q.hints = {"Free", "FixedX", "FixedY"}
  BY DEF NewRecord, Records, AllHints
<1>2. g \in Rects
  BY RecordFields, InsideTyped DEF NewRecord
<1> HIDE DEF q, g
<1>3. /\ MenuRequest(q, c, g, "Forced", screen) \in Records
      /\ Relaid(q, MenuRequest(q, c, g, "Forced", screen))
  BY <1>1, <1>2, MenuRequestIs DEF NewRecord
<1>4. /\ NewRecord(MenuRequest(q, c, g, "Forced", screen), t)
      /\ MenuRequest(q, c, g, "Forced", screen).hints = {"Free", "FixedX", "FixedY"}
  BY <1>1, <1>3, RelaidNew
<1> QED BY <1>4 DEF MenuInit, q, g

LEMMA OpenedIs ==
  ASSUME NEW c \in Clients, NEW g \in Rects, Managed \subseteq Clients, screen \in Sizes
  PROVE  /\ NewRecord(Opened(c, g), IF For[c] \in Managed THEN For[c] ELSE NULL)
         /\ Kind[c] = "App" => Opened(c, g).hints = {"Grow"}
         /\ Kind[c] = "Input" => Opened(c, g).hints = {"South"}
<1> DEFINE t == IF For[c] \in Managed THEN For[c] ELSE NULL
           r == Fresh(g, t)
<1>1. NewRecord(r, t)
  <2>1. t \in Clients \cup {NULL}
    OBVIOUS
  <2> HIDE DEF t
  <2> QED BY <2>1, FreshIs
<1> HIDE DEF r, t
<1>2. Kind[c] \in {"App", "Desktop", "Dialog", "Note", "Panel", "Input", "Menu"}
  BY LayoutAssumption
<1>3. Opened(c, g) =
        CASE Kind[c] = "App" -> AppInit(r, c)
          [] Kind[c] = "Desktop" -> DesktopInit(r, c)
          [] Kind[c] = "Dialog" -> DialogInit(r, c)
          [] Kind[c] = "Note" -> NoteInit(r, c)
          [] Kind[c] = "Panel" -> PanelInit(r, c)
          [] Kind[c] = "Input" -> InputInit(r, c)
          [] Kind[c] = "Menu" -> MenuInit(r, c)
  BY DEF Opened, r, t
<1>4. /\ NewRecord(AppInit(r, c), t) /\ AppInit(r, c).hints = {"Grow"}
      /\ NewRecord(InputInit(r, c), t) /\ InputInit(r, c).hints = {"South"}
      /\ NewRecord(DesktopInit(r, c), t) /\ NewRecord(DialogInit(r, c), t)
      /\ NewRecord(NoteInit(r, c), t) /\ NewRecord(PanelInit(r, c), t)
      /\ NewRecord(MenuInit(r, c), t)
  BY <1>1, AppInitIs, InputInitIs, DesktopInitIs, DialogInitIs, NoteInitIs, PanelInitIs, MenuInitIs
<1> QED BY <1>2, <1>3, <1>4 DEF t

-----------------------------------------------------------------------------
(* The types.  The stack is a sequence of the managed clients without        *)
(* duplicates, and whoever is transient is so for a client that is managed.  *)

Listed(s, M) ==
  /\ s \in Seq(M)
  /\ Len(s) = Cardinality(M)
  /\ \A i, j \in 1..Len(s) : s[i] = s[j] => i = j
  /\ \A c \in M : \E i \in 1..Len(s) : s[i] = c

Types ==
  /\ Managed \in SUBSET Clients /\ IsFiniteSet(Managed)
  /\ clients \in [Managed -> Records]
  /\ Listed(order, Managed)
  /\ screen \in Sizes /\ turns \in Nat
  /\ \A c \in Managed : /\ clients[c].parent \in Managed \cup {NULL}
                        /\ clients[c].dirty \subseteq sync
  /\ DOMAIN server = Managed /\ asked \subseteq Managed

LEMMA ScreensAre ==
  ASSUME NEW i \in 1..Len(Screens)
  PROVE  Screens[i] \in Sizes
<1>1. Screens \in Seq(Sizes)
  BY LayoutAssumption, Zenon DEF Sizes
<1> QED BY <1>1

LEMMA InitTypes == Init => Types
<1> SUFFICES ASSUME Init PROVE Types
  OBVIOUS
<1>1. Managed = {} /\ DOMAIN server = {}
  BY DEF Init, Managed
<1>2. Screens[1] \in Sizes
  <2>1. Len(Screens) \in Nat /\ Len(Screens) # 0
    BY LayoutAssumption
  <2> QED BY <2>1, ScreensAre
<1>3. clients \in [{} -> Records]
  BY <1>1 DEF Init, Managed
<1>4. Listed(order, {})
  <2>1. Cardinality({}) = 0
    BY FS_EmptySet
  <2> QED BY <2>1 DEF Init, Listed
<1>5. IsFiniteSet({})
  BY FS_EmptySet
<1> QED BY <1>1, <1>2, <1>3, <1>4, <1>5 DEF Init, Types

LEMMA AppendListed ==
  ASSUME NEW M, IsFiniteSet(M), NEW s, Listed(s, M), NEW c, c \notin M
  PROVE  Listed(Append(s, c), M \cup {c}) /\ IsFiniteSet(M \cup {c})
<1> DEFINE n == Len(s)
           p == Append(s, c)
<1>1. n \in Nat /\ s \in Seq(M) /\ \A i \in 1..n : s[i] \in M
  BY DEF Listed
<1>2. s \in Seq(M \cup {c})
  BY <1>1
<1>3. p \in Seq(M \cup {c}) /\ Len(p) = n + 1
  BY <1>2
<1>4. \A i \in 1..(n + 1) : p[i] = IF i = n + 1 THEN c ELSE s[i]
  BY <1>1, <1>2
<1>5. IsFiniteSet(M \cup {c}) /\ Cardinality(M \cup {c}) = Cardinality(M) + 1
  BY FS_AddElement
<1> HIDE DEF p
<1>6. \A i, j \in 1..(n + 1) : p[i] = p[j] => i = j
  BY <1>1, <1>4 DEF Listed
<1>7. \A d \in M \cup {c} : \E i \in 1..(n + 1) : p[i] = d
  <2>1. n + 1 \in 1..(n + 1) /\ p[n + 1] = c
    BY <1>1, <1>4
  <2>2. ASSUME NEW d \in M PROVE \E i \in 1..(n + 1) : p[i] = d
    <3>1. PICK i \in 1..n : s[i] = d
      BY DEF Listed
    <3>2. i \in 1..(n + 1) /\ i # n + 1
      BY <1>1
    <3> QED BY <1>4, <3>1, <3>2
  <2> QED BY <2>1, <2>2
<1> QED BY <1>3, <1>5, <1>6, <1>7 DEF Listed, p

\* A sequence without its k-th element.
LEMMA RemoveAtIs ==
  ASSUME NEW S, NEW q \in Seq(S), NEW k \in 1..Len(q)
  PROVE  /\ RemoveAt(q, k) \in Seq(S)
         /\ Len(RemoveAt(q, k)) = Len(q) - 1
         /\ \A i \in 1..(Len(q) - 1) :
              RemoveAt(q, k)[i] = IF i < k THEN q[i] ELSE q[i + 1]
<1> DEFINE a == SubSeq(q, 1, k - 1)
           b == SubSeq(q, k + 1, Len(q))
<1>1. Len(q) \in Nat /\ k \in Nat /\ k >= 1 /\ k <= Len(q)
  OBVIOUS
<1>2. a \in Seq(S) /\ Len(a) = k - 1 /\ \A i \in 1..(k - 1) : a[i] = q[i]
  BY <1>1
<1>3. b \in Seq(S) /\ Len(b) = Len(q) - k /\ \A i \in 1..(Len(q) - k) : b[i] = q[k + i]
  BY <1>1
<1> HIDE DEF a, b
<1>4. a \o b \in Seq(S) /\ Len(a \o b) = Len(q) - 1
  <2>1. a \o b \in Seq(S) /\ Len(a \o b) = Len(a) + Len(b)
    <3>1. a \in Seq(S) /\ b \in Seq(S)
      BY <1>2, <1>3
    <3> QED BY <3>1
  <2> QED BY <1>1, <1>2, <1>3, <2>1
<1>5. ASSUME NEW i \in 1..(Len(q) - 1)
      PROVE  (a \o b)[i] = IF i < k THEN q[i] ELSE q[i + 1]
  <2>1. (a \o b)[i] = IF i <= Len(a) THEN a[i] ELSE b[i - Len(a)]
    BY <1>1, <1>2, <1>3
  <2>2. CASE i < k
    BY <1>1, <1>2, <2>1, <2>2
  <2>3. CASE i >= k
    <3>1. i - (k - 1) \in 1..(Len(q) - k) /\ k + (i - (k - 1)) = i + 1 /\ ~(i <= k - 1)
      BY <1>1, <2>3
    <3> QED BY <1>2, <1>3, <2>1, <2>3, <3>1
  <2>4. i < k \/ i >= k
    BY <1>1
  <2> QED BY <2>2, <2>3, <2>4
<1>6. RemoveAt(q, k) = a \o b
  BY DEF RemoveAt, a, b
<1> QED BY <1>4, <1>5, <1>6

LEMMA RemoveListed ==
  ASSUME NEW M, IsFiniteSet(M), NEW s, Listed(s, M), NEW c \in M
  PROVE  /\ Listed(RemoveAt(s, CHOOSE i \in DOMAIN s : s[i] = c), M \ {c})
         /\ IsFiniteSet(M \ {c})
<1> DEFINE n == Len(s)
           k == CHOOSE i \in DOMAIN s : s[i] = c
           p == RemoveAt(s, k)
<1>1. n \in Nat /\ s \in Seq(M) /\ DOMAIN s = 1..n
  BY DEF Listed
<1>2. k \in 1..n /\ s[k] = c
  <2>1. \E i \in DOMAIN s : s[i] = c
    BY <1>1 DEF Listed
  <2> QED BY <1>1, <2>1
<1> HIDE DEF k
<1>3. /\ p \in Seq(M) /\ Len(p) = n - 1
      /\ \A i \in 1..(n - 1) : p[i] = IF i < k THEN s[i] ELSE s[i + 1]
  BY <1>1, <1>2, RemoveAtIs
<1>4. IsFiniteSet(M \ {c}) /\ Cardinality(M \ {c}) = Cardinality(M) - 1
  BY FS_RemoveElement
<1> HIDE DEF p
<1> DEFINE at == [i \in 1..(n - 1) |-> IF i < k THEN i ELSE i + 1]
<1>5. \A i \in 1..(n - 1) : at[i] \in 1..n /\ at[i] # k /\ p[i] = s[at[i]]
  BY <1>1, <1>2, <1>3
<1>6. \A i, j \in 1..(n - 1) : at[i] = at[j] => i = j
  BY <1>1, <1>2
<1>7. \A i \in 1..n : i # k => \E j \in 1..(n - 1) : at[j] = i
  <2> SUFFICES ASSUME NEW i \in 1..n, i # k PROVE \E j \in 1..(n - 1) : at[j] = i
    OBVIOUS
  <2>1. CASE i < k
    <3>1. i \in 1..(n - 1) /\ at[i] = i
      BY <1>1, <1>2, <2>1
    <3> QED BY <3>1
  <2>2. CASE i > k
    <3>1. i - 1 \in 1..(n - 1) /\ at[i - 1] = i
      BY <1>1, <1>2, <2>2
    <3> QED BY <3>1
  <2> QED BY <1>1, <1>2, <2>1, <2>2
<1> HIDE DEF at
<1>8. \A i, j \in 1..n : s[i] = s[j] => i = j
  BY DEF Listed
<1>9. \A i \in 1..(n - 1) : p[i] \in M \ {c}
  BY <1>1, <1>2, <1>5, <1>8
<1>10. p \in Seq(M \ {c})
  <2>1. p = [i \in 1..(n - 1) |-> p[i]]
    BY <1>3
  <2> QED BY <1>1, <1>3, <1>9, <2>1
<1>11. \A i, j \in 1..(n - 1) : p[i] = p[j] => i = j
  BY <1>5, <1>6, <1>8
<1>12. \A d \in M \ {c} : \E j \in 1..(n - 1) : p[j] = d
  <2> SUFFICES ASSUME NEW d \in M \ {c} PROVE \E j \in 1..(n - 1) : p[j] = d
    OBVIOUS
  <2>1. PICK i \in 1..n : s[i] = d
    BY DEF Listed
  <2>2. i # k
    BY <1>2, <2>1
  <2> QED BY <1>5, <1>7, <2>1, <2>2
<1>13. Listed(p, M \ {c})
  <2>1. Len(p) = Cardinality(M \ {c})
    BY <1>3, <1>4 DEF Listed
  <2> QED BY <1>3, <1>10, <1>11, <1>12, <2>1 DEF Listed
<1> QED BY <1>4, <1>13 DEF p, k

-----------------------------------------------------------------------------
(* What mb_wm_sync does with the record of a client.                         *)

HasFrame(c) == Kind[c] \notin {"Panel", "Input"} /\ c \in Decorated

\* The record q of client c is r, realized and with the geometry of the layout.
Ready(c, r, q) ==
  /\ q \in Records /\ q.realized /\ q.framed = HasFrame(c)
  /\ q.full = r.full /\ q.hints = r.hints /\ q.parent = r.parent
  /\ q.mapped = r.mapped /\ q.x = r.x
  /\ \/ q.dirty = r.dirty \cup {"Geometry"}
     \/ q.dirty = r.dirty /\ q.window = r.window /\ q.frame = r.frame

LEMMA LaidIs ==
  ASSUME Types
  PROVE  Laid \in Layouts(clients)
<1>1. order \in Seq(Managed) /\ Managed \in SUBSET Clients /\ clients \in [Managed -> Records]
  BY DEF Types, Listed
<1>2. Updated(clients, order, screen) \in Layouts(clients)
  BY <1>1, UpdatedIs DEF Types
<1>3. clients \in Layouts(clients)
  BY <1>1, SameIs DEF Layouts, Managed
<1> QED BY <1>2, <1>3 DEF Laid

LEMMA ReadyIs ==
  ASSUME Types, NEW c \in Managed
  PROVE  Ready(c, clients[c], Refreshed(Realized(Laid))[c])
<1> DEFINE l == Laid[c]
           e == Realized(Laid)[c]
           q == Refreshed(Realized(Laid))[c]
<1>1. clients[c] \in Records /\ l \in Records /\ Relaid(clients[c], l) /\ c \in Clients
  BY LaidIs DEF Types, Layouts, Managed
<1>2. /\ e = [l EXCEPT !.realized = TRUE,
                       !.framed = Kind[c] \notin {"Panel", "Input"} /\ c \in Decorated]
      /\ q = Refilled(c, e)
  BY DEF Realized, Refreshed
<1> HIDE DEF l, e, q
<1>3. Ready(c, clients[c], e)
  <2> DEFINE d == [l EXCEPT !.realized = TRUE]
             h == HasFrame(c)
  <2>1. d \in Records /\ Relaid(clients[c], [d EXCEPT !.realized = clients[c].realized]) /\ d.realized
    BY <1>1 DEF Records, Relaid
  <2>2. h \in BOOLEAN
    BY DEF HasFrame
  <2>3. e = [d EXCEPT !.framed = h]
    BY <1>2 DEF HasFrame
  <2> HIDE DEF d, h
  <2> QED BY <2>1, <2>2, <2>3 DEF Ready, Relaid, Records, h
<1>4. ASSUME q = e PROVE Ready(c, clients[c], q)
  BY <1>3, <1>4
<1>5. ASSUME q = Requested(e, c, e.frame, "Forced", screen) PROVE Ready(c, clients[c], q)
  <2>1. e \in Records /\ e.frame \in Rects /\ screen \in Sizes
    BY <1>3, RecordFields DEF Ready, Types
  <2>2. q \in Records /\ Relaid(e, q)
    <3>1. /\ Requested(e, c, e.frame, "Forced", screen) \in Records
          /\ Relaid(e, Requested(e, c, e.frame, "Forced", screen))
      BY <1>1, <2>1, RequestedIs
    <3> QED BY <1>5, <3>1
  <2> QED BY <1>3, <2>2 DEF Ready, Relaid
<1> QED BY <1>2, <1>4, <1>5 DEF Refilled, q

LEMMA PlaceTyped ==
  ASSUME NEW r \in Records
  PROVE  Place(r) \in Rects
<1>1. /\ r.window \in Rects /\ r.window.x - r.frame.x \in Int
      /\ r.window.y - r.frame.y \in Int
  BY RecordFields, RectFields
<1> DEFINE X == r.window.x - r.frame.x
           Y == r.window.y - r.frame.y
<1>2. [r.window EXCEPT !.x = X, !.y = Y] \in Rects
  <2> HIDE DEF X, Y
  <2> QED BY <1>1, CornerTyped DEF X, Y
<1>3. [r.window EXCEPT !.x = @ - r.frame.x, !.y = @ - r.frame.y]
        = [r.window EXCEPT !.x = X, !.y = Y]
  <2> DEFINE w == r.window
             p == [w EXCEPT !.x = X]
  <2>1. p.y = w.y
    BY <1>1 DEF Rects
  <2> QED BY <2>1
<1> QED BY <1>1, <1>2, <1>3 DEF Place

LEMMA SyncedIs ==
  ASSUME NEW r \in Records
  PROVE  /\ Synced(r) \in Records /\ Synced(r).dirty = {}
         /\ Synced(r).window = r.window /\ Synced(r).frame = r.frame
         /\ Synced(r).framed = r.framed /\ Synced(r).full = r.full
         /\ Synced(r).hints = r.hints /\ Synced(r).parent = r.parent
         /\ Synced(r).mapped = r.mapped /\ Synced(r).realized = r.realized
         /\ Synced(r).x = IF Applies(r) /\ ~Answers(r) THEN Place(r) ELSE r.x
<1> DEFINE at == IF Applies(r) /\ ~Answers(r) THEN Place(r) ELSE r.x
           q == [r EXCEPT !.x = at]
<1>1. at \in Rects
  BY PlaceTyped, RecordFields
<1>2. Synced(r) = [q EXCEPT !.dirty = {}]
  BY DEF Synced, Records
<1> HIDE DEF at
<1>3. q \in Records /\ q.x = at
  BY <1>1 DEF Records
<1>4. /\ q = [q EXCEPT !.x = at]
      /\ \A f \in {"window", "frame", "framed", "full", "hints", "parent", "mapped", "realized"} :
           q[f] = r[f]
  BY DEF Records
<1>5. [q EXCEPT !.dirty = {}] \in Records
  BY <1>3 DEF Records, Bits
<1> QED BY <1>2, <1>3, <1>4, <1>5 DEF Records, at

\* The records after a sync, one by one.
LEMMA SyncIs ==
  ASSUME Types, Sync
  PROVE  /\ Managed' = Managed /\ order' = order /\ screen' = screen /\ turns' = turns
         /\ sync' = {} /\ asked' \subseteq asked
         /\ DOMAIN server' = Managed /\ clients' \in [Managed -> Records]
         /\ \A c \in Managed :
              LET r == clients[c]
                  q == Refreshed(Realized(Laid))[c]
                  m == Moved(c, q, Reparented(c, q))
              IN /\ Ready(c, r, q)
                 /\ clients'[c] = Synced(q) /\ server'[c] = m.server
                 /\ c \in asked' <=> c \in asked /\ ~m.told
<1> DEFINE Q == Refreshed(Realized(Laid))
           put == [c \in Managed |-> Moved(c, Q[c], Reparented(c, Q[c]))]
<1>1. /\ clients' = [c \in Managed |-> Synced(Q[c])]
      /\ server' = [c \in Managed |-> put[c].server]
      /\ asked' = {c \in asked : ~put[c].told}
  BY DEF Sync, SyncDisplay
<1>2. \A c \in Managed : put[c] = Moved(c, Q[c], Reparented(c, Q[c]))
  OBVIOUS
<1>3. \A c \in Managed : Ready(c, clients[c], Q[c])
  BY ReadyIs
<1> HIDE DEF Q, put
<1>4. \A c \in Managed : Synced(Q[c]) \in Records
  BY <1>3, SyncedIs DEF Ready
<1>5. clients' \in [Managed -> Records] /\ Managed' = Managed
  <2>1. clients' \in [Managed -> Records]
    BY <1>1, <1>4
  <2>2. DOMAIN clients' = Managed
    BY <2>1
  <2> QED BY <2>1, <2>2 DEF Managed
<1>6. asked \subseteq Managed
  BY DEF Types
<1>7. order' = order /\ screen' = screen /\ turns' = turns /\ sync' = {}
  BY DEF Sync
<1>8. ASSUME NEW c \in Managed
      PROVE  /\ clients'[c] = Synced(Q[c])
             /\ server'[c] = Moved(c, Q[c], Reparented(c, Q[c])).server
             /\ c \in asked' <=> c \in asked /\ ~Moved(c, Q[c], Reparented(c, Q[c])).told
  BY <1>1, <1>2
<1> QED BY <1>1, <1>3, <1>5, <1>6, <1>7, <1>8 DEF Q

-----------------------------------------------------------------------------
(* What each event does with the records.                                    *)

LEMMA MapIs ==
  ASSUME Types, NEW c \in Clients, NEW g \in Opening[c], HandleMapRequest(c, g)
  PROVE  /\ Idle /\ c \notin Managed /\ Managed' = Managed \cup {c}
         /\ clients' \in [Managed \cup {c} -> Records]
         /\ NewRecord(clients'[c], IF For[c] \in Managed THEN For[c] ELSE NULL)
         /\ Kind[c] = "App" => clients'[c].hints = {"Grow"}
         /\ Kind[c] = "Input" => clients'[c].hints = {"South"}
         /\ \A d \in Managed :
              /\ clients'[d] = [clients[d] EXCEPT !.parent = clients'[d].parent]
              /\ clients'[d].parent = IF Kind[c] = "App" /\ For[d] = c THEN c
                                       ELSE clients[d].parent
              /\ server'[d] = server[d]
         /\ DOMAIN server' = Managed \cup {c}
         /\ order' = Append(order, c) /\ sync' = sync \cup {"Geometry", "Visibility"}
         /\ screen' = screen /\ turns' = turns /\ asked' = asked
<1>1. g \in Rects
  BY LayoutAssumption
<1>2. /\ NewRecord(Opened(c, g), IF For[c] \in Managed THEN For[c] ELSE NULL)
      /\ Kind[c] = "App" => Opened(c, g).hints = {"Grow"}
      /\ Kind[c] = "Input" => Opened(c, g).hints = {"South"}
  BY <1>1, OpenedIs DEF Types
<1>3. /\ Idle /\ c \notin Managed
      /\ clients' = [d \in Managed \cup {c} |-> IF d = c THEN Opened(c, g) ELSE Adopted(c, d)]
      /\ server' = [d \in Managed \cup {c} |->
                      IF d = c THEN [top |-> g, inner |-> g] ELSE server[d]]
      /\ order' = Append(order, c) /\ sync' = sync \cup {"Geometry", "Visibility"}
      /\ screen' = screen /\ turns' = turns /\ asked' = asked
  BY DEF HandleMapRequest
<1>4. ASSUME NEW d \in Managed
      PROVE  /\ Adopted(c, d) = [clients[d] EXCEPT !.parent = Adopted(c, d).parent]
             /\ Adopted(c, d).parent = IF Kind[c] = "App" /\ For[d] = c THEN c
                                       ELSE clients[d].parent
             /\ Adopted(c, d) \in Records
  <2>1. clients[d] \in Records /\ clients[d].parent \in Clients \cup {NULL}
    BY RecordFields DEF Types
  <2>2. [clients[d] EXCEPT !.parent = clients[d].parent] = clients[d]
    BY <2>1 DEF Records
  <2>3. /\ [clients[d] EXCEPT !.parent = c] \in Records
        /\ [clients[d] EXCEPT !.parent = c].parent = c
    BY <2>1 DEF Records
  <2> QED BY <2>1, <2>2, <2>3 DEF Adopted
<1>5. Opened(c, g) \in Records
  BY <1>2 DEF NewRecord
<1>6. Managed' = Managed \cup {c}
  BY <1>3 DEF Managed
<1>7. /\ clients'[c] = Opened(c, g)
      /\ \A d \in Managed : clients'[d] = Adopted(c, d) /\ server'[d] = server[d]
  BY <1>3
<1>8. clients' \in [Managed \cup {c} -> Records] /\ DOMAIN server' = Managed \cup {c}
  BY <1>3, <1>4, <1>5
<1>9. NewRecord(clients'[c], IF For[c] \in Managed THEN For[c] ELSE NULL)
  BY <1>2, <1>7
<1> QED BY <1>2, <1>3, <1>4, <1>6, <1>7, <1>8, <1>9

LEMMA ConfigureIs ==
  ASSUME Types, NEW c \in Clients, NEW g \in Wanted[c], HandleConfigureRequest(c, g)
  PROVE  /\ Idle /\ c \in Managed /\ Managed' = Managed
         /\ clients' \in [Managed -> Records]
         /\ \A d \in Managed \ {c} : clients'[d] = clients[d]
         /\ LET r == clients[c]
                q == clients'[c]
            IN /\ q.framed = r.framed /\ q.full = r.full /\ q.hints = r.hints
               /\ q.parent = r.parent /\ q.mapped = r.mapped /\ q.realized = r.realized
               /\ q.x = r.x /\ q.dirty \subseteq sync'
               /\ \/ q.dirty = r.dirty \cup {"Ack", "Geometry"}
                  \/ q.dirty = r.dirty \cup {"Ack"} /\ q.window = r.window /\ q.frame = r.frame
               /\ Kind[c] = "App" => q.window = r.window /\ q.frame = r.frame
         /\ sync \subseteq sync' /\ asked' = asked \cup {c}
         /\ order' = order /\ screen' = screen /\ turns' = turns /\ server' = server
<1> DEFINE r == clients[c]
           a == [r EXCEPT !.dirty = @ \cup {"Ack"}]
           q == Requested(a, c, g, "Configure", screen)
<1>1. g \in Rects
  BY LayoutAssumption
<1>2. c \in Managed
  BY DEF HandleConfigureRequest
<1>3. r \in Records
  BY <1>2 DEF Types
<1>4. a \in Records /\ a.dirty = r.dirty \cup {"Ack"}
  BY <1>3 DEF Records, Bits
<1>5. q \in Records /\ Relaid(a, q)
  <2> HIDE DEF a, r
  <2> QED BY <1>1, <1>4, RequestedIs DEF Types
<1>14. Kind[c] = "App" => q.window = r.window /\ q.frame = r.frame
  <2>1. Kind[c] = "App" => q = a
    BY DEF Requested, AppRequest
  <2>2. a.window = r.window /\ a.frame = r.frame
    BY <1>3 DEF Records
  <2> HIDE DEF q, a
  <2> QED BY <2>1, <2>2
<1>6. clients' = [clients EXCEPT ![c] = q] /\ sync' = sync \cup {"Ack"} \cup (q.dirty \cap {"Geometry"})
  BY DEF HandleConfigureRequest
<1> HIDE DEF q
<1>7. clients' \in [Managed -> Records] /\ clients'[c] = q
  BY <1>2, <1>5, <1>6 DEF Types
<1>8. \A d \in Managed \ {c} : clients'[d] = clients[d]
  BY <1>6 DEF Types
<1>9. Managed' = Managed
  BY <1>7 DEF Managed
<1>10. r.dirty \subseteq sync
  BY <1>2 DEF Types
<1>11. /\ q.framed = r.framed /\ q.full = r.full /\ q.hints = r.hints
       /\ q.parent = r.parent /\ q.mapped = r.mapped /\ q.realized = r.realized
       /\ q.x = r.x
       /\ \/ q.dirty = r.dirty \cup {"Ack", "Geometry"}
          \/ q.dirty = r.dirty \cup {"Ack"} /\ q.window = r.window /\ q.frame = r.frame
  BY <1>3, <1>4, <1>5 DEF Relaid, Records
<1>12. q.dirty \subseteq sync'
  BY <1>6, <1>10, <1>11
<1>13. /\ Idle /\ asked' = asked \cup {c}
       /\ order' = order /\ screen' = screen /\ turns' = turns /\ server' = server
  BY DEF HandleConfigureRequest
<1> HIDE DEF r
<1> QED BY <1>2, <1>6, <1>7, <1>8, <1>9, <1>11, <1>12, <1>13, <1>14 DEF r

LEMMA FilledIs ==
  ASSUME Types, NEW c \in Clients, HandleFullscreen(c)
  PROVE  /\ Idle /\ c \in Managed \cap CanFill /\ Managed' = Managed
         /\ clients' \in [Managed -> Records]
         /\ \A d \in Managed \ {c} : clients'[d] = clients[d]
         /\ LET r == clients[c]
                q == clients'[c]
            IN /\ q.framed = r.framed /\ q.full = ~r.full /\ q.hints = r.hints
               /\ q.parent = r.parent /\ q.mapped = r.mapped /\ q.realized = r.realized
               /\ q.x = r.x /\ q.window = r.window /\ q.frame = r.frame
               /\ q.dirty = r.dirty \cup {"Fullscreen", "Geometry", "Visibility"}
         /\ sync' = sync \cup {"Fullscreen", "Geometry", "Visibility", "Stacking"}
         /\ asked' = asked
         /\ order' = order /\ screen' = screen /\ turns' = turns /\ server' = server
<1> DEFINE r == clients[c]
           more == r.dirty \cup {"Fullscreen", "Geometry", "Visibility"}
           p == [r EXCEPT !.full = ~r.full]
           q == [p EXCEPT !.dirty = more]
<1>1. /\ Idle /\ c \in Managed \cap CanFill
      /\ sync' = sync \cup {"Fullscreen", "Geometry", "Visibility", "Stacking"}
      /\ asked' = asked
      /\ order' = order /\ screen' = screen /\ turns' = turns /\ server' = server
  BY DEF HandleFullscreen
<1>2. r \in Records /\ clients \in [Managed -> Records]
  BY <1>1 DEF Types
<1>3. clients' = [clients EXCEPT ![c] = q]
  <2>1. clients' = [clients EXCEPT ![c].full = ~@,
                                   ![c].dirty = @ \cup {"Fullscreen", "Geometry", "Visibility"}]
    BY DEF HandleFullscreen
  <2> DEFINE f == [clients EXCEPT ![c].full = ~@]
  <2>2. f = [clients EXCEPT ![c] = p] /\ f[c] = p
    BY <1>1, <1>2
  <2>3. clients' = [f EXCEPT ![c].dirty = @ \cup {"Fullscreen", "Geometry", "Visibility"}]
    BY <2>1
  <2>4. p.dirty = r.dirty
    BY <1>2 DEF Records
  <2> HIDE DEF f
  <2>5. clients' = [f EXCEPT ![c] = q]
    BY <2>2, <2>3, <2>4
  <2> HIDE DEF p, q
  <2> QED BY <1>1, <1>2, <2>2, <2>5
<1>4. /\ p \in Records /\ p.full = ~r.full
      /\ p.framed = r.framed /\ p.hints = r.hints
      /\ p.parent = r.parent /\ p.mapped = r.mapped /\ p.realized = r.realized
      /\ p.x = r.x /\ p.window = r.window /\ p.frame = r.frame
  BY <1>2 DEF Records
<1>5. more \in SUBSET Bits
  BY <1>2 DEF Records, Bits
<1> HIDE DEF p, more
<1>6. /\ q \in Records /\ q.dirty = more /\ q.full = ~r.full
      /\ q.framed = r.framed /\ q.hints = r.hints
      /\ q.parent = r.parent /\ q.mapped = r.mapped /\ q.realized = r.realized
      /\ q.x = r.x /\ q.window = r.window /\ q.frame = r.frame
  BY <1>4, <1>5 DEF Records
<1> HIDE DEF q
<1>7. /\ clients' \in [Managed -> Records] /\ clients'[c] = q
      /\ \A d \in Managed \ {c} : clients'[d] = clients[d]
  BY <1>1, <1>2, <1>3, <1>6
<1>8. Managed' = Managed
  BY <1>7 DEF Managed
<1> QED BY <1>1, <1>6, <1>7, <1>8 DEF more

LEMMA MappedIs ==
  ASSUME Types, NEW c \in Clients, NEW on \in BOOLEAN, SetMapped(c, on)
  PROVE  /\ Idle /\ c \in Managed \cap CanHide /\ Managed' = Managed
         /\ clients' \in [Managed -> Records]
         /\ \A d \in Managed \ {c} : clients'[d] = clients[d]
         /\ LET r == clients[c]
                q == clients'[c]
            IN /\ q.framed = r.framed /\ q.full = r.full /\ q.hints = r.hints
               /\ q.parent = r.parent /\ q.realized = r.realized
               /\ q.x = r.x /\ q.window = r.window /\ q.frame = r.frame
               /\ q.dirty = r.dirty \cup {"Visibility"}
         /\ sync \cup {"Visibility"} \subseteq sync'
         /\ sync' \subseteq sync \cup {"Visibility", "Stacking"}
         /\ asked' = asked
         /\ order' = order /\ screen' = screen /\ turns' = turns /\ server' = server
<1> DEFINE r == clients[c]
           more == r.dirty \cup {"Visibility"}
           p == [r EXCEPT !.mapped = on]
           q == [p EXCEPT !.dirty = more]
<1>1. /\ Idle /\ c \in Managed \cap CanHide
      /\ sync \cup {"Visibility"} \subseteq sync' /\ sync' \subseteq sync \cup {"Visibility", "Stacking"}
      /\ asked' = asked
      /\ order' = order /\ screen' = screen /\ turns' = turns /\ server' = server
  BY DEF SetMapped
<1>2. r \in Records /\ clients \in [Managed -> Records]
  BY <1>1 DEF Types
<1>3. clients' = [clients EXCEPT ![c] = q]
  <2>1. clients' = [clients EXCEPT ![c].mapped = on, ![c].dirty = @ \cup {"Visibility"}]
    BY DEF SetMapped
  <2> DEFINE f == [clients EXCEPT ![c].mapped = on]
  <2>2. f = [clients EXCEPT ![c] = p] /\ f[c] = p
    BY <1>1, <1>2
  <2>3. clients' = [f EXCEPT ![c].dirty = @ \cup {"Visibility"}]
    BY <2>1
  <2>4. p.dirty = r.dirty
    BY <1>2 DEF Records
  <2> HIDE DEF f
  <2>5. clients' = [f EXCEPT ![c] = q]
    BY <2>2, <2>3, <2>4
  <2> HIDE DEF p, q
  <2> QED BY <1>1, <1>2, <2>2, <2>5
<1>4. /\ p \in Records
      /\ p.framed = r.framed /\ p.hints = r.hints /\ p.full = r.full
      /\ p.parent = r.parent /\ p.realized = r.realized
      /\ p.x = r.x /\ p.window = r.window /\ p.frame = r.frame
  BY <1>2 DEF Records
<1>5. more \in SUBSET Bits
  BY <1>2 DEF Records, Bits
<1> HIDE DEF p, more
<1>6. /\ q \in Records /\ q.dirty = more
      /\ q.framed = r.framed /\ q.hints = r.hints /\ q.full = r.full
      /\ q.parent = r.parent /\ q.realized = r.realized
      /\ q.x = r.x /\ q.window = r.window /\ q.frame = r.frame
  BY <1>4, <1>5 DEF Records
<1> HIDE DEF q
<1>7. /\ clients' \in [Managed -> Records] /\ clients'[c] = q
      /\ \A d \in Managed \ {c} : clients'[d] = clients[d]
  BY <1>1, <1>2, <1>3, <1>6
<1>8. Managed' = Managed
  BY <1>7 DEF Managed
<1> QED BY <1>1, <1>6, <1>7, <1>8 DEF more

LEMMA UnmapIs ==
  ASSUME Types, NEW c \in Clients, HandleUnmap(c)
  PROVE  /\ Idle /\ c \in Managed /\ Managed' = Managed \ {c}
         /\ clients' \in [Managed \ {c} -> Records]
         /\ \A d \in Managed \ {c} :
              /\ clients'[d] = [clients[d] EXCEPT !.parent = clients'[d].parent]
              /\ clients'[d].parent = IF clients[d].parent = c THEN NULL ELSE clients[d].parent
              /\ server'[d] = server[d]
         /\ DOMAIN server' = Managed \ {c} /\ asked' = asked \ {c}
         /\ order' = RemoveAt(order, CHOOSE i \in DOMAIN order : order[i] = c)
         /\ sync' = sync \cup {"Stacking"}
                         \cup (IF Kind[c] \in {"Panel", "Input"} THEN {"Geometry"} ELSE {})
         /\ screen' = screen /\ turns' = turns
<1>1. /\ Idle /\ c \in Managed
      /\ clients' = [d \in Managed \ {c} |->
                       IF clients[d].parent = c THEN [clients[d] EXCEPT !.parent = NULL]
                       ELSE clients[d]]
      /\ server' = [d \in Managed \ {c} |-> server[d]] /\ asked' = asked \ {c}
      /\ order' = RemoveAt(order, CHOOSE i \in DOMAIN order : order[i] = c)
      /\ sync' = sync \cup {"Stacking"}
                      \cup (IF Kind[c] \in {"Panel", "Input"} THEN {"Geometry"} ELSE {})
      /\ screen' = screen /\ turns' = turns
  BY DEF HandleUnmap
<1>2. ASSUME NEW d \in Managed \ {c}
      PROVE  /\ clients'[d] \in Records
             /\ clients'[d] = [clients[d] EXCEPT !.parent = clients'[d].parent]
             /\ clients'[d].parent = IF clients[d].parent = c THEN NULL ELSE clients[d].parent
  <2>1. clients[d] \in Records
    BY DEF Types
  <2>2. /\ [clients[d] EXCEPT !.parent = NULL] \in Records
        /\ [clients[d] EXCEPT !.parent = NULL].parent = NULL
        /\ clients[d] = [clients[d] EXCEPT !.parent = clients[d].parent]
    BY <2>1 DEF Records
  <2>3. clients'[d] = IF clients[d].parent = c THEN [clients[d] EXCEPT !.parent = NULL]
                      ELSE clients[d]
    BY <1>1
  <2> QED BY <2>1, <2>2, <2>3
<1>3. clients' \in [Managed \ {c} -> Records] /\ Managed' = Managed \ {c}
  <2>1. DOMAIN clients' = Managed \ {c} /\ clients' = [d \in Managed \ {c} |-> clients'[d]]
    BY <1>1
  <2>2. clients' \in [Managed \ {c} -> Records]
    BY <1>2, <2>1
  <2> QED BY <2>1, <2>2 DEF Managed
<1>4. DOMAIN server' = Managed \ {c} /\ \A d \in Managed \ {c} : server'[d] = server[d]
  BY <1>1
<1> QED BY <1>1, <1>2, <1>3, <1>4

LEMMA ParentOnly ==
  ASSUME NEW r \in Records, NEW q, q = [r EXCEPT !.parent = q.parent]
  PROVE  /\ q.window = r.window /\ q.frame = r.frame /\ q.framed = r.framed
         /\ q.full = r.full /\ q.hints = r.hints /\ q.dirty = r.dirty /\ q.mapped = r.mapped
         /\ q.realized = r.realized /\ q.x = r.x
<1> DEFINE p == q.parent
<1>1. q = [r EXCEPT !.parent = p]
  OBVIOUS
<1> HIDE DEF p
<1> QED BY <1>1 DEF Records

LEMMA TypesStep == Types /\ [Next]_vars => Types'
<1> SUFFICES ASSUME Types, [Next]_vars PROVE Types'
  OBVIOUS
<1>1. /\ Managed \in SUBSET Clients /\ IsFiniteSet(Managed) /\ clients \in [Managed -> Records]
      /\ Listed(order, Managed) /\ screen \in Sizes /\ turns \in Nat
      /\ \A c \in Managed : /\ clients[c].parent \in Managed \cup {NULL}
                            /\ clients[c].dirty \subseteq sync
      /\ DOMAIN server = Managed /\ asked \subseteq Managed
  BY DEF Types
<1>2. ASSUME Sync PROVE Types'
  <2>1. /\ Managed' = Managed /\ order' = order /\ screen' = screen /\ turns' = turns
        /\ asked' \subseteq asked /\ DOMAIN server' = Managed /\ clients' \in [Managed -> Records]
    BY <1>2, SyncIs
  <2>2. ASSUME NEW c \in Managed
        PROVE  clients'[c].parent = clients[c].parent /\ clients'[c].dirty = {}
    <3> DEFINE q == Refreshed(Realized(Laid))[c]
    <3>1. Ready(c, clients[c], q) /\ clients'[c] = Synced(q)
      BY <1>2, SyncIs
    <3> HIDE DEF q
    <3> QED BY <3>1, SyncedIs DEF Ready
  <2> QED BY <1>1, <2>1, <2>2 DEF Types
<1>3. ASSUME HandleRootConfigNotify PROVE Types'
  <2>1. /\ turns + 1 < Len(Screens) /\ screen' = Screens[turns + 2] /\ turns' = turns + 1
        /\ order' = order /\ clients' = clients /\ server' = server /\ asked' = asked
        /\ sync \subseteq sync'
    BY <1>3 DEF HandleRootConfigNotify
  <2>2. turns + 2 \in 1..Len(Screens) /\ turns + 1 \in Nat
    <3>1. Len(Screens) \in Nat
      BY LayoutAssumption
    <3> QED BY <1>1, <2>1, <3>1
  <2>3. screen' \in Sizes
    BY <2>1, <2>2, ScreensAre
  <2> QED BY <1>1, <2>1, <2>2, <2>3 DEF Types, Managed
<1>4. ASSUME NEW c \in Clients, NEW g \in Opening[c], HandleMapRequest(c, g) PROVE Types'
  <2>1. /\ c \notin Managed /\ Managed' = Managed \cup {c}
        /\ clients' \in [Managed \cup {c} -> Records]
        /\ NewRecord(clients'[c], IF For[c] \in Managed THEN For[c] ELSE NULL)
        /\ DOMAIN server' = Managed \cup {c}
        /\ order' = Append(order, c) /\ sync' = sync \cup {"Geometry", "Visibility"}
        /\ screen' = screen /\ turns' = turns /\ asked' = asked
    BY <1>4, MapIs
  <2>2. ASSUME NEW d \in Managed
        PROVE  clients'[d].parent \in {clients[d].parent, c} /\ clients'[d].dirty = clients[d].dirty
    <3>1. /\ clients'[d] = [clients[d] EXCEPT !.parent = clients'[d].parent]
          /\ clients'[d].parent \in {clients[d].parent, c}
      BY <1>4, MapIs
    <3>2. clients[d] \in Records
      BY <1>1
    <3> QED BY <3>1, <3>2, ParentOnly
  <2>3. /\ clients'[c].parent \in Managed \cup {NULL} /\ clients'[c].dirty = {"Geometry"}
    BY <2>1 DEF NewRecord
  <2>4. Listed(order', Managed') /\ IsFiniteSet(Managed')
    BY <1>1, <2>1, AppendListed
  <2>5. ASSUME NEW d \in Managed \cup {c}
        PROVE  /\ clients'[d].parent \in Managed \cup {c, NULL}
               /\ clients'[d].dirty \subseteq sync'
    BY <1>1, <2>1, <2>2, <2>3
  <2> QED BY <1>1, <2>1, <2>4, <2>5 DEF Types
<1>5. ASSUME NEW c \in Clients, NEW g \in Wanted[c], HandleConfigureRequest(c, g) PROVE Types'
  <2>1. /\ c \in Managed /\ Managed' = Managed
        /\ clients' \in [Managed -> Records]
        /\ \A d \in Managed \ {c} : clients'[d] = clients[d]
        /\ clients'[c].parent = clients[c].parent /\ clients'[c].dirty \subseteq sync'
        /\ sync \subseteq sync' /\ asked' = asked \cup {c}
        /\ order' = order /\ screen' = screen /\ turns' = turns /\ server' = server
    BY <1>5, ConfigureIs
  <2>2. ASSUME NEW d \in Managed
        PROVE  /\ clients'[d].parent = clients[d].parent
               /\ clients'[d].dirty \subseteq sync'
    BY <1>1, <2>1
  <2> QED BY <1>1, <2>1, <2>2 DEF Types
<1>6. ASSUME NEW c \in Clients, HandleFullscreen(c) PROVE Types'
  <2>1. /\ c \in Managed /\ Managed' = Managed
        /\ clients' \in [Managed -> Records]
        /\ \A d \in Managed \ {c} : clients'[d] = clients[d]
        /\ clients'[c].parent = clients[c].parent
        /\ clients'[c].dirty = clients[c].dirty \cup {"Fullscreen", "Geometry", "Visibility"}
        /\ sync' = sync \cup {"Fullscreen", "Geometry", "Visibility", "Stacking"} /\ asked' = asked
        /\ order' = order /\ screen' = screen /\ turns' = turns /\ server' = server
    BY <1>6, FilledIs
  <2>2. ASSUME NEW d \in Managed
        PROVE  /\ clients'[d].parent = clients[d].parent
               /\ clients'[d].dirty \subseteq sync'
    BY <1>1, <2>1
  <2> QED BY <1>1, <2>1, <2>2 DEF Types
<1>7. ASSUME NEW c \in Clients, NEW on \in BOOLEAN, SetMapped(c, on) PROVE Types'
  <2>1. /\ c \in Managed /\ Managed' = Managed
        /\ clients' \in [Managed -> Records]
        /\ \A d \in Managed \ {c} : clients'[d] = clients[d]
        /\ clients'[c].parent = clients[c].parent
        /\ clients'[c].dirty = clients[c].dirty \cup {"Visibility"}
        /\ sync \cup {"Visibility"} \subseteq sync' /\ asked' = asked
        /\ order' = order /\ screen' = screen /\ turns' = turns /\ server' = server
    BY <1>7, MappedIs
  <2>2. ASSUME NEW d \in Managed
        PROVE  /\ clients'[d].parent = clients[d].parent
               /\ clients'[d].dirty \subseteq sync'
    BY <1>1, <2>1
  <2> QED BY <1>1, <2>1, <2>2 DEF Types
<1>8. ASSUME NEW c \in Clients, HandleUnmap(c) PROVE Types'
  <2>1. /\ c \in Managed /\ Managed' = Managed \ {c}
        /\ clients' \in [Managed \ {c} -> Records]
        /\ DOMAIN server' = Managed \ {c} /\ asked' = asked \ {c}
        /\ order' = RemoveAt(order, CHOOSE i \in DOMAIN order : order[i] = c)
        /\ sync \subseteq sync' /\ screen' = screen /\ turns' = turns
    BY <1>8, UnmapIs
  <2>2. ASSUME NEW d \in Managed \ {c}
        PROVE  /\ clients'[d].parent \in (Managed \ {c}) \cup {NULL}
               /\ clients'[d].dirty \subseteq sync'
    <3>1. /\ clients'[d] = [clients[d] EXCEPT !.parent = clients'[d].parent]
          /\ clients'[d].parent = IF clients[d].parent = c THEN NULL ELSE clients[d].parent
      BY <1>8, UnmapIs
    <3>2. clients[d] \in Records
      BY <1>1
    <3>3. clients'[d].dirty = clients[d].dirty
      BY <3>1, <3>2, ParentOnly
    <3> QED BY <1>1, <2>1, <3>1, <3>3
  <2>3. Listed(order', Managed') /\ IsFiniteSet(Managed')
    <3> DEFINE M == Managed
    <3>1. IsFiniteSet(M) /\ Listed(order, M) /\ c \in M
      BY <1>1, <2>1
    <3> HIDE DEF M
    <3>2. /\ Listed(RemoveAt(order, CHOOSE i \in DOMAIN order : order[i] = c), M \ {c})
          /\ IsFiniteSet(M \ {c})
      BY <3>1, RemoveListed, Zenon
    <3> QED BY <2>1, <3>2, Zenon DEF M
  <2> QED BY <1>1, <2>1, <2>2, <2>3 DEF Types
<1>9. ASSUME UNCHANGED vars PROVE Types'
  BY <1>1, <1>9 DEF vars, Types, Managed
<1>10. TRUE \in BOOLEAN /\ FALSE \in BOOLEAN
  OBVIOUS
<1> QED BY <1>2, <1>3, <1>4, <1>5, <1>6, <1>7, <1>8, <1>9, <1>10 DEF Next, Hide, Show

LEMMA TypesInvariant == Spec => []Types
<1>1. Init => Types
  BY InitTypes
<1>2. Types /\ [Next]_vars => Types'
  BY TypesStep
<1> QED BY <1>1, <1>2, PTL DEF Spec

\* Whatever is mapped, configured, filled, hidden and unmapped, and however the screen
\* turns, the stack holds each managed client once, every geometry is a rectangle, a
\* transient points to a client that is managed and a dirty client has a sync to wait for.
THEOREM TypesHold == Spec => []TypeOK
<1>1. Types => TypeOK
  <2> SUFFICES ASSUME Types PROVE TypeOK
    OBVIOUS
  <2>1. {order[i] : i \in DOMAIN order} = Managed
    BY DEF Types, Listed
  <2>2. \A r \in Rects : r \in [Fields -> Int]
    BY DEF Rects, Fields
  <2>3. ASSUME NEW c \in Managed
        PROVE  clients[c].window \in [Fields -> Int] /\ clients[c].frame \in [Fields -> Int]
    <3>1. clients[c].window \in Rects /\ clients[c].frame \in Rects
      BY RecordFields DEF Types
    <3> QED BY <2>2, <3>1
  <2> QED BY <2>1, <2>3 DEF Types, Listed, TypeOK
<1> QED BY <1>1, TypesInvariant, PTL

-----------------------------------------------------------------------------
(* The X server has each window where the window manager thinks it is.       *)

\* What holds of a client with record r, whose windows the X server has at s, when the
\* main loop syncs after each event.  A window that was realized is where it was last
\* moved; one that is not yet realized will be moved in any case; a request to be
\* configured that no one answered is known to the client, and no change to or from
\* fullscreen waits along with it.
Kept(c, r, s) ==
  /\ r.realized => r.framed = HasFrame(c) /\ s.inner = r.x
  /\ ~r.realized => /\ ~r.framed /\ r.mapped /\ "Geometry" \in r.dirty
                    /\ "Ack" \notin r.dirty /\ "Fullscreen" \notin r.dirty
  /\ "Fullscreen" \in r.dirty => "Geometry" \in r.dirty /\ "Ack" \notin r.dirty
  /\ c \notin CanHide => /\ r.mapped
                         /\ r.realized /\ "Geometry" \notin r.dirty
                              => /\ Place(r) = r.x
                                 /\ r.framed /\ ~r.full => s.top = r.frame

Placed == \A c \in Managed : Kept(c, clients[c], server[c])
Owed == \A c \in asked : "Ack" \in clients[c].dirty

LEMMA IdleIs ==
  ASSUME SyncsAtOnce, Types, Placed, Owed, Idle
  PROVE  sync = {} /\ asked = {} /\ \A c \in Managed : clients[c].dirty = {} /\ clients[c].realized
<1>1. sync = {}
  BY DEF Idle
<1>2. ASSUME NEW c \in Managed PROVE clients[c].dirty = {}
  BY <1>1 DEF Types
<1> QED BY <1>1, <1>2 DEF Placed, Kept, Owed, Types

\* A sync leaves a client where it thinks it is, and answers it.
LEMMA SyncKeeps ==
  ASSUME NEW c \in Managed, NEW r \in Records, Kept(c, r, server[c]), r = clients[c],
         NEW q, Ready(c, r, q)
  PROVE  /\ Kept(c, Synced(q), Moved(c, q, Reparented(c, q)).server)
         /\ "Ack" \in r.dirty => Moved(c, q, Reparented(c, q)).told
<1> DEFINE s == Reparented(c, q)
           m == Moved(c, q, s)
           reparents == "Fullscreen" \in q.dirty /\ q.mapped /\ q.framed
           from == IF reparents THEN [s EXCEPT !.inner.x = 0, !.inner.y = 0] ELSE s
           inner == IF Answers(q) THEN from.inner ELSE Place(q)
           top == IF q.full \/ ~q.framed THEN inner ELSE q.frame
           z == Synced(q)
<1>1. /\ q \in Records /\ q.realized /\ q.framed = HasFrame(c) /\ q.mapped = r.mapped
      /\ q.full = r.full /\ q.x = r.x
      /\ \/ q.dirty = r.dirty \cup {"Geometry"}
         \/ q.dirty = r.dirty /\ q.window = r.window /\ q.frame = r.frame
  BY DEF Ready
<1>2. /\ z.dirty = {} /\ z.window = q.window /\ z.frame = q.frame /\ z.framed = q.framed
      /\ z.full = q.full /\ z.mapped = q.mapped /\ z.realized = q.realized
      /\ z.x = IF Applies(q) /\ ~Answers(q) THEN Place(q) ELSE q.x
  BY <1>1, SyncedIs
<1>3. Place(z) = Place(q)
  BY <1>2 DEF Place
<1> HIDE DEF z
<1>4. /\ Applies(q) => /\ m.server = [top |-> top, inner |-> inner]
                       /\ m.told <=> Answers(q) \/ inner # from.inner
      /\ ~Applies(q) => m.server = from /\ (m.told <=> "Ack" \in q.dirty)
  BY DEF Moved
<1> HIDE DEF m
<1>5. r.realized => s = server[c] /\ s.inner = q.x
  BY <1>1 DEF Reparented, Kept
<1> HIDE DEF s
<1>6. reparents => Applies(q) /\ ~Answers(q)
  <2> SUFFICES ASSUME reparents PROVE Applies(q) /\ ~Answers(q)
    OBVIOUS
  <2>1. "Fullscreen" \in r.dirty
    BY <1>1
  <2>2. "Geometry" \in r.dirty /\ "Ack" \notin r.dirty
    BY <2>1 DEF Kept
  <2> QED BY <1>1, <2>2 DEF Applies, Answers
<1>7. ~reparents => from = s
  OBVIOUS
<1>8. Answers(q) => r.realized /\ "Ack" \in r.dirty /\ Place(q) = q.x
  BY <1>1 DEF Answers, Kept
<1> HIDE DEF reparents, from
<1>9. Answers(q) => inner = q.x /\ Place(q) = q.x
  BY <1>5, <1>6, <1>7, <1>8
<1>10. inner = Place(q)
  BY <1>9
<1>11. CASE Applies(q)
  <2>1. m.server.inner = Place(q) /\ m.server.top = top
    BY <1>4, <1>10, <1>11
  <2>2. z.x = Place(q)
    BY <1>2, <1>9, <1>11
  <2>3. q.framed /\ ~q.full => top = q.frame
    OBVIOUS
  <2>4. Kept(c, z, m.server)
    <3> HIDE DEF top, inner
    <3>1. c \notin CanHide => q.mapped
      BY <1>1 DEF Kept
    <3> QED BY <1>1, <1>2, <1>3, <2>1, <2>2, <2>3, <3>1 DEF Kept
  <2>5. "Ack" \in r.dirty => m.told
    <3> SUFFICES ASSUME "Ack" \in r.dirty, ~Answers(q) PROVE inner # from.inner
      BY <1>4, <1>11
    <3>1. "Ack" \in q.dirty
      BY <1>1
    <3>2. Place(q) # q.x
      BY <3>1 DEF Answers
    <3>3. r.realized /\ "Fullscreen" \notin r.dirty
      BY DEF Kept
    <3>4. ~reparents
      BY <1>1, <3>3 DEF reparents
    <3>5. from.inner = q.x
      BY <1>5, <1>7, <3>3, <3>4
    <3> HIDE DEF inner
    <3> QED BY <1>10, <3>2, <3>5
  <2> QED BY <2>4, <2>5 DEF m, s, z
<1>12. CASE ~Applies(q)
  <2>1. ~reparents /\ from = s
    BY <1>6, <1>7, <1>12
  <2>2. m.server = s /\ (m.told <=> "Ack" \in q.dirty)
    BY <1>4, <1>12, <2>1
  <2>3. ~q.mapped \/ "Geometry" \notin q.dirty
    BY <1>12 DEF Applies
  <2>4. r.realized
    BY <1>1, <2>3 DEF Kept
  <2>5. z.x = q.x
    BY <1>2, <1>12
  <2>6. s = server[c] /\ s.inner = z.x
    BY <1>5, <2>4, <2>5
  <2>7. c \notin CanHide => /\ q.mapped /\ Place(z) = z.x
                            /\ z.framed /\ ~z.full => s.top = z.frame
    <3> SUFFICES ASSUME c \notin CanHide
                 PROVE  /\ q.mapped /\ Place(z) = z.x
                        /\ z.framed /\ ~z.full => s.top = z.frame
      OBVIOUS
    <3>1. q.mapped
      BY <1>1 DEF Kept
    <3>2. "Geometry" \notin r.dirty /\ q.window = r.window /\ q.frame = r.frame
      BY <1>1, <2>3, <3>1
    <3>3. q.framed = r.framed
      BY <1>1, <2>4 DEF Kept
    <3>4. Place(q) = Place(r)
      BY <1>1, <3>2, <3>3 DEF Place
    <3>5. Place(r) = r.x /\ (r.framed /\ ~r.full => server[c].top = r.frame)
      BY <2>4, <3>2 DEF Kept
    <3> QED BY <1>1, <1>2, <1>3, <2>5, <2>6, <3>1, <3>2, <3>3, <3>4, <3>5
  <2>8. Kept(c, z, s)
    BY <1>1, <1>2, <2>6, <2>7 DEF Kept
  <2>9. "Ack" \in r.dirty => m.told
    BY <1>1, <2>2
  <2> QED BY <2>2, <2>8, <2>9 DEF m, s, z
<1> QED BY <1>11, <1>12

\* A change of the parent alone.
ParentOf(r, q) ==
  /\ q.window = r.window /\ q.frame = r.frame /\ q.framed = r.framed /\ q.full = r.full
  /\ q.hints = r.hints /\ q.dirty = r.dirty /\ q.mapped = r.mapped
  /\ q.realized = r.realized /\ q.x = r.x

LEMMA ParentKeeps ==
  ASSUME NEW c, NEW r, NEW q, NEW s, ParentOf(r, q), Kept(c, r, s)
  PROVE  Kept(c, q, s)
BY DEF ParentOf, Kept, Place

LEMMA PlacedStep ==
  ASSUME SyncsAtOnce, Types, Placed, Owed, [Next]_vars
  PROVE  Placed' /\ Owed'
<1>1. asked \subseteq Managed /\ clients \in [Managed -> Records]
  BY DEF Types
<1>2. ASSUME Sync PROVE Placed' /\ Owed'
  <2>1. Managed' = Managed /\ asked' \subseteq asked
    BY <1>2, SyncIs
  <2>2. ASSUME NEW c \in Managed
        PROVE  /\ Kept(c, clients'[c], server'[c])
               /\ c \notin asked'
    <3> DEFINE q == Refreshed(Realized(Laid))[c]
               m == Moved(c, q, Reparented(c, q))
    <3>1. /\ Ready(c, clients[c], q) /\ clients'[c] = Synced(q) /\ server'[c] = m.server
          /\ c \in asked' <=> c \in asked /\ ~m.told
      BY <1>2, SyncIs
    <3>2. Kept(c, clients[c], server[c]) /\ clients[c] \in Records
      BY <1>1 DEF Placed
    <3> HIDE DEF q
    <3>3. Kept(c, Synced(q), m.server) /\ ("Ack" \in clients[c].dirty => m.told)
      BY <3>1, <3>2, SyncKeeps
    <3> HIDE DEF m
    <3> QED BY <3>1, <3>3 DEF Owed
  <2>3. asked' = {}
    BY <1>1, <2>1, <2>2
  <2> QED BY <2>1, <2>2, <2>3 DEF Placed, Owed
<1>3. ASSUME HandleRootConfigNotify PROVE Placed' /\ Owed'
  <2>1. clients' = clients /\ server' = server /\ asked' = asked
    BY <1>3 DEF HandleRootConfigNotify
  <2> QED BY <2>1 DEF Placed, Owed, Managed, Kept
<1>4. ASSUME NEW c \in Clients, NEW g \in Opening[c], HandleMapRequest(c, g)
      PROVE  Placed' /\ Owed'
  <2>1. /\ Managed' = Managed \cup {c} /\ c \notin Managed /\ asked' = asked
        /\ NewRecord(clients'[c], IF For[c] \in Managed THEN For[c] ELSE NULL)
    BY <1>4, MapIs
  <2>2. Kept(c, clients'[c], server'[c])
    BY <2>1 DEF Kept, NewRecord
  <2>3. ASSUME NEW d \in Managed
        PROVE  Kept(d, clients'[d], server'[d]) /\ clients'[d].dirty = clients[d].dirty
    <3>1. clients'[d] = [clients[d] EXCEPT !.parent = clients'[d].parent] /\ server'[d] = server[d]
      BY <1>4, MapIs
    <3>2. ParentOf(clients[d], clients'[d])
      BY <1>1, <3>1, ParentOnly DEF ParentOf
    <3> QED BY <3>1, <3>2, ParentKeeps DEF Placed, ParentOf
  <2>4. Placed'
    BY <2>1, <2>2, <2>3 DEF Placed
  <2> QED BY <1>1, <2>1, <2>3, <2>4 DEF Owed
<1>5. ASSUME NEW c \in Clients, NEW g \in Wanted[c], HandleConfigureRequest(c, g)
      PROVE  Placed' /\ Owed'
  <2> DEFINE r == clients[c]
             q == clients'[c]
  <2>1. /\ Idle /\ c \in Managed /\ Managed' = Managed
        /\ \A d \in Managed \ {c} : clients'[d] = clients[d]
        /\ q.framed = r.framed /\ q.full = r.full
        /\ q.mapped = r.mapped /\ q.realized = r.realized /\ q.x = r.x
        /\ \/ q.dirty = r.dirty \cup {"Ack", "Geometry"}
           \/ q.dirty = r.dirty \cup {"Ack"} /\ q.window = r.window /\ q.frame = r.frame
        /\ asked' = asked \cup {c} /\ server' = server
    BY <1>5, ConfigureIs
  <2>2. asked = {} /\ r.dirty = {} /\ r.realized
    BY <2>1, IdleIs
  <2>3. Kept(c, r, server[c])
    BY <2>1 DEF Placed
  <2> HIDE DEF r, q
  <2>4. Kept(c, q, server[c]) /\ "Ack" \in q.dirty
    BY <2>1, <2>2, <2>3 DEF Kept, Place
  <2>5. Placed'
    BY <2>1, <2>4 DEF Placed, r, q
  <2> QED BY <2>1, <2>2, <2>4, <2>5 DEF Owed, q
<1>6. ASSUME NEW c \in Clients, HandleFullscreen(c) PROVE Placed' /\ Owed'
  <2> DEFINE r == clients[c]
             q == clients'[c]
  <2>1. /\ Idle /\ c \in Managed /\ Managed' = Managed
        /\ \A d \in Managed \ {c} : clients'[d] = clients[d]
        /\ q.framed = r.framed /\ q.mapped = r.mapped /\ q.realized = r.realized /\ q.x = r.x
        /\ q.dirty = r.dirty \cup {"Fullscreen", "Geometry", "Visibility"}
        /\ asked' = asked /\ server' = server
    BY <1>6, FilledIs
  <2>2. asked = {} /\ r.dirty = {} /\ r.realized
    BY <2>1, IdleIs
  <2>3. Kept(c, r, server[c])
    BY <2>1 DEF Placed
  <2> HIDE DEF r, q
  <2>4. Kept(c, q, server[c])
    BY <2>1, <2>2, <2>3 DEF Kept
  <2>5. Placed'
    BY <2>1, <2>4 DEF Placed, r, q
  <2> QED BY <2>1, <2>2, <2>5 DEF Owed
<1>7. ASSUME NEW c \in Clients, NEW on \in BOOLEAN, SetMapped(c, on) PROVE Placed' /\ Owed'
  <2> DEFINE r == clients[c]
             q == clients'[c]
  <2>1. /\ Idle /\ c \in Managed \cap CanHide /\ Managed' = Managed
        /\ \A d \in Managed \ {c} : clients'[d] = clients[d]
        /\ q.framed = r.framed /\ q.full = r.full /\ q.realized = r.realized
        /\ q.x = r.x /\ q.window = r.window /\ q.frame = r.frame
        /\ q.dirty = r.dirty \cup {"Visibility"}
        /\ asked' = asked /\ server' = server
    BY <1>7, MappedIs
  <2>2. asked = {} /\ r.dirty = {} /\ r.realized
    BY <2>1, IdleIs
  <2>3. Kept(c, r, server[c])
    BY <2>1 DEF Placed
  <2> HIDE DEF r, q
  <2>4. Kept(c, q, server[c])
    BY <2>1, <2>2, <2>3 DEF Kept
  <2>5. Placed'
    BY <2>1, <2>4 DEF Placed, r, q
  <2> QED BY <2>1, <2>2, <2>5 DEF Owed
<1>8. ASSUME NEW c \in Clients, HandleUnmap(c) PROVE Placed' /\ Owed'
  <2>1. Idle /\ Managed' = Managed \ {c} /\ asked' = asked \ {c}
    BY <1>8, UnmapIs
  <2>2. asked = {}
    BY <2>1, IdleIs
  <2>3. ASSUME NEW d \in Managed \ {c} PROVE Kept(d, clients'[d], server'[d])
    <3>1. clients'[d] = [clients[d] EXCEPT !.parent = clients'[d].parent] /\ server'[d] = server[d]
      BY <1>8, UnmapIs
    <3>2. ParentOf(clients[d], clients'[d])
      BY <1>1, <3>1, ParentOnly DEF ParentOf
    <3> QED BY <3>1, <3>2, ParentKeeps DEF Placed
  <2> QED BY <2>1, <2>2, <2>3 DEF Placed, Owed
<1>9. ASSUME UNCHANGED vars PROVE Placed' /\ Owed'
  BY <1>9 DEF vars, Placed, Owed, Managed, Kept
<1>10. TRUE \in BOOLEAN /\ FALSE \in BOOLEAN
  OBVIOUS
<1> QED BY <1>2, <1>3, <1>4, <1>5, <1>6, <1>7, <1>8, <1>9, <1>10 DEF Next, Hide, Show

\* A sync answers each ConfigureRequest and leaves every window that was never minimized
\* where the window manager thinks it is, when the main loop syncs after each event.
THEOREM EveryoneAnswered == SyncsAtOnce => (Spec => []AnsweredInPlace)
<1> SUFFICES ASSUME SyncsAtOnce PROVE Spec => []AnsweredInPlace
  OBVIOUS
<1> DEFINE IInv == Types /\ Placed /\ Owed
<1>1. Init => IInv
  <2>1. Init => Managed = {} /\ asked = {}
    BY DEF Init, Managed
  <2> QED BY <2>1, InitTypes DEF Placed, Owed
<1>2. IInv /\ [Next]_vars => IInv'
  BY TypesStep, PlacedStep
<1>3. IInv => AnsweredInPlace
  <2> SUFFICES ASSUME IInv, sync = {} PROVE asked = {} /\ \A c \in Managed \ CanHide : InPlace(c)
    BY DEF AnsweredInPlace, Settled
  <2>1. Idle
    BY DEF Idle
  <2>2. asked = {} /\ \A c \in Managed : clients[c].dirty = {} /\ clients[c].realized
    BY <2>1, IdleIs
  <2> QED BY <2>2 DEF Placed, Kept, InPlace
<1> QED BY <1>1, <1>2, <1>3, PTL DEF Spec

-----------------------------------------------------------------------------
(* A fullscreen application lies beside its input method.                    *)

\* An application without decors, asked for its place, has no room around its window.
LEMMA AppAsked ==
  ASSUME NEW r \in Records, NEW c \in Clients, Kind[c] = "App", NEW g \in Rects,
         NEW via, NEW s
  PROVE  /\ c \notin Decorated /\ r.window = r.frame
              => Requested(r, c, g, via, s).window = Requested(r, c, g, via, s).frame
         /\ via # "Configure" /\ (r.full \/ c \notin Decorated)
              => /\ Requested(r, c, g, via, s).window = g
                 /\ Requested(r, c, g, via, s).frame = g
<1>1. Requested(r, c, g, via, s) = AppRequest(r, c, g, via)
  BY DEF Requested
<1>2. Given(r, g, g).window = g /\ Given(r, g, g).frame = g
  BY GivenIs
<1> QED BY <1>1, <1>2 DEF AppRequest

Even(cs, c) == {f \in Layouts(cs) : f[c].window = f[c].frame}

LEMMA EvenClosed ==
  ASSUME NEW D \in SUBSET Clients, NEW cs \in [D -> Records], NEW size \in Sizes,
         NEW c \in D, Kind[c] = "App", c \notin Decorated
  PROVE  Closed(Even(cs, c), D, size)
<1> SUFFICES ASSUME NEW f \in Even(cs, c), NEW e \in D, NEW g \in Rects
             PROVE  [f EXCEPT ![e] = Requested(f[e], e, g, "Layout", size)] \in Even(cs, c)
  BY DEF Closed, Even, Layouts
<1> DEFINE q == Requested(f[e], e, g, "Layout", size)
<1>1. f \in Layouts(cs) /\ f \in [D -> Records] /\ f[c].window = f[c].frame
  BY DEF Even, Layouts
<1>2. [f EXCEPT ![e] = q] \in Layouts(cs)
  BY <1>1, LayoutsClosed DEF Closed
<1>3. e = c => q.window = q.frame
  BY <1>1, AppAsked
<1> HIDE DEF q
<1>4. [f EXCEPT ![e] = q][c] = IF e = c THEN q ELSE f[c]
  BY <1>1
<1> QED BY <1>1, <1>2, <1>3, <1>4 DEF Even, q

\* Whoever grows is given the area without condition.
LEMMA GrowsEven ==
  ASSUME NEW D \in SUBSET Clients, NEW cs \in [D -> Records], NEW size \in Sizes,
         NEW q \in Seq(D), NEW k \in 1..Len(q), NEW c \in D, q[k] = c,
         Kind[c] = "App", c \notin Decorated, cs[c].hints = {"Grow"}, ~cs[c].full,
         NEW a \in Accs(Layouts(cs), size)
  PROVE  Over(Grow, a, q) \in Accs(Even(cs, c), size)
<1> DEFINE I == [m \in 0..Len(q) |-> IF m < k THEN Accs(Layouts(cs), size)
                                    ELSE Accs(Even(cs, c), size)]
<1>1. /\ Len(q) \in Nat /\ k \in Nat /\ 0 \in 0..Len(q) /\ 0 < k
      /\ Len(q) \in 0..Len(q) /\ ~(Len(q) < k)
      /\ \A m \in 1..Len(q) : m - 1 \in 0..Len(q) /\ m \in 0..Len(q) /\ q[m] \in D
  OBVIOUS
<1>2. \A m \in 0..Len(q) : I[m] = IF m < k THEN Accs(Layouts(cs), size)
                                  ELSE Accs(Even(cs, c), size)
  OBVIOUS
<1> HIDE DEF I
<1>3. Closed(Layouts(cs), D, size) /\ Closed(Even(cs, c), D, size)
  BY LayoutsClosed, EvenClosed
<1>4. ASSUME NEW m \in 1..Len(q), NEW b \in I[m - 1] PROVE Step("Grow", b, q[m]) \in I[m]
  <2>1. CASE m < k
    <3>1. m - 1 < k /\ I[m - 1] = Accs(Layouts(cs), size) /\ I[m] = Accs(Layouts(cs), size)
      BY <1>1, <1>2, <2>1
    <3> DEFINE P == Layouts(cs)
    <3>2. Closed(P, D, size) /\ b \in Accs(P, size) /\ q[m] \in D
      BY <1>1, <1>3, <3>1
    <3> HIDE DEF P
    <3>3. Step("Grow", b, q[m]) \in Accs(P, size)
      BY <3>2, StepIs DEF Passes
    <3> QED BY <3>1, <3>3 DEF P
  <2>2. CASE m > k
    <3>1. ~(m - 1 < k) /\ ~(m < k)
      BY <1>1, <2>2
    <3>2. I[m - 1] = Accs(Even(cs, c), size) /\ I[m] = Accs(Even(cs, c), size)
      BY <1>1, <1>2, <3>1
    <3> DEFINE P == Even(cs, c)
    <3>3. Closed(P, D, size) /\ b \in Accs(P, size) /\ q[m] \in D
      BY <1>1, <1>3, <3>2
    <3> HIDE DEF P
    <3>4. Step("Grow", b, q[m]) \in Accs(P, size)
      BY <3>3, StepIs DEF Passes
    <3> QED BY <3>2, <3>4 DEF P
  <2>3. CASE m = k
    <3>1. m - 1 < k /\ ~(m < k)
      BY <1>1, <2>3
    <3>2. b \in Accs(Layouts(cs), size) /\ I[m] = Accs(Even(cs, c), size)
      BY <1>1, <1>2, <3>1
    <3> DEFINE r == b.clients[c]
               x == Requested(r, c, b.avail, "Layout", size)
               z == Step("Grow", b, c)
    <3>3. /\ b.clients \in Layouts(cs) /\ b.clients \in [D -> Records] /\ b.avail \in Rects
          /\ b.screen = size /\ r \in Records
      BY <1>3, <3>2, AccFields
    <3>4. Relaid(cs[c], r)
      BY <3>3 DEF Layouts
    <3>5. Hints(r) = {"Grow"}
      BY <3>4 DEF Hints, Relaid
    <3>6. x.window = x.frame
      BY <3>3, AppAsked
    <3>7. z = Ask(b, c, b.avail, TRUE)
      BY <3>5 DEF Step, Grow
    <3>8. z.clients = [b.clients EXCEPT ![c] = x]
      BY <3>2, <3>3, <3>7 DEF Ask, Accs
    <3>9. z \in Accs(Layouts(cs), size)
      BY <1>3, <3>2, StepIs DEF Passes
    <3> HIDE DEF x, z
    <3>10. z.clients[c] = x
      BY <3>3, <3>8
    <3>11. z.clients \in Even(cs, c)
      BY <3>6, <3>9, <3>10 DEF Even, Accs
    <3>12. z \in Accs(Even(cs, c), size)
      BY <3>9, <3>11 DEF Accs
    <3> QED BY <2>3, <3>2, <3>12 DEF z
  <2> QED BY <1>1, <2>1, <2>2, <2>3
<1>5. Leads("Grow", q, I)
  BY <1>4 DEF Leads
<1>6. a \in I[0]
  BY <1>1, <1>2
<1>7. Over(Grow, a, q) \in I[Len(q)]
  BY <1>5, <1>6, GrowLeads
<1> QED BY <1>1, <1>2, <1>7

LEMMA UpdatedEven ==
  ASSUME NEW D \in SUBSET Clients, NEW cs \in [D -> Records], NEW size \in Sizes,
         NEW q \in Seq(D), NEW k \in 1..Len(q), NEW c \in D, q[k] = c,
         Kind[c] = "App", c \notin Decorated,
         cs[c].window = cs[c].frame \/ (cs[c].hints = {"Grow"} /\ ~cs[c].full)
  PROVE  Updated(cs, q, size)[c].window = Updated(cs, q, size)[c].frame
<1>1. Closed(Layouts(cs), D, size) /\ Closed(Even(cs, c), D, size) /\ cs \in Layouts(cs)
  BY LayoutsClosed, EvenClosed, SameIs DEF Layouts
<1>2. Updated(cs, q, size) \in Even(cs, c)
  <2>1. CASE cs[c].window = cs[c].frame
    <3>1. cs \in Even(cs, c)
      BY <1>1, <2>1 DEF Even
    <3> QED BY <1>1, <3>1, UpdatedIn
  <2>2. CASE cs[c].hints = {"Grow"} /\ ~cs[c].full
    <3>1. Reached(cs, q, size) \in Accs(Layouts(cs), size)
      BY <1>1, ReachedIn
    <3>2. Grown(cs, q, size) \in Accs(Even(cs, c), size)
      BY <2>2, <3>1, GrowsEven DEF Grown
    <3>3. Filling(cs, q, size) \in Accs(Even(cs, c), size)
      BY <1>1, <3>2, FillingIn
    <3>4. Over(Fullscreen, Filling(cs, q, size), q) \in Accs(Even(cs, c), size)
      BY <1>1, <3>3, PassIs
    <3> QED BY <3>4, UpdatedBy DEF Accs
  <2> QED BY <2>1, <2>2
<1> QED BY <1>2 DEF Even

\* The area that BesidesInput leaves is beside the input method.
LEMMA BesidesApart ==
  ASSUME NEW D \in SUBSET Clients, NEW P, NEW size \in Sizes, Closed(P, D, size),
         NEW a \in Accs(P, size), NEW c \in D, NEW d \in D,
         a.clients[d].parent = c, Kind[d] = "Input",
         Hints(a.clients[d]) = {"South"},
         \A e \in D : a.clients[e].parent = c /\ Kind[e] = "Input" => e = d
  PROVE  Apart(BesidesInput(a, c), Coverage(a.clients[d]))
<1> DEFINE inputs == {e \in DOMAIN a.clients : a.clients[e].parent = c /\ Kind[e] = "Input"}
           g == Coverage(a.clients[d])
           v == a.avail
<1>1. a.clients \in [D -> Records] /\ v \in Rects /\ g \in Rects
  BY AccFields, RecordFields
<1>2. inputs = {d}
  BY <1>1
<1>3. BesidesInput(a, c) =
        IF g.y < v.y + v.height THEN [v EXCEPT !.height = g.y - v.y] ELSE v
  <2>1. (CHOOSE e \in inputs : TRUE) = d /\ inputs # {}
    BY <1>2
  <2>2. {"South"} # {"North"} /\ {"South"} # {"West"} /\ {"South"} # {"East"}
    OBVIOUS
  <2> QED BY <2>1, <2>2 DEF BesidesInput
<1> HIDE DEF g, v
<1>4. /\ g.x \in Int /\ g.y \in Int /\ g.width \in Int /\ g.height \in Int
      /\ v.x \in Int /\ v.y \in Int /\ v.width \in Int /\ v.height \in Int
  BY <1>1, RectFields
<1>5. CASE g.y < v.y + v.height
  <2> DEFINE z == [v EXCEPT !.height = g.y - v.y]
  <2>1. z.y = v.y /\ z.height = g.y - v.y
    BY <1>1 DEF Rects
  <2> HIDE DEF z
  <2>2. z.y + z.height <= g.y
    BY <1>4, <2>1
  <2> QED BY <1>3, <1>5, <2>2 DEF Apart, z, g
<1>6. CASE ~(g.y < v.y + v.height)
  <2>1. v.y + v.height <= g.y
    BY <1>4, <1>6
  <2> QED BY <1>3, <1>6, <2>1 DEF Apart, g
<1> QED BY <1>5, <1>6

\* The clients of a pair that the fullscreen loop parts: c is full, d its input method.
Pair(cs, D, c, d) ==
  /\ c \in D /\ d \in D
  /\ Kind[c] = "App" /\ cs[c].full
  /\ Kind[d] = "Input" /\ ~cs[d].full /\ cs[d].hints = {"South"} /\ cs[d].parent = c
  /\ \A e \in D : cs[e].parent = c /\ Kind[e] = "Input" => e = d

\* The step at c puts it beside d.
LEMMA FullscreenParts ==
  ASSUME NEW D \in SUBSET Clients, NEW cs \in [D -> Records], NEW size \in Sizes,
         NEW c, NEW d, Pair(cs, D, c, d), NEW a \in Accs(Layouts(cs), size)
  PROVE  Apart(Coverage(Fullscreen(a, c).clients[c]), Coverage(a.clients[d]))
<1> DEFINE r == a.clients[c]
           area == BesidesInput(a, c)
           x == Requested(r, c, area, "Layout", size)
           need == Coverage(r) # area
           z == Fullscreen(a, c)
<1>1. Closed(Layouts(cs), D, size) /\ c \in D /\ d \in D /\ c \in Clients
  BY LayoutsClosed DEF Pair
<1>2. /\ a.clients \in Layouts(cs) /\ a.clients \in [D -> Records] /\ r \in Records
      /\ a.screen = size
  BY <1>1, AccFields
<1>3. area \in Rects
  BY <1>1, BesidesTyped
<1>4. /\ \A e \in D : Relaid(cs[e], a.clients[e])
      /\ r.full /\ \A e \in D : a.clients[e].parent = cs[e].parent
      /\ Hints(a.clients[d]) = {"South"} /\ a.clients[d].parent = c
  <2>1. \A e \in D : Relaid(cs[e], a.clients[e])
    BY <1>2 DEF Layouts
  <2> QED BY <1>1, <2>1 DEF Relaid, Pair, Hints
<1>5. Apart(area, Coverage(a.clients[d]))
  BY <1>1, <1>4, BesidesApart DEF Pair
<1>6. x.window = area /\ x.frame = area
  <2> HIDE DEF area, r
  <2> QED BY <1>1, <1>2, <1>3, <1>4, AppAsked DEF Pair, r
<1>7. Coverage(x) = area
  BY <1>6 DEF Coverage
<1>8. z.clients = Ask(a, c, area, need).clients
  <2>1. Hints(r) = {"Fullscreen"}
    BY <1>4 DEF Hints
  <2>2. z = [Ask(a, c, area, need) EXCEPT !.avail = area]
    BY <2>1 DEF Fullscreen
  <2> HIDE DEF z, area, need
  <2> QED BY <2>2 DEF Ask, Accs
<1> HIDE DEF area
<1>9. Ask(a, c, area, need).clients = [a.clients EXCEPT ![c] = IF need THEN x ELSE r]
  BY <1>2 DEF Ask, Accs
<1> HIDE DEF x, need, z
<1>10. z.clients[c] = IF need THEN x ELSE r
  BY <1>1, <1>2, <1>8, <1>9
<1>11. Coverage(z.clients[c]) = area
  BY <1>7, <1>10 DEF need
<1> QED BY <1>5, <1>11 DEF z

\* A step touches no one but the client at which it is, and none but a fullscreen one.
LEMMA FullscreenTouches ==
  ASSUME NEW D \in SUBSET Clients, NEW P, NEW size \in Sizes, Closed(P, D, size),
         NEW a \in Accs(P, size)
  PROVE  \A e, d \in D : d # e \/ Hints(a.clients[d]) # {"Fullscreen"}
                          => Fullscreen(a, e).clients[d] = a.clients[d]
<1> SUFFICES ASSUME NEW e \in D, NEW d \in D, d # e \/ Hints(a.clients[d]) # {"Fullscreen"}
             PROVE  Fullscreen(a, e).clients[d] = a.clients[d]
  OBVIOUS
<1> DEFINE area == BesidesInput(a, e)
           need == Coverage(a.clients[e]) # area
           x == IF need THEN Requested(a.clients[e], e, area, "Layout", a.screen) ELSE a.clients[e]
<1>1. a.clients \in [D -> Records]
  BY AccFields
<1>2. CASE Hints(a.clients[e]) # {"Fullscreen"}
  BY <1>2 DEF Fullscreen
<1>3. CASE Hints(a.clients[e]) = {"Fullscreen"}
  <2>1. Fullscreen(a, e) = [Ask(a, e, area, need) EXCEPT !.avail = area]
    BY <1>3 DEF Fullscreen
  <2>2. Ask(a, e, area, need) = [a EXCEPT !.change = need, !.clients = [a.clients EXCEPT ![e] = x]]
    BY DEF Ask, Accs
  <2> HIDE DEF area, need, x
  <2>3. Fullscreen(a, e).clients = [a.clients EXCEPT ![e] = x]
    BY <2>1, <2>2 DEF Accs
  <2>4. d # e
    BY <1>3
  <2> QED BY <1>1, <2>3, <2>4
<1> QED BY <1>2, <1>3

LEMMA TouchesOnly ==
  ASSUME NEW D \in SUBSET Clients, NEW cs \in [D -> Records], NEW size \in Sizes
  PROVE  \A a \in Accs(Layouts(cs), size) : \A e, f \in D :
           f # e \/ Hints(a.clients[f]) # {"Fullscreen"}
             => Fullscreen(a, e).clients[f] = a.clients[f]
<1> DEFINE P == Layouts(cs)
<1>1. Closed(P, D, size)
  BY LayoutsClosed
<1> HIDE DEF P
<1>2. \A a \in Accs(P, size) : \A e, f \in D :
        f # e \/ Hints(a.clients[f]) # {"Fullscreen"}
          => Fullscreen(a, e).clients[f] = a.clients[f]
  BY <1>1, FullscreenTouches
<1> QED BY <1>2 DEF P

LEMMA FullscreenClears ==
  ASSUME NEW D \in SUBSET Clients, NEW cs \in [D -> Records], NEW size \in Sizes,
         NEW q \in Seq(D), \A i, j \in 1..Len(q) : q[i] = q[j] => i = j,
         NEW c, NEW d, Pair(cs, D, c, d), NEW k \in 1..Len(q), q[k] = c,
         NEW base \in Accs(Layouts(cs), size)
  PROVE  LET z == Over(Fullscreen, base, q).clients
         IN Apart(Coverage(z[c]), Coverage(z[d]))
<1> DEFINE A == Accs(Layouts(cs), size)
           I == [m \in 0..Len(q) |->
                   {a \in A : m >= k => Apart(Coverage(a.clients[c]), Coverage(a.clients[d]))}]
<1>1. /\ Len(q) \in Nat /\ k \in Nat /\ 0 \in 0..Len(q) /\ ~(0 >= k)
      /\ Len(q) \in 0..Len(q) /\ Len(q) >= k
      /\ \A m \in 1..Len(q) : m - 1 \in 0..Len(q) /\ m \in 0..Len(q) /\ q[m] \in D
  OBVIOUS
<1>2. \A m \in 0..Len(q) : I[m] = {a \in A : m >= k => Apart(Coverage(a.clients[c]),
                                                           Coverage(a.clients[d]))}
  OBVIOUS
<1> HIDE DEF I
<1>3. Closed(Layouts(cs), D, size) /\ c \in D /\ d \in D
  BY LayoutsClosed DEF Pair
<1>4. \A a \in A : \A e, f \in D : f # e \/ Hints(a.clients[f]) # {"Fullscreen"}
                                   => Fullscreen(a, e).clients[f] = a.clients[f]
  BY TouchesOnly
<1>5. ASSUME NEW m \in 1..Len(q), NEW a \in I[m - 1] PROVE Step("Fullscreen", a, q[m]) \in I[m]
  <2> DEFINE e == q[m]
             z == Fullscreen(a, e)
  <2>1. a \in A /\ (m - 1 >= k => Apart(Coverage(a.clients[c]), Coverage(a.clients[d])))
    BY <1>1, <1>2
  <2>2. Step("Fullscreen", a, q[m]) = z
    BY DEF Step
  <2>3. z \in A
    BY <1>1, <1>3, <2>1, FullscreenIs
  <2>4. Hints(a.clients[d]) # {"Fullscreen"}
    <3>1. Relaid(cs[d], a.clients[d])
      BY <1>3, <2>1 DEF Accs, Layouts
    <3> QED BY <3>1 DEF Relaid, Hints, Pair
  <2>5. /\ z.clients[d] = a.clients[d]
        /\ c # e => z.clients[c] = a.clients[c]
    <3>1. e \in D /\ a \in A
      BY <1>1, <2>1
    <3> HIDE DEF A, e
    <3>2. Fullscreen(a, e).clients[d] = a.clients[d]
      BY <1>3, <1>4, <2>4, <3>1
    <3>3. c # e => Fullscreen(a, e).clients[c] = a.clients[c]
      BY <1>3, <1>4, <3>1
    <3> QED BY <3>2, <3>3
  <2>6. ASSUME m >= k PROVE Apart(Coverage(z.clients[c]), Coverage(z.clients[d]))
    <3>1. CASE m = k
      <4>1. Apart(Coverage(z.clients[c]), Coverage(a.clients[d]))
        BY <2>1, <3>1, FullscreenParts
      <4> QED BY <2>5, <4>1
    <3>2. CASE m # k
      <4>1. q[m] # c /\ m - 1 >= k
        BY <1>1, <2>6, <3>2
      <4>2. z.clients[c] = a.clients[c]
        BY <2>5, <4>1
      <4> HIDE DEF z
      <4> QED BY <2>1, <2>5, <4>1, <4>2
    <3> QED BY <3>1, <3>2
  <2> HIDE DEF z, A
  <2> QED BY <1>1, <1>2, <2>2, <2>3, <2>6
<1>6. Leads("Fullscreen", q, I)
  BY <1>5 DEF Leads
<1>7. base \in I[0]
  BY <1>1, <1>2
<1>8. Over(Fullscreen, base, q) \in I[Len(q)]
  BY <1>6, <1>7, FullscreenLeads
<1> QED BY <1>1, <1>2, <1>8

LEMMA UpdatedClears ==
  ASSUME NEW D \in SUBSET Clients, NEW cs \in [D -> Records], NEW size \in Sizes,
         NEW q \in Seq(D), \A i, j \in 1..Len(q) : q[i] = q[j] => i = j,
         NEW c, NEW d, Pair(cs, D, c, d), NEW k \in 1..Len(q), q[k] = c
  PROVE  Apart(Coverage(Updated(cs, q, size)[c]), Coverage(Updated(cs, q, size)[d]))
<1>1. Closed(Layouts(cs), D, size) /\ cs \in Layouts(cs)
  BY LayoutsClosed, SameIs DEF Layouts
<1>2. Filling(cs, q, size) \in Accs(Layouts(cs), size)
  BY <1>1, UpdatedIn
<1> DEFINE base == Filling(cs, q, size)
           z == Over(Fullscreen, base, q).clients
<1>3. base \in Accs(Layouts(cs), size)
  BY <1>2
<1> HIDE DEF base
<1>4. Apart(Coverage(z[c]), Coverage(z[d]))
  BY <1>3, FullscreenClears
<1>5. Updated(cs, q, size) = z
  BY UpdatedBy DEF base
<1> QED BY <1>4, <1>5

\* What holds of the record of each client: an input method is at the bottom, an
\* application grows, and without decors it has no room around its window once realized;
\* only who can be fullscreen is, and after its first sync; a transient is so for the
\* window that it names.
Formed(c, r) ==
  /\ r.parent # NULL => For[c] = r.parent
  /\ Kind[c] = "Input" => r.hints = {"South"}
  /\ Kind[c] = "App" => r.hints = {"Grow"}
  /\ r.full => c \in CanFill /\ r.realized
  /\ "Fullscreen" \in r.dirty => c \in CanFill
  /\ Kind[c] = "App" /\ c \notin Decorated /\ r.realized => r.window = r.frame

AllFormed == \A c \in Managed : Formed(c, clients[c])

Meets(c, d) == clients[c].full /\ Kind[d] = "Input" /\ clients[d].parent = c

\* While no layout is due.
Cleared ==
  "Geometry" \notin sync => \A c, d \in Managed : Meets(c, d) => Apart(Cover(c), Cover(d))

\* The hypotheses of FullscreenClear: applications only go to fullscreen, and an
\* application has one input method at a time.
FillsApps == \A c \in CanFill \cap Clients : Kind[c] = "App"
OneInput ==
  \A d, e \in Clients :
    Kind[d] = "Input" /\ Kind[e] = "Input" /\ For[d] = For[e] /\ For[d] # NULL => d = e

LEMMA LaidEven ==
  ASSUME Types, Placed, AllFormed, NEW c \in Managed, Kind[c] = "App", c \notin Decorated
  PROVE  Laid[c].window = Laid[c].frame
<1>1. /\ order \in Seq(Managed) /\ Managed \in SUBSET Clients /\ clients \in [Managed -> Records]
      /\ screen \in Sizes /\ clients[c].dirty \subseteq sync
  BY DEF Types, Listed
<1>2. Formed(c, clients[c]) /\ Kept(c, clients[c], server[c])
  BY DEF AllFormed, Placed
<1>3. CASE "Geometry" \notin sync
  BY <1>1, <1>2, <1>3 DEF Laid, Formed, Kept
<1>4. CASE "Geometry" \in sync
  <2>1. PICK k \in 1..Len(order) : order[k] = c
    BY DEF Types, Listed
  <2>2. clients[c].window = clients[c].frame \/ (clients[c].hints = {"Grow"} /\ ~clients[c].full)
    BY <1>2 DEF Formed
  <2>3. Updated(clients, order, screen)[c].window = Updated(clients, order, screen)[c].frame
    BY <1>1, <2>1, <2>2, UpdatedEven
  <2> QED BY <1>4, <2>3 DEF Laid
<1> QED BY <1>3, <1>4

\* What the sync does after the layout moves neither an input method nor a fullscreen
\* application.
LEMMA AfterLayout ==
  ASSUME Types, Placed, AllFormed, FillsApps, NEW c \in Managed
  PROVE  LET q == Refreshed(Realized(Laid))[c]
         IN /\ Kind[c] = "Input" \/ clients[c].full => Coverage(q) = Coverage(Laid[c])
            /\ Kind[c] = "App" /\ c \notin Decorated => q.window = q.frame
<1> DEFINE r == clients[c]
           l == Laid[c]
           h == HasFrame(c)
           d == [l EXCEPT !.realized = TRUE]
           e == [d EXCEPT !.framed = h]
           q == Refreshed(Realized(Laid))[c]
           x == Requested(e, c, e.frame, "Forced", screen)
<1>1. r \in Records /\ l \in Records /\ Relaid(r, l) /\ c \in Clients
  BY LaidIs DEF Types, Layouts, Managed
<1>2. Formed(c, r) /\ Kept(c, r, server[c]) /\ h \in BOOLEAN
  BY DEF AllFormed, Placed, HasFrame
<1>3. q = IF "Fullscreen" \in e.dirty THEN x ELSE e
  BY DEF Refreshed, Realized, Refilled, HasFrame
<1> HIDE DEF r, l, h
<1>4. d \in Records /\ d.window = l.window /\ d.frame = l.frame /\ d.full = l.full
      /\ d.dirty = l.dirty
  BY <1>1 DEF Records
<1> HIDE DEF d
<1>5. /\ e \in Records /\ e.window = l.window /\ e.frame = l.frame /\ e.full = l.full
      /\ e.dirty = l.dirty /\ e.framed = h
  BY <1>2, <1>4 DEF Records
<1> HIDE DEF e
<1>6. l.full = r.full /\ l.framed = r.framed /\ ("Fullscreen" \in e.dirty => c \in CanFill)
  BY <1>1, <1>2, <1>5 DEF Relaid, Formed
<1>7. ASSUME Kind[c] = "App" /\ (r.full \/ c \notin Decorated)
      PROVE  x.window = e.frame /\ x.frame = e.frame
  <2>1. e.frame \in Rects
    BY <1>5, RecordFields
  <2> DEFINE g == e.frame
  <2> HIDE DEF g
  <2>2. /\ Requested(e, c, g, "Forced", screen).window = g
        /\ Requested(e, c, g, "Forced", screen).frame = g
    BY <1>1, <1>5, <1>6, <1>7, <2>1, AppAsked DEF g
  <2> QED BY <2>2 DEF g
<1> HIDE DEF x, q
<1>8. ASSUME Kind[c] = "Input" PROVE Coverage(q) = Coverage(l)
  <2>1. ~h /\ c \notin CanFill
    BY <1>1, <1>8 DEF h, HasFrame, FillsApps
  <2>2. ~r.framed
    BY <1>2, <2>1 DEF Kept, h
  <2>3. q = e
    BY <1>3, <1>6, <2>1
  <2> QED BY <1>5, <1>6, <2>1, <2>2, <2>3 DEF Coverage
<1>9. ASSUME Kind[c] = "App", c \notin Decorated PROVE q.window = q.frame /\ l.window = l.frame
  <2>1. l.window = l.frame
    BY <1>9, LaidEven DEF l
  <2> QED BY <1>3, <1>5, <1>7, <1>9, <2>1
<1>10. ASSUME r.full PROVE Coverage(q) = Coverage(l)
  <2>1. Kind[c] = "App" /\ r.realized
    BY <1>1, <1>2, <1>10 DEF Formed, FillsApps
  <2>2. l.framed = h /\ h = (c \in Decorated)
    BY <1>2, <1>6, <2>1 DEF Kept, h, HasFrame
  <2>3. CASE "Fullscreen" \in e.dirty
    <3>1. q.window = l.frame /\ q.frame = l.frame
      BY <1>3, <1>5, <1>7, <1>10, <2>1, <2>3
    <3>2. Coverage(l) = l.frame
      BY <1>9, <2>1, <2>2 DEF Coverage
    <3> QED BY <3>1, <3>2 DEF Coverage
  <2>4. CASE "Fullscreen" \notin e.dirty
    BY <1>3, <1>5, <2>2, <2>4 DEF Coverage
  <2> QED BY <2>3, <2>4
<1> QED BY <1>8, <1>9, <1>10 DEF q, l, r

\* Two records that cover the same, with the same parent or none.
LEMMA ClearedFrom ==
  ASSUME Cleared, "Geometry" \notin sync, NEW D \in SUBSET Managed, Managed' = D,
         \A c \in D : /\ clients'[c].full = clients[c].full
                      /\ clients'[c].parent \in {clients[c].parent, NULL}
                      /\ Coverage(clients'[c]) = Coverage(clients[c]),
         NULL \notin Managed
  PROVE  Cleared'
<1> SUFFICES ASSUME NEW c \in D, NEW d \in D, clients'[c].full, Kind[d] = "Input",
                    clients'[d].parent = c
             PROVE  Apart(Coverage(clients'[c]), Coverage(clients'[d]))
  BY DEF Cleared, Meets, Cover
<1>1. clients[c].full /\ clients[d].parent = c
  OBVIOUS
<1>2. Apart(Coverage(clients[c]), Coverage(clients[d]))
  BY <1>1 DEF Cleared, Meets, Cover
<1> QED BY <1>2

\* A step that moves no client, sizes none and fills none.
LEMMA FormedFrom ==
  ASSUME NEW c, NEW r, NEW q, Formed(c, r), q.hints = r.hints, q.full = r.full,
         q.realized = r.realized, q.parent = r.parent \/ q.parent = NULL \/ q.parent = For[c],
         "Fullscreen" \in q.dirty => "Fullscreen" \in r.dirty,
         q.window = q.frame \/ (q.window = r.window /\ q.frame = r.frame)
  PROVE  Formed(c, q)
BY DEF Formed

LEMMA SyncClears ==
  ASSUME Types, Placed, AllFormed, Cleared, FillsApps, OneInput, Sync
  PROVE  AllFormed' /\ Cleared'
<1>1. /\ Managed \in SUBSET Clients /\ clients \in [Managed -> Records]
      /\ order \in Seq(Managed) /\ screen \in Sizes /\ Managed' = Managed
      /\ \A i, j \in 1..Len(order) : order[i] = order[j] => i = j
  BY SyncIs DEF Types, Listed
<1>2. ASSUME NEW c \in Managed
      PROVE  /\ clients'[c].full = clients[c].full /\ clients'[c].parent = clients[c].parent
             /\ clients'[c].hints = clients[c].hints
             /\ Kind[c] = "Input" \/ clients[c].full
                  => Coverage(clients'[c]) = Coverage(Laid[c])
             /\ Formed(c, clients'[c])
  <2> DEFINE q == Refreshed(Realized(Laid))[c]
             z == Synced(q)
  <2>1. Ready(c, clients[c], q) /\ clients'[c] = z
    BY SyncIs
  <2>2. /\ Kind[c] = "Input" \/ clients[c].full => Coverage(q) = Coverage(Laid[c])
        /\ Kind[c] = "App" /\ c \notin Decorated => q.window = q.frame
    BY AfterLayout
  <2> HIDE DEF q
  <2>3. /\ z.dirty = {} /\ z.window = q.window /\ z.frame = q.frame /\ z.framed = q.framed
        /\ z.full = q.full /\ z.hints = q.hints /\ z.parent = q.parent /\ z.realized = q.realized
    BY <2>1, SyncedIs DEF Ready
  <2> HIDE DEF z
  <2>4. Coverage(z) = Coverage(q)
    BY <2>3 DEF Coverage
  <2>5. Formed(c, z)
    BY <2>1, <2>2, <2>3 DEF Formed, AllFormed, Ready
  <2> QED BY <2>1, <2>2, <2>3, <2>4, <2>5 DEF Ready
<1>3. AllFormed'
  BY <1>1, <1>2 DEF AllFormed
<1>4. ASSUME NEW c \in Managed, NEW d \in Managed, clients'[c].full, Kind[d] = "Input",
             clients'[d].parent = c
      PROVE  Apart(Coverage(clients'[c]), Coverage(clients'[d]))
  <2>1. clients[c].full /\ clients[d].parent = c
    BY <1>2, <1>4
  <2>2. /\ Coverage(clients'[c]) = Coverage(Laid[c])
        /\ Coverage(clients'[d]) = Coverage(Laid[d])
    BY <1>2, <1>4, <2>1
  <2>3. Apart(Coverage(Laid[c]), Coverage(Laid[d]))
    <3>1. CASE "Geometry" \notin sync
      <4>1. Apart(Coverage(clients[c]), Coverage(clients[d]))
        BY <1>4, <2>1, <3>1 DEF Cleared, Meets, Cover
      <4> QED BY <3>1, <4>1 DEF Laid
    <3>2. CASE "Geometry" \in sync
      <4>1. PICK k \in 1..Len(order) : order[k] = c
        BY DEF Types, Listed
      <4>2. Formed(c, clients[c]) /\ Formed(d, clients[d]) /\ c \in Clients /\ d \in Clients
        BY <1>1 DEF AllFormed
      <4>3. Kind[c] = "App" /\ ~clients[d].full /\ clients[d].hints = {"South"}
        <5>1. c \in CanFill /\ Kind[c] = "App"
          BY <2>1, <4>2 DEF Formed, FillsApps
        <5>2. ~clients[d].full
          BY <1>4, <4>2 DEF Formed, FillsApps
        <5>3. clients[d].full \in BOOLEAN /\ clients[d].hints = {"South"}
          BY <1>1, <1>4, <4>2 DEF Formed, Records
        <5> QED BY <5>1, <5>2, <5>3
      <4>4. ASSUME NEW e \in Managed, clients[e].parent = c, Kind[e] = "Input" PROVE e = d
        <5>1. c # NULL /\ e \in Clients
          BY <1>1, LayoutAssumption
        <5>2. For[e] = c /\ For[d] = c
          BY <2>1, <4>2, <4>4, <5>1 DEF Formed, AllFormed
        <5> QED BY <1>4, <4>2, <4>4, <5>1, <5>2 DEF OneInput
      <4>5. Pair(clients, Managed, c, d)
        BY <1>4, <2>1, <4>3, <4>4 DEF Pair
      <4> DEFINE D == Managed
      <4>6. /\ D \in SUBSET Clients /\ clients \in [D -> Records] /\ order \in Seq(D)
            /\ Pair(clients, D, c, d)
        BY <1>1, <4>5
      <4> HIDE DEF D
      <4>7. Apart(Coverage(Updated(clients, order, screen)[c]),
                  Coverage(Updated(clients, order, screen)[d]))
        BY <1>1, <4>1, <4>6, UpdatedClears
      <4> QED BY <3>2, <4>7 DEF Laid
    <3> QED BY <3>1, <3>2
  <2> QED BY <2>2, <2>3
<1>5. Cleared'
  BY <1>1, <1>4 DEF Cleared, Meets, Cover
<1> QED BY <1>3, <1>5

LEMMA ClearStep ==
  ASSUME SyncsAtOnce, Types, Placed, Owed, AllFormed, Cleared, FillsApps, OneInput, [Next]_vars
  PROVE  AllFormed' /\ Cleared'
<1>1. /\ clients \in [Managed -> Records] /\ NULL \notin Managed
      /\ \A c \in Managed : Formed(c, clients[c])
  BY LayoutAssumption DEF Types, AllFormed
<1>2. ASSUME Sync PROVE AllFormed' /\ Cleared'
  BY <1>2, SyncClears
<1>3. ASSUME HandleRootConfigNotify PROVE AllFormed' /\ Cleared'
  <2>1. clients' = clients /\ "Geometry" \in sync'
    BY <1>3 DEF HandleRootConfigNotify
  <2> QED BY <2>1 DEF AllFormed, Cleared, Managed
<1>4. ASSUME NEW c \in Clients, NEW g \in Opening[c], HandleMapRequest(c, g)
      PROVE  AllFormed' /\ Cleared'
  <2>1. /\ Managed' = Managed \cup {c} /\ "Geometry" \in sync'
        /\ NewRecord(clients'[c], IF For[c] \in Managed THEN For[c] ELSE NULL)
        /\ Kind[c] = "App" => clients'[c].hints = {"Grow"}
        /\ Kind[c] = "Input" => clients'[c].hints = {"South"}
    BY <1>4, MapIs
  <2>2. Formed(c, clients'[c])
    BY <2>1 DEF Formed, NewRecord
  <2>3. ASSUME NEW d \in Managed PROVE Formed(d, clients'[d])
    <3>1. /\ clients'[d] = [clients[d] EXCEPT !.parent = clients'[d].parent]
          /\ clients'[d].parent = clients[d].parent \/ clients'[d].parent = For[d]
      BY <1>4, MapIs
    <3>2. ParentOf(clients[d], clients'[d])
      BY <1>1, <3>1, ParentOnly DEF ParentOf
    <3> QED BY <1>1, <3>1, <3>2, FormedFrom DEF ParentOf
  <2>4. AllFormed'
    BY <2>1, <2>2, <2>3 DEF AllFormed
  <2> QED BY <2>1, <2>4 DEF Cleared
<1>5. ASSUME NEW c \in Clients, NEW g \in Wanted[c], HandleConfigureRequest(c, g)
      PROVE  AllFormed' /\ Cleared'
  <2> DEFINE r == clients[c]
             q == clients'[c]
  <2>1. /\ Idle /\ c \in Managed /\ Managed' = Managed
        /\ \A d \in Managed \ {c} : clients'[d] = clients[d]
        /\ q.framed = r.framed /\ q.full = r.full /\ q.hints = r.hints
        /\ q.parent = r.parent /\ q.realized = r.realized
        /\ \/ q.dirty = r.dirty \cup {"Ack", "Geometry"}
           \/ q.dirty = r.dirty \cup {"Ack"} /\ q.window = r.window /\ q.frame = r.frame
        /\ Kind[c] = "App" => q.window = r.window /\ q.frame = r.frame
        /\ q.dirty \subseteq sync'
    BY <1>5, ConfigureIs
  <2>2. sync = {}
    BY <2>1, IdleIs
  <2>3. Formed(c, q)
    BY <1>1, <2>1 DEF Formed
  <2>4. AllFormed'
    BY <1>1, <2>1, <2>3 DEF AllFormed
  <2>5. CASE "Geometry" \in sync'
    BY <2>4, <2>5 DEF Cleared
  <2>6. CASE "Geometry" \notin sync'
    <3>1. q.window = r.window /\ q.frame = r.frame
      BY <2>1, <2>6
    <3>2. Coverage(q) = Coverage(r)
      BY <2>1, <3>1 DEF Coverage
    <3>3. \A d \in Managed : /\ clients'[d].full = clients[d].full
                             /\ clients'[d].parent \in {clients[d].parent, NULL}
                             /\ Coverage(clients'[d]) = Coverage(clients[d])
      BY <2>1, <3>2
    <3>4. Cleared'
      BY <1>1, <2>1, <2>2, <3>3, ClearedFrom
    <3> QED BY <2>4, <3>4
  <2> QED BY <2>5, <2>6
<1>6. ASSUME NEW c \in Clients, HandleFullscreen(c) PROVE AllFormed' /\ Cleared'
  <2> DEFINE r == clients[c]
             q == clients'[c]
  <2>1. /\ Idle /\ c \in Managed \cap CanFill /\ Managed' = Managed
        /\ \A d \in Managed \ {c} : clients'[d] = clients[d]
        /\ q.hints = r.hints /\ q.parent = r.parent /\ q.realized = r.realized
        /\ q.window = r.window /\ q.frame = r.frame
        /\ sync' = sync \cup {"Fullscreen", "Geometry", "Visibility", "Stacking"}
    BY <1>6, FilledIs
  <2>2. r.realized
    BY <2>1, IdleIs
  <2>3. Formed(c, q)
    BY <1>1, <2>1, <2>2 DEF Formed
  <2>4. AllFormed'
    BY <1>1, <2>1, <2>3 DEF AllFormed
  <2> QED BY <2>1, <2>4 DEF Cleared
<1>7. ASSUME NEW c \in Clients, NEW on \in BOOLEAN, SetMapped(c, on) PROVE AllFormed' /\ Cleared'
  <2> DEFINE r == clients[c]
             q == clients'[c]
  <2>1. /\ Idle /\ c \in Managed \cap CanHide /\ Managed' = Managed
        /\ \A d \in Managed \ {c} : clients'[d] = clients[d]
        /\ q.framed = r.framed /\ q.full = r.full /\ q.hints = r.hints
        /\ q.parent = r.parent /\ q.realized = r.realized
        /\ q.window = r.window /\ q.frame = r.frame
        /\ q.dirty = r.dirty \cup {"Visibility"}
    BY <1>7, MappedIs
  <2>2. sync = {}
    BY <2>1, IdleIs
  <2>3. Formed(c, q)
    BY <1>1, <2>1, FormedFrom
  <2>4. AllFormed'
    BY <1>1, <2>1, <2>3 DEF AllFormed
  <2>5. Coverage(q) = Coverage(r)
    BY <2>1 DEF Coverage
  <2>6. \A d \in Managed : /\ clients'[d].full = clients[d].full
                           /\ clients'[d].parent \in {clients[d].parent, NULL}
                           /\ Coverage(clients'[d]) = Coverage(clients[d])
    BY <2>1, <2>5
  <2>7. Cleared'
    BY <1>1, <2>1, <2>2, <2>6, ClearedFrom
  <2> QED BY <2>4, <2>7
<1>8. ASSUME NEW c \in Clients, HandleUnmap(c) PROVE AllFormed' /\ Cleared'
  <2>1. Idle /\ Managed' = Managed \ {c}
    BY <1>8, UnmapIs
  <2>2. sync = {}
    BY <2>1, IdleIs
  <2>3. ASSUME NEW d \in Managed \ {c}
        PROVE  /\ Formed(d, clients'[d]) /\ clients'[d].full = clients[d].full
               /\ clients'[d].parent \in {clients[d].parent, NULL}
               /\ Coverage(clients'[d]) = Coverage(clients[d])
    <3>1. /\ clients'[d] = [clients[d] EXCEPT !.parent = clients'[d].parent]
          /\ clients'[d].parent \in {clients[d].parent, NULL}
      BY <1>8, UnmapIs
    <3>2. ParentOf(clients[d], clients'[d])
      BY <1>1, <3>1, ParentOnly DEF ParentOf
    <3>3. Formed(d, clients'[d])
      BY <1>1, <3>1, <3>2, FormedFrom DEF ParentOf
    <3> QED BY <3>1, <3>2, <3>3 DEF ParentOf, Coverage
  <2>4. AllFormed'
    BY <2>1, <2>3 DEF AllFormed
  <2>5. Cleared'
    <3> DEFINE D == Managed \ {c}
    <3>1. /\ D \in SUBSET Managed /\ Managed' = D /\ "Geometry" \notin sync
          /\ \A d \in D : /\ clients'[d].full = clients[d].full
                          /\ clients'[d].parent \in {clients[d].parent, NULL}
                          /\ Coverage(clients'[d]) = Coverage(clients[d])
      BY <2>1, <2>2, <2>3
    <3> HIDE DEF D
    <3> QED BY <1>1, <3>1, ClearedFrom
  <2> QED BY <2>4, <2>5
<1>9. ASSUME UNCHANGED vars PROVE AllFormed' /\ Cleared'
  BY <1>9 DEF vars, AllFormed, Cleared, Managed, Meets, Cover
<1>10. TRUE \in BOOLEAN /\ FALSE \in BOOLEAN
  OBVIOUS
<1> QED BY <1>2, <1>3, <1>4, <1>5, <1>6, <1>7, <1>8, <1>9, <1>10 DEF Next, Hide, Show

\* A fullscreen application does not lie under its own input method, when the main loop
\* syncs after each event, only applications go to fullscreen and none has two input
\* methods.
THEOREM FullscreenClear ==
  SyncsAtOnce /\ FillsApps /\ OneInput => (Spec => []FullscreenClearOfInput)
<1> SUFFICES ASSUME SyncsAtOnce, FillsApps, OneInput
             PROVE  Spec => []FullscreenClearOfInput
  OBVIOUS
<1> DEFINE IInv == Types /\ Placed /\ Owed /\ AllFormed /\ Cleared
<1>1. Init => IInv
  <2>1. Init => Managed = {} /\ asked = {}
    BY DEF Init, Managed
  <2> QED BY <2>1, InitTypes DEF Placed, Owed, AllFormed, Cleared
<1>2. IInv /\ [Next]_vars => IInv'
  BY TypesStep, PlacedStep, ClearStep
<1>3. IInv => FullscreenClearOfInput
  BY DEF FullscreenClearOfInput, Settled, Cleared, Meets
<1> QED BY <1>1, <1>2, <1>3, PTL DEF Spec

-----------------------------------------------------------------------------
(* Panels and input methods lie beside each other.                         *)

NonNeg(g) == g.width >= 0 /\ g.height >= 0
Whole(size) == Rect(0, 0, size.width, size.height)

Edges == {"EdgeNorth", "EdgeSouth", "EdgeWest", "EdgeEast"}
OneEdge(h) == \E e \in Edges : e \in h /\ h \subseteq {e, "Movable"}

\* The client, with record r, takes room away from the others.
Takes(c, r) == Kind[c] \in {"Panel", "Input"} /\ "Overlaps" \notin r.hints

\* What holds of the record of each client: its type names the loops that lay it out, a
\* panel that takes room is at one edge, applications only go to fullscreen, and panels
\* and input methods have no frame.
Plain(c, r) ==
  /\ Kind[c] = "Panel" => OneEdge(r.hints) \/ "Overlaps" \in r.hints
  /\ Kind[c] = "Input" => r.hints = {"South"}
  /\ Kind[c] = "App" => r.hints = {"Grow"}
  /\ Kind[c] = "Desktop" => r.hints = {"Fullscreen"}
  /\ Kind[c] \in {"Dialog", "Note"} => r.hints = {"Free", "Movable"}
  /\ Kind[c] = "Menu" => r.hints = {"Free", "FixedX", "FixedY"}
  /\ Kind[c] # "App" => ~r.full /\ "Fullscreen" \notin r.dirty
  /\ Kind[c] \in {"Panel", "Input"} => ~r.framed
  /\ Takes(c, r) => NonNeg(r.window)

\* The clients that share the screen: the input method of a fullscreen client, or of none,
\* does not.
Sharing(cs) ==
  {c \in DOMAIN cs :
     /\ Takes(c, cs[c])
     /\ Kind[c] = "Input" => cs[c].parent \in DOMAIN cs /\ ~cs[cs[c].parent].full}

\* Those that keep their record until their turn comes.
Watched(cs) == {c \in DOMAIN cs : Takes(c, cs[c]) \/ Kind[c] \in {"Dialog", "Note"}}

\* The states of a layout that starts with cs in which the clients of H had their turn and
\* an area of at least w by h is left: those that share the screen are beside each other
\* and beside the area.
Put(cs, size, H, w, h) ==
  {a \in Accs(Layouts(cs), size) :
     /\ a.avail.width >= w /\ a.avail.height >= h
     /\ Within(a.avail, Whole(size))
     /\ \A c \in H : Takes(c, cs[c]) => NonNeg(Coverage(a.clients[c]))
     /\ \A c \in H \cap Sharing(cs) :
          /\ Within(Coverage(a.clients[c]), Whole(size))
          /\ Apart(Coverage(a.clients[c]), a.avail)
          /\ \A d \in H \cap Sharing(cs) :
               d # c => Apart(Coverage(a.clients[c]), Coverage(a.clients[d]))
     /\ \A c \in Watched(cs) \ H : a.clients[c] = cs[c]}

LEMMA WholeIs ==
  ASSUME NEW size \in Sizes
  PROVE  /\ Whole(size) \in Rects /\ Whole(size).x = 0 /\ Whole(size).y = 0
         /\ Whole(size).width = size.width /\ Whole(size).height = size.height
BY DEF Whole, Rect, Rects, Sizes

\* Rectangles in rectangles.
LEMMA WithinTwice ==
  ASSUME NEW f \in Rects, NEW g \in Rects, NEW h \in Rects, Within(f, g), Within(g, h)
  PROVE  Within(f, h)
<1>1. /\ f.x \in Int /\ f.y \in Int /\ f.width \in Int /\ f.height \in Int
      /\ g.x \in Int /\ g.y \in Int /\ g.width \in Int /\ g.height \in Int
      /\ h.x \in Int /\ h.y \in Int /\ h.width \in Int /\ h.height \in Int
  BY RectFields
<1> QED BY <1>1 DEF Within

LEMMA ApartWithin ==
  ASSUME NEW f \in Rects, NEW g \in Rects, NEW h \in Rects, Apart(f, g), Within(h, g)
  PROVE  Apart(f, h) /\ Apart(h, f)
<1>1. /\ f.x \in Int /\ f.y \in Int /\ f.width \in Int /\ f.height \in Int
      /\ g.x \in Int /\ g.y \in Int /\ g.width \in Int /\ g.height \in Int
      /\ h.x \in Int /\ h.y \in Int /\ h.width \in Int /\ h.height \in Int
  BY RectFields
<1> QED BY <1>1 DEF Within, Apart

LEMMA PutCovers ==
  ASSUME NEW D, NEW cs \in [D -> Records], NEW size \in Sizes, NEW a \in Accs(Layouts(cs), size)
  PROVE  /\ a.avail \in Rects /\ a.screen = size /\ a.change \in BOOLEAN
         /\ a.clients \in [D -> Records]
         /\ \A c \in D : /\ Coverage(a.clients[c]) \in Rects /\ a.clients[c] \in Records
                         /\ Relaid(cs[c], a.clients[c])
BY RecordFields DEF Accs, Layouts

\* A client takes its place in what is left.
LEMMA PutMore ==
  ASSUME NEW D, NEW cs \in [D -> Records], NEW size \in Sizes, NEW H, NEW w, NEW h,
         NEW a \in Put(cs, size, H, w, h), NEW b \in Accs(Layouts(cs), size),
         NEW c \in D, Within(b.avail, a.avail), NonNeg(Coverage(b.clients[c])),
         \A d \in D \ {c} : b.clients[d] = a.clients[d],
         c \in Sharing(cs) => /\ Within(Coverage(b.clients[c]), a.avail)
                              /\ Apart(Coverage(b.clients[c]), b.avail),
         c \notin H, NEW i, NEW j, b.avail.width >= i, b.avail.height >= j,
         H \subseteq D
  PROVE  b \in Put(cs, size, H \cup {c}, i, j)
<1> DEFINE C(d) == Coverage(a.clients[d])
           B(d) == Coverage(b.clients[d])
           S == Sharing(cs)
           K == H \cup {c}
           W == Whole(size)
<1>1. /\ a.avail \in Rects /\ b.avail \in Rects /\ W \in Rects
      /\ \A d \in D : C(d) \in Rects /\ B(d) \in Rects
      /\ \A d \in H : d \in D /\ B(d) = C(d) /\ b.clients[d] = a.clients[d]
  BY PutCovers, WholeIs DEF Put
<1>2. /\ Within(a.avail, W)
      /\ \A d \in H : Takes(d, cs[d]) => NonNeg(C(d))
      /\ \A d \in H \cap S : /\ Within(C(d), W) /\ Apart(C(d), a.avail)
                             /\ \A e \in H \cap S : e # d => Apart(C(d), C(e))
      /\ \A d \in Watched(cs) \ H : a.clients[d] = cs[d]
  BY DEF Put
<1>3. Within(b.avail, W)
  BY <1>1, <1>2, WithinTwice
<1>4. \A d \in Watched(cs) \ K : b.clients[d] = cs[d]
  BY <1>2 DEF Watched
<1>5. \A d \in K : Takes(d, cs[d]) => NonNeg(B(d))
  BY <1>1, <1>2
<1> HIDE DEF S, W
<1>6. ASSUME c \in S
      PROVE  /\ Within(B(c), W) /\ Apart(B(c), b.avail)
             /\ \A d \in H \cap S : Apart(B(c), B(d)) /\ Apart(B(d), B(c))
  <2>1. Within(B(c), a.avail) /\ Apart(B(c), b.avail)
    BY <1>6 DEF S
  <2> HIDE DEF B, C
  <2>2. Within(B(c), W)
    BY <1>1, <1>2, <2>1, WithinTwice
  <2>3. ASSUME NEW d \in H \cap S PROVE Apart(B(c), B(d)) /\ Apart(B(d), B(c))
    <3>1. Apart(C(d), a.avail) /\ C(d) \in Rects /\ B(d) = C(d) /\ B(c) \in Rects
      BY <1>1, <1>2
    <3> QED BY <1>1, <2>1, <3>1, ApartWithin
  <2> QED BY <2>1, <2>2, <2>3
<1>7. ASSUME NEW d \in H \cap S
      PROVE  Within(B(d), W) /\ Apart(B(d), b.avail)
             /\ \A e \in H \cap S : e # d => Apart(B(d), B(e))
  <2> HIDE DEF B, C
  <2>1. /\ Within(C(d), W) /\ Apart(C(d), a.avail)
        /\ \A e \in H \cap S : e # d => Apart(C(d), C(e))
    BY <1>2
  <2>2. C(d) \in Rects /\ B(d) = C(d) /\ \A e \in H \cap S : B(e) = C(e)
    BY <1>1
  <2>3. Apart(B(d), b.avail)
    BY <1>1, <2>1, <2>2, ApartWithin
  <2> QED BY <2>1, <2>2, <2>3
<1>8. \A d \in K \cap S : /\ Within(B(d), W) /\ Apart(B(d), b.avail)
                          /\ \A e \in K \cap S : e # d => Apart(B(d), B(e))
  BY <1>6, <1>7
<1> QED BY <1>3, <1>4, <1>5, <1>8 DEF Put, S, W

\* Those of K, that take no room, had their turn as well.
LEMMA PutSame ==
  ASSUME NEW D, NEW cs \in [D -> Records], NEW size, NEW H, NEW w, NEW h,
         NEW a \in Put(cs, size, H, w, h), NEW b \in Accs(Layouts(cs), size),
         NEW K, \A d \in K : ~Takes(d, cs[d]), b.avail = a.avail, H \subseteq D,
         \A d \in Watched(cs) \ K : b.clients[d] = a.clients[d]
  PROVE  b \in Put(cs, size, H \cup K, w, h)
<1>1. DOMAIN cs = D
  OBVIOUS
<1>2. \A d \in D : Takes(d, cs[d]) => b.clients[d] = a.clients[d]
  BY <1>1 DEF Watched
<1>3. \A d \in Sharing(cs) : d \in D /\ Takes(d, cs[d]) /\ d \notin K
  BY <1>1 DEF Sharing
<1>4. \A d \in H \cup K : Takes(d, cs[d]) => NonNeg(Coverage(b.clients[d]))
  BY <1>2 DEF Put
<1>5. \A d \in (H \cup K) \cap Sharing(cs) : d \in H \cap Sharing(cs) /\ b.clients[d] = a.clients[d]
  BY <1>2, <1>3
<1> QED BY <1>4, <1>5 DEF Put

\* t[m] is what d says of the first m clients of the stack, added up.
Totals(q, d, t) ==
  /\ t \in [0..Len(q) -> Nat] /\ t[0] = 0
  /\ \A m \in 1..Len(q) : t[m] = t[m - 1] + d[q[m]]

LEMMA TotalGrows ==
  ASSUME NEW D, NEW q \in Seq(D), NEW d \in [D -> Nat], NEW t, Totals(q, d, t)
  PROVE  \A m \in 0..Len(q) : t[m] \in Nat /\ t[m] <= t[Len(q)]
<1> DEFINE n == Len(q)
           T == {m \in 0..n : t[n - m] <= t[n]}
<1>1. n \in Nat /\ \A m \in 0..n : t[m] \in Nat
  <2> HIDE DEF T
  <2>1. t \in [0..n -> Nat]
    BY DEF Totals
  <2>2. n \in Nat
    OBVIOUS
  <2> HIDE DEF n
  <2> QED BY <2>1, <2>2
<1> HIDE DEF n
<1>2. 0 \in T
  BY <1>1
<1>3. ASSUME NEW m \in 0..(n - 1), m \in T PROVE m + 1 \in T
  <2> DEFINE k == n - m
  <2>1. k \in 1..n /\ k - 1 \in 0..n /\ k - 1 = n - (m + 1) /\ m + 1 \in 0..n /\ k \in 0..n
    BY <1>1, <1>3
  <2>2. t[k] <= t[n] /\ t[k] \in Nat /\ t[k - 1] \in Nat /\ t[n] \in Nat
    BY <1>1, <1>3, <2>1
  <2>3. t[k] = t[k - 1] + d[q[k]] /\ q[k] \in D /\ d[q[k]] \in Nat
    <3>1. k \in 1..Len(q)
      BY <2>1 DEF n
    <3>2. q[k] \in D
      BY <3>1
    <3> QED BY <3>1, <3>2 DEF Totals
  <2>4. t[k - 1] <= t[n]
    BY <2>2, <2>3
  <2> QED BY <2>1, <2>4
<1> HIDE DEF T
<1>4. \A m \in 0..n : m \in T
  BY <1>1, <1>2, <1>3, Upward
<1>5. ASSUME NEW m \in 0..n PROVE t[m] <= t[n]
  <2>1. n - m \in 0..n /\ n - (n - m) = m
    BY <1>1
  <2>2. n - m \in T
    BY <1>4, <2>1
  <2> QED BY <2>1, <2>2 DEF T
<1> QED BY <1>1, <1>5 DEF n

\* The step of the loop at c, whose turn it is if it is in T, takes dx[c] of the width and
\* dy[c] of the height.
OneStep(pass, cs, size, T, dx, dy) ==
  \A H \in SUBSET DOMAIN cs, w, h \in Nat, c \in DOMAIN cs :
    (c \in T => c \notin H) => \A a \in Put(cs, size, H, w + dx[c], h + dy[c]) :
                               Step(pass, a, c) \in Put(cs, size, H \cup ({c} \cap T), w, h)

\* The states of the loop, one set for each client of the stack.
Along(cs, size, q, H, T, w, h, tx, ty) ==
  [m \in 0..Len(q) |-> Put(cs, size, H \cup (T \cap {q[i] : i \in 1..m}),
                           w + (tx[Len(q)] - tx[m]), h + (ty[Len(q)] - ty[m]))]

\* The stack q holds each client of D once.
Lists(q, D) ==
  /\ q \in Seq(D) /\ \A i, j \in 1..Len(q) : q[i] = q[j] => i = j
  /\ \A c \in D : \E i \in 1..Len(q) : q[i] = c

\* What the loop needs: who has its turn, and who had it.
Looping(pass, cs, size, q, H, T, dx, dy, tx, ty) ==
  /\ Lists(q, DOMAIN cs) /\ T \subseteq DOMAIN cs /\ H \subseteq DOMAIN cs /\ H \cap T = {}
  /\ dx \in [DOMAIN cs -> Nat] /\ dy \in [DOMAIN cs -> Nat]
  /\ Totals(q, dx, tx) /\ Totals(q, dy, ty)
  /\ OneStep(pass, cs, size, T, dx, dy)

LEMMA FirstOnes ==
  ASSUME NEW D, NEW q, Lists(q, D), NEW T \in SUBSET D
  PROVE  /\ T \cap {q[i] : i \in 1..0} = {} /\ T \cap {q[i] : i \in 1..Len(q)} = T
         /\ \A m \in 1..Len(q) :
              /\ q[m] \notin {q[i] : i \in 1..(m - 1)}
              /\ {q[i] : i \in 1..m} = {q[i] : i \in 1..(m - 1)} \cup {q[m]}
         /\ Len(q) \in Nat /\ 0 \in 0..Len(q) /\ Len(q) \in 0..Len(q)
         /\ \A m \in 1..Len(q) : m - 1 \in 0..Len(q) /\ m \in 0..Len(q) /\ q[m] \in D
<1>1. Len(q) \in Nat /\ \A m \in 1..Len(q) : q[m] \in D
  BY DEF Lists
<1>2. T \cap {q[i] : i \in 1..Len(q)} = T
  BY DEF Lists
<1>3. ASSUME NEW m \in 1..Len(q)
      PROVE  /\ q[m] \notin {q[i] : i \in 1..(m - 1)}
             /\ {q[i] : i \in 1..m} = {q[i] : i \in 1..(m - 1)} \cup {q[m]}
  <2>1. \A i \in 1..(m - 1) : i \in 1..Len(q) /\ i # m
    BY <1>1
  <2>2. \A i \in Int : i \in 1..m <=> i \in 1..(m - 1) \/ i = m
    BY <1>1
  <2>3. \A i \in 1..m : i \in Int
    OBVIOUS
  <2>4. \A i \in 1..(m - 1) : i \in Int
    OBVIOUS
  <2>5. m \in Int
    OBVIOUS
  <2>6. q[m] \notin {q[i] : i \in 1..(m - 1)}
    BY <2>1 DEF Lists
  <2>7. {q[i] : i \in 1..m} = {q[i] : i \in 1..(m - 1)} \cup {q[m]}
    BY <2>2, <2>3, <2>4, <2>5, Zenon
  <2> QED BY <2>6, <2>7
<1> QED BY <1>1, <1>2, <1>3

\* The end of the loop over q from base is in S.
Ends(pass, base, q, S) ==
  /\ pass = "EdgeNorth" => Over(EdgeNorth, base, q) \in S
  /\ pass = "EdgeSouth" => Over(EdgeSouth, base, q) \in S
  /\ pass = "EdgeWest" => Over(EdgeWest, base, q) \in S
  /\ pass = "EdgeEast" => Over(EdgeEast, base, q) \in S
  /\ pass = "InputNorth" => Over(InputNorth, base, q) \in S
  /\ pass = "InputSouth" => Over(InputSouth, base, q) \in S
  /\ pass = "InputWest" => Over(InputWest, base, q) \in S
  /\ pass = "InputEast" => Over(InputEast, base, q) \in S
  /\ pass = "Grow" => Over(Grow, base, q) \in S
  /\ pass = "Free" => Over(Free, base, q) \in S
  /\ pass = "Fullscreen" => Over(Fullscreen, base, q) \in S

LEMMA LeadsEnds ==
  ASSUME NEW E, NEW q \in Seq(E), NEW pass, NEW I, NEW base \in I[0], Leads(pass, q, I)
  PROVE  Ends(pass, base, q, I[Len(q)])
<1>1. pass = "EdgeNorth" => Over(EdgeNorth, base, q) \in I[Len(q)]
  BY EdgeNorthLeads
<1>2. pass = "EdgeSouth" => Over(EdgeSouth, base, q) \in I[Len(q)]
  BY EdgeSouthLeads
<1>3. pass = "EdgeWest" => Over(EdgeWest, base, q) \in I[Len(q)]
  BY EdgeWestLeads
<1>4. pass = "EdgeEast" => Over(EdgeEast, base, q) \in I[Len(q)]
  BY EdgeEastLeads
<1>5. pass = "InputNorth" => Over(InputNorth, base, q) \in I[Len(q)]
  BY InputNorthLeads
<1>6. pass = "InputSouth" => Over(InputSouth, base, q) \in I[Len(q)]
  BY InputSouthLeads
<1>7. pass = "InputWest" => Over(InputWest, base, q) \in I[Len(q)]
  BY InputWestLeads
<1>8. pass = "InputEast" => Over(InputEast, base, q) \in I[Len(q)]
  BY InputEastLeads
<1>9. pass = "Grow" => Over(Grow, base, q) \in I[Len(q)]
  BY GrowLeads
<1>10. pass = "Free" => Over(Free, base, q) \in I[Len(q)]
  BY FreeLeads
<1>11. pass = "Fullscreen" => Over(Fullscreen, base, q) \in I[Len(q)]
  BY FullscreenLeads
<1> QED BY <1>1, <1>2, <1>3, <1>4, <1>5, <1>6, <1>7, <1>8, <1>9, <1>10, <1>11 DEF Ends

\* A loop in which each client of T takes its place.
Paths(pass, cs, size, q, H, T, w, h, tx, ty) ==
  LET I == Along(cs, size, q, H, T, w, h, tx, ty)
  IN /\ I[0] = Put(cs, size, H, w + tx[Len(q)], h + ty[Len(q)])
     /\ Leads(pass, q, I)
     /\ I[Len(q)] = Put(cs, size, H \cup T, w, h)

LEMMA LoopPuts ==
  ASSUME NEW cs, NEW size, NEW q, NEW pass, NEW T, NEW H, NEW dx, NEW dy, NEW tx, NEW ty,
         Looping(pass, cs, size, q, H, T, dx, dy, tx, ty), NEW w \in Nat, NEW h \in Nat
  PROVE  Paths(pass, cs, size, q, H, T, w, h, tx, ty)
<1> DEFINE D == DOMAIN cs
           n == Len(q)
           I == Along(cs, size, q, H, T, w, h, tx, ty)
           Had(m) == H \cup (T \cap {q[i] : i \in 1..m})
           X(m) == w + (tx[n] - tx[m])
           Y(m) == h + (ty[n] - ty[m])
<1>1. /\ n \in Nat /\ 0 \in 0..n /\ n \in 0..n
      /\ \A m \in 1..n : m - 1 \in 0..n /\ m \in 0..n /\ q[m] \in D
  BY FirstOnes DEF Looping
<1>2. /\ \A m \in 0..n : tx[m] \in Nat /\ tx[m] <= tx[n] /\ ty[m] \in Nat /\ ty[m] <= ty[n]
      /\ tx[0] = 0 /\ ty[0] = 0
      /\ \A m \in 1..n : /\ tx[m] = tx[m - 1] + dx[q[m]] /\ ty[m] = ty[m - 1] + dy[q[m]]
                         /\ dx[q[m]] \in Nat /\ dy[q[m]] \in Nat
  <2>1. q \in Seq(D) /\ dx \in [D -> Nat] /\ dy \in [D -> Nat] /\ Totals(q, dx, tx)
        /\ Totals(q, dy, ty)
    BY DEF Looping, Lists
  <2> HIDE DEF D
  <2>2. \A m \in 0..n : tx[m] \in Nat /\ tx[m] <= tx[n]
    BY <2>1, TotalGrows
  <2>3. \A m \in 0..n : ty[m] \in Nat /\ ty[m] <= ty[n]
    BY <2>1, TotalGrows
  <2>4. \A m \in 1..n : dx[q[m]] \in Nat /\ dy[q[m]] \in Nat
    BY <1>1, <2>1
  <2> QED BY <2>1, <2>2, <2>3, <2>4 DEF Totals
<1>3. \A m \in 0..n : I[m] = Put(cs, size, Had(m), X(m), Y(m))
  BY DEF Along
<1>4. /\ Had(0) = H /\ Had(n) = H \cup T
      /\ \A m \in 1..n : /\ Had(m) = Had(m - 1) \cup ({q[m]} \cap T)
                         /\ q[m] \in T => q[m] \notin Had(m - 1)
      /\ \A m \in 0..n : Had(m) \in SUBSET D
  <2>1. Lists(q, D) /\ T \in SUBSET D /\ H \in SUBSET D /\ H \cap T = {}
    BY DEF Looping
  <2> DEFINE S(m) == {q[i] : i \in 1..m}
  <2>2. /\ T \cap S(0) = {} /\ T \cap S(n) = T
        /\ \A m \in 1..n : q[m] \notin S(m - 1) /\ S(m) = S(m - 1) \cup {q[m]}
    <3> HIDE DEF I, Had, X, Y, D
    <3>1. /\ T \cap {q[i] : i \in 1..0} = {} /\ T \cap {q[i] : i \in 1..n} = T
          /\ \A m \in 1..n : /\ q[m] \notin {q[i] : i \in 1..(m - 1)}
                             /\ {q[i] : i \in 1..m} = {q[i] : i \in 1..(m - 1)} \cup {q[m]}
      BY <2>1, FirstOnes
    <3> QED BY <3>1
  <2>3. \A m : Had(m) = H \cup (T \cap S(m))
    OBVIOUS
  <2> HIDE DEF S, Had, D, n
  <2>4. Had(0) = H /\ Had(n) = H \cup T
    BY <2>2, <2>3, Zenon
  <2>5. \A m : Had(m) \in SUBSET D
    BY <2>1, <2>3
  <2>6. ASSUME NEW m \in 1..n
        PROVE  /\ Had(m) = Had(m - 1) \cup ({q[m]} \cap T)
               /\ q[m] \in T => q[m] \notin Had(m - 1)
    <3> DEFINE c == q[m]
               k == m - 1
    <3>1. c \notin S(k) /\ S(m) = S(k) \cup {c} /\ Had(k) = H \cup (T \cap S(k))
          /\ Had(m) = H \cup (T \cap S(m))
      BY <2>2, <2>3
    <3> HIDE DEF c, k
    <3>2. Had(m) = Had(k) \cup ({c} \cap T) /\ (c \in T => c \notin Had(k))
      BY <2>1, <3>1
    <3> QED BY <3>2 DEF c, k
  <2> QED BY <2>4, <2>5, <2>6
<1>5. /\ X(0) = w + tx[n] /\ Y(0) = h + ty[n] /\ X(n) = w /\ Y(n) = h
      /\ \A m \in 0..n : X(m) \in Nat /\ Y(m) \in Nat
      /\ \A m \in 1..n : X(m - 1) = X(m) + dx[q[m]] /\ Y(m - 1) = Y(m) + dy[q[m]]
  <2> HIDE DEF n
  <2>1. tx[n] \in Nat /\ ty[n] \in Nat /\ tx[0] = 0 /\ ty[0] = 0
    BY <1>1, <1>2
  <2>2. X(0) = w + tx[n] /\ Y(0) = h + ty[n] /\ X(n) = w /\ Y(n) = h
    BY <2>1
  <2>3. ASSUME NEW m \in 0..n PROVE X(m) \in Nat /\ Y(m) \in Nat
    <3>1. tx[m] \in Nat /\ tx[m] <= tx[n] /\ ty[m] \in Nat /\ ty[m] <= ty[n]
      BY <1>2
    <3> QED BY <2>1, <3>1
  <2>4. ASSUME NEW m \in 1..n
        PROVE  X(m - 1) = X(m) + dx[q[m]] /\ Y(m - 1) = Y(m) + dy[q[m]]
    <3> DEFINE u == dx[q[m]]
               v == dy[q[m]]
    <3>1. tx[m] = tx[m - 1] + u /\ ty[m] = ty[m - 1] + v /\ u \in Nat /\ v \in Nat
      BY <1>2
    <3>2. tx[m - 1] \in Nat /\ ty[m - 1] \in Nat
      BY <1>1, <1>2
    <3> HIDE DEF u, v
    <3>3. X(m - 1) = X(m) + u /\ Y(m - 1) = Y(m) + v
      BY <2>1, <3>1, <3>2
    <3> QED BY <3>3 DEF u, v
  <2> QED BY <2>2, <2>3, <2>4
<1> HIDE DEF Had, X, Y, I, n, D
<1>6. I[0] = Put(cs, size, H, w + tx[n], h + ty[n]) /\ I[n] = Put(cs, size, H \cup T, w, h)
  BY <1>1, <1>3, <1>4, <1>5
<1>7. ASSUME NEW m \in 1..n, NEW a \in I[m - 1] PROVE Step(pass, a, q[m]) \in I[m]
  <2> DEFINE c == q[m]
             K == Had(m - 1)
             i == X(m)
             j == Y(m)
  <2>1. /\ c \in D /\ K \in SUBSET D /\ i \in Nat /\ j \in Nat /\ (c \in T => c \notin K)
        /\ a \in Put(cs, size, K, i + dx[c], j + dy[c])
        /\ I[m] = Put(cs, size, K \cup ({c} \cap T), i, j)
    <3>1. m - 1 \in 0..n /\ m \in 0..n /\ q[m] \in D
      BY <1>1
    <3>2. /\ Had(m) = Had(m - 1) \cup ({q[m]} \cap T) /\ (q[m] \in T => q[m] \notin Had(m - 1))
          /\ Had(m - 1) \in SUBSET D
      BY <1>4, <3>1
    <3>3. /\ X(m - 1) = X(m) + dx[q[m]] /\ Y(m - 1) = Y(m) + dy[q[m]]
          /\ X(m) \in Nat /\ Y(m) \in Nat
      BY <1>5, <3>1
    <3>4. /\ I[m - 1] = Put(cs, size, Had(m - 1), X(m - 1), Y(m - 1))
          /\ I[m] = Put(cs, size, Had(m), X(m), Y(m))
      BY <1>3, <3>1
    <3> QED BY <3>1, <3>2, <3>3, <3>4
  <2>2. OneStep(pass, cs, size, T, dx, dy)
    BY DEF Looping
  <2> HIDE DEF c, K, i, j
  <2>3. Step(pass, a, c) \in Put(cs, size, K \cup ({c} \cap T), i, j)
    BY <2>1, <2>2 DEF OneStep, D
  <2> QED BY <2>1, <2>3 DEF c
<1>8. Leads(pass, q, I)
  BY <1>7 DEF Leads, n
<1> QED BY <1>6, <1>8 DEF Paths, I, n

LEMMA LoopEnds ==
  ASSUME NEW cs, NEW size, NEW q, NEW pass, NEW T, NEW H, NEW dx, NEW dy, NEW tx, NEW ty,
         Looping(pass, cs, size, q, H, T, dx, dy, tx, ty), NEW w \in Nat, NEW h \in Nat,
         NEW base \in Put(cs, size, H, w + tx[Len(q)], h + ty[Len(q)])
  PROVE  Ends(pass, base, q, Put(cs, size, H \cup T, w, h))
<1>1. Paths(pass, cs, size, q, H, T, w, h, tx, ty)
  BY LoopPuts
<1>2. q \in Seq(DOMAIN cs)
  BY DEF Looping, Lists
<1> DEFINE I == Along(cs, size, q, H, T, w, h, tx, ty)
<1>3. base \in I[0] /\ Leads(pass, q, I) /\ I[Len(q)] = Put(cs, size, H \cup T, w, h)
  BY <1>1 DEF Paths
<1> HIDE DEF I
<1>4. Ends(pass, base, q, I[Len(q)])
  BY <1>2, <1>3, LeadsEnds
<1> QED BY <1>3, <1>4

-----------------------------------------------------------------------------
(* The loops that take room, client by client.                               *)

LEMMA MaximisedIs ==
  ASSUME NEW g \in Rects, NEW v \in Rects, NEW flags \in SUBSET Fields
  PROVE  LET m == Maximised(g, v, flags)
         IN /\ m.geom \in Rects /\ m.changed \in BOOLEAN
            /\ m.geom.x = (IF "x" \in flags THEN v.x ELSE g.x)
            /\ m.geom.y = (IF "y" \in flags THEN v.y ELSE g.y)
            /\ m.geom.width = (IF "width" \in flags THEN v.width ELSE g.width)
            /\ m.geom.height = (IF "height" \in flags THEN v.height ELSE g.height)
            /\ ~m.changed => m.geom = g
<1> DEFINE m == Maximised(g, v, flags)
           z == [f \in Fields |-> IF f \in flags THEN v[f] ELSE g[f]]
<1>1. m.geom \in Rects /\ m.changed \in BOOLEAN
  BY BentTyped
<1>2. m.geom = z /\ m.changed = (\E f \in flags : g[f] # v[f])
  BY DEF Maximised
<1>3. z.x = (IF "x" \in flags THEN v.x ELSE g.x) /\ z.y = (IF "y" \in flags THEN v.y ELSE g.y)
  BY DEF Fields
<1>4. /\ z.width = (IF "width" \in flags THEN v.width ELSE g.width)
      /\ z.height = (IF "height" \in flags THEN v.height ELSE g.height)
  BY DEF Fields
<1>5. ASSUME ~m.changed PROVE z = g
  <2>1. \A f \in Fields : z[f] = g[f]
    BY <1>2, <1>5
  <2>2. g = [f \in Fields |-> g[f]]
    BY DEF Rects, Fields
  <2> QED BY <2>1, <2>2
<1> HIDE DEF m, z
<1> QED BY <1>1, <1>2, <1>3, <1>4, <1>5 DEF m

\* What does not stick out at the end is not clipped there.
LEMMA AxisFits ==
  ASSUME NEW p \in Int, NEW s \in Int, NEW lo \in Int, NEW len \in Int, NEW moves, NEW sizes,
         ~moves, sizes => p + s <= lo + len
  PROVE  LET r == ClippedAxis(p, s, lo, len, moves, sizes)
         IN r.at = p /\ r.size = s /\ ~r.changed
<1>1. ~(sizes /\ p + s > lo + len)
  OBVIOUS
<1> QED BY <1>1 DEF ClippedAxis

LEMMA ClippedNone ==
  ASSUME NEW g \in Rects, NEW v \in Rects, NEW flags, "x" \notin flags, "y" \notin flags,
         "width" \in flags => g.x + g.width <= v.x + v.width,
         "height" \in flags => g.y + g.height <= v.y + v.height
  PROVE  Clipped(g, v, flags).geom = g /\ ~Clipped(g, v, flags).changed
<1>1. /\ g.x \in Int /\ g.y \in Int /\ g.width \in Int /\ g.height \in Int
      /\ v.x \in Int /\ v.y \in Int /\ v.width \in Int /\ v.height \in Int
      /\ g = Rect(g.x, g.y, g.width, g.height)
  BY RectFields
<1> DEFINE r == ClippedAxis(g.x, g.width, v.x, v.width, "x" \in flags, "width" \in flags)
           s == ClippedAxis(g.y, g.height, v.y, v.height, "y" \in flags, "height" \in flags)
           k == Clipped(g, v, flags)
<1>2. k = [geom |-> Rect(r.at, s.at, r.size, s.size), changed |-> r.changed \/ s.changed]
  BY DEF Clipped
<1>3. r.at = g.x /\ r.size = g.width /\ ~r.changed
  BY <1>1, AxisFits
<1>4. s.at = g.y /\ s.size = g.height /\ ~s.changed
  BY <1>1, AxisFits
<1> HIDE DEF r, s, k
<1>5. k.geom = Rect(r.at, s.at, r.size, s.size) /\ k.changed = (r.changed \/ s.changed)
  BY <1>2
<1>6. k.geom = g /\ ~k.changed
  BY <1>1, <1>3, <1>4, <1>5, Zenon
<1> QED BY <1>6 DEF k

WithArea(b, area) == [b EXCEPT !.avail = area]

\* b is a with another area, after c was asked to take g if there was need.
Touched(b, a, D, c, g, need, size, area) ==
  /\ b.avail = area
  /\ \A d \in D \ {c} : b.clients[d] = a.clients[d]
  /\ b.clients[c] = IF need THEN Requested(a.clients[c], c, g, "Layout", size) ELSE a.clients[c]

LEMMA AskTouches ==
  ASSUME NEW D \in SUBSET Clients, NEW cs \in [D -> Records], NEW size \in Sizes,
         NEW a \in Accs(Layouts(cs), size), NEW c \in D, NEW g \in Rects,
         NEW need \in BOOLEAN, NEW area \in Rects
  PROVE  /\ Ask(a, c, g, need) \in Accs(Layouts(cs), size)
         /\ WithArea(Ask(a, c, g, need), area) \in Accs(Layouts(cs), size)
         /\ Touched(Ask(a, c, g, need), a, D, c, g, need, size, a.avail)
         /\ Touched(WithArea(Ask(a, c, g, need), area), a, D, c, g, need, size, area)
<1> DEFINE P == Layouts(cs)
           b == Ask(a, c, g, need)
           x == IF need THEN Requested(a.clients[c], c, g, "Layout", size) ELSE a.clients[c]
<1>1. Closed(P, D, size)
  BY LayoutsClosed
<1>2. a.clients \in [D -> Records] /\ a.screen = size
  BY PutCovers
<1>3. b \in Accs(P, size) /\ WithArea(b, area) \in Accs(P, size)
  <2>1. a \in Accs(P, size)
    OBVIOUS
  <2> HIDE DEF P
  <2>2. b \in Accs(P, size)
    <3>1. Ask(a, c, g, need) \in Accs(P, size)
      <4>1. a.avail \in Rects
        BY <1>1, <2>1, AccFields
      <4> QED BY <1>1, <2>1, <4>1, AskIs
    <3> QED BY <3>1
  <2> HIDE DEF b
  <2> QED BY <2>2 DEF Accs, WithArea
<1>4. b = [a EXCEPT !.change = need, !.clients = [a.clients EXCEPT ![c] = x]]
  BY <1>2 DEF Ask, Accs
<1> HIDE DEF x
<1>5. b.avail = a.avail /\ b.clients = [a.clients EXCEPT ![c] = x]
  BY <1>4 DEF Accs
<1> HIDE DEF b
<1>6. WithArea(b, area).avail = area /\ WithArea(b, area).clients = b.clients
  BY <1>3 DEF Accs, WithArea
<1>7. x = IF need THEN Requested(a.clients[c], c, g, "Layout", size) ELSE a.clients[c]
  BY DEF x
<1> DEFINE z == WithArea(b, area)
<1> HIDE DEF z
<1>8. z.avail = area /\ z.clients = b.clients
  BY <1>6 DEF z
<1>9. (b.clients)[c] = x /\ \A d \in D \ {c} : (b.clients)[d] = a.clients[d]
  BY <1>2, <1>5
<1>10. Touched(b, a, D, c, g, need, size, a.avail) /\ Touched(z, a, D, c, g, need, size, area)
  BY <1>5, <1>7, <1>8, <1>9 DEF Touched
<1> QED BY <1>3, <1>10 DEF b, z

\* Panels and input methods have the place they were asked to take.
LEMMA PlaceTaken ==
  ASSUME NEW r \in Records, NEW c \in Clients, Kind[c] \in {"Panel", "Input"}, ~r.framed,
         NEW g \in Rects, NEW size
  PROVE  Coverage(Requested(r, c, g, "Layout", size)) = g
<1>1. Given(r, g, r.frame).window = g /\ ~Given(r, g, r.frame).framed
      /\ Given(r, g, g).window = g /\ ~Given(r, g, g).framed
  <2>1. r.frame \in Rects
    BY RecordFields
  <2>2. \A f \in Rects : Given(r, g, f).window = g /\ ~Given(r, g, f).framed
    BY GivenIs DEF Relaid
  <2> QED BY <2>1, <2>2
<1>2. CASE Kind[c] = "Panel"
  BY <1>1, <1>2 DEF Requested, PanelRequest, Coverage
<1>3. CASE Kind[c] = "Input"
  BY <1>1, <1>3 DEF Requested, InputRequest, Coverage
<1> QED BY <1>2, <1>3

AllPlainIn(cs) == \A c \in DOMAIN cs : Plain(c, cs[c])

LEMMA AskPlaces ==
  ASSUME NEW D \in SUBSET Clients, NEW cs \in [D -> Records], NEW size \in Sizes,
         AllPlainIn(cs), NEW H \in SUBSET D, NEW w, NEW h,
         NEW a \in Accs(Layouts(cs), size), a \in Put(cs, size, H, w, h),
         NEW c \in D, c \notin H, Takes(c, cs[c]),
         NEW g \in Rects, NEW need \in BOOLEAN,
         NEW area \in Rects, Within(area, a.avail), NonNeg(g),
         c \in Sharing(cs) => Within(g, a.avail) /\ Apart(g, area),
         NEW i, NEW j, area.width >= i, area.height >= j
  PROVE  need \/ Coverage(cs[c]) = g
           => WithArea(Ask(a, c, g, need), area) \in Put(cs, size, H \cup {c}, i, j)
<1> DEFINE b == Ask(a, c, g, need)
           z == WithArea(b, area)
<1>1. z \in Accs(Layouts(cs), size) /\ Touched(z, a, D, c, g, need, size, area)
  <2>1. z \in Accs(Layouts(cs), size)
    BY AskTouches, ZenonT(30)
  <2>2. Touched(z, a, D, c, g, need, size, area)
    BY AskTouches, ZenonT(30)
  <2> QED BY <2>1, <2>2
<1> HIDE DEF z
<1>2. /\ z.avail = area /\ \A d \in D \ {c} : z.clients[d] = a.clients[d]
      /\ z.clients[c] = IF need THEN Requested(a.clients[c], c, g, "Layout", size)
                        ELSE a.clients[c]
  BY <1>1 DEF Touched
<1>3. a.clients[c] = cs[c] /\ cs[c] \in Records /\ c \in Clients
  <2>1. c \in Watched(cs) \ H
    BY DEF Watched
  <2> QED BY <2>1 DEF Put
<1>4. Kind[c] \in {"Panel", "Input"} /\ ~cs[c].framed
  BY DEF AllPlainIn, Plain, Takes
<1> HAVE need \/ Coverage(cs[c]) = g
<1>5. Coverage(z.clients[c]) = g
  <2>1. CASE need
    <3>1. z.clients[c] = Requested(cs[c], c, g, "Layout", size)
      BY <1>2, <1>3, <2>1
    <3>2. Coverage(Requested(cs[c], c, g, "Layout", size)) = g
      BY <1>3, <1>4, PlaceTaken
    <3> HIDE DEF z
    <3> QED BY <3>1, <3>2
  <2>2. CASE ~need
    BY <1>2, <1>3, <2>2
  <2> QED BY <2>1, <2>2
<1> HIDE DEF z
<1>6. z \in Put(cs, size, H \cup {c}, i, j)
  BY <1>1, <1>2, <1>5, PutMore
<1> QED BY <1>6 DEF z

\* Who has no turn takes nothing, and is not watched or left as it was.
LEMMA TurnPasses ==
  ASSUME NEW D, NEW cs \in [D -> Records], NEW size, NEW H \in SUBSET D, NEW w, NEW h,
         NEW a \in Put(cs, size, H, w, h), NEW c, NEW T, c \notin T,
         NEW b \in Accs(Layouts(cs), size), b.avail = a.avail,
         \A d \in Watched(cs) : b.clients[d] = a.clients[d]
  PROVE  b \in Put(cs, size, H \cup ({c} \cap T), w, h)
<1>1. b \in Put(cs, size, H \cup {}, w, h)
  BY PutSame
<1>2. H \cup ({c} \cap T) = H \cup {}
  OBVIOUS
<1> QED BY <1>1, <1>2

\* The clients that take room at one edge, and the sizes of some clients.
At(cs, e) == {c \in DOMAIN cs : Takes(c, cs[c]) /\ e \in cs[c].hints}
Due(cs, T, f) == [c \in DOMAIN cs |-> IF c \in T THEN Coverage(cs[c])[f] ELSE 0]

LEMMA SameHints ==
  ASSUME NEW D, NEW cs \in [D -> Records], NEW size \in Sizes, NEW a \in Accs(Layouts(cs), size),
         NEW c \in D
  PROVE  Hints(a.clients[c]) = Hints(cs[c])
<1>1. Relaid(cs[c], a.clients[c])
  BY PutCovers
<1> QED BY <1>1 DEF Relaid, Hints

LEMMA EdgeTurn ==
  ASSUME NEW c \in Clients, NEW r, Plain(c, r), NEW e \in Edges
  PROVE  /\ e \in Hints(r) => Kind[c] = "Panel" /\ Hints(r) = r.hints
         /\ Takes(c, r) /\ e \in r.hints =>
              /\ Kind[c] = "Panel" /\ Hints(r) = r.hints
              /\ "FixedX" \notin r.hints /\ "FixedY" \notin r.hints /\ "Overlaps" \notin r.hints
<1>1. Kind[c] \in {"App", "Desktop", "Dialog", "Note", "Panel", "Input", "Menu"}
  BY LayoutAssumption
<1>2. ASSUME e \in Hints(r) PROVE Kind[c] = "Panel" /\ Hints(r) = r.hints
  BY <1>1, <1>2 DEF Plain, Hints, Edges
<1>3. ASSUME Takes(c, r), e \in r.hints
      PROVE  /\ Kind[c] = "Panel" /\ Hints(r) = r.hints
             /\ "FixedX" \notin r.hints /\ "FixedY" \notin r.hints /\ "Overlaps" \notin r.hints
  <2>1. Kind[c] = "Panel" /\ "Overlaps" \notin r.hints /\ Hints(r) = r.hints
    BY <1>3 DEF Takes, Plain, Hints, Edges
  <2>2. PICK d \in Edges : d \in r.hints /\ r.hints \subseteq {d, "Movable"}
    BY <2>1 DEF Plain, OneEdge
  <2>3. d # "FixedX" /\ d # "FixedY" /\ "Movable" # "FixedX" /\ "Movable" # "FixedY"
    BY DEF Edges
  <2>4. "FixedX" \notin r.hints /\ "FixedY" \notin r.hints
    BY <2>2, <2>3
  <2> QED BY <2>1, <2>4
<1> QED BY <1>2, <1>3

\* Who takes room has a size.
LEMMA TakesSize ==
  ASSUME NEW c \in Clients, NEW r \in Records, Plain(c, r), Takes(c, r)
  PROVE  /\ Coverage(r) \in Rects /\ Coverage(r).width \in Nat /\ Coverage(r).height \in Nat
<1>1. Coverage(r) = r.window /\ r.window \in Rects /\ NonNeg(r.window)
  BY RecordFields DEF Plain, Takes, Coverage
<1>2. r.window.width \in Int /\ r.window.height \in Int
  BY <1>1, RectFields
<1> QED BY <1>1, <1>2 DEF NonNeg

\* A band along an edge of the area, and the area without it.
Band(n, v, area) ==
  /\ n \in Rects /\ area \in Rects /\ NonNeg(n) /\ Within(n, v) /\ Within(area, v) /\ Apart(n, area)

LEMMA NorthBand ==
  ASSUME NEW v \in Rects, NEW n \in Rects, n.x = v.x, n.y = v.y, n.width = v.width,
         v.width >= 0, n.height >= 0, n.height <= v.height
  PROVE  LET area == TakeNorth(v, n)
         IN Band(n, v, area) /\ area.width = v.width /\ area.height = v.height - n.height
<1>1. /\ v.x \in Int /\ v.y \in Int /\ v.width \in Int /\ v.height \in Int
      /\ n.x \in Int /\ n.y \in Int /\ n.width \in Int /\ n.height \in Int
  BY RectFields
<1> DEFINE area == TakeNorth(v, n)
<1>2. /\ area \in Rects /\ area.x = v.x /\ area.y = n.y + n.height /\ area.width = v.width
      /\ area.height = v.height - n.height
  BY <1>1, TakesTyped DEF TakeNorth, Rect
<1> HIDE DEF area
<1>3. NonNeg(n) /\ Within(n, v) /\ Within(area, v) /\ Apart(n, area)
  BY <1>1, <1>2 DEF NonNeg, Within, Apart
<1> QED BY <1>2, <1>3 DEF Band, area

LEMMA WestBand ==
  ASSUME NEW v \in Rects, NEW n \in Rects, n.x = v.x, n.y = v.y, n.height = v.height,
         v.height >= 0, n.width >= 0, n.width <= v.width
  PROVE  LET area == TakeWest(v, n)
         IN Band(n, v, area) /\ area.height = v.height /\ area.width = v.width - n.width
<1>1. /\ v.x \in Int /\ v.y \in Int /\ v.width \in Int /\ v.height \in Int
      /\ n.x \in Int /\ n.y \in Int /\ n.width \in Int /\ n.height \in Int
  BY RectFields
<1> DEFINE area == TakeWest(v, n)
<1>2. /\ area \in Rects /\ area.x = n.x + n.width /\ area.y = v.y /\ area.height = v.height
      /\ area.width = v.width - n.width
  BY <1>1, TakesTyped DEF TakeWest, Rect
<1> HIDE DEF area
<1>3. NonNeg(n) /\ Within(n, v) /\ Within(area, v) /\ Apart(n, area)
  BY <1>1, <1>2 DEF NonNeg, Within, Apart
<1> QED BY <1>2, <1>3 DEF Band, area

LEMMA SouthBand ==
  ASSUME NEW v \in Rects, NEW n \in Rects, n.y = v.y + v.height - n.height,
         n.height >= 0, n.height <= v.height, v.width >= 0
  PROVE  LET area == TakeEnd(v, n, "height")
         IN /\ area \in Rects /\ area.width = v.width /\ area.height = v.height - n.height
            /\ Within(area, v)
            /\ n.x = v.x /\ n.width = v.width => Band(n, v, area)
<1>1. /\ v.x \in Int /\ v.y \in Int /\ v.width \in Int /\ v.height \in Int
      /\ n.x \in Int /\ n.y \in Int /\ n.width \in Int /\ n.height \in Int
  BY RectFields
<1> DEFINE area == TakeEnd(v, n, "height")
<1>2. /\ area \in Rects /\ area.x = v.x /\ area.y = v.y /\ area.width = v.width
      /\ area.height = v.height - n.height
  <2>1. area = [v EXCEPT !.height = v.height - n.height]
    BY DEF TakeEnd
  <2>2. area \in Rects
    BY TakesTyped
  <2> QED BY <2>1, <2>2 DEF Rects
<1> HIDE DEF area
<1>3. Within(area, v)
  BY <1>1, <1>2 DEF Within
<1>4. ASSUME n.x = v.x, n.width = v.width PROVE NonNeg(n) /\ Within(n, v) /\ Apart(n, area)
  BY <1>1, <1>2, <1>4 DEF NonNeg, Within, Apart
<1> QED BY <1>2, <1>3, <1>4 DEF Band, area

LEMMA EastBand ==
  ASSUME NEW v \in Rects, NEW n \in Rects, n.x = v.x + v.width - n.width,
         n.width >= 0, n.width <= v.width, v.height >= 0, n.y = v.y, n.height = v.height
  PROVE  LET area == TakeEnd(v, n, "width")
         IN Band(n, v, area) /\ area.height = v.height /\ area.width = v.width - n.width
<1>1. /\ v.x \in Int /\ v.y \in Int /\ v.width \in Int /\ v.height \in Int
      /\ n.x \in Int /\ n.y \in Int /\ n.width \in Int /\ n.height \in Int
  BY RectFields
<1> DEFINE area == TakeEnd(v, n, "width")
<1>2. /\ area \in Rects /\ area.x = v.x /\ area.y = v.y /\ area.height = v.height
      /\ area.width = v.width - n.width
  <2>1. area = [v EXCEPT !.width = v.width - n.width]
    BY DEF TakeEnd
  <2>2. area \in Rects
    BY TakesTyped
  <2> QED BY <2>1, <2>2 DEF Rects
<1> HIDE DEF area
<1>3. NonNeg(n) /\ Within(n, v) /\ Within(area, v) /\ Apart(n, area)
  BY <1>1, <1>2 DEF NonNeg, Within, Apart
<1> QED BY <1>2, <1>3 DEF Band, area

LEMMA EdgeNorthTakes ==
  ASSUME NEW D \in SUBSET Clients, NEW cs \in [D -> Records], NEW size \in Sizes,
         AllPlainIn(cs), NEW H \in SUBSET D, NEW w \in Nat, NEW h \in Nat,
         NEW c \in D, c \notin H, c \in At(cs, "EdgeNorth"),
         NEW a \in Accs(Layouts(cs), size),
         a \in Put(cs, size, H, w, h + Coverage(cs[c]).height)
  PROVE  EdgeNorth(a, c) \in Put(cs, size, H \cup {c}, w, h)
<1> DEFINE g == Coverage(cs[c])
           v == a.avail
           e == cs[c].hints
           m == Maximised(g, v, {"y"} \cup FlagsOf(e).across)
           k == Clipped(m.geom, v, {"height"})
           need == m.changed \/ k.changed
           area == TakeNorth(v, k.geom)
<1>1. /\ Takes(c, cs[c]) /\ "EdgeNorth" \in cs[c].hints /\ Plain(c, cs[c]) /\ c \in Clients
      /\ cs[c] \in Records /\ "EdgeNorth" \in Edges
  BY DEF At, AllPlainIn, Edges
<1>2. /\ a.clients[c] = cs[c] /\ Hints(cs[c]) = e /\ "EdgeNorth" \in e
      /\ "FixedX" \notin e /\ "Overlaps" \notin e
  <2>1. c \in Watched(cs) \ H
    BY <1>1 DEF Watched
  <2>2. a.clients[c] = cs[c]
    BY <2>1 DEF Put
  <2> QED BY <1>1, <2>2, EdgeTurn
<1>3. EdgeNorth(a, c) = WithArea(Ask(a, c, k.geom, need), area)
  BY <1>2 DEF EdgeNorth, Left, WithArea
<1>4. g \in Rects /\ v \in Rects /\ g.width \in Nat /\ g.height \in Nat
  BY <1>1, TakesSize, PutCovers
<1>5. v.width >= w /\ v.height >= h + g.height
  BY DEF Put
<1>6. {"y"} \cup FlagsOf(e).across = {"x", "y", "width"}
  BY <1>2 DEF FlagsOf
<1> HIDE DEF g, v, e
<1>7. /\ m.geom \in Rects /\ m.changed \in BOOLEAN /\ m.geom.x = v.x /\ m.geom.y = v.y
      /\ m.geom.width = v.width /\ m.geom.height = g.height /\ (~m.changed => m.geom = g)
  <2> DEFINE s == {"y"} \cup FlagsOf(e).across
  <2>1. /\ s \in SUBSET Fields /\ "x" \in s /\ "y" \in s /\ "width" \in s /\ "height" \notin s
    BY <1>6 DEF Fields
  <2> HIDE DEF s
  <2>2. LET z == Maximised(g, v, s)
         IN /\ z.geom \in Rects /\ z.changed \in BOOLEAN
            /\ z.geom.x = (IF "x" \in s THEN v.x ELSE g.x)
            /\ z.geom.y = (IF "y" \in s THEN v.y ELSE g.y)
            /\ z.geom.width = (IF "width" \in s THEN v.width ELSE g.width)
            /\ z.geom.height = (IF "height" \in s THEN v.height ELSE g.height)
            /\ ~z.changed => z.geom = g
    BY <1>4, <2>1, MaximisedIs
  <2> QED BY <2>1, <2>2 DEF s
<1> HIDE DEF m
<1>8. k.geom = m.geom /\ ~k.changed
  <2>1. v.y + m.geom.height <= v.y + v.height
    BY <1>4, <1>5, <1>7, RectFields
  <2>2. "x" \notin {"height"} /\ "y" \notin {"height"} /\ "width" \notin {"height"}
    OBVIOUS
  <2> QED BY <1>4, <1>7, <2>1, <2>2, ClippedNone
<1>9. k.geom \in Rects /\ need \in BOOLEAN /\ (need \/ g = k.geom)
  BY <1>7, <1>8
<1>10. Band(k.geom, v, area) /\ area.width >= w /\ area.height >= h
  <2>1. v.width >= 0 /\ g.height >= 0 /\ g.height <= v.height /\ v.width \in Int /\ v.height \in Int
    BY <1>4, <1>5, RectFields
  <2> DEFINE n == k.geom
  <2>2. n \in Rects /\ n.x = v.x /\ n.y = v.y /\ n.width = v.width /\ n.height = g.height
    BY <1>7, <1>8
  <2> HIDE DEF n, k
  <2>3. LET z == TakeNorth(v, n)
         IN Band(n, v, z) /\ z.width = v.width /\ z.height = v.height - n.height
    BY <1>4, <2>1, <2>2, NorthBand
  <2>4. v.height - g.height >= h
    BY <1>4, <1>5, <2>1
  <2> QED BY <1>5, <2>2, <2>3, <2>4 DEF n
<1> HIDE DEF k, need, area
<1>11. WithArea(Ask(a, c, k.geom, need), area) \in Put(cs, size, H \cup {c}, w, h)
  BY <1>1, <1>9, <1>10, AskPlaces DEF Band, g, v
<1> QED BY <1>3, <1>11

LEMMA EdgeWestTakes ==
  ASSUME NEW D \in SUBSET Clients, NEW cs \in [D -> Records], NEW size \in Sizes,
         AllPlainIn(cs), NEW H \in SUBSET D, NEW w \in Nat, NEW h \in Nat,
         NEW c \in D, c \notin H, c \in At(cs, "EdgeWest"),
         NEW a \in Accs(Layouts(cs), size),
         a \in Put(cs, size, H, w + Coverage(cs[c]).width, h)
  PROVE  EdgeWest(a, c) \in Put(cs, size, H \cup {c}, w, h)
<1> DEFINE g == Coverage(cs[c])
           v == a.avail
           e == cs[c].hints
           m == Maximised(g, v, {"x"} \cup FlagsOf(e).along)
           k == Clipped(m.geom, v, {"width"})
           need == m.changed \/ k.changed
           area == TakeWest(v, k.geom)
<1>1. /\ Takes(c, cs[c]) /\ "EdgeWest" \in cs[c].hints /\ Plain(c, cs[c]) /\ c \in Clients
      /\ cs[c] \in Records /\ "EdgeWest" \in Edges
  BY DEF At, AllPlainIn, Edges
<1>2. /\ a.clients[c] = cs[c] /\ Hints(cs[c]) = e /\ "EdgeWest" \in e
      /\ "FixedY" \notin e /\ "Overlaps" \notin e
  <2>1. c \in Watched(cs) \ H
    BY <1>1 DEF Watched
  <2>2. a.clients[c] = cs[c]
    BY <2>1 DEF Put
  <2> QED BY <1>1, <2>2, EdgeTurn
<1>3. EdgeWest(a, c) = WithArea(Ask(a, c, k.geom, need), area)
  BY <1>2 DEF EdgeWest, Left, WithArea
<1>4. g \in Rects /\ v \in Rects /\ g.width \in Nat /\ g.height \in Nat
  BY <1>1, TakesSize, PutCovers
<1>5. v.width >= w + g.width /\ v.height >= h
  BY DEF Put
<1>6. {"x"} \cup FlagsOf(e).along = {"x", "y", "height"}
  BY <1>2 DEF FlagsOf
<1> HIDE DEF g, v, e
<1>7. /\ m.geom \in Rects /\ m.changed \in BOOLEAN /\ m.geom.x = v.x /\ m.geom.y = v.y
      /\ m.geom.height = v.height /\ m.geom.width = g.width /\ (~m.changed => m.geom = g)
  <2> DEFINE s == {"x"} \cup FlagsOf(e).along
  <2>1. /\ s \in SUBSET Fields /\ "x" \in s /\ "y" \in s /\ "height" \in s /\ "width" \notin s
    BY <1>6 DEF Fields
  <2> HIDE DEF s
  <2>2. LET z == Maximised(g, v, s)
         IN /\ z.geom \in Rects /\ z.changed \in BOOLEAN
            /\ z.geom.x = (IF "x" \in s THEN v.x ELSE g.x)
            /\ z.geom.y = (IF "y" \in s THEN v.y ELSE g.y)
            /\ z.geom.width = (IF "width" \in s THEN v.width ELSE g.width)
            /\ z.geom.height = (IF "height" \in s THEN v.height ELSE g.height)
            /\ ~z.changed => z.geom = g
    BY <1>4, <2>1, MaximisedIs
  <2> QED BY <2>1, <2>2 DEF s
<1> HIDE DEF m
<1>8. k.geom = m.geom /\ ~k.changed
  <2>1. v.x + m.geom.width <= v.x + v.width
    BY <1>4, <1>5, <1>7, RectFields
  <2>2. "x" \notin {"width"} /\ "y" \notin {"width"} /\ "height" \notin {"width"}
    OBVIOUS
  <2> QED BY <1>4, <1>7, <2>1, <2>2, ClippedNone
<1>9. k.geom \in Rects /\ need \in BOOLEAN /\ (need \/ g = k.geom)
  BY <1>7, <1>8
<1>10. Band(k.geom, v, area) /\ area.width >= w /\ area.height >= h
  <2>1. v.height >= 0 /\ g.width >= 0 /\ g.width <= v.width /\ v.width \in Int /\ v.height \in Int
    BY <1>4, <1>5, RectFields
  <2> DEFINE n == k.geom
  <2>2. n \in Rects /\ n.x = v.x /\ n.y = v.y /\ n.height = v.height /\ n.width = g.width
    BY <1>7, <1>8
  <2> HIDE DEF n, k
  <2>3. LET z == TakeWest(v, n)
         IN Band(n, v, z) /\ z.height = v.height /\ z.width = v.width - n.width
    BY <1>4, <2>1, <2>2, WestBand
  <2>4. v.width - g.width >= w
    BY <1>4, <1>5, <2>1
  <2> QED BY <1>5, <2>2, <2>3, <2>4 DEF n
<1> HIDE DEF k, need, area
<1>11. WithArea(Ask(a, c, k.geom, need), area) \in Put(cs, size, H \cup {c}, w, h)
  BY <1>1, <1>9, <1>10, AskPlaces DEF Band, g, v
<1> QED BY <1>3, <1>11

LEMMA EdgeSouthTakes ==
  ASSUME NEW D \in SUBSET Clients, NEW cs \in [D -> Records], NEW size \in Sizes,
         AllPlainIn(cs), NEW H \in SUBSET D, NEW w \in Nat, NEW h \in Nat,
         NEW c \in D, c \notin H, c \in At(cs, "EdgeSouth"),
         NEW a \in Accs(Layouts(cs), size),
         a \in Put(cs, size, H, w, h + Coverage(cs[c]).height)
  PROVE  EdgeSouth(a, c) \in Put(cs, size, H \cup {c}, w, h)
<1> DEFINE g == Coverage(cs[c])
           v == a.avail
           e == cs[c].hints
           m == Maximised(g, v, FlagsOf(e).across)
           y == v.y + v.height - m.geom.height
           p == [m.geom EXCEPT !.y = y]
           k == Clipped(p, v, {"height"})
           need == m.changed \/ y # m.geom.y \/ k.changed
           area == TakeEnd(v, k.geom, "height")
<1>1. /\ Takes(c, cs[c]) /\ "EdgeSouth" \in cs[c].hints /\ Plain(c, cs[c]) /\ c \in Clients
      /\ cs[c] \in Records /\ "EdgeSouth" \in Edges
  BY DEF At, AllPlainIn, Edges
<1>2. /\ a.clients[c] = cs[c] /\ Hints(cs[c]) = e /\ "EdgeSouth" \in e
      /\ "FixedX" \notin e /\ "Overlaps" \notin e
  <2>1. c \in Watched(cs) \ H
    BY <1>1 DEF Watched
  <2>2. a.clients[c] = cs[c]
    BY <2>1 DEF Put
  <2> QED BY <1>1, <2>2, EdgeTurn
<1>3. EdgeSouth(a, c) = WithArea(Ask(a, c, k.geom, need), area)
  BY <1>2 DEF EdgeSouth, Left, WithArea
<1>4. g \in Rects /\ v \in Rects /\ g.width \in Nat /\ g.height \in Nat
  BY <1>1, TakesSize, PutCovers
<1>5. v.width >= w /\ v.height >= h + g.height
  BY DEF Put
<1>6. FlagsOf(e).across = {"x", "width"}
  BY <1>2 DEF FlagsOf
<1> HIDE DEF g, v, e
<1>7. /\ m.geom \in Rects /\ m.changed \in BOOLEAN /\ m.geom.x = v.x
      /\ m.geom.width = v.width /\ m.geom.height = g.height /\ (~m.changed => m.geom = g)
  <2> DEFINE s == FlagsOf(e).across
  <2>1. /\ s \in SUBSET Fields /\ "x" \in s /\ "y" \notin s /\ "width" \in s /\ "height" \notin s
    BY <1>6 DEF Fields
  <2> HIDE DEF s
  <2>2. LET z == Maximised(g, v, s)
         IN /\ z.geom \in Rects /\ z.changed \in BOOLEAN
            /\ z.geom.x = (IF "x" \in s THEN v.x ELSE g.x)
            /\ z.geom.y = (IF "y" \in s THEN v.y ELSE g.y)
            /\ z.geom.width = (IF "width" \in s THEN v.width ELSE g.width)
            /\ z.geom.height = (IF "height" \in s THEN v.height ELSE g.height)
            /\ ~z.changed => z.geom = g
    BY <1>4, <2>1, MaximisedIs
  <2> QED BY <2>1, <2>2 DEF s
<1> HIDE DEF m
<1>12. /\ y \in Int /\ p \in Rects /\ p.x = v.x /\ p.y = v.y + v.height - g.height
       /\ p.width = v.width /\ p.height = g.height
       /\ ~m.changed /\ y = m.geom.y => p = g
  <2>1. y \in Int
    BY <1>4, <1>7, RectFields
  <2>2. y = v.y + v.height - g.height
    BY <1>7
  <2> HIDE DEF y
  <2>3. p \in Rects /\ p.y = y /\ \A f \in {"x", "width", "height"} : p[f] = m.geom[f]
    BY <1>7, <2>1 DEF Rects
  <2>4. y = m.geom.y => p = m.geom
    BY <1>7 DEF Rects
  <2> HIDE DEF p
  <2> QED BY <1>7, <2>1, <2>2, <2>3, <2>4
<1> HIDE DEF p
<1>8. k.geom = p /\ ~k.changed
  <2>1. p.y + p.height <= v.y + v.height
    BY <1>4, <1>5, <1>12, RectFields
  <2>2. "x" \notin {"height"} /\ "y" \notin {"height"} /\ "width" \notin {"height"}
    OBVIOUS
  <2> QED BY <1>4, <1>12, <2>1, <2>2, ClippedNone
<1>9. k.geom \in Rects /\ need \in BOOLEAN /\ (need \/ g = k.geom)
  BY <1>7, <1>8, <1>12
<1>10. Band(k.geom, v, area) /\ area.width >= w /\ area.height >= h
  <2>1. v.width >= 0 /\ g.height >= 0 /\ g.height <= v.height /\ v.width \in Int /\ v.height \in Int
    BY <1>4, <1>5, RectFields
  <2> DEFINE n == k.geom
  <2>2. n \in Rects /\ n.x = v.x /\ n.y = v.y + v.height - n.height /\ n.width = v.width /\ n.height = g.height
    BY <1>8, <1>12
  <2> HIDE DEF n, k
  <2>3. LET z == TakeEnd(v, n, "height")
         IN /\ z \in Rects /\ z.width = v.width /\ z.height = v.height - n.height
            /\ Within(z, v)
            /\ n.x = v.x /\ n.width = v.width => Band(n, v, z)
    BY <1>4, <2>1, <2>2, SouthBand
  <2>4. v.height - g.height >= h
    BY <1>4, <1>5, <2>1
  <2> QED BY <1>5, <2>2, <2>3, <2>4 DEF n
<1> HIDE DEF k, need, area
<1>11. WithArea(Ask(a, c, k.geom, need), area) \in Put(cs, size, H \cup {c}, w, h)
  BY <1>1, <1>9, <1>10, AskPlaces DEF Band, g, v
<1> QED BY <1>3, <1>11

LEMMA EdgeEastTakes ==
  ASSUME NEW D \in SUBSET Clients, NEW cs \in [D -> Records], NEW size \in Sizes,
         AllPlainIn(cs), NEW H \in SUBSET D, NEW w \in Nat, NEW h \in Nat,
         NEW c \in D, c \notin H, c \in At(cs, "EdgeEast"),
         NEW a \in Accs(Layouts(cs), size),
         a \in Put(cs, size, H, w + Coverage(cs[c]).width, h)
  PROVE  EdgeEast(a, c) \in Put(cs, size, H \cup {c}, w, h)
<1> DEFINE g == Coverage(cs[c])
           v == a.avail
           e == cs[c].hints
           m == Maximised(g, v, FlagsOf(e).along)
           x == v.x + v.width - m.geom.width
           p == [m.geom EXCEPT !.x = x]
           k == Clipped(p, v, {"width"})
           need == m.changed \/ x # m.geom.x \/ k.changed
           area == TakeEnd(v, k.geom, "width")
<1>1. /\ Takes(c, cs[c]) /\ "EdgeEast" \in cs[c].hints /\ Plain(c, cs[c]) /\ c \in Clients
      /\ cs[c] \in Records /\ "EdgeEast" \in Edges
  BY DEF At, AllPlainIn, Edges
<1>2. /\ a.clients[c] = cs[c] /\ Hints(cs[c]) = e /\ "EdgeEast" \in e
      /\ "FixedY" \notin e /\ "Overlaps" \notin e
  <2>1. c \in Watched(cs) \ H
    BY <1>1 DEF Watched
  <2>2. a.clients[c] = cs[c]
    BY <2>1 DEF Put
  <2> QED BY <1>1, <2>2, EdgeTurn
<1>3. EdgeEast(a, c) = WithArea(Ask(a, c, k.geom, need), area)
  BY <1>2 DEF EdgeEast, Left, WithArea
<1>4. g \in Rects /\ v \in Rects /\ g.width \in Nat /\ g.height \in Nat
  BY <1>1, TakesSize, PutCovers
<1>5. v.width >= w + g.width /\ v.height >= h
  BY DEF Put
<1>6. FlagsOf(e).along = {"y", "height"}
  BY <1>2 DEF FlagsOf
<1> HIDE DEF g, v, e
<1>7. /\ m.geom \in Rects /\ m.changed \in BOOLEAN /\ m.geom.y = v.y
      /\ m.geom.height = v.height /\ m.geom.width = g.width /\ (~m.changed => m.geom = g)
  <2> DEFINE s == FlagsOf(e).along
  <2>1. /\ s \in SUBSET Fields /\ "x" \notin s /\ "y" \in s /\ "height" \in s /\ "width" \notin s
    BY <1>6 DEF Fields
  <2> HIDE DEF s
  <2>2. LET z == Maximised(g, v, s)
         IN /\ z.geom \in Rects /\ z.changed \in BOOLEAN
            /\ z.geom.x = (IF "x" \in s THEN v.x ELSE g.x)
            /\ z.geom.y = (IF "y" \in s THEN v.y ELSE g.y)
            /\ z.geom.width = (IF "width" \in s THEN v.width ELSE g.width)
            /\ z.geom.height = (IF "height" \in s THEN v.height ELSE g.height)
            /\ ~z.changed => z.geom = g
    BY <1>4, <2>1, MaximisedIs
  <2> QED BY <2>1, <2>2 DEF s
<1> HIDE DEF m
<1>12. /\ x \in Int /\ p \in Rects /\ p.y = v.y /\ p.x = v.x + v.width - g.width
       /\ p.height = v.height /\ p.width = g.width
       /\ ~m.changed /\ x = m.geom.x => p = g
  <2>1. x \in Int
    BY <1>4, <1>7, RectFields
  <2>2. x = v.x + v.width - g.width
    BY <1>7
  <2> HIDE DEF x
  <2>3. p \in Rects /\ p.x = x /\ \A f \in {"y", "width", "height"} : p[f] = m.geom[f]
    BY <1>7, <2>1 DEF Rects
  <2>4. x = m.geom.x => p = m.geom
    BY <1>7 DEF Rects
  <2> HIDE DEF p
  <2> QED BY <1>7, <2>1, <2>2, <2>3, <2>4
<1> HIDE DEF p
<1>8. k.geom = p /\ ~k.changed
  <2>1. p.x + p.width <= v.x + v.width
    BY <1>4, <1>5, <1>12, RectFields
  <2>2. "x" \notin {"width"} /\ "y" \notin {"width"} /\ "height" \notin {"width"}
    OBVIOUS
  <2> QED BY <1>4, <1>12, <2>1, <2>2, ClippedNone
<1>9. k.geom \in Rects /\ need \in BOOLEAN /\ (need \/ g = k.geom)
  BY <1>7, <1>8, <1>12
<1>10. Band(k.geom, v, area) /\ area.width >= w /\ area.height >= h
  <2>1. v.height >= 0 /\ g.width >= 0 /\ g.width <= v.width /\ v.width \in Int /\ v.height \in Int
    BY <1>4, <1>5, RectFields
  <2> DEFINE n == k.geom
  <2>2. n \in Rects /\ n.y = v.y /\ n.x = v.x + v.width - n.width /\ n.height = v.height /\ n.width = g.width
    BY <1>8, <1>12
  <2> HIDE DEF n, k
  <2>3. LET z == TakeEnd(v, n, "width")
         IN Band(n, v, z) /\ z.height = v.height /\ z.width = v.width - n.width
    BY <1>4, <2>1, <2>2, EastBand
  <2>4. v.width - g.width >= w
    BY <1>4, <1>5, <2>1
  <2> QED BY <1>5, <2>2, <2>3, <2>4 DEF n
<1> HIDE DEF k, need, area
<1>11. WithArea(Ask(a, c, k.geom, need), area) \in Put(cs, size, H \cup {c}, w, h)
  BY <1>1, <1>9, <1>10, AskPlaces DEF Band, g, v
<1> QED BY <1>3, <1>11

\* A window that is as wide as the screen, or not, is as high and where it was.
LEMMA WideIs ==
  ASSUME NEW D \in SUBSET Clients, NEW cs \in [D -> Records], NEW size \in Sizes,
         NEW a \in Accs(Layouts(cs), size), NEW c \in D, NEW g \in Rects
  PROVE  LET z == Wide(a, c, g)
         IN /\ z.geom \in Rects /\ z.changed \in BOOLEAN
            /\ z.geom.y = g.y /\ z.geom.height = g.height
            /\ z.geom.width \in {g.width, size.width}
            /\ ~z.changed => z.geom = g
            /\ ~OfFullscreen(a, c) => z.geom = g
<1>1. a.screen = size
  BY PutCovers
<1> DEFINE z == Wide(a, c, g)
           p == [g EXCEPT !.x = 0, !.width = size.width]
<1>2. z = IF OfFullscreen(a, c) /\ g.width # size.width
          THEN [geom |-> p, changed |-> TRUE] ELSE [geom |-> g, changed |-> FALSE]
  BY <1>1 DEF Wide
<1>3. p \in Rects /\ p.y = g.y /\ p.height = g.height /\ p.width = size.width
  <2> DEFINE q == [g EXCEPT !.x = 0]
             i == size.width
  <2>1. q \in Rects /\ q.y = g.y /\ q.height = g.height /\ i \in Int
    BY DEF Rects, Sizes
  <2>2. p = [q EXCEPT !.width = i]
    OBVIOUS
  <2> HIDE DEF q, i, p
  <2>3. p \in Rects /\ p.y = g.y /\ p.height = g.height /\ p.width = i
    BY <2>1, <2>2 DEF Rects
  <2> QED BY <2>3 DEF i
<1> HIDE DEF z, p
<1>4. CASE OfFullscreen(a, c) /\ g.width # size.width
  <2>1. z.geom = p /\ z.changed = TRUE
    BY <1>2, <1>4
  <2> QED BY <1>3, <1>4, <2>1 DEF z
<1>5. CASE ~(OfFullscreen(a, c) /\ g.width # size.width)
  <2>1. z.geom = g /\ z.changed = FALSE
    BY <1>2, <1>5
  <2> QED BY <1>5, <2>1 DEF z
<1> QED BY <1>4, <1>5

LEMMA SouthTurn ==
  ASSUME NEW c \in Clients, NEW r, Plain(c, r)
  PROVE  /\ Hints(r) = {"South"} => Takes(c, r) /\ "South" \in r.hints
         /\ Takes(c, r) /\ "South" \in r.hints =>
              Kind[c] = "Input" /\ Hints(r) = {"South"}
         /\ Hints(r) # {"North"} /\ Hints(r) # {"West"} /\ Hints(r) # {"East"}
<1>1. Kind[c] \in {"App", "Desktop", "Dialog", "Note", "Panel", "Input", "Menu"}
  BY LayoutAssumption
<1>2. CASE Kind[c] = "Panel"
  <2>1. Hints(r) = r.hints
    BY <1>2 DEF Plain, Hints
  <2>2. "Overlaps" \in r.hints \/ OneEdge(r.hints)
    BY <1>2 DEF Plain
  <2>3. \A e \in Edges : e \notin {"North", "South", "West", "East"}
    BY DEF Edges
  <2>4. CASE "Overlaps" \in r.hints
    <3>1. \A s \in {"North", "South", "West", "East"} : r.hints # {s}
      BY <2>4
    <3> QED BY <1>2, <2>1, <2>4, <3>1 DEF Takes
  <2>5. CASE OneEdge(r.hints)
    <3>1. PICK e \in Edges : e \in r.hints /\ r.hints \subseteq {e, "Movable"}
      BY <2>5 DEF OneEdge
    <3>2. "South" \notin r.hints /\ \A s \in {"North", "South", "West", "East"} : r.hints # {s}
      BY <2>3, <3>1
    <3> QED BY <2>1, <3>2
  <2> QED BY <2>2, <2>4, <2>5
<1>3. CASE Kind[c] = "Input"
  <2>1. Hints(r) = {"South"} /\ r.hints = {"South"}
    BY <1>3 DEF Plain, Hints
  <2> QED BY <1>3, <2>1 DEF Takes
<1>4. CASE Kind[c] \notin {"Panel", "Input"}
  <2>1. Hints(r) \in {{"Fullscreen"}, {"Grow"}, {"Free", "Movable"}, {"Free", "FixedX", "FixedY"}}
    BY <1>1, <1>4 DEF Plain, Hints
  <2>2. \A s \in {"North", "South", "West", "East"} : Hints(r) # {s}
    BY <2>1
  <2> QED BY <1>4, <2>2 DEF Takes
<1> QED BY <1>2, <1>3, <1>4

LEMMA InputSouthTakes ==
  ASSUME NEW D \in SUBSET Clients, NEW cs \in [D -> Records], NEW size \in Sizes,
         AllPlainIn(cs), NEW H \in SUBSET D, NEW w \in Nat, NEW h \in Nat,
         NEW c \in D, c \notin H, c \in At(cs, "South"),
         NEW a \in Accs(Layouts(cs), size),
         a \in Put(cs, size, H, w, h + Coverage(cs[c]).height)
  PROVE  InputSouth(a, c) \in Put(cs, size, H \cup {c}, w, h)
<1> DEFINE g == Coverage(cs[c])
           v == a.avail
           bottom == v.y + v.height
           y == IF bottom - g.height < 0 THEN 0 ELSE bottom - g.height
           p == [g EXCEPT !.y = y]
           m == Maximised(p, v, {"x", "width"})
           s == Wide(a, c, m.geom)
           k == Clipped(s.geom, v, {"height"})
           last == [k.geom EXCEPT !.y = bottom - k.geom.height]
           need == \/ a.change \/ y # g.y \/ m.changed \/ s.changed \/ k.changed
                   \/ last # k.geom
           area == TakeEnd(v, last, "height")
<1>1. /\ Takes(c, cs[c]) /\ "South" \in cs[c].hints /\ Plain(c, cs[c]) /\ c \in Clients
      /\ cs[c] \in Records
  BY DEF At, AllPlainIn
<1>2. a.clients[c] = cs[c] /\ Hints(cs[c]) = {"South"} /\ Kind[c] = "Input"
  <2>1. c \in Watched(cs) \ H
    BY <1>1 DEF Watched
  <2>2. a.clients[c] = cs[c]
    BY <2>1 DEF Put
  <2> QED BY <1>1, <2>2, SouthTurn
<1>3. InputSouth(a, c) = WithArea(Ask(a, c, last, need), area)
  BY <1>2 DEF InputSouth, WithArea
<1>4. g \in Rects /\ v \in Rects /\ g.width \in Nat /\ g.height \in Nat /\ a.change \in BOOLEAN
  BY <1>1, TakesSize, PutCovers
<1>5. v.width >= w /\ v.height >= h + g.height /\ Within(v, Whole(size))
  BY DEF Put
<1>6. /\ v.y >= 0 /\ v.x >= 0 /\ size.width >= 0 /\ size.width \in Int
      /\ v.x \in Int /\ v.y \in Int /\ v.width \in Int /\ v.height \in Int
  <2>1. /\ v.x \in Int /\ v.y \in Int /\ v.width \in Int /\ v.height \in Int
        /\ size.width \in Int
    BY <1>4, RectFields DEF Sizes
  <2>2. 0 <= v.y /\ 0 <= v.x /\ v.x + v.width <= 0 + size.width
    BY <1>5, WholeIs DEF Within
  <2> QED BY <1>5, <2>1, <2>2
<1>7. c \in Sharing(cs) => ~OfFullscreen(a, c)
  <2> SUFFICES ASSUME c \in Sharing(cs) PROVE ~OfFullscreen(a, c)
    OBVIOUS
  <2> DEFINE t == cs[c].parent
  <2>1. t \in D /\ ~cs[t].full
    BY <1>2 DEF Sharing
  <2>2. a.clients[t].full = cs[t].full
    BY <2>1, PutCovers DEF Relaid
  <2> QED BY <1>2, <2>1, <2>2 DEF OfFullscreen
<1> HIDE DEF g, v
<1>8. y = bottom - g.height /\ y \in Int
  BY <1>4, <1>5, <1>6
<1> HIDE DEF y
<1>9. p \in Rects /\ p.y = y /\ p.height = g.height /\ (y = g.y => p = g)
  BY <1>4, <1>8 DEF Rects
<1> HIDE DEF p
<1>10. /\ m.geom \in Rects /\ m.changed \in BOOLEAN /\ m.geom.x = v.x
       /\ m.geom.width = v.width /\ m.geom.height = g.height /\ m.geom.y = y
       /\ (~m.changed => m.geom = p)
  <2> DEFINE f == {"x", "width"}
  <2>1. f \in SUBSET Fields /\ "x" \in f /\ "y" \notin f /\ "width" \in f /\ "height" \notin f
    BY DEF Fields
  <2> HIDE DEF f
  <2>2. LET z == Maximised(p, v, f)
         IN /\ z.geom \in Rects /\ z.changed \in BOOLEAN
            /\ z.geom.x = (IF "x" \in f THEN v.x ELSE p.x)
            /\ z.geom.y = (IF "y" \in f THEN v.y ELSE p.y)
            /\ z.geom.width = (IF "width" \in f THEN v.width ELSE p.width)
            /\ z.geom.height = (IF "height" \in f THEN v.height ELSE p.height)
            /\ ~z.changed => z.geom = p
    BY <1>4, <1>9, <2>1, MaximisedIs
  <2> QED BY <1>9, <2>1, <2>2 DEF f
<1> HIDE DEF m
<1>11. /\ s.geom \in Rects /\ s.changed \in BOOLEAN
       /\ s.geom.y = y /\ s.geom.height = g.height /\ s.geom.width \in {v.width, size.width}
       /\ (~s.changed => s.geom = m.geom)
       /\ (c \in Sharing(cs) => s.geom = m.geom)
  <2> DEFINE n == m.geom
  <2>1. n \in Rects /\ n.y = y /\ n.height = g.height /\ n.width = v.width
    BY <1>10
  <2> HIDE DEF n
  <2>2. LET z == Wide(a, c, n)
        IN /\ z.geom \in Rects /\ z.changed \in BOOLEAN
           /\ z.geom.y = n.y /\ z.geom.height = n.height
           /\ z.geom.width \in {n.width, size.width}
           /\ ~z.changed => z.geom = n
           /\ ~OfFullscreen(a, c) => z.geom = n
    BY <2>1, WideIs
  <2> QED BY <1>7, <2>1, <2>2 DEF n
<1> HIDE DEF s
<1>12. k.geom = s.geom /\ ~k.changed
  <2>1. s.geom.y + s.geom.height <= v.y + v.height
    BY <1>4, <1>6, <1>8, <1>11
  <2>2. "x" \notin {"height"} /\ "y" \notin {"height"} /\ "width" \notin {"height"}
    OBVIOUS
  <2> QED BY <1>4, <1>11, <2>1, <2>2, ClippedNone
<1>13. last = s.geom
  <2> DEFINE n == k.geom
             z == bottom - n.height
  <2>1. n \in Rects /\ n.y = y /\ n.height = g.height /\ n = s.geom
    BY <1>11, <1>12
  <2>2. z = n.y
    BY <1>8, <2>1
  <2>3. last = [n EXCEPT !.y = z]
    OBVIOUS
  <2> HIDE DEF n, z, last
  <2> QED BY <2>1, <2>2, <2>3 DEF Rects
<1>14. last \in Rects /\ need \in BOOLEAN /\ (need \/ g = last)
  BY <1>4, <1>8, <1>9, <1>10, <1>11, <1>12, <1>13
<1>15. /\ area \in Rects /\ Within(area, v) /\ NonNeg(last)
       /\ area.width >= w /\ area.height >= h
       /\ c \in Sharing(cs) => Within(last, v) /\ Apart(last, area)
  <2> DEFINE n == last
  <2>11. n = s.geom
    BY <1>13
  <2>12. bottom = v.y + v.height
    OBVIOUS
  <2> HIDE DEF n, last, bottom
  <2>13. /\ n \in Rects /\ n.y = y /\ n.height = g.height
        /\ n.width \in {v.width, size.width}
    BY <1>11, <2>11
  <2>14. c \in Sharing(cs) => n.x = v.x /\ n.width = v.width
    BY <1>10, <1>11, <2>11
  <2>1. /\ n \in Rects /\ n.y = v.y + v.height - n.height /\ n.height = g.height
        /\ n.width \in {v.width, size.width}
        /\ (c \in Sharing(cs) => n.x = v.x /\ n.width = v.width)
    <3>1. v.y \in Int /\ v.height \in Int /\ g.height \in Int
      BY <1>4, <1>6
    <3>2. n.y = v.y + v.height - n.height
      BY <1>8, <2>12, <2>13, <3>1
    <3> QED BY <2>13, <2>14, <3>2
  <2>2. v.width >= 0 /\ n.height >= 0 /\ n.height <= v.height
    BY <1>4, <1>5, <1>6, <2>1
  <2>3. NonNeg(n)
    BY <1>6, <2>1, <2>2 DEF NonNeg
  <2>4. LET z == TakeEnd(v, n, "height")
        IN /\ z \in Rects /\ z.width = v.width /\ z.height = v.height - n.height
           /\ Within(z, v)
           /\ n.x = v.x /\ n.width = v.width => Band(n, v, z)
    BY <1>4, <2>1, <2>2, SouthBand
  <2>5. v.height - g.height >= h
    BY <1>4, <1>5, <1>6
  <2> QED BY <1>5, <2>1, <2>3, <2>4, <2>5 DEF n, Band
<1> HIDE DEF last, need, area
<1>16. WithArea(Ask(a, c, last, need), area) \in Put(cs, size, H \cup {c}, w, h)
  BY <1>1, <1>14, <1>15, AskPlaces DEF g, v
<1> QED BY <1>3, <1>16

\* b is a, but for the record of c.
OnlyAt(b, a, D, c) == b.avail = a.avail /\ \A d \in D \ {c} : b.clients[d] = a.clients[d]

\* b is a, for those that are watched.
PassedBy(b, a, cs) ==
  b.avail = a.avail /\ \A d \in Watched(cs) : b.clients[d] = a.clients[d]

LEMMA AskAny ==
  ASSUME NEW D, NEW cs \in [D -> Records], NEW size \in Sizes,
         NEW a \in Accs(Layouts(cs), size), NEW c, NEW g, NEW need
  PROVE  /\ OnlyAt(Ask(a, c, g, need), a, D, c)
         /\ \A h, area : "Overlaps" \in h => OnlyAt(Left(Ask(a, c, g, need), h, area), a, D, c)
<1> DEFINE b == Ask(a, c, g, need)
           x == IF need THEN Requested(a.clients[c], c, g, "Layout", size) ELSE a.clients[c]
<1>1. a.clients \in [D -> Records] /\ a.screen = size
  BY PutCovers
<1>2. b = [a EXCEPT !.change = need, !.clients = [a.clients EXCEPT ![c] = x]]
  BY <1>1 DEF Ask, Accs
<1> HIDE DEF x
<1>3. b = [clients |-> [a.clients EXCEPT ![c] = x], avail |-> a.avail, change |-> need,
           screen |-> a.screen]
  BY <1>2 DEF Accs
<1> HIDE DEF b
<1>4. \A d \in D \ {c} : [a.clients EXCEPT ![c] = x][d] = a.clients[d]
  BY <1>1
<1>5. OnlyAt(b, a, D, c)
  BY <1>3, <1>4 DEF OnlyAt
<1>6. ASSUME NEW h, NEW area, "Overlaps" \in h
      PROVE  OnlyAt(Left(b, h, area), a, D, c)
  <2>1. Left(b, h, area) = b
    BY <1>3, <1>6 DEF Left
  <2> QED BY <1>5, <2>1
<1> QED BY <1>5, <1>6 DEF b

LEMMA NotWatched ==
  ASSUME NEW D, NEW cs \in [D -> Records], NEW a, NEW b, NEW c, c \notin Watched(cs),
         OnlyAt(b, a, D, c)
  PROVE  PassedBy(b, a, cs)
<1>1. \A d \in Watched(cs) : d \in D \ {c}
  BY DEF Watched
<1> QED BY <1>1 DEF OnlyAt, PassedBy

\* Who is not at the edge is passed by the loop of that edge.
LEMMA EdgePasses ==
  ASSUME NEW D \in SUBSET Clients, NEW cs \in [D -> Records], NEW size \in Sizes,
         AllPlainIn(cs), NEW a \in Accs(Layouts(cs), size), NEW c \in D,
         NEW e \in Edges, c \notin At(cs, e)
  PROVE  PassedBy(Step(e, a, c), a, cs)
<1> DEFINE h == Hints(a.clients[c])
<1>1. h = Hints(cs[c])
  BY SameHints
<1>2. Plain(c, cs[c]) /\ c \in Clients
  BY DEF AllPlainIn
<1>3. PassedBy(a, a, cs)
  BY DEF PassedBy
<1> HIDE DEF h
<1>4. CASE e \notin h
  <2>1. Step(e, a, c) = a
    <3>1. CASE e = "EdgeNorth"
      BY <1>4, <3>1 DEF h, Step, EdgeNorth
    <3>2. CASE e = "EdgeSouth"
      BY <1>4, <3>2 DEF h, Step, EdgeSouth
    <3>3. CASE e = "EdgeWest"
      BY <1>4, <3>3 DEF h, Step, EdgeWest
    <3>4. CASE e = "EdgeEast"
      BY <1>4, <3>4 DEF h, Step, EdgeEast
    <3> QED BY <3>1, <3>2, <3>3, <3>4 DEF Edges
  <2> QED BY <1>3, <2>1
<1>5. CASE e \in h
  <2>1. Kind[c] = "Panel" /\ h = cs[c].hints
    BY <1>1, <1>2, <1>5, EdgeTurn
  <2>2. c \notin Watched(cs) /\ "Overlaps" \in h
    BY <1>5, <2>1 DEF At, Takes, Watched
  <2>3. \E g, need, area : Step(e, a, c) = Left(Ask(a, c, g, need), h, area)
    <3>1. CASE e = "EdgeNorth"
      BY <1>5, <3>1 DEF h, Step, EdgeNorth
    <3>2. CASE e = "EdgeSouth"
      BY <1>5, <3>2 DEF h, Step, EdgeSouth
    <3>3. CASE e = "EdgeWest"
      BY <1>5, <3>3 DEF h, Step, EdgeWest
    <3>4. CASE e = "EdgeEast"
      BY <1>5, <3>4 DEF h, Step, EdgeEast
    <3> QED BY <3>1, <3>2, <3>3, <3>4 DEF Edges
  <2>4. OnlyAt(Step(e, a, c), a, D, c)
    BY <2>2, <2>3, AskAny
  <2> QED BY <2>2, <2>4, NotWatched
<1> QED BY <1>4, <1>5

\* The loops for input methods at the other edges pass by everyone, and the one at the
\* bottom all but those it takes.
LEMMA InputPasses ==
  ASSUME NEW D \in SUBSET Clients, NEW cs \in [D -> Records], NEW size \in Sizes,
         AllPlainIn(cs), NEW a \in Accs(Layouts(cs), size), NEW c \in D
  PROVE  /\ PassedBy(Step("InputNorth", a, c), a, cs)
         /\ PassedBy(Step("InputWest", a, c), a, cs)
         /\ PassedBy(Step("InputEast", a, c), a, cs)
         /\ c \notin At(cs, "South") => PassedBy(Step("InputSouth", a, c), a, cs)
<1> DEFINE h == Hints(a.clients[c])
<1>1. h = Hints(cs[c])
  BY SameHints
<1>2. Plain(c, cs[c]) /\ c \in Clients
  BY DEF AllPlainIn
<1>3. h # {"North"} /\ h # {"West"} /\ h # {"East"}
  BY <1>1, <1>2, SouthTurn
<1>4. PassedBy(a, a, cs)
  BY DEF PassedBy
<1>5. Step("InputNorth", a, c) = a /\ Step("InputWest", a, c) = a /\ Step("InputEast", a, c) = a
  BY <1>3 DEF Step, InputNorth, InputWest, InputEast
<1>6. c \notin At(cs, "South") => Step("InputSouth", a, c) = a
  <2> SUFFICES ASSUME c \notin At(cs, "South") PROVE Step("InputSouth", a, c) = a
    OBVIOUS
  <2>1. h # {"South"}
    BY <1>1, <1>2, SouthTurn DEF At
  <2> QED BY <2>1 DEF Step, InputSouth
<1> QED BY <1>4, <1>5, <1>6

\* Neither growing applications nor dialogs take room.
LEMMA GrowPasses ==
  ASSUME NEW D \in SUBSET Clients, NEW cs \in [D -> Records], NEW size \in Sizes,
         AllPlainIn(cs), NEW a \in Accs(Layouts(cs), size), NEW c \in D
  PROVE  /\ PassedBy(Step("Grow", a, c), a, cs)
         /\ OnlyAt(Step("Free", a, c), a, D, c)
         /\ Kind[c] \notin {"Dialog", "Note"} => PassedBy(Step("Free", a, c), a, cs)
<1> DEFINE h == Hints(a.clients[c])
<1>1. h = Hints(cs[c])
  BY SameHints
<1>2. Plain(c, cs[c]) /\ c \in Clients
  BY DEF AllPlainIn
<1>3. PassedBy(a, a, cs) /\ OnlyAt(a, a, D, c)
  BY DEF PassedBy, OnlyAt
<1>4. c \in Watched(cs) => h = cs[c].hints
  BY <1>1, <1>2 DEF Watched, Takes, Plain, Hints
<1>5. ASSUME Takes(c, cs[c]) PROVE cs[c].hints # {"Grow"} /\ "Free" \notin cs[c].hints
  <2>1. CASE Kind[c] = "Panel"
    <3>1. PICK e \in Edges : e \in cs[c].hints /\ cs[c].hints \subseteq {e, "Movable"}
      BY <1>2, <1>5, <2>1 DEF Plain, Takes, OneEdge
    <3>2. e \notin {"Grow", "Free"}
      BY DEF Edges
    <3> QED BY <3>1, <3>2
  <2>2. CASE Kind[c] = "Input"
    BY <1>2, <2>2 DEF Plain
  <2> QED BY <1>5, <2>1, <2>2 DEF Takes
<1> HIDE DEF h
<1>6. PassedBy(Step("Grow", a, c), a, cs)
  <2>1. CASE h # {"Grow"}
    <3>1. Step("Grow", a, c) = a
      BY <2>1 DEF h, Step, Grow
    <3> QED BY <1>3, <3>1
  <2>2. CASE h = {"Grow"}
    <3>1. c \notin Watched(cs)
      BY <1>2, <1>4, <1>5, <2>2 DEF Watched, Plain
    <3>2. Step("Grow", a, c) = Ask(a, c, a.avail, TRUE)
      BY <2>2 DEF h, Step, Grow
    <3>3. OnlyAt(Step("Grow", a, c), a, D, c)
      <4> DEFINE need == TRUE
      <4>1. Step("Grow", a, c) = Ask(a, c, a.avail, need)
        BY <3>2
      <4> HIDE DEF need
      <4> QED BY <4>1, AskAny
    <3> QED BY <3>1, <3>3, NotWatched
  <2> QED BY <2>1, <2>2
<1>7. \/ Step("Free", a, c) = a
      \/ "Free" \in h /\ \E g, need : Step("Free", a, c) = Ask(a, c, g, need)
  BY DEF h, Step, Free
<1>8. OnlyAt(Step("Free", a, c), a, D, c)
  <2>1. CASE Step("Free", a, c) = a
    BY <1>3, <2>1
  <2>2. CASE \E g, need : Step("Free", a, c) = Ask(a, c, g, need)
    BY <2>2, AskAny
  <2> QED BY <1>7, <2>1, <2>2
<1>9. ASSUME Kind[c] \notin {"Dialog", "Note"}
      PROVE  PassedBy(Step("Free", a, c), a, cs)
  <2>1. CASE c \in Watched(cs)
    <3>1. "Free" \notin h
      BY <1>4, <1>5, <1>9, <2>1 DEF Watched
    <3> QED BY <1>3, <1>7, <3>1
  <2>2. CASE c \notin Watched(cs)
    BY <1>8, <2>2, NotWatched
  <2> QED BY <2>1, <2>2
<1> QED BY <1>6, <1>8, <1>9

LEMMA NoneDue ==
  ASSUME NEW D, NEW cs \in [D -> Records]
  PROVE  \A f : /\ Due(cs, {}, f) \in [D -> Nat]
                /\ \A c \in D : Due(cs, {}, f)[c] = 0
BY DEF Due

LEMMA DueIs ==
  ASSUME NEW D \in SUBSET Clients, NEW cs \in [D -> Records], AllPlainIn(cs), NEW e
  PROVE  /\ At(cs, e) \subseteq D
         /\ Due(cs, At(cs, e), "height") \in [D -> Nat]
         /\ \A c \in D : Due(cs, At(cs, e), "height")[c]
                           = IF c \in At(cs, e) THEN Coverage(cs[c]).height ELSE 0
         /\ Due(cs, At(cs, e), "width") \in [D -> Nat]
         /\ \A c \in D : Due(cs, At(cs, e), "width")[c]
                           = IF c \in At(cs, e) THEN Coverage(cs[c]).width ELSE 0
<1>1. At(cs, e) \subseteq D
  BY DEF At
<1>2. \A c \in At(cs, e) : Coverage(cs[c]).width \in Nat /\ Coverage(cs[c]).height \in Nat
  <2> SUFFICES ASSUME NEW c \in At(cs, e)
               PROVE  Coverage(cs[c]).width \in Nat /\ Coverage(cs[c]).height \in Nat
    OBVIOUS
  <2>1. c \in Clients /\ cs[c] \in Records /\ Plain(c, cs[c]) /\ Takes(c, cs[c])
    BY DEF At, AllPlainIn
  <2> QED BY <2>1, TakesSize
<1> HIDE DEF At
<1> QED BY <1>1, <1>2 DEF Due

\* Each client of T takes what is due.
Served(pass, cs, size, T, dx, dy) ==
  \A H \in SUBSET DOMAIN cs, w, h \in Nat, c \in T :
    c \notin H => \A a \in Put(cs, size, H, w + dx[c], h + dy[c]) :
                    Step(pass, a, c) \in Put(cs, size, H \cup {c}, w, h)

\* The others take nothing.
Spared(pass, cs, size, T, dx, dy) ==
  \A c \in DOMAIN cs \ T :
    /\ dx[c] = 0 /\ dy[c] = 0
    /\ \A a \in Accs(Layouts(cs), size) : PassedBy(Step(pass, a, c), a, cs)

LEMMA OneStepFrom ==
  ASSUME NEW D \in SUBSET Clients, NEW cs \in [D -> Records], NEW size \in Sizes,
         NEW pass \in Passes, NEW T, NEW dx \in [D -> Nat], NEW dy \in [D -> Nat],
         Served(pass, cs, size, T, dx, dy), Spared(pass, cs, size, T, dx, dy)
  PROVE  OneStep(pass, cs, size, T, dx, dy)
<1> SUFFICES ASSUME NEW H \in SUBSET D, NEW w \in Nat, NEW h \in Nat, NEW c \in D,
                    c \in T => c \notin H, NEW a \in Put(cs, size, H, w + dx[c], h + dy[c])
             PROVE  Step(pass, a, c) \in Put(cs, size, H \cup ({c} \cap T), w, h)
  <2>1. DOMAIN cs = D
    OBVIOUS
  <2> QED BY <2>1 DEF OneStep
<1>1. CASE c \in T
  <2>1. Step(pass, a, c) \in Put(cs, size, H \cup {c}, w, h)
    BY <1>1 DEF Served
  <2>2. H \cup {c} = H \cup ({c} \cap T)
    BY <1>1
  <2> QED BY <2>1, <2>2
<1>2. CASE c \notin T
  <2> DEFINE b == Step(pass, a, c)
             P == Layouts(cs)
  <2>1. a \in Accs(P, size)
    BY DEF Put
  <2>2. Closed(P, D, size)
    BY LayoutsClosed
  <2>3. dx[c] = 0 /\ dy[c] = 0 /\ PassedBy(b, a, cs)
    BY <1>2, <2>1 DEF Spared
  <2>4. a \in Put(cs, size, H, w, h)
    <3>1. w + dx[c] = w /\ h + dy[c] = h
      BY <2>3
    <3> QED BY <3>1
  <2> HIDE DEF P, b
  <2>5. b \in Accs(P, size)
    BY <2>1, <2>2, StepIs DEF b
  <2>6. b.avail = a.avail /\ \A d \in Watched(cs) : b.clients[d] = a.clients[d]
    BY <2>3 DEF PassedBy
  <2>7. b \in Accs(Layouts(cs), size)
    BY <2>5 DEF P
  <2>8. b \in Put(cs, size, H \cup ({c} \cap T), w, h)
    BY <1>2, <2>4, <2>6, <2>7, TurnPasses
  <2> QED BY <2>8 DEF b
<1> QED BY <1>1, <1>2

\* The loops at the northern and the southern edge take height, the others width.
LEMMA NorthStep ==
  ASSUME NEW D \in SUBSET Clients, NEW cs \in [D -> Records], NEW size \in Sizes,
         AllPlainIn(cs), NEW e \in {"EdgeNorth", "EdgeSouth"}
  PROVE  OneStep(e, cs, size, At(cs, e), Due(cs, {}, "width"), Due(cs, At(cs, e), "height"))
<1> DEFINE T == At(cs, e)
           dx == Due(cs, {}, "width")
           dy == Due(cs, T, "height")
<1>1. /\ dx \in [D -> Nat] /\ dy \in [D -> Nat] /\ T \subseteq D
      /\ \A c \in D : dx[c] = 0
      /\ \A c \in D : dy[c] = IF c \in T THEN Coverage(cs[c]).height ELSE 0
  BY DueIs, NoneDue
<1>2. e \in Edges /\ e \in Passes
  BY DEF Edges, Passes
<1> HIDE DEF dx, dy
<1>3. Spared(e, cs, size, T, dx, dy)
  <2>1. \A c \in D \ T : \A a \in Accs(Layouts(cs), size) : PassedBy(Step(e, a, c), a, cs)
    BY <1>2, EdgePasses
  <2> HIDE DEF T
  <2> QED BY <1>1, <2>1 DEF Spared
<1>4. Served(e, cs, size, T, dx, dy)
  <2> SUFFICES ASSUME NEW H \in SUBSET D, NEW w \in Nat, NEW h \in Nat, NEW c \in T,
                      c \notin H, NEW a \in Put(cs, size, H, w + dx[c], h + dy[c])
               PROVE  Step(e, a, c) \in Put(cs, size, H \cup {c}, w, h)
    <3>1. DOMAIN cs = D
      OBVIOUS
    <3> QED BY <3>1 DEF Served
  <2>1. c \in D /\ c \in At(cs, e) /\ w + dx[c] = w /\ dy[c] = Coverage(cs[c]).height
    BY <1>1
  <2>2. a \in Put(cs, size, H, w, h + Coverage(cs[c]).height)
    BY <2>1
  <2>3. a \in Accs(Layouts(cs), size)
    BY DEF Put
  <2>4. CASE e = "EdgeNorth"
    BY <2>1, <2>2, <2>3, <2>4, EdgeNorthTakes DEF Step
  <2>5. CASE e = "EdgeSouth"
    BY <2>1, <2>2, <2>3, <2>5, EdgeSouthTakes DEF Step
  <2> QED BY <2>4, <2>5
<1> HIDE DEF T
<1>5. OneStep(e, cs, size, T, dx, dy)
  BY <1>1, <1>2, <1>3, <1>4, OneStepFrom
<1> QED BY <1>5 DEF T, dx, dy

LEMMA WestStep ==
  ASSUME NEW D \in SUBSET Clients, NEW cs \in [D -> Records], NEW size \in Sizes,
         AllPlainIn(cs), NEW e \in {"EdgeWest", "EdgeEast"}
  PROVE  OneStep(e, cs, size, At(cs, e), Due(cs, At(cs, e), "width"), Due(cs, {}, "height"))
<1> DEFINE T == At(cs, e)
           dx == Due(cs, T, "width")
           dy == Due(cs, {}, "height")
<1>1. /\ dx \in [D -> Nat] /\ dy \in [D -> Nat] /\ T \subseteq D
      /\ \A c \in D : dy[c] = 0
      /\ \A c \in D : dx[c] = IF c \in T THEN Coverage(cs[c]).width ELSE 0
  BY DueIs, NoneDue
<1>2. e \in Edges /\ e \in Passes
  BY DEF Edges, Passes
<1> HIDE DEF dx, dy
<1>3. Spared(e, cs, size, T, dx, dy)
  <2>1. \A c \in D \ T : \A a \in Accs(Layouts(cs), size) : PassedBy(Step(e, a, c), a, cs)
    BY <1>2, EdgePasses
  <2> HIDE DEF T
  <2> QED BY <1>1, <2>1 DEF Spared
<1>4. Served(e, cs, size, T, dx, dy)
  <2> SUFFICES ASSUME NEW H \in SUBSET D, NEW w \in Nat, NEW h \in Nat, NEW c \in T,
                      c \notin H, NEW a \in Put(cs, size, H, w + dx[c], h + dy[c])
               PROVE  Step(e, a, c) \in Put(cs, size, H \cup {c}, w, h)
    <3>1. DOMAIN cs = D
      OBVIOUS
    <3> QED BY <3>1 DEF Served
  <2>1. c \in D /\ c \in At(cs, e) /\ h + dy[c] = h /\ dx[c] = Coverage(cs[c]).width
    BY <1>1
  <2>2. a \in Put(cs, size, H, w + Coverage(cs[c]).width, h)
    BY <2>1
  <2>3. a \in Accs(Layouts(cs), size)
    BY DEF Put
  <2>4. CASE e = "EdgeWest"
    BY <2>1, <2>2, <2>3, <2>4, EdgeWestTakes DEF Step
  <2>5. CASE e = "EdgeEast"
    BY <2>1, <2>2, <2>3, <2>5, EdgeEastTakes DEF Step
  <2> QED BY <2>4, <2>5
<1> HIDE DEF T
<1>5. OneStep(e, cs, size, T, dx, dy)
  BY <1>1, <1>2, <1>3, <1>4, OneStepFrom
<1> QED BY <1>5 DEF T, dx, dy

LEMMA InputStep ==
  ASSUME NEW D \in SUBSET Clients, NEW cs \in [D -> Records], NEW size \in Sizes,
         AllPlainIn(cs)
  PROVE  OneStep("InputSouth", cs, size, At(cs, "South"),
                 Due(cs, {}, "width"), Due(cs, At(cs, "South"), "height"))
<1> DEFINE T == At(cs, "South")
           dx == Due(cs, {}, "width")
           dy == Due(cs, T, "height")
<1>1. /\ dx \in [D -> Nat] /\ dy \in [D -> Nat] /\ T \subseteq D
      /\ \A c \in D : dx[c] = 0
      /\ \A c \in D : dy[c] = IF c \in T THEN Coverage(cs[c]).height ELSE 0
  BY DueIs, NoneDue
<1>2. "InputSouth" \in Passes
  BY DEF Passes
<1> HIDE DEF dx, dy
<1>3. Spared("InputSouth", cs, size, T, dx, dy)
  <2>1. \A c \in D \ T : \A a \in Accs(Layouts(cs), size) :
          PassedBy(Step("InputSouth", a, c), a, cs)
    BY InputPasses
  <2> HIDE DEF T
  <2> QED BY <1>1, <2>1 DEF Spared
<1>4. Served("InputSouth", cs, size, T, dx, dy)
  <2> SUFFICES ASSUME NEW H \in SUBSET D, NEW w \in Nat, NEW h \in Nat, NEW c \in T,
                      c \notin H, NEW a \in Put(cs, size, H, w + dx[c], h + dy[c])
               PROVE  Step("InputSouth", a, c) \in Put(cs, size, H \cup {c}, w, h)
    <3>1. DOMAIN cs = D
      OBVIOUS
    <3> QED BY <3>1 DEF Served
  <2>1. c \in D /\ c \in At(cs, "South") /\ w + dx[c] = w /\ dy[c] = Coverage(cs[c]).height
    BY <1>1
  <2>2. a \in Put(cs, size, H, w, h + Coverage(cs[c]).height)
    BY <2>1
  <2>3. a \in Accs(Layouts(cs), size)
    BY DEF Put
  <2> QED BY <2>1, <2>2, <2>3, InputSouthTakes DEF Step
<1> HIDE DEF T
<1>5. OneStep("InputSouth", cs, size, T, dx, dy)
  BY <1>1, <1>2, <1>3, <1>4, OneStepFrom
<1> QED BY <1>5 DEF T, dx, dy

\* The other loops take nothing.  Dialogs and notes have their turn in Free.
Framed(cs) == {c \in DOMAIN cs : Kind[c] \in {"Dialog", "Note"}}

LEMMA IdleStep ==
  ASSUME NEW D \in SUBSET Clients, NEW cs \in [D -> Records], NEW size \in Sizes,
         AllPlainIn(cs), NEW e \in {"InputNorth", "InputWest", "InputEast", "Grow"}
  PROVE  OneStep(e, cs, size, {}, Due(cs, {}, "width"), Due(cs, {}, "height"))
<1> DEFINE dx == Due(cs, {}, "width")
           dy == Due(cs, {}, "height")
<1>1. dx \in [D -> Nat] /\ dy \in [D -> Nat] /\ \A c \in D : dx[c] = 0 /\ dy[c] = 0
  BY NoneDue
<1>2. e \in Passes
  BY DEF Passes
<1> HIDE DEF dx, dy
<1>3. Spared(e, cs, size, {}, dx, dy)
  <2>1. \A c \in D : \A a \in Accs(Layouts(cs), size) : PassedBy(Step(e, a, c), a, cs)
    <3> SUFFICES ASSUME NEW c \in D, NEW a \in Accs(Layouts(cs), size)
                 PROVE  PassedBy(Step(e, a, c), a, cs)
      OBVIOUS
    <3>1. CASE e = "Grow"
      BY <3>1, GrowPasses
    <3>2. CASE e = "InputNorth"
      BY <3>2, InputPasses
    <3>3. CASE e = "InputWest"
      BY <3>3, InputPasses
    <3>4. CASE e = "InputEast"
      BY <3>4, InputPasses
    <3> QED BY <3>1, <3>2, <3>3, <3>4
  <2> QED BY <1>1, <2>1 DEF Spared
<1>4. Served(e, cs, size, {}, dx, dy)
  BY DEF Served
<1>5. OneStep(e, cs, size, {}, dx, dy)
  BY <1>1, <1>2, <1>3, <1>4, OneStepFrom
<1> QED BY <1>5 DEF dx, dy

LEMMA FreeStep ==
  ASSUME NEW D \in SUBSET Clients, NEW cs \in [D -> Records], NEW size \in Sizes,
         AllPlainIn(cs)
  PROVE  OneStep("Free", cs, size, Framed(cs), Due(cs, {}, "width"), Due(cs, {}, "height"))
<1> DEFINE dx == Due(cs, {}, "width")
           dy == Due(cs, {}, "height")
           T == Framed(cs)
<1>1. dx \in [D -> Nat] /\ dy \in [D -> Nat] /\ \A c \in D : dx[c] = 0 /\ dy[c] = 0
  BY NoneDue
<1>2. "Free" \in Passes
  BY DEF Passes
<1> HIDE DEF dx, dy
<1>3. Spared("Free", cs, size, T, dx, dy)
  <2>1. \A c \in D \ T : \A a \in Accs(Layouts(cs), size) :
          PassedBy(Step("Free", a, c), a, cs)
    BY GrowPasses DEF Framed
  <2> HIDE DEF T
  <2> QED BY <1>1, <2>1 DEF Spared
<1>4. Served("Free", cs, size, T, dx, dy)
  <2> SUFFICES ASSUME NEW H \in SUBSET D, NEW w \in Nat, NEW h \in Nat, NEW c \in T,
                      c \notin H, NEW a \in Put(cs, size, H, w + dx[c], h + dy[c])
               PROVE  Step("Free", a, c) \in Put(cs, size, H \cup {c}, w, h)
    <3>1. DOMAIN cs = D
      OBVIOUS
    <3> QED BY <3>1 DEF Served
  <2> DEFINE b == Step("Free", a, c)
  <2>1. c \in D /\ Kind[c] \in {"Dialog", "Note"}
    BY DEF Framed
  <2>2. w + dx[c] = w /\ h + dy[c] = h
    BY <1>1, <2>1
  <2>3. a \in Put(cs, size, H, w, h)
    BY <2>2
  <2>4. a \in Accs(Layouts(cs), size)
    BY DEF Put
  <2>5. b \in Accs(Layouts(cs), size)
    <3> DEFINE P == Layouts(cs)
    <3>1. Closed(P, D, size)
      BY LayoutsClosed
    <3>2. a \in Accs(P, size)
      BY <2>4
    <3> HIDE DEF P
    <3>3. Step("Free", a, c) \in Accs(P, size)
      BY <1>2, <2>1, <3>1, <3>2, StepIs
    <3> QED BY <3>3 DEF P
  <2>6. OnlyAt(b, a, D, c)
    BY <2>1, <2>4, GrowPasses
  <2> HIDE DEF b
  <2>7. b.avail = a.avail /\ \A d \in Watched(cs) \ {c} : b.clients[d] = a.clients[d]
    BY <2>6 DEF OnlyAt, Watched
  <2>8. \A d \in {c} : ~Takes(d, cs[d])
    BY <2>1 DEF Takes
  <2>9. b \in Put(cs, size, H \cup {c}, w, h)
    BY <2>3, <2>5, <2>7, <2>8, PutSame
  <2> QED BY <2>9 DEF b
<1> HIDE DEF T
<1>5. OneStep("Free", cs, size, T, dx, dy)
  BY <1>1, <1>2, <1>3, <1>4, OneStepFrom
<1> QED BY <1>5 DEF T, dx, dy

\* Nothing is due to nobody.
LEMMA NoTotals ==
  ASSUME NEW D, NEW q \in Seq(D), NEW cs \in [D -> Records], NEW f
  PROVE  \E t : Totals(q, Due(cs, {}, f), t) /\ t[Len(q)] = 0
<1> DEFINE t == [m \in 0..Len(q) |-> 0]
<1>1. Len(q) \in Nat /\ \A m \in 1..Len(q) : q[m] \in D /\ m - 1 \in 0..Len(q) /\ m \in 0..Len(q)
  BY DEF Lists
<1>2. \A c \in D : Due(cs, {}, f)[c] = 0
  BY NoneDue
<1>3. 0 \in 0..Len(q) /\ Len(q) \in 0..Len(q)
  BY <1>1
<1>4. Totals(q, Due(cs, {}, f), t)
  BY <1>1, <1>2, <1>3 DEF Totals
<1> QED BY <1>3, <1>4

\* A loop that takes height, one that takes width, and one that takes nothing.
LEMMA TallLoop ==
  ASSUME NEW D \in SUBSET Clients, NEW cs \in [D -> Records], NEW size \in Sizes,
         AllPlainIn(cs), NEW q, Lists(q, D), NEW H \in SUBSET D, NEW e,
         NEW pass, OneStep(pass, cs, size, At(cs, e), Due(cs, {}, "width"),
                           Due(cs, At(cs, e), "height")),
         H \cap At(cs, e) = {},
         NEW t, Totals(q, Due(cs, At(cs, e), "height"), t),
         NEW w \in Nat, NEW h \in Nat, NEW base \in Put(cs, size, H, w, h + t[Len(q)])
  PROVE  Ends(pass, base, q, Put(cs, size, H \cup At(cs, e), w, h))
<1> DEFINE T == At(cs, e)
           dx == Due(cs, {}, "width")
           dy == Due(cs, T, "height")
<1>1. q \in Seq(D) /\ DOMAIN cs = D
  BY DEF Lists
<1>2. PICK z : Totals(q, dx, z) /\ z[Len(q)] = 0
  BY <1>1, NoTotals
<1>3. dx \in [D -> Nat] /\ dy \in [D -> Nat] /\ T \subseteq D
  BY DueIs, NoneDue
<1> HIDE DEF T, dx, dy
<1>4. OneStep(pass, cs, size, T, dx, dy) /\ Totals(q, dy, t) /\ H \cap T = {}
  BY DEF T, dx, dy
<1>5. Looping(pass, cs, size, q, H, T, dx, dy, z, t)
  BY <1>1, <1>2, <1>3, <1>4 DEF Looping
<1>6. base \in Put(cs, size, H, w + z[Len(q)], h + t[Len(q)])
  <2>1. w + z[Len(q)] = w
    BY <1>2
  <2> QED BY <2>1
<1>7. Ends(pass, base, q, Put(cs, size, H \cup T, w, h))
  BY <1>5, <1>6, LoopEnds
<1> QED BY <1>7 DEF T

LEMMA LongLoop ==
  ASSUME NEW D \in SUBSET Clients, NEW cs \in [D -> Records], NEW size \in Sizes,
         AllPlainIn(cs), NEW q, Lists(q, D), NEW H \in SUBSET D, NEW e,
         NEW pass, OneStep(pass, cs, size, At(cs, e), Due(cs, At(cs, e), "width"),
                           Due(cs, {}, "height")),
         H \cap At(cs, e) = {},
         NEW t, Totals(q, Due(cs, At(cs, e), "width"), t),
         NEW w \in Nat, NEW h \in Nat, NEW base \in Put(cs, size, H, w + t[Len(q)], h)
  PROVE  Ends(pass, base, q, Put(cs, size, H \cup At(cs, e), w, h))
<1> DEFINE T == At(cs, e)
           dx == Due(cs, T, "width")
           dy == Due(cs, {}, "height")
<1>1. q \in Seq(D) /\ DOMAIN cs = D
  BY DEF Lists
<1>2. PICK z : Totals(q, dy, z) /\ z[Len(q)] = 0
  BY <1>1, NoTotals
<1>3. dx \in [D -> Nat] /\ dy \in [D -> Nat] /\ T \subseteq D
  BY DueIs, NoneDue
<1> HIDE DEF T, dx, dy
<1>4. OneStep(pass, cs, size, T, dx, dy) /\ Totals(q, dx, t) /\ H \cap T = {}
  BY DEF T, dx, dy
<1>5. Looping(pass, cs, size, q, H, T, dx, dy, t, z)
  BY <1>1, <1>2, <1>3, <1>4 DEF Looping
<1>6. base \in Put(cs, size, H, w + t[Len(q)], h + z[Len(q)])
  <2>1. h + z[Len(q)] = h
    BY <1>2
  <2> QED BY <2>1
<1>7. Ends(pass, base, q, Put(cs, size, H \cup T, w, h))
  BY <1>5, <1>6, LoopEnds
<1> QED BY <1>7 DEF T

LEMMA StillLoop ==
  ASSUME NEW D \in SUBSET Clients, NEW cs \in [D -> Records], NEW size \in Sizes,
         NEW q, Lists(q, D), NEW H \in SUBSET D, NEW T \in SUBSET D,
         NEW pass, OneStep(pass, cs, size, T, Due(cs, {}, "width"), Due(cs, {}, "height")),
         H \cap T = {},
         NEW w \in Nat, NEW h \in Nat, NEW base \in Put(cs, size, H, w, h)
  PROVE  Ends(pass, base, q, Put(cs, size, H \cup T, w, h))
<1> DEFINE dx == Due(cs, {}, "width")
           dy == Due(cs, {}, "height")
<1>1. q \in Seq(D) /\ DOMAIN cs = D
  BY DEF Lists
<1>2. PICK y : Totals(q, dx, y) /\ y[Len(q)] = 0
  BY <1>1, NoTotals
<1>3. PICK z : Totals(q, dy, z) /\ z[Len(q)] = 0
  BY <1>1, NoTotals
<1>4. dx \in [D -> Nat] /\ dy \in [D -> Nat]
  BY NoneDue
<1> HIDE DEF dx, dy
<1>5. OneStep(pass, cs, size, T, dx, dy)
  BY DEF dx, dy
<1>6. Looping(pass, cs, size, q, H, T, dx, dy, y, z)
  BY <1>1, <1>2, <1>3, <1>4, <1>5 DEF Looping
<1>7. base \in Put(cs, size, H, w + y[Len(q)], h + z[Len(q)])
  <2>1. w + y[Len(q)] = w /\ h + z[Len(q)] = h
    BY <1>2, <1>3
  <2> QED BY <2>1
<1> QED BY <1>6, <1>7, LoopEnds

\* The clients that take room, each at one edge.
Takers(cs) == {c \in DOMAIN cs : Takes(c, cs[c])}

LEMMA EdgesApart ==
  ASSUME NEW D \in SUBSET Clients, NEW cs \in [D -> Records], AllPlainIn(cs)
  PROVE  /\ \A e, f \in Edges \cup {"South"} : e # f => At(cs, e) \cap At(cs, f) = {}
         /\ Takers(cs) = At(cs, "EdgeNorth") \cup At(cs, "EdgeSouth") \cup At(cs, "EdgeWest")
                           \cup At(cs, "EdgeEast") \cup At(cs, "South")
<1>1. ASSUME NEW c \in D, Takes(c, cs[c])
      PROVE  \E e \in Edges \cup {"South"} :
               \A f \in Edges \cup {"South"} : f \in cs[c].hints <=> f = e
  <2>1. Plain(c, cs[c])
    BY DEF AllPlainIn
  <2>2. CASE Kind[c] = "Panel"
    <3>1. PICK e \in Edges : e \in cs[c].hints /\ cs[c].hints \subseteq {e, "Movable"}
      BY <1>1, <2>1, <2>2 DEF Plain, Takes, OneEdge
    <3>2. \A f \in Edges \cup {"South"} : f # "Movable"
      BY DEF Edges
    <3> QED BY <3>1, <3>2
  <2>3. CASE Kind[c] = "Input"
    <3>1. cs[c].hints = {"South"}
      BY <2>1, <2>3 DEF Plain
    <3> QED BY <3>1
  <2> QED BY <1>1, <2>2, <2>3 DEF Takes
<1>2. ASSUME NEW e \in Edges \cup {"South"}, NEW f \in Edges \cup {"South"}, e # f
      PROVE  At(cs, e) \cap At(cs, f) = {}
  BY <1>1, <1>2 DEF At
<1>3. \A c \in D : Takes(c, cs[c]) => \E e \in Edges \cup {"South"} : c \in At(cs, e)
  BY <1>1 DEF At
<1>4. \A e : At(cs, e) \subseteq Takers(cs)
  BY DEF At, Takers
<1>5. Edges \cup {"South"} = {"EdgeNorth", "EdgeSouth", "EdgeWest", "EdgeEast", "South"}
  BY DEF Edges
<1>6. \A c \in Takers(cs) : c \in D /\ Takes(c, cs[c])
  BY DEF Takers
<1> HIDE DEF At, Takers, Edges
<1>7. Takers(cs) \subseteq At(cs, "EdgeNorth") \cup At(cs, "EdgeSouth") \cup At(cs, "EdgeWest")
                           \cup At(cs, "EdgeEast") \cup At(cs, "South")
  <2> SUFFICES ASSUME NEW c \in Takers(cs)
               PROVE  c \in At(cs, "EdgeNorth") \cup At(cs, "EdgeSouth") \cup At(cs, "EdgeWest")
                              \cup At(cs, "EdgeEast") \cup At(cs, "South")
    OBVIOUS
  <2>1. PICK e \in Edges \cup {"South"} : c \in At(cs, e)
    BY <1>3, <1>6
  <2> QED BY <1>5, <2>1
<1> QED BY <1>2, <1>4, <1>7

\* What the panels and input methods of the stack q ask for fits the screen: f is the
\* height, or the width, of those at edge e, added up.
Asking(cs, q, e, f, n) == \E t : Totals(q, Due(cs, At(cs, e), f), t) /\ t[Len(q)] = n
Roomy(cs, q, size) ==
  \E n, s, k, w, e \in Nat :
    /\ Asking(cs, q, "EdgeNorth", "height", n) /\ Asking(cs, q, "EdgeSouth", "height", s)
    /\ Asking(cs, q, "South", "height", k)
    /\ Asking(cs, q, "EdgeWest", "width", w) /\ Asking(cs, q, "EdgeEast", "width", e)
    /\ n + s + k <= size.height /\ w + e <= size.width

LEMMA StartPut ==
  ASSUME NEW D \in SUBSET Clients, NEW cs \in [D -> Records], NEW size \in Sizes,
         NEW w \in Nat, NEW h \in Nat, w <= size.width, h <= size.height
  PROVE  Start(cs, size) \in Put(cs, size, {}, w, h)
<1> DEFINE a == Start(cs, size)
<1>1. /\ a.clients = cs /\ a.avail = Whole(size)
      /\ a = [clients |-> cs, avail |-> Whole(size), change |-> FALSE, screen |-> size]
  BY DEF Start, Whole
<1>2. cs \in Layouts(cs)
  BY SameIs DEF Layouts
<1> HIDE DEF a
<1>3. a \in Accs(Layouts(cs), size)
  BY <1>1, <1>2, WholeIs DEF Accs
<1>4. /\ a.avail.width >= w /\ a.avail.height >= h /\ Within(a.avail, Whole(size))
  <2>1. Whole(size).width = size.width /\ Whole(size).height = size.height
        /\ size.width \in Int /\ size.height \in Int
        /\ Whole(size).x = 0 /\ Whole(size).y = 0
    BY WholeIs DEF Sizes
  <2> QED BY <1>1, <2>1 DEF Within
<1>5. a \in Put(cs, size, {}, w, h)
  BY <1>1, <1>3, <1>4 DEF Put
<1> QED BY <1>5 DEF a

LEMMA PanelsPut ==
  ASSUME NEW D \in SUBSET Clients, NEW cs \in [D -> Records], NEW size \in Sizes,
         AllPlainIn(cs), NEW q, Lists(q, D),
         NEW n \in Nat, NEW s \in Nat, NEW w \in Nat, NEW e \in Nat, NEW k \in Nat,
         Asking(cs, q, "EdgeNorth", "height", n), Asking(cs, q, "EdgeSouth", "height", s),
         Asking(cs, q, "EdgeWest", "width", w), Asking(cs, q, "EdgeEast", "width", e),
         NEW a \in Put(cs, size, {}, w + e, n + s + k)
  PROVE  Panels(a, q) \in Put(cs, size, At(cs, "EdgeNorth") \cup At(cs, "EdgeSouth")
                                          \cup At(cs, "EdgeWest") \cup At(cs, "EdgeEast"), 0, k)
<1> DEFINE N == At(cs, "EdgeNorth")
           S == At(cs, "EdgeSouth")
           W == At(cs, "EdgeWest")
           E == At(cs, "EdgeEast")
<1>1. /\ N \in SUBSET D /\ S \in SUBSET D /\ W \in SUBSET D /\ E \in SUBSET D
  BY DueIs
<1>2. /\ {} \cap N = {} /\ N \cap S = {} /\ (N \cup S) \cap W = {}
      /\ (N \cup S \cup W) \cap E = {}
  <2>1. {"EdgeNorth", "EdgeSouth", "EdgeWest", "EdgeEast"} \subseteq Edges \cup {"South"}
    BY DEF Edges
  <2>2. N \cap S = {} /\ N \cap W = {} /\ S \cap W = {} /\ N \cap E = {} /\ S \cap E = {}
        /\ W \cap E = {}
    BY <2>1, EdgesApart
  <2> HIDE DEF N, S, W, E
  <2> QED BY <2>2
<1>3. /\ OneStep("EdgeNorth", cs, size, N, Due(cs, {}, "width"), Due(cs, N, "height"))
      /\ OneStep("EdgeSouth", cs, size, S, Due(cs, {}, "width"), Due(cs, S, "height"))
  BY NorthStep
<1>4. /\ OneStep("EdgeWest", cs, size, W, Due(cs, W, "width"), Due(cs, {}, "height"))
      /\ OneStep("EdgeEast", cs, size, E, Due(cs, E, "width"), Due(cs, {}, "height"))
  BY WestStep
<1>5. Over(EdgeNorth, a, q) \in Put(cs, size, {} \cup N, w + e, s + k)
  <2>1. PICK t : Totals(q, Due(cs, N, "height"), t) /\ t[Len(q)] = n
    BY DEF Asking
  <2>2. a \in Put(cs, size, {}, w + e, (s + k) + t[Len(q)])
    <3>1. (s + k) + t[Len(q)] = n + s + k
      BY <2>1
    <3> QED BY <3>1
  <2> DEFINE i == w + e
             j == s + k
             H == {}
  <2>3. i \in Nat /\ j \in Nat /\ H \in SUBSET D /\ H \cap N = {}
    OBVIOUS
  <2>4. a \in Put(cs, size, H, i, j + t[Len(q)])
    BY <2>2
  <2> HIDE DEF i, j, H
  <2>5. Ends("EdgeNorth", a, q, Put(cs, size, H \cup N, i, j))
    BY <1>3, <2>1, <2>3, <2>4, TallLoop
  <2> QED BY <2>5 DEF Ends, i, j, H
<1> DEFINE a1 == Over(EdgeNorth, a, q)
<1>6. Over(EdgeSouth, a1, q) \in Put(cs, size, N \cup S, w + e, k)
  <2>1. PICK t : Totals(q, Due(cs, S, "height"), t) /\ t[Len(q)] = s
    BY DEF Asking
  <2>2. a1 \in Put(cs, size, N, w + e, k + t[Len(q)])
    <3>1. k + t[Len(q)] = s + k /\ {} \cup N = N
      BY <2>1
    <3> QED BY <1>5, <3>1
  <2> DEFINE i == w + e
  <2>3. i \in Nat
    OBVIOUS
  <2>4. a1 \in Put(cs, size, N, i, k + t[Len(q)])
    BY <2>2
  <2> HIDE DEF i, a1
  <2>5. Ends("EdgeSouth", a1, q, Put(cs, size, N \cup S, i, k))
    BY <1>1, <1>2, <1>3, <2>1, <2>3, <2>4, TallLoop
  <2> QED BY <2>5 DEF Ends, i
<1> HIDE DEF a1
<1> DEFINE a2 == Over(EdgeSouth, a1, q)
<1>7. Over(EdgeWest, a2, q) \in Put(cs, size, N \cup S \cup W, e, k)
  <2>1. PICK t : Totals(q, Due(cs, W, "width"), t) /\ t[Len(q)] = w
    BY DEF Asking
  <2>2. a2 \in Put(cs, size, N \cup S, e + t[Len(q)], k)
    <3>1. e + t[Len(q)] = w + e
      BY <2>1
    <3> QED BY <1>6, <3>1
  <2> HIDE DEF a2
  <2>3. Ends("EdgeWest", a2, q, Put(cs, size, (N \cup S) \cup W, e, k))
    BY <1>1, <1>2, <1>4, <2>1, <2>2, LongLoop
  <2> QED BY <2>3 DEF Ends
<1> HIDE DEF a2
<1> DEFINE a3 == Over(EdgeWest, a2, q)
<1>8. Over(EdgeEast, a3, q) \in Put(cs, size, N \cup S \cup W \cup E, 0, k)
  <2>1. PICK t : Totals(q, Due(cs, E, "width"), t) /\ t[Len(q)] = e
    BY DEF Asking
  <2> DEFINE i == 0
  <2>2. a3 \in Put(cs, size, N \cup S \cup W, i + t[Len(q)], k) /\ i \in Nat
    <3>1. i + t[Len(q)] = e
      BY <2>1
    <3> QED BY <1>7, <3>1
  <2> HIDE DEF a3, i
  <2>3. Ends("EdgeEast", a3, q, Put(cs, size, (N \cup S \cup W) \cup E, i, k))
    BY <1>1, <1>2, <1>4, <2>1, <2>2, LongLoop
  <2> QED BY <2>3 DEF Ends, i
<1> HIDE DEF a3
<1>9. Panels(a, q) = Over(EdgeEast, a3, q)
  BY DEF Panels, a3, a2, a1
<1> QED BY <1>8, <1>9

LEMMA InputsPut ==
  ASSUME NEW D \in SUBSET Clients, NEW cs \in [D -> Records], NEW size \in Sizes,
         AllPlainIn(cs), NEW q, Lists(q, D),
         NEW k \in Nat, Asking(cs, q, "South", "height", k),
         NEW H \in SUBSET D, H \cap At(cs, "South") = {},
         NEW a \in Put(cs, size, H, 0, k)
  PROVE  Inputs(a, q) \in Put(cs, size, H \cup At(cs, "South"), 0, 0)
<1> DEFINE T == At(cs, "South")
           G == H \cup T
           z == 0
           a0 == [a EXCEPT !.change = FALSE]
           a1 == Over(InputNorth, a0, q)
           a2 == Over(InputSouth, a1, q)
           a3 == Over(InputWest, a2, q)
           a4 == Over(InputEast, a3, q)
<1>1. T \in SUBSET D /\ G \in SUBSET D /\ z \in Nat /\ {} \in SUBSET D
  BY DueIs
<1>2. \A X : X \cap {} = {} /\ X \cup {} = X
  OBVIOUS
<1> HIDE DEF z
<1>3. a0 \in Put(cs, size, H, z, k)
  <2>1. a \in Accs(Layouts(cs), size)
    BY DEF Put
  <2>2. a0 \in Accs(Layouts(cs), size) /\ a0.avail = a.avail /\ a0.clients = a.clients
    BY <2>1 DEF Accs
  <2>3. a \in Put(cs, size, H, z, k)
    BY DEF z
  <2> HIDE DEF a0
  <2>4. \A d \in {} : ~Takes(d, cs[d])
    OBVIOUS
  <2>5. a0 \in Put(cs, size, H \cup {}, z, k)
    BY <2>2, <2>3, <2>4, PutSame
  <2> QED BY <1>2, <2>5
<1> HIDE DEF a0
<1>4. /\ OneStep("InputNorth", cs, size, {}, Due(cs, {}, "width"), Due(cs, {}, "height"))
      /\ OneStep("InputWest", cs, size, {}, Due(cs, {}, "width"), Due(cs, {}, "height"))
      /\ OneStep("InputEast", cs, size, {}, Due(cs, {}, "width"), Due(cs, {}, "height"))
  BY IdleStep
<1>5. OneStep("InputSouth", cs, size, T, Due(cs, {}, "width"), Due(cs, T, "height"))
  BY InputStep
<1>6. a1 \in Put(cs, size, H, z, k)
  <2>1. Ends("InputNorth", a0, q, Put(cs, size, H \cup {}, z, k))
    BY <1>1, <1>2, <1>3, <1>4, StillLoop
  <2> QED BY <1>2, <2>1 DEF Ends
<1> HIDE DEF a1
<1>7. a2 \in Put(cs, size, G, z, z)
  <2>1. PICK t : Totals(q, Due(cs, T, "height"), t) /\ t[Len(q)] = k
    BY DEF Asking
  <2>2. a1 \in Put(cs, size, H, z, z + t[Len(q)])
    <3>1. z + t[Len(q)] = k
      BY <2>1 DEF z
    <3> QED BY <1>6, <3>1
  <2>3. Ends("InputSouth", a1, q, Put(cs, size, H \cup T, z, z))
    BY <1>1, <1>5, <2>1, <2>2, TallLoop
  <2> QED BY <2>3 DEF Ends
<1> HIDE DEF a2, G
<1>8. a3 \in Put(cs, size, G, z, z)
  <2>1. Ends("InputWest", a2, q, Put(cs, size, G \cup {}, z, z))
    BY <1>1, <1>2, <1>4, <1>7, StillLoop
  <2> QED BY <1>2, <2>1 DEF Ends
<1> HIDE DEF a3
<1>9. a4 \in Put(cs, size, G, z, z)
  <2>1. Ends("InputEast", a3, q, Put(cs, size, G \cup {}, z, z))
    BY <1>1, <1>2, <1>4, <1>8, StillLoop
  <2> QED BY <1>2, <2>1 DEF Ends
<1>10. a4 = Inputs(a, q)
  BY DEF Inputs, a3, a2, a1, a0
<1> HIDE DEF a4
<1> QED BY <1>9, <1>10 DEF G, z

\* When the applications have grown, every panel and input method has its place.
LEMMA GrownPut ==
  ASSUME NEW D \in SUBSET Clients, NEW cs \in [D -> Records], NEW size \in Sizes,
         AllPlainIn(cs), NEW q, Lists(q, D), Roomy(cs, q, size)
  PROVE  Grown(cs, q, size) \in Put(cs, size, Takers(cs), 0, 0)
<1> DEFINE N == At(cs, "EdgeNorth")
           S == At(cs, "EdgeSouth")
           W == At(cs, "EdgeWest")
           E == At(cs, "EdgeEast")
           K == At(cs, "South")
           H == N \cup S \cup W \cup E
<1>1. PICK n \in Nat, s \in Nat, k \in Nat, w \in Nat, e \in Nat :
    /\ Asking(cs, q, "EdgeNorth", "height", n) /\ Asking(cs, q, "EdgeSouth", "height", s)
    /\ Asking(cs, q, "South", "height", k)
    /\ Asking(cs, q, "EdgeWest", "width", w) /\ Asking(cs, q, "EdgeEast", "width", e)
    /\ n + s + k <= size.height /\ w + e <= size.width
  BY DEF Roomy
<1>2. Start(cs, size) \in Put(cs, size, {}, w + e, n + s + k)
  <2> DEFINE i == w + e
             j == n + s + k
  <2>1. i \in Nat /\ j \in Nat /\ i <= size.width /\ j <= size.height
    BY <1>1
  <2> HIDE DEF i, j
  <2>2. Start(cs, size) \in Put(cs, size, {}, i, j)
    BY <2>1, StartPut
  <2> QED BY <2>2 DEF i, j
<1>3. Panels(Start(cs, size), q) \in Put(cs, size, H, 0, k)
  BY <1>1, <1>2, PanelsPut
<1>4. H \in SUBSET D /\ H \cap K = {} /\ H \cup K = Takers(cs) /\ Takers(cs) \in SUBSET D
  <2>1. N \in SUBSET D /\ S \in SUBSET D /\ W \in SUBSET D /\ E \in SUBSET D /\ K \in SUBSET D
    BY DueIs
  <2>2. Takers(cs) = N \cup S \cup W \cup E \cup K
    BY EdgesApart
  <2>3. {"EdgeNorth", "EdgeSouth", "EdgeWest", "EdgeEast", "South"} = Edges \cup {"South"}
    BY DEF Edges
  <2>4. N \cap K = {} /\ S \cap K = {} /\ W \cap K = {} /\ E \cap K = {}
    BY <2>3, EdgesApart
  <2> HIDE DEF N, S, W, E, K
  <2> QED BY <2>1, <2>2, <2>4
<1>5. Reached(cs, q, size) \in Put(cs, size, Takers(cs), 0, 0)
  <2>1. Inputs(Panels(Start(cs, size), q), q) \in Put(cs, size, H \cup K, 0, 0)
    <3> DEFINE p == Panels(Start(cs, size), q)
    <3>1. p \in Put(cs, size, H, 0, k)
      BY <1>3
    <3> HIDE DEF p, H
    <3>2. Inputs(p, q) \in Put(cs, size, H \cup K, 0, 0)
      BY <1>1, <1>4, <3>1, InputsPut
    <3> QED BY <3>2 DEF p
  <2> QED BY <1>4, <2>1 DEF Reached
<1> HIDE DEF H, K
<1>6. OneStep("Grow", cs, size, {}, Due(cs, {}, "width"), Due(cs, {}, "height"))
  BY IdleStep
<1> DEFINE z == 0
           a == Reached(cs, q, size)
           T == Takers(cs)
<1>7. z \in Nat /\ a \in Put(cs, size, T, z, z) /\ T \in SUBSET D /\ {} \in SUBSET D
      /\ T \cap {} = {} /\ T \cup {} = T
  BY <1>4, <1>5
<1> HIDE DEF z, a, T
<1>8. Ends("Grow", a, q, Put(cs, size, T \cup {}, z, z))
  BY <1>6, <1>7, StillLoop
<1>9. Over(Grow, a, q) \in Put(cs, size, T, z, z)
  BY <1>7, <1>8 DEF Ends
<1> QED BY <1>9 DEF z, a, T, Grown

\* The dialogs take nothing of it, and the loop for fullscreen clients touches neither.
LEMMA FreedPut ==
  ASSUME NEW D \in SUBSET Clients, NEW cs \in [D -> Records], NEW size \in Sizes,
         AllPlainIn(cs), NEW q, Lists(q, D), Roomy(cs, q, size)
  PROVE  Over(Free, Grown(cs, q, size), q) \in Put(cs, size, Takers(cs) \cup Framed(cs), 0, 0)
<1> DEFINE z == 0
           a == Grown(cs, q, size)
           T == Takers(cs)
           F == Framed(cs)
<1>1. z \in Nat /\ a \in Put(cs, size, T, z, z)
  BY GrownPut
<1>2. T \in SUBSET D /\ F \in SUBSET D /\ T \cap F = {}
  BY DEF Takers, Framed, Takes
<1>3. OneStep("Free", cs, size, F, Due(cs, {}, "width"), Due(cs, {}, "height"))
  BY FreeStep
<1> HIDE DEF z, a, T, F
<1>4. Ends("Free", a, q, Put(cs, size, T \cup F, z, z))
  BY <1>1, <1>2, <1>3, StillLoop
<1>5. Over(Free, a, q) \in Put(cs, size, T \cup F, z, z)
  BY <1>4 DEF Ends
<1> QED BY <1>5 DEF z, a, T, F

LEMMA UpdatedKeeps ==
  ASSUME NEW D \in SUBSET Clients, NEW cs \in [D -> Records], NEW size \in Sizes,
         AllPlainIn(cs), NEW q, Lists(q, D)
  PROVE  \A c \in Takers(cs) \cup Framed(cs) :
           Updated(cs, q, size)[c] = Over(Free, Grown(cs, q, size), q).clients[c]
<1> DEFINE P == Layouts(cs)
           b == Over(Free, Grown(cs, q, size), q)
           f == Filling(cs, q, size)
           V == Takers(cs) \cup Framed(cs)
           G == {a \in Accs(P, size) : \A c \in V : a.clients[c] = b.clients[c]}
           I == [m \in 0..Len(q) |-> G]
<1>1. q \in Seq(D) /\ Closed(P, D, size) /\ cs \in P
  <2>1. cs \in Layouts(cs)
    BY SameIs DEF Layouts
  <2>2. Closed(Layouts(cs), D, size)
    BY LayoutsClosed
  <2>3. q \in Seq(D)
    BY DEF Lists
  <2> QED BY <2>1, <2>2, <2>3
<1>2. Grown(cs, q, size) \in Accs(P, size) /\ f \in Accs(P, size)
  <2> HIDE DEF P, f
  <2> QED BY <1>1, UpdatedIn DEF f
<1>3. b \in Accs(P, size)
  <2> DEFINE g == Grown(cs, q, size)
  <2>1. g \in Accs(P, size)
    BY <1>2
  <2> HIDE DEF P, g
  <2>2. Over(Free, g, q) \in Accs(P, size)
    BY <1>1, <2>1, PassIs
  <2> QED BY <2>2 DEF g
<1>4. f.clients = b.clients
  BY <1>3 DEF Filling, Accs
<1>5. \A c \in V : c \in D /\ Hints(cs[c]) # {"Fullscreen"}
  <2> SUFFICES ASSUME NEW c \in V PROVE c \in D /\ Hints(cs[c]) # {"Fullscreen"}
    OBVIOUS
  <2>1. c \in D /\ c \in Watched(cs)
    BY DEF Takers, Framed, Watched
  <2>2. Plain(c, cs[c])
    BY <2>1 DEF AllPlainIn
  <2>3. Hints(cs[c]) = cs[c].hints
    BY <2>1, <2>2 DEF Watched, Takes, Plain, Hints
  <2>4. CASE Kind[c] = "Panel"
    <3>1. "Overlaps" \notin cs[c].hints
      BY <2>1, <2>4 DEF Watched, Takes
    <3>2. PICK e \in Edges : e \in cs[c].hints
      BY <2>2, <2>4, <3>1 DEF Plain, OneEdge
    <3>3. e # "Fullscreen"
      BY DEF Edges
    <3> QED BY <2>1, <2>3, <3>2, <3>3
  <2>5. CASE Kind[c] # "Panel"
    <3>1. cs[c].hints \in {{"South"}, {"Free", "Movable"}}
      BY <2>1, <2>2, <2>5 DEF Watched, Takes, Plain
    <3> QED BY <2>1, <2>3, <3>1
  <2> QED BY <2>4, <2>5
<1> HIDE DEF b, f, V
<1>6. I[0] = G /\ I[Len(q)] = G /\ f \in G /\ \A m \in 1..Len(q) : I[m - 1] = G /\ I[m] = G
  <2>1. Len(q) \in Nat
    BY <1>1
  <2>2. 0 \in 0..Len(q) /\ Len(q) \in 0..Len(q)
        /\ \A m \in 1..Len(q) : m - 1 \in 0..Len(q) /\ m \in 0..Len(q)
    BY <2>1
  <2>3. f \in G
    BY <1>2, <1>4
  <2> HIDE DEF G
  <2> QED BY <2>2, <2>3
<1>7. Leads("Fullscreen", q, I)
  <2> SUFFICES ASSUME NEW m \in 1..Len(q), NEW a \in G
               PROVE  Step("Fullscreen", a, q[m]) \in G
    <3> HIDE DEF G, I
    <3> QED BY <1>6 DEF Leads
  <2> DEFINE e == q[m]
  <2>1. e \in D /\ a \in Accs(P, size) /\ \A c \in V : a.clients[c] = b.clients[c]
    BY <1>1
  <2>2. \A c \in V : Hints(a.clients[c]) # {"Fullscreen"}
    BY <1>5, <2>1, SameHints
  <2>3. \A c \in V : Fullscreen(a, e).clients[c] = a.clients[c]
    BY <1>5, <2>1, <2>2, TouchesOnly
  <2> HIDE DEF e
  <2>4. Fullscreen(a, e) \in Accs(P, size)
    <3> HIDE DEF P
    <3> QED BY <1>1, <2>1, FullscreenIs
  <2>5. Fullscreen(a, e) \in G
    BY <2>1, <2>3, <2>4
  <2>6. Step("Fullscreen", a, e) = Fullscreen(a, e)
    BY DEF Step
  <2> QED BY <2>5, <2>6 DEF e
<1> HIDE DEF I
<1>8. Over(Fullscreen, f, q) \in G
  <2>1. Over(Fullscreen, f, q) \in I[Len(q)]
    BY <1>1, <1>6, <1>7, FullscreenLeads
  <2> QED BY <1>6, <2>1
<1>9. Updated(cs, q, size) = Over(Fullscreen, f, q).clients
  BY UpdatedBy DEF f
<1> QED BY <1>8, <1>9 DEF V, b

\* The hypotheses of ReservedStayApart, besides FillsApps: no window has a negative size, a
\* theme puts a panel at one edge or lets it overlap the others, and when a layout is due
\* the panels and input methods fit the screen.
Sized == \A c \in Clients : \A g \in Opening[c] \cup Wanted[c] : NonNeg(g)
PlainThemes ==
  \A c \in Clients : Kind[c] = "Panel" =>
    \/ Prescribed[c].hints = {} \/ OneEdge(Prescribed[c].hints)
    \/ "Overlaps" \in Prescribed[c].hints
RoomEnough == "Geometry" \in sync => Roomy(clients, order, screen)

AllPlain == AllPlainIn(clients)

\* While no layout is due.
Separate ==
  "Geometry" \notin sync =>
    \A c \in Sharing(clients) :
      /\ Within(Cover(c), Whole(screen))
      /\ \A d \in Sharing(clients) : d # c => Apart(Cover(c), Cover(d))

\* What the sync does after the layout moves none of those that take room.
LEMMA TakenStays ==
  ASSUME Types, AllPlain, NEW c \in Managed, Takes(c, clients[c])
  PROVE  LET q == Refreshed(Realized(Laid))[c]
         IN /\ Coverage(q) = Coverage(Laid[c]) /\ Coverage(q) = q.window
            /\ ~q.framed
<1> DEFINE l == Laid[c]
           e == Realized(Laid)[c]
           q == Refreshed(Realized(Laid))[c]
<1>1. /\ clients[c] \in Records /\ l \in Records /\ Relaid(clients[c], l)
      /\ Plain(c, clients[c]) /\ Kind[c] \in {"Panel", "Input"}
  BY LaidIs DEF Types, Layouts, Managed, AllPlain, AllPlainIn, Takes
<1>2. /\ e = [l EXCEPT !.realized = TRUE,
                       !.framed = Kind[c] \notin {"Panel", "Input"} /\ c \in Decorated]
      /\ q = Refilled(c, e)
  BY DEF Realized, Refreshed
<1> HIDE DEF l, e, q
<1>3. "Fullscreen" \notin l.dirty /\ ~l.framed
  BY <1>1 DEF Plain, Relaid
<1>4. ~e.framed /\ e.window = l.window /\ e.dirty = l.dirty
  <2> DEFINE d == [l EXCEPT !.realized = TRUE]
             h == Kind[c] \notin {"Panel", "Input"} /\ c \in Decorated
  <2>1. d \in Records /\ d.window = l.window /\ d.dirty = l.dirty
    BY <1>1 DEF Records
  <2>2. h = FALSE
    BY <1>1
  <2>3. e = [d EXCEPT !.framed = h]
    BY <1>2
  <2> HIDE DEF d, h
  <2> QED BY <2>1, <2>2, <2>3 DEF Records
<1>5. q = e
  BY <1>2, <1>3, <1>4 DEF Refilled
<1> QED BY <1>3, <1>4, <1>5 DEF Coverage, l, q

\* A layout puts those that share the screen beside each other.
LEMMA LaidApart ==
  ASSUME Types, AllPlain, "Geometry" \in sync, Roomy(clients, order, screen)
  PROVE  /\ \A c \in Managed : Takes(c, clients[c]) => NonNeg(Coverage(Laid[c]))
         /\ \A c \in Sharing(clients) :
              /\ Within(Coverage(Laid[c]), Whole(screen))
              /\ \A d \in Sharing(clients) : d # c => Apart(Coverage(Laid[c]), Coverage(Laid[d]))
<1> DEFINE D == Managed
           cs == clients
           b == Over(Free, Grown(clients, order, screen), order)
           T == Takers(clients) \cup Framed(clients)
<1>1. /\ D \in SUBSET Clients /\ cs \in [D -> Records] /\ screen \in Sizes
      /\ Lists(order, D) /\ AllPlainIn(cs) /\ DOMAIN cs = D
  BY DEF Types, Listed, Lists, AllPlain, Managed
<1>2. b \in Put(clients, screen, T, 0, 0)
  BY <1>1, FreedPut
<1>3. \A c \in T : Laid[c] = b.clients[c]
  <2>1. Laid = Updated(clients, order, screen)
    BY DEF Laid
  <2> QED BY <1>1, <2>1, UpdatedKeeps
<1>4. /\ \A c \in Managed : Takes(c, clients[c]) => c \in T
      /\ \A c \in Sharing(clients) : c \in T
  BY DEF Takers, Sharing, Managed
<1> HIDE DEF b, T
<1> QED BY <1>2, <1>3, <1>4 DEF Put

LEMMA SyncSeparates ==
  ASSUME Types, AllPlain, Separate, RoomEnough, Sync
  PROVE  AllPlain' /\ Separate'
<1> DEFINE q(c) == Refreshed(Realized(Laid))[c]
<1>1. /\ clients \in [Managed -> Records] /\ clients' \in [Managed -> Records]
      /\ Managed' = Managed /\ screen' = screen /\ DOMAIN clients' = Managed
      /\ DOMAIN clients = Managed
  BY SyncIs DEF Types
<1>2. ASSUME NEW c \in Managed
      PROVE  /\ Ready(c, clients[c], q(c)) /\ clients'[c] = Synced(q(c))
             /\ Plain(c, clients[c])
  BY SyncIs, <1>1 DEF AllPlain, AllPlainIn
<1> HIDE DEF q
<1>3. ASSUME NEW c \in Managed
      PROVE  LET r == clients[c]
                 p == clients'[c]
             IN /\ p.hints = r.hints /\ p.full = r.full /\ p.parent = r.parent
                /\ p.dirty = {} /\ p.framed = HasFrame(c) /\ p.window = q(c).window
                /\ p.framed = q(c).framed /\ p.frame = q(c).frame
  <2> DEFINE s == q(c)
  <2>1. Ready(c, clients[c], s) /\ clients'[c] = Synced(s) /\ s \in Records
    BY <1>2 DEF Ready
  <2> HIDE DEF s
  <2> QED BY <2>1, SyncedIs DEF Ready, s
<1>4. ASSUME NEW c \in Managed, Takes(c, clients[c])
      PROVE  /\ Coverage(clients'[c]) = Coverage(Laid[c])
             /\ clients'[c].window = Coverage(Laid[c])
  <2>1. /\ Coverage(q(c)) = Coverage(Laid[c]) /\ Coverage(q(c)) = q(c).window
        /\ ~q(c).framed
    BY <1>4, TakenStays DEF q
  <2> QED BY <1>3, <2>1 DEF Coverage
<1>5. /\ \A c \in Managed : Takes(c, clients[c]) => NonNeg(Coverage(Laid[c]))
      /\ \A c \in Sharing(clients) :
           /\ Within(Coverage(Laid[c]), Whole(screen))
           /\ \A d \in Sharing(clients) : d # c => Apart(Coverage(Laid[c]), Coverage(Laid[d]))
  <2>1. CASE "Geometry" \in sync
    BY <2>1, LaidApart DEF RoomEnough
  <2>2. CASE "Geometry" \notin sync
    <3>1. Laid = clients
      BY <2>2 DEF Laid
    <3>2. \A c \in Managed : Takes(c, clients[c]) => NonNeg(Coverage(clients[c]))
      BY <1>2 DEF Plain, Takes, Coverage
    <3> QED BY <2>2, <3>1, <3>2 DEF Separate, Cover
  <2> QED BY <2>1, <2>2
<1>6. \A c \in Sharing(clients) : /\ c \in Managed /\ Takes(c, clients[c])
                                  /\ Coverage(clients'[c]) = Coverage(Laid[c])
  BY <1>1, <1>4 DEF Sharing
<1>7. Sharing(clients') = Sharing(clients)
  <2>1. \A c \in Managed : Takes(c, clients'[c]) <=> Takes(c, clients[c])
    BY <1>3 DEF Takes
  <2>2. \A c \in Managed : clients'[c].parent = clients[c].parent
                           /\ clients'[c].full = clients[c].full
    BY <1>3
  <2> QED BY <1>1, <2>1, <2>2 DEF Sharing
<1>8. ASSUME NEW c \in Managed PROVE Plain(c, clients'[c])
  <2> DEFINE p == clients'[c]
             r == clients[c]
  <2>1. /\ p.hints = r.hints /\ p.full = r.full /\ p.dirty = {} /\ p.framed = HasFrame(c)
    BY <1>3
  <2>2. Takes(c, p) => NonNeg(p.window)
    <3>1. Takes(c, p) => Takes(c, r)
      BY <2>1 DEF Takes
    <3> QED BY <1>4, <1>5, <3>1
  <2>3. Plain(c, r)
    BY <1>2
  <2> HIDE DEF p, r
  <2>4. Plain(c, p)
    BY <2>1, <2>2, <2>3 DEF Plain, HasFrame
  <2> QED BY <2>4 DEF p
<1>9. AllPlain'
  BY <1>1, <1>8 DEF AllPlain, AllPlainIn
<1>10. Separate'
  <2>1. \A c \in Sharing(clients) :
          /\ Within(Coverage(clients'[c]), Whole(screen))
          /\ \A d \in Sharing(clients) :
               d # c => Apart(Coverage(clients'[c]), Coverage(clients'[d]))
    BY <1>5, <1>6
  <2> QED BY <1>1, <1>7, <2>1 DEF Separate, Cover
<1> QED BY <1>9, <1>10

LEMMA PanelPlain ==
  ASSUME PlainThemes, Sized, NEW c \in Clients, Kind[c] = "Panel", NEW g \in Opening[c],
         NEW r \in Records, r.window = g
  PROVE  /\ OneEdge(PanelInit(r, c).hints) \/ "Overlaps" \in PanelInit(r, c).hints
         /\ NonNeg(PanelInit(r, c).window)
<1> DEFINE w == ThemeGeometry(c, r.window)
           edge == IF w.width > w.height
                   THEN IF w.y < screen.height \div 2 THEN "EdgeNorth" ELSE "EdgeSouth"
                   ELSE IF w.x < screen.width \div 2 THEN "EdgeWest" ELSE "EdgeEast"
           h == IF ThemeHints(c) = {} THEN {edge} ELSE ThemeHints(c)
<1>1. g \in Rects /\ NonNeg(g) /\ Prescribed[c].geometry \in Rects
  BY LayoutAssumption DEF Sized
<1>2. NonNeg(w)
  <2> DEFINE p == Prescribed[c].geometry
  <2>1. w.width = IF p.width < 0 THEN g.width ELSE p.width
    BY DEF ThemeGeometry, Fields
  <2>2. w.height = IF p.height < 0 THEN g.height ELSE p.height
    BY DEF ThemeGeometry, Fields
  <2>3. p.width \in Int /\ p.height \in Int /\ g.width \in Int /\ g.height \in Int
    BY <1>1, RectFields
  <2> HIDE DEF w, p
  <2> QED BY <1>1, <2>1, <2>2, <2>3 DEF NonNeg
<1>3. edge \in Edges
  BY DEF Edges
<1> HIDE DEF w, edge
<1>4. OneEdge({edge})
  BY <1>3 DEF OneEdge
<1>5. OneEdge(h) \/ "Overlaps" \in h
  BY <1>4 DEF PlainThemes, ThemeHints
<1> HIDE DEF h
<1>6. PanelInit(r, c) = [r EXCEPT !.window = w, !.hints = h]
  BY DEF PanelInit, w, h, edge
<1>7. PanelInit(r, c).window = w /\ PanelInit(r, c).hints = h
  BY <1>6 DEF Records
<1> QED BY <1>2, <1>5, <1>7

LEMMA OpenedPlain ==
  ASSUME PlainThemes, Sized, NEW c \in Clients, NEW g \in Opening[c],
         Managed \subseteq Clients, screen \in Sizes
  PROVE  Plain(c, Opened(c, g))
<1> DEFINE t == IF For[c] \in Managed THEN For[c] ELSE NULL
           r == Fresh(g, t)
           o == Opened(c, g)
<1> SUFFICES Plain(c, o)
  OBVIOUS
<1>1. g \in Rects /\ NonNeg(g)
  BY LayoutAssumption DEF Sized
<1>2. NewRecord(r, t) /\ r.window = g
  <2>1. t \in Clients \cup {NULL}
    OBVIOUS
  <2> HIDE DEF t
  <2> QED BY <1>1, <2>1, FreshIs
<1> HIDE DEF t, r
<1>3. NewRecord(o, t)
  BY <1>1, OpenedIs DEF t
<1>4. Kind[c] \in {"App", "Desktop", "Dialog", "Note", "Panel", "Input", "Menu"}
  BY LayoutAssumption
<1>5. o = CASE Kind[c] = "App" -> AppInit(r, c)
            [] Kind[c] = "Desktop" -> DesktopInit(r, c)
            [] Kind[c] = "Dialog" -> DialogInit(r, c)
            [] Kind[c] = "Note" -> NoteInit(r, c)
            [] Kind[c] = "Panel" -> PanelInit(r, c)
            [] Kind[c] = "Input" -> InputInit(r, c)
            [] Kind[c] = "Menu" -> MenuInit(r, c)
  BY DEF Opened, r, t
<1> HIDE DEF o
<1>6. ~o.framed /\ ~o.full /\ "Fullscreen" \notin o.dirty
  BY <1>3 DEF NewRecord
<1>7. r \in Records
  BY <1>2 DEF NewRecord
<1>8. CASE Kind[c] = "App"
  <2>1. o = AppInit(r, c)
    BY <1>5, <1>8
  <2>2. o.hints = {"Grow"}
    BY <1>2, <2>1, AppInitIs
  <2> QED BY <1>6, <1>8, <2>2 DEF Plain, Takes
<1>9. CASE Kind[c] = "Desktop"
  <2>1. o = DesktopInit(r, c)
    BY <1>5, <1>9
  <2>2. o.hints = {"Fullscreen"}
    <3> DEFINE p == [r EXCEPT !.hints = {"Fullscreen"}]
               a == Inside(c, Rect(0, 0, screen.width, screen.height))
               b == Rect(0, 0, screen.width, screen.height)
    <3>1. p.hints = {"Fullscreen"} /\ p \in Records
      BY <1>7 DEF Records, AllHints
    <3>2. o = Given(p, a, b)
      BY <2>1 DEF DesktopInit, DesktopRequest
    <3> HIDE DEF p, a, b
    <3> QED BY <3>1, <3>2 DEF Given, Records
  <2> QED BY <1>6, <1>9, <2>2 DEF Plain, Takes
<1>10. CASE Kind[c] = "Dialog"
  <2>1. o = DialogInit(r, c)
    BY <1>5, <1>10
  <2>2. o.hints = {"Free", "Movable"}
    BY <1>2, <2>1, DialogInitIs
  <2> QED BY <1>6, <1>10, <2>2 DEF Plain, Takes
<1>11. CASE Kind[c] = "Note"
  <2>1. o = NoteInit(r, c)
    BY <1>5, <1>11
  <2>2. o.hints = {"Free", "Movable"}
    BY <1>2, <2>1, NoteInitIs
  <2> QED BY <1>6, <1>11, <2>2 DEF Plain, Takes
<1>12. CASE Kind[c] = "Panel"
  <2>1. o = PanelInit(r, c)
    BY <1>5, <1>12
  <2>2. (OneEdge(o.hints) \/ "Overlaps" \in o.hints) /\ NonNeg(o.window)
    BY <1>2, <1>7, <1>12, <2>1, PanelPlain
  <2> QED BY <1>6, <1>12, <2>2 DEF Plain, Takes
<1>13. CASE Kind[c] = "Input"
  <2>1. o = InputInit(r, c)
    BY <1>5, <1>13
  <2>2. o.hints = {"South"}
    BY <1>2, <2>1, InputInitIs
  <2>3. o.window = g
    BY <1>2, <1>7, <2>1 DEF InputInit, Records
  <2> QED BY <1>1, <1>6, <1>13, <2>2, <2>3 DEF Plain, Takes
<1>14. CASE Kind[c] = "Menu"
  <2>1. o = MenuInit(r, c)
    BY <1>5, <1>14
  <2>2. o.hints = {"Free", "FixedX", "FixedY"}
    BY <1>2, <2>1, MenuInitIs
  <2> QED BY <1>6, <1>14, <2>2 DEF Plain, Takes
<1> QED BY <1>4, <1>8, <1>9, <1>10, <1>11, <1>12, <1>13, <1>14

LEMMA PlainFrom ==
  ASSUME NEW c, NEW r, NEW q, Plain(c, r), q.hints = r.hints, q.framed = r.framed,
         Kind[c] = "App" \/ (q.full = r.full /\ ("Fullscreen" \in q.dirty => "Fullscreen" \in r.dirty)),
         Takes(c, r) => q.window = r.window \/ NonNeg(q.window)
  PROVE  Plain(c, q)
<1>1. Takes(c, q) <=> Takes(c, r)
  BY DEF Takes
<1>2. Takes(c, q) => NonNeg(q.window)
  BY <1>1 DEF Plain
<1> QED BY <1>2 DEF Plain

\* What a panel or an input method asks for has the size it asked for.
LEMMA AskedSize ==
  ASSUME NEW r \in Records, NEW c, Kind[c] \in {"Panel", "Input"}, NEW g \in Rects, NEW s
  PROVE  LET q == Requested(r, c, g, "Configure", s)
         IN q.window = r.window \/ q.window = g
<1>1. CASE Kind[c] = "Panel"
  <2>1. Requested(r, c, g, "Configure", s) = PanelRequest(r, c, g, "Configure")
    BY <1>1 DEF Requested
  <2>2. Given(r, g, r.frame).window = g
    BY GivenIs, RecordFields
  <2> QED BY <2>1, <2>2 DEF PanelRequest
<1>2. CASE Kind[c] = "Input"
  <2>1. Requested(r, c, g, "Configure", s) = InputRequest(r, c, g, "Configure")
    BY <1>2 DEF Requested
  <2> QED BY <2>1, GivenIs DEF InputRequest
<1> QED BY <1>1, <1>2

\* A step that moves no client, sizes none and fills none.
LEMMA SeparateFrom ==
  ASSUME Separate, "Geometry" \notin sync, NEW D \in SUBSET Managed, Managed' = D,
         \A c \in D : /\ clients'[c].full = clients[c].full
                      /\ clients'[c].hints = clients[c].hints
                      /\ clients'[c].parent \in {clients[c].parent, NULL}
                      /\ Coverage(clients'[c]) = Coverage(clients[c]),
         NULL \notin Managed, screen' = screen
  PROVE  Separate'
<1>1. DOMAIN clients' = D /\ DOMAIN clients = Managed
  BY DEF Managed
<1>2. ASSUME NEW c \in Sharing(clients') PROVE c \in D /\ c \in Sharing(clients)
  <2>1. c \in D /\ Takes(c, clients'[c])
        /\ (Kind[c] = "Input" => clients'[c].parent \in D /\ ~clients'[clients'[c].parent].full)
    BY <1>1 DEF Sharing
  <2>2. Takes(c, clients[c])
    BY <2>1 DEF Takes
  <2>3. Kind[c] = "Input" => clients[c].parent \in Managed /\ ~clients[clients[c].parent].full
    BY <2>1
  <2> QED BY <1>1, <2>1, <2>2, <2>3 DEF Sharing
<1>3. \A c \in D : Cover(c)' = Cover(c)
  BY DEF Cover
<1>4. \A c \in Sharing(clients) :
        /\ Within(Cover(c), Whole(screen))
        /\ \A d \in Sharing(clients) : d # c => Apart(Cover(c), Cover(d))
  BY DEF Separate
<1>5. \A c \in Sharing(clients') :
        /\ Within(Cover(c)', Whole(screen))
        /\ \A d \in Sharing(clients') : d # c => Apart(Cover(c)', Cover(d)')
  BY <1>2, <1>3, <1>4
<1> QED BY <1>5 DEF Separate

LEMMA SeparateStep ==
  ASSUME FillsApps, Sized, PlainThemes, Types, AllPlain, Separate, RoomEnough, [Next]_vars
  PROVE  AllPlain' /\ Separate'
<1>1. /\ clients \in [Managed -> Records] /\ NULL \notin Managed /\ DOMAIN clients = Managed
      /\ \A c \in Managed : Plain(c, clients[c]) /\ clients[c] \in Records
  BY LayoutAssumption DEF Types, AllPlain, AllPlainIn
<1>2. ASSUME Sync PROVE AllPlain' /\ Separate'
  BY <1>2, SyncSeparates
<1>3. ASSUME HandleRootConfigNotify PROVE AllPlain' /\ Separate'
  <2>1. clients' = clients /\ "Geometry" \in sync'
    BY <1>3 DEF HandleRootConfigNotify
  <2> QED BY <2>1 DEF AllPlain, Separate
<1>4. ASSUME NEW c \in Clients, NEW g \in Opening[c], HandleMapRequest(c, g)
      PROVE  AllPlain' /\ Separate'
  <2>1. /\ Managed' = Managed \cup {c} /\ "Geometry" \in sync' /\ c \notin Managed
    BY <1>4, MapIs
  <2>2. Plain(c, clients'[c])
    <3>1. clients'[c] = Opened(c, g)
      BY <1>4 DEF HandleMapRequest
    <3>2. Managed \subseteq Clients /\ screen \in Sizes
      BY DEF Types
    <3> QED BY <3>1, <3>2, OpenedPlain
  <2>3. ASSUME NEW d \in Managed PROVE Plain(d, clients'[d])
    <3>1. clients'[d] = [clients[d] EXCEPT !.parent = clients'[d].parent]
      BY <1>4, MapIs
    <3>2. ParentOf(clients[d], clients'[d])
      BY <1>1, <3>1, ParentOnly DEF ParentOf
    <3> QED BY <1>1, <3>2, PlainFrom DEF ParentOf
  <2>4. AllPlain'
    BY <2>1, <2>2, <2>3 DEF AllPlain, AllPlainIn, Managed
  <2> QED BY <2>1, <2>4 DEF Separate
<1>5. ASSUME NEW c \in Clients, NEW g \in Wanted[c], HandleConfigureRequest(c, g)
      PROVE  AllPlain' /\ Separate'
  <2> DEFINE r == clients[c]
             q == clients'[c]
  <2>1. /\ c \in Managed /\ Managed' = Managed /\ screen' = screen
        /\ \A d \in Managed \ {c} : clients'[d] = clients[d]
        /\ q.framed = r.framed /\ q.full = r.full /\ q.hints = r.hints /\ q.parent = r.parent
        /\ \/ q.dirty = r.dirty \cup {"Ack", "Geometry"}
           \/ q.dirty = r.dirty \cup {"Ack"} /\ q.window = r.window /\ q.frame = r.frame
        /\ q.dirty \subseteq sync' /\ sync \subseteq sync'
    BY <1>5, ConfigureIs
  <2>2. Takes(c, r) => q.window = r.window \/ NonNeg(q.window)
    <3> SUFFICES ASSUME Takes(c, r) PROVE q.window = r.window \/ NonNeg(q.window)
      OBVIOUS
    <3> DEFINE a == [r EXCEPT !.dirty = @ \cup {"Ack"}]
    <3>1. a \in Records /\ a.window = r.window
      BY <1>1, <2>1 DEF Records, Bits
    <3>2. q = Requested(a, c, g, "Configure", screen)
      BY <1>1, <1>5, <2>1 DEF HandleConfigureRequest
    <3> HIDE DEF a, q
    <3>3. g \in Rects /\ NonNeg(g) /\ Kind[c] \in {"Panel", "Input"}
      BY LayoutAssumption DEF Sized, Takes
    <3>4. LET p == Requested(a, c, g, "Configure", screen)
          IN p.window = a.window \/ p.window = g
      BY <3>1, <3>3, AskedSize
    <3> QED BY <3>1, <3>2, <3>3, <3>4
  <2>3. Plain(c, q)
    BY <1>1, <2>1, <2>2, PlainFrom
  <2>4. AllPlain'
    BY <1>1, <2>1, <2>3 DEF AllPlain, AllPlainIn, Managed
  <2>5. CASE "Geometry" \in sync'
    BY <2>4, <2>5 DEF Separate
  <2>6. CASE "Geometry" \notin sync'
    <3>1. q.window = r.window /\ q.frame = r.frame /\ "Geometry" \notin sync
      BY <2>1, <2>6
    <3>2. Coverage(q) = Coverage(r)
      BY <2>1, <3>1 DEF Coverage
    <3>3. \A d \in Managed : /\ clients'[d].full = clients[d].full
                             /\ clients'[d].hints = clients[d].hints
                             /\ clients'[d].parent \in {clients[d].parent, NULL}
                             /\ Coverage(clients'[d]) = Coverage(clients[d])
      BY <2>1, <3>2
    <3>4. Separate'
      BY <1>1, <2>1, <3>1, <3>3, SeparateFrom
    <3> QED BY <2>4, <3>4
  <2> QED BY <2>5, <2>6
<1>6. ASSUME NEW c \in Clients, HandleFullscreen(c) PROVE AllPlain' /\ Separate'
  <2> DEFINE r == clients[c]
             q == clients'[c]
  <2>1. /\ c \in Managed \cap CanFill /\ Managed' = Managed
        /\ \A d \in Managed \ {c} : clients'[d] = clients[d]
        /\ q.hints = r.hints /\ q.framed = r.framed /\ q.window = r.window
        /\ sync' = sync \cup {"Fullscreen", "Geometry", "Visibility", "Stacking"}
    BY <1>6, FilledIs
  <2>2. Kind[c] = "App"
    BY <2>1 DEF FillsApps
  <2>3. Plain(c, q)
    BY <1>1, <2>1, <2>2, PlainFrom
  <2>4. AllPlain'
    BY <1>1, <2>1, <2>3 DEF AllPlain, AllPlainIn, Managed
  <2> QED BY <2>1, <2>4 DEF Separate
<1>7. ASSUME NEW c \in Clients, NEW on \in BOOLEAN, SetMapped(c, on) PROVE AllPlain' /\ Separate'
  <2> DEFINE r == clients[c]
             q == clients'[c]
  <2>1. /\ c \in Managed /\ Managed' = Managed /\ screen' = screen
        /\ \A d \in Managed \ {c} : clients'[d] = clients[d]
        /\ q.framed = r.framed /\ q.full = r.full /\ q.hints = r.hints /\ q.parent = r.parent
        /\ q.window = r.window /\ q.frame = r.frame
        /\ q.dirty = r.dirty \cup {"Visibility"}
        /\ sync \cup {"Visibility"} \subseteq sync'
    BY <1>7, MappedIs
  <2>2. Plain(c, q)
    BY <1>1, <2>1, PlainFrom
  <2>3. AllPlain'
    BY <1>1, <2>1, <2>2 DEF AllPlain, AllPlainIn, Managed
  <2>4. Coverage(q) = Coverage(r)
    BY <2>1 DEF Coverage
  <2>5. \A d \in Managed : /\ clients'[d].full = clients[d].full
                           /\ clients'[d].hints = clients[d].hints
                           /\ clients'[d].parent \in {clients[d].parent, NULL}
                           /\ Coverage(clients'[d]) = Coverage(clients[d])
    BY <2>1, <2>4
  <2>6. CASE "Geometry" \in sync'
    BY <2>3, <2>6 DEF Separate
  <2>7. CASE "Geometry" \notin sync'
    <3>1. "Geometry" \notin sync
      BY <2>1, <2>7
    <3>2. Separate'
      BY <1>1, <2>1, <2>5, <3>1, SeparateFrom
    <3> QED BY <2>3, <3>2
  <2> QED BY <2>6, <2>7
<1>8. ASSUME NEW c \in Clients, HandleUnmap(c) PROVE AllPlain' /\ Separate'
  <2>1. /\ Managed' = Managed \ {c} /\ screen' = screen /\ sync \subseteq sync'
    BY <1>8, UnmapIs
  <2>2. ASSUME NEW d \in Managed \ {c}
        PROVE  /\ Plain(d, clients'[d]) /\ clients'[d].full = clients[d].full
               /\ clients'[d].hints = clients[d].hints
               /\ clients'[d].parent \in {clients[d].parent, NULL}
               /\ Coverage(clients'[d]) = Coverage(clients[d])
    <3>1. /\ clients'[d] = [clients[d] EXCEPT !.parent = clients'[d].parent]
          /\ clients'[d].parent \in {clients[d].parent, NULL}
      BY <1>8, UnmapIs
    <3>2. ParentOf(clients[d], clients'[d])
      BY <1>1, <3>1, ParentOnly DEF ParentOf
    <3>3. Plain(d, clients'[d])
      BY <1>1, <3>2, PlainFrom DEF ParentOf
    <3> QED BY <3>1, <3>2, <3>3 DEF ParentOf, Coverage
  <2>3. AllPlain'
    BY <2>1, <2>2 DEF AllPlain, AllPlainIn, Managed
  <2>4. CASE "Geometry" \in sync'
    BY <2>3, <2>4 DEF Separate
  <2>5. CASE "Geometry" \notin sync'
    <3> DEFINE D == Managed \ {c}
    <3>1. /\ D \in SUBSET Managed /\ Managed' = D /\ "Geometry" \notin sync
          /\ \A d \in D : /\ clients'[d].full = clients[d].full
                          /\ clients'[d].hints = clients[d].hints
                          /\ clients'[d].parent \in {clients[d].parent, NULL}
                          /\ Coverage(clients'[d]) = Coverage(clients[d])
      BY <2>1, <2>2, <2>5
    <3> HIDE DEF D
    <3>2. Separate'
      BY <1>1, <2>1, <3>1, SeparateFrom
    <3> QED BY <2>3, <3>2
  <2> QED BY <2>4, <2>5
<1>9. ASSUME UNCHANGED vars PROVE AllPlain' /\ Separate'
  BY <1>9 DEF vars, AllPlain, Separate, Managed, Cover
<1>10. TRUE \in BOOLEAN /\ FALSE \in BOOLEAN
  OBVIOUS
<1> QED BY <1>2, <1>3, <1>4, <1>5, <1>6, <1>7, <1>8, <1>9, <1>10 DEF Next, Hide, Show

\* Panels and input methods lie beside each other on the screen whenever nothing waits for
\* a sync, in whatever order they came and whatever they asked for, when their sizes fit the
\* screen at each layout, only applications go to fullscreen and the theme puts each panel
\* at one edge (mb_wm_layout_real_layout_panels and mb_wm_layout_real_layout_input give
\* each the room its predecessors left).
THEOREM ReservedStayApart ==
  FillsApps /\ Sized /\ PlainThemes => (Spec /\ []RoomEnough => []ReservedApart)
<1> SUFFICES ASSUME FillsApps, Sized, PlainThemes
             PROVE  Spec /\ []RoomEnough => []ReservedApart
  OBVIOUS
<1> DEFINE IInv == Types /\ AllPlain /\ Separate
<1>1. Init => IInv
  <2> SUFFICES ASSUME Init PROVE IInv
    OBVIOUS
  <2>1. Types
    BY InitTypes
  <2>2. clients = << >> /\ DOMAIN clients = {}
    BY DEF Init
  <2> QED BY <2>1, <2>2 DEF AllPlain, AllPlainIn, Separate, Sharing
<1>2. IInv /\ RoomEnough /\ [Next]_vars => IInv'
  <2> SUFFICES ASSUME Types, AllPlain, Separate, RoomEnough, [Next]_vars
               PROVE  Types' /\ AllPlain' /\ Separate'
    OBVIOUS
  <2>1. Types'
    BY TypesStep
  <2>2. AllPlain' /\ Separate'
    BY SeparateStep
  <2> QED BY <2>1, <2>2
<1>3. IInv /\ TypeOK => ReservedApart
  <2> SUFFICES ASSUME IInv, TypeOK, Settled
               PROVE  \A c \in Reserving :
                        /\ Within(Cover(c), Screen)
                        /\ \A d \in Reserving \ {c} : Apart(Cover(c), Cover(d))
    BY DEF ReservedApart
  <2>1. Reserving \subseteq Sharing(clients)
    BY DEF Reserving, Sharing, Takes, Orphans, OfFull, TypeOK, Managed
  <2>2. Screen = Whole(screen)
    BY DEF Screen, Whole
  <2>3. "Geometry" \notin sync
    BY DEF Settled
  <2> QED BY <2>1, <2>2, <2>3 DEF Separate
<1>4. Spec => []TypeOK
  BY TypesHold
<1> HIDE DEF IInv
<1>5. Spec /\ []RoomEnough => []IInv
  BY <1>1, <1>2, PTL DEF Spec
<1> QED BY <1>3, <1>4, <1>5, PTL

-----------------------------------------------------------------------------
(* Dialogs and notes, which the layout moves into the area that is left.     *)

\* More hypotheses, of DialogsStayInside: a theme's decors take room, and a client without
\* decors has none; no window is opened without a size.
Dialogs == {c \in Clients : Kind[c] \in {"Dialog", "Note"}}
BareDecors ==
  \A c \in Dialogs :
    /\ Decor[c].west + Decor[c].east >= 0 /\ Decor[c].north + Decor[c].south >= 0
    /\ c \notin Decorated => /\ Decor[c].west = 0 /\ Decor[c].east = 0
                             /\ Decor[c].north = 0 /\ Decor[c].south = 0
Seen == \A c \in Dialogs : \A g \in Opening[c] : g.width > 0 /\ g.height > 0

\* The frame of a dialog has a size, and so has its window until it is in the frame;
\* without decors the two are one.
Fits(c, r) ==
  /\ NonNeg(r.frame)
  /\ ~r.framed => NonNeg(r.window)
  /\ r.framed => c \in Decorated
  /\ c \notin Decorated => r.window = r.frame

LEMMA SameRect ==
  ASSUME NEW g \in Rects, NEW h \in Rects,
         g.x = h.x, g.y = h.y, g.width = h.width, g.height = h.height
  PROVE  g = h
BY RectFields

LEMMA DecorFits ==
  ASSUME BareDecors, NEW c \in Dialogs, NEW g \in Rects
  PROVE  /\ Inside(c, g) \in Rects /\ Around(c, g) \in Rects
         /\ Around(c, g).width >= g.width /\ Around(c, g).height >= g.height
         /\ \A f \in Rects : f.width = Around(c, g).width /\ f.height = Around(c, g).height
                               => /\ Inside(c, f).width = g.width
                                  /\ Inside(c, f).height = g.height
         /\ c \notin Decorated => Inside(c, g) = g /\ Around(c, g) = g
<1> DEFINE d == Decor[c]
           dx == d.west + d.east
           dy == d.north + d.south
<1>1. c \in Clients
  BY DEF Dialogs
<1>2. /\ g.x \in Int /\ g.y \in Int /\ g.width \in Int /\ g.height \in Int
      /\ g = Rect(g.x, g.y, g.width, g.height)
  BY RectFields
<1>3. /\ d.west \in Int /\ d.east \in Int /\ d.north \in Int /\ d.south \in Int
  <2>1. d \in [north : Int, south : Int, west : Int, east : Int]
    BY <1>1, LayoutAssumption
  <2> QED BY <2>1
<1>4. /\ dx >= 0 /\ dy >= 0 /\ dx \in Int /\ dy \in Int
      /\ c \notin Decorated => d.west = 0 /\ d.east = 0 /\ d.north = 0 /\ d.south = 0
  BY <1>3 DEF BareDecors
<1>5. /\ Inside(c, g) = Rect(g.x + d.west, g.y + d.north, g.width - dx, g.height - dy)
      /\ Around(c, g) = Rect(g.x - d.west, g.y - d.north, g.width + dx, g.height + dy)
  BY DEF Inside, Around
<1>6. Inside(c, g) \in Rects /\ Around(c, g) \in Rects
  BY <1>1, InsideTyped
<1>7. Around(c, g).width = g.width + dx /\ Around(c, g).height = g.height + dy
  BY <1>5 DEF Rect
<1>8. ASSUME NEW f \in Rects, f.width = Around(c, g).width, f.height = Around(c, g).height
      PROVE  Inside(c, f).width = g.width /\ Inside(c, f).height = g.height
  <2>1. Inside(c, f).width = f.width - dx /\ Inside(c, f).height = f.height - dy
    BY DEF Inside, Rect
  <2> HIDE DEF dx, dy
  <2> QED BY <1>2, <1>4, <1>7, <1>8, <2>1
<1>9. ASSUME c \notin Decorated PROVE Inside(c, g) = g /\ Around(c, g) = g
  <2>1. dx = 0 /\ dy = 0 /\ d.west = 0 /\ d.north = 0
    BY <1>4, <1>9
  <2>2. /\ g.x + d.west = g.x /\ g.y + d.north = g.y /\ g.width - dx = g.width
        /\ g.height - dy = g.height
        /\ g.x - d.west = g.x /\ g.y - d.north = g.y /\ g.width + dx = g.width
        /\ g.height + dy = g.height
    BY <1>2, <2>1
  <2> HIDE DEF dx, dy, d
  <2> QED BY <1>2, <1>5, <2>2
<1>10. Around(c, g).width >= g.width /\ Around(c, g).height >= g.height
  <2> HIDE DEF dx, dy
  <2> QED BY <1>2, <1>4, <1>7
<1> HIDE DEF d, dx, dy
<1> QED BY <1>6, <1>8, <1>9, <1>10

\* A mere move keeps the sizes of both rectangles.
Shifted(r, dx, dy) ==
  LET Moved_(q) == [q EXCEPT !.x = @ + dx, !.y = @ + dy]
  IN Given(r, Moved_(r.window), Moved_(r.frame))

LEMMA BothMoved ==
  ASSUME NEW r \in Records, NEW dx \in Int, NEW dy \in Int
  PROVE  LET p == Shifted(r, dx, dy)
         IN /\ p \in Records /\ p.framed = r.framed
            /\ p.window.width = r.window.width /\ p.window.height = r.window.height
            /\ p.frame.width = r.frame.width /\ p.frame.height = r.frame.height
            /\ p.window.x = r.window.x + dx /\ p.window.y = r.window.y + dy
            /\ p.frame.x = r.frame.x + dx /\ p.frame.y = r.frame.y + dy
            /\ r.window = r.frame => p.window = p.frame
<1> DEFINE Moved_(q) == [q EXCEPT !.x = @ + dx, !.y = @ + dy]
<1>1. ASSUME NEW q \in Rects
      PROVE  /\ Moved_(q) \in Rects /\ Moved_(q).width = q.width /\ Moved_(q).height = q.height
             /\ Moved_(q).x = q.x + dx /\ Moved_(q).y = q.y + dy
  <2> DEFINE X == q.x + dx
             Y == q.y + dy
             p == [q EXCEPT !.x = X]
  <2>1. X \in Int /\ Y \in Int /\ q.y \in Int
    BY RectFields
  <2>2. p \in Rects /\ p.y = q.y
    <3> HIDE DEF X
    <3> QED BY <2>1 DEF Rects
  <2>3. Moved_(q) = [p EXCEPT !.y = Y]
    BY <2>2
  <2> HIDE DEF X, Y
  <2>4. /\ [p EXCEPT !.y = Y] \in Rects /\ [p EXCEPT !.y = Y].width = q.width
        /\ [p EXCEPT !.y = Y].height = q.height
        /\ [p EXCEPT !.y = Y].x = X /\ [p EXCEPT !.y = Y].y = Y
    BY <2>1 DEF Rects
  <2> HIDE DEF p, Moved_
  <2> QED BY <2>3, <2>4 DEF X, Y
<1>2. r.window \in Rects /\ r.frame \in Rects
  BY RecordFields
<1>3. Moved_(r.window) \in Rects /\ Moved_(r.frame) \in Rects
  BY <1>1, <1>2
<1> DEFINE u == Moved_(r.window)
           v == Moved_(r.frame)
<1>4. r.window = r.frame => u = v
  OBVIOUS
<1>5. /\ u.width = r.window.width /\ u.height = r.window.height
      /\ u.x = r.window.x + dx /\ u.y = r.window.y + dy
      /\ v.width = r.frame.width /\ v.height = r.frame.height
      /\ v.x = r.frame.x + dx /\ v.y = r.frame.y + dy
  BY <1>1, <1>2
<1> HIDE DEF u, v, Moved_
<1>6. /\ Given(r, u, v) \in Records /\ Given(r, u, v).framed = r.framed
      /\ Given(r, u, v).window = u /\ Given(r, u, v).frame = v
  <2>1. u \in Rects /\ v \in Rects
    BY <1>3 DEF u, v
  <2> QED BY <2>1, GivenIs DEF Relaid
<1>7. /\ Given(r, u, v) \in Records /\ Given(r, u, v).framed = r.framed
      /\ Given(r, u, v).window.width = r.window.width
      /\ Given(r, u, v).window.height = r.window.height
      /\ Given(r, u, v).frame.width = r.frame.width
      /\ Given(r, u, v).frame.height = r.frame.height
      /\ Given(r, u, v).window.x = r.window.x + dx /\ Given(r, u, v).window.y = r.window.y + dy
      /\ Given(r, u, v).frame.x = r.frame.x + dx /\ Given(r, u, v).frame.y = r.frame.y + dy
      /\ r.window = r.frame => Given(r, u, v).window = Given(r, u, v).frame
  BY <1>4, <1>5, <1>6
<1>8. Shifted(r, dx, dy) = Given(r, u, v)
  BY DEF Shifted, u, v, Moved_
<1> QED BY <1>7, <1>8

\* The layout, and the window manager when it maps a dialog, ask for the place of the frame.
LEMMA DialogAsked ==
  ASSUME BareDecors, NEW c \in Dialogs, NEW r \in Records, NEW g \in Rects,
         c \notin Decorated => r.window = r.frame, NEW via, via # "Configure"
  PROVE  LET q == DialogRequest(r, c, g, via)
         IN /\ q \in Records /\ q.framed = r.framed /\ q.frame = g
            /\ c \notin Decorated => q.window = g
            /\ g.width # r.frame.width \/ g.height # r.frame.height => q.window = Inside(c, g)
            /\ g.width = r.frame.width /\ g.height = r.frame.height
                 => /\ q.window.width = r.window.width
                    /\ q.window.height = r.window.height
<1> DEFINE q == DialogRequest(r, c, g, via)
           old == r.frame
           dx == g.x - old.x
           dy == g.y - old.y
<1>1. /\ g.x \in Int /\ g.y \in Int /\ old \in Rects /\ old.x \in Int /\ old.y \in Int
      /\ r.window \in Rects
  BY RectFields, RecordFields
<1>2. CASE g.width # old.width \/ g.height # old.height
  <2>1. q = Given(r, Inside(c, g), g)
    BY <1>2 DEF DialogRequest
  <2>2. Inside(c, g) \in Rects /\ (c \notin Decorated => Inside(c, g) = g)
    BY DecorFits
  <2> HIDE DEF q
  <2>3. q \in Records /\ q.framed = r.framed /\ q.window = Inside(c, g) /\ q.frame = g
    BY <2>1, <2>2, GivenIs DEF Relaid
  <2> QED BY <1>2, <2>2, <2>3 DEF q
<1>3. CASE g.width = old.width /\ g.height = old.height /\ g # old
  <2>1. q = Shifted(r, dx, dy)
    BY <1>3 DEF DialogRequest, Shifted
  <2>2. dx \in Int /\ dy \in Int
    BY <1>1
  <2>3. old.x + dx = g.x /\ old.y + dy = g.y
    BY <1>1
  <2> HIDE DEF dx, dy, q
  <2>4. /\ q \in Records /\ q.framed = r.framed
        /\ q.window.width = r.window.width /\ q.window.height = r.window.height
        /\ q.frame.width = r.frame.width /\ q.frame.height = r.frame.height
        /\ q.frame.x = r.frame.x + dx /\ q.frame.y = r.frame.y + dy
        /\ r.window = r.frame => q.window = q.frame
    BY <2>1, <2>2, BothMoved
  <2>5. q.frame = g
    BY <1>3, <2>3, <2>4, RecordFields, SameRect
  <2> QED BY <1>3, <2>4, <2>5 DEF q
<1>4. CASE g = old
  <2>1. q = r
    BY <1>4 DEF DialogRequest
  <2> HIDE DEF q
  <2> QED BY <1>4, <2>1 DEF q
<1> QED BY <1>2, <1>3, <1>4

\* An application asks for the place of its window.
LEMMA DialogWishes ==
  ASSUME BareDecors, NEW c \in Dialogs, NEW r \in Records, NEW g \in Rects, NonNeg(g),
         Fits(c, r)
  PROVE  Fits(c, DialogRequest(r, c, g, "Configure"))
<1> DEFINE q == DialogRequest(r, c, g, "Configure")
           old == r.window
           dx == g.x - old.x
           dy == g.y - old.y
<1> SUFFICES Fits(c, q)
  OBVIOUS
<1>1. /\ g.x \in Int /\ g.y \in Int /\ old \in Rects /\ old.x \in Int /\ old.y \in Int
      /\ r.frame \in Rects /\ g.width \in Int /\ g.height \in Int
  BY RectFields, RecordFields
<1>2. CASE g.width # old.width \/ g.height # old.height
  <2>1. q = Given(r, g, Around(c, g))
    BY <1>2 DEF DialogRequest
  <2>2. /\ Around(c, g) \in Rects /\ (c \notin Decorated => Around(c, g) = g)
        /\ Around(c, g).width >= g.width /\ Around(c, g).height >= g.height
    BY DecorFits
  <2>3. NonNeg(Around(c, g))
    BY <1>1, <2>2, RectFields DEF NonNeg
  <2> HIDE DEF q
  <2>4. q.framed = r.framed /\ q.window = g /\ q.frame = Around(c, g)
    BY <2>1, <2>2, GivenIs DEF Relaid
  <2> QED BY <2>2, <2>3, <2>4 DEF Fits
<1>3. CASE g.width = old.width /\ g.height = old.height /\ g # old
  <2>1. q = Shifted(r, dx, dy)
    BY <1>3 DEF DialogRequest, Shifted
  <2>2. dx \in Int /\ dy \in Int
    BY <1>1
  <2> HIDE DEF dx, dy, q
  <2>3. /\ q.framed = r.framed
        /\ q.window.width = r.window.width /\ q.window.height = r.window.height
        /\ q.frame.width = r.frame.width /\ q.frame.height = r.frame.height
        /\ r.window = r.frame => q.window = q.frame
    BY <2>1, <2>2, BothMoved
  <2> QED BY <2>3 DEF Fits, NonNeg
<1>4. CASE g = old
  <2>1. q = r
    BY <1>4 DEF DialogRequest
  <2> HIDE DEF q
  <2> QED BY <2>1
<1> QED BY <1>2, <1>3, <1>4

\* A dialog is mapped with a frame around what its application asked for.
LEMMA DialogInitFits ==
  ASSUME BareDecors, NEW c \in Dialogs, NEW r, NEW t, NewRecord(r, t), screen \in Sizes,
         r.frame = Nowhere, r.window.width > 0, r.window.height > 0
  PROVE  Fits(c, DialogInit(r, c))
<1> DEFINE g == r.window
           mid == [g EXCEPT !.x = (screen.width - g.width) \div 2,
                            !.y = (screen.height - g.height) \div 2]
           at == IF Kind[c] = "Dialog" /\ g.x = 0 /\ g.y = 0 THEN mid ELSE g
           q == [r EXCEPT !.hints = {"Free", "Movable"}, !.window = at]
           out == Around(c, at)
           to == [out EXCEPT !.x = at.x, !.y = at.y]
           o == DialogRequest(q, c, to, "Forced")
<1>1. g \in Rects /\ r \in Records /\ ~r.framed
  BY RecordFields DEF NewRecord
<1>2. DialogInit(r, c) = o
  BY DEF DialogInit
<1>3. /\ mid \in Rects /\ mid.width = g.width /\ mid.height = g.height
  <2> DEFINE X == (screen.width - g.width) \div 2
             Y == (screen.height - g.height) \div 2
             f == [g EXCEPT !.x = X]
  <2> HIDE DEF g
  <2>1. X \in Int /\ Y \in Int
    BY <1>1, RectFields DEF Sizes
  <2> HIDE DEF X, Y
  <2>2. f \in Rects /\ f.width = g.width /\ f.height = g.height
    BY <1>1, <2>1 DEF Rects
  <2>3. mid = [f EXCEPT !.y = Y]
    BY DEF X, Y
  <2> HIDE DEF f, mid
  <2> QED BY <2>1, <2>2, <2>3 DEF Rects
<1>4. at \in Rects /\ at.width > 0 /\ at.height > 0 /\ at.width \in Int /\ at.height \in Int
  <2> HIDE DEF mid, g
  <2>1. at \in Rects /\ at.width = g.width /\ at.height = g.height
    BY <1>1, <1>3
  <2>2. g.width > 0 /\ g.height > 0
    BY DEF g
  <2> HIDE DEF at
  <2> QED BY <2>1, <2>2, RectFields
<1> HIDE DEF at
<1>5. /\ q \in Records /\ q.frame = Nowhere /\ q.window = at /\ ~q.framed
  <2> DEFINE p == [r EXCEPT !.hints = {"Free", "Movable"}]
  <2>1. p \in Records /\ p.frame = Nowhere /\ ~p.framed
    BY <1>1 DEF Records, AllHints
  <2>2. q = [p EXCEPT !.window = at]
    OBVIOUS
  <2> HIDE DEF p, q
  <2> QED BY <1>4, <2>1, <2>2 DEF Records
<1>6. /\ out \in Rects /\ out.width >= at.width /\ out.height >= at.height
      /\ \A f \in Rects : f.width = out.width /\ f.height = out.height
                            => /\ Inside(c, f).width = at.width
                               /\ Inside(c, f).height = at.height
  BY <1>4, DecorFits
<1> HIDE DEF q, out
<1>7. /\ to \in Rects /\ to.width = out.width /\ to.height = out.height
  <2> DEFINE X == at.x
             Y == at.y
             f == [out EXCEPT !.x = X]
  <2>1. X \in Int /\ Y \in Int
    BY <1>4, RectFields
  <2> HIDE DEF X, Y
  <2>2. f \in Rects /\ f.width = out.width /\ f.height = out.height
    BY <1>6, <2>1 DEF Rects
  <2>3. to = [f EXCEPT !.y = Y]
    BY DEF X, Y
  <2> HIDE DEF f, to
  <2> QED BY <2>1, <2>2, <2>3 DEF Rects
<1> HIDE DEF to
<1>8. to.width > 0 /\ to.height > 0
  BY <1>4, <1>6, <1>7, RectFields
<1>9. q.frame.width = 0
  BY <1>5 DEF Nowhere, Rect
<1>10. Inside(c, to) \in Rects /\ (c \notin Decorated => Inside(c, to) = to)
  BY <1>7, DecorFits
<1>11. o = Given(q, Inside(c, to), to)
  <2>1. to.width # q.frame.width
    BY <1>7, <1>8, <1>9, RectFields
  <2> QED BY <2>1 DEF DialogRequest
<1> HIDE DEF o
<1>12. o.framed = q.framed /\ o.window = Inside(c, to) /\ o.frame = to
  BY <1>5, <1>7, <1>10, <1>11, GivenIs DEF Relaid
<1>13. NonNeg(to) /\ NonNeg(Inside(c, to))
  <2>1. Inside(c, to).width = at.width /\ Inside(c, to).height = at.height
    BY <1>6, <1>7
  <2> QED BY <1>4, <1>7, <1>8, <2>1, RectFields DEF NonNeg
<1>14. Fits(c, o)
  BY <1>5, <1>10, <1>12, <1>13 DEF Fits
<1> QED BY <1>2, <1>14

LEMMA NoteInitFits ==
  ASSUME BareDecors, NEW c \in Dialogs, NEW r, NEW t, NewRecord(r, t), screen \in Sizes,
         r.frame = Nowhere, r.window.width > 0, r.window.height > 0
  PROVE  Fits(c, NoteInit(r, c))
<1> DEFINE d == DialogInit(r, c)
           right == screen.width - d.frame.width
           bottom == screen.height - d.frame.height
           x == CASE Gravity[c] \in {"East", "SouthEast"} -> right
                  [] Gravity[c] = "West" -> 0
                  [] OTHER -> IF d.frame.x >= screen.width THEN right ELSE d.frame.x
           y == CASE Gravity[c] \in {"South", "SouthEast"} -> bottom
                  [] Gravity[c] = "North" -> 0
                  [] OTHER -> IF d.frame.y >= screen.height THEN bottom ELSE d.frame.y
           to == [d.frame EXCEPT !.x = x, !.y = y]
           o == DialogRequest(d, c, to, "Forced")
<1>1. NewRecord(d, t) /\ d.frame \in Rects /\ d \in Records /\ Fits(c, d)
  <2>1. c \in Clients
    BY DEF Dialogs
  <2> QED BY <2>1, DialogInitIs, DialogInitFits DEF NewRecord
<1>2. NoteInit(r, c) = o
  BY DEF NoteInit
<1> HIDE DEF d
<1>3. right \in Int /\ bottom \in Int /\ d.frame.x \in Int /\ d.frame.y \in Int
  BY <1>1, RectFields DEF Sizes
<1> HIDE DEF right, bottom
<1>4. x \in Int /\ y \in Int
  <2>1. x \in Int
    BY <1>3
  <2>2. y \in Int
    BY <1>3
  <2> QED BY <2>1, <2>2
<1> HIDE DEF x, y
<1>5. to \in Rects /\ to.width = d.frame.width /\ to.height = d.frame.height
  <2> DEFINE f == [d.frame EXCEPT !.x = x]
  <2>1. f \in Rects /\ f.width = d.frame.width /\ f.height = d.frame.height
    BY <1>1, <1>4 DEF Rects
  <2>2. to = [f EXCEPT !.y = y]
    OBVIOUS
  <2> HIDE DEF f, to
  <2> QED BY <1>4, <2>1, <2>2 DEF Rects
<1> HIDE DEF to, o
<1>6. /\ o.framed = d.framed /\ o.frame = to /\ (c \notin Decorated => o.window = to)
      /\ o.window.width = d.window.width /\ o.window.height = d.window.height
  <2>1. c \notin Decorated => d.window = d.frame
    BY <1>1 DEF Fits
  <2> QED BY <1>1, <1>5, <2>1, DialogAsked DEF o
<1>7. Fits(c, o)
  BY <1>1, <1>5, <1>6 DEF Fits, NonNeg
<1> QED BY <1>2, <1>7

\* r is the part of the axis from p, s long, in the one from lo, len long.
Inward(r, p, s, lo, len) ==
  /\ r.at \in Int /\ lo <= r.at /\ r.size \in Nat /\ r.at + r.size <= lo + len
  /\ ~r.changed => r.at = p /\ r.size = s

LEMMA AxisInside ==
  ASSUME NEW p \in Int, NEW s \in Nat, NEW lo \in Int, NEW len \in Nat,
         NEW moves, NEW sizes, moves, sizes
  PROVE  Inward(ClippedAxis(p, s, lo, len, moves, sizes), p, s, lo, len)
<1> DEFINE out == moves /\ (p < lo \/ p > lo + len)
           from == IF out THEN lo ELSE p
           over == sizes /\ from + s > lo + len
           room == lo + len - from
           back == from - (s - room)
           to == IF back < lo THEN lo ELSE back
           slid == moves /\ s > room /\ from > lo
           at == IF over /\ slid THEN to ELSE from
           size == IF over THEN IF slid THEN room + (from - to) ELSE room ELSE s
           r == ClippedAxis(p, s, lo, len, moves, sizes)
<1>1. r.at = at /\ r.size = size /\ (r.changed <=> out \/ over)
  BY DEF ClippedAxis, ShrunkAxis
<1>2. (out <=> p < lo \/ p > lo + len) /\ (over <=> from + s > lo + len)
      /\ (slid <=> s > room /\ from > lo)
  OBVIOUS
<1> HIDE DEF r, out, over, slid
<1>3. from \in Int /\ lo <= from /\ from <= lo + len /\ (~out => from = p)
  BY <1>2
<1> HIDE DEF from
<1>4. room \in Int /\ room >= 0 /\ from + room = lo + len
  BY <1>3
<1>5. to \in Int /\ lo <= to /\ (from > lo /\ s > room => to <= from)
  BY <1>3
<1> HIDE DEF to, room
<1>6. at \in Int /\ lo <= at /\ size \in Nat /\ at + size <= lo + len
  <2>1. CASE ~over
    BY <1>2, <1>3, <2>1
  <2>2. CASE over /\ slid
    BY <1>2, <1>3, <1>4, <1>5, <2>2
  <2>3. CASE over /\ ~slid
    BY <1>3, <1>4, <2>3
  <2> QED BY <2>1, <2>2, <2>3
<1>7. ~out /\ ~over => at = p /\ size = s
  BY <1>3
<1> HIDE DEF at, size
<1>8. Inward(r, p, s, lo, len)
  BY <1>1, <1>6, <1>7 DEF Inward
<1> QED BY <1>8 DEF r

\* A dialog is clipped to the area, and asked for nothing if it lies in it.
LEMMA ClippedInside ==
  ASSUME NEW g \in Rects, NEW v \in Rects, NonNeg(g), NonNeg(v)
  PROVE  LET k == Clipped(g, v, Fields)
         IN /\ k.geom \in Rects /\ k.changed \in BOOLEAN
            /\ Within(k.geom, v) /\ NonNeg(k.geom)
            /\ ~k.changed => k.geom = g
<1> DEFINE X == "x" \in Fields
           Y == "y" \in Fields
           W == "width" \in Fields
           H == "height" \in Fields
           h == ClippedAxis(g.x, g.width, v.x, v.width, X, W)
           w == ClippedAxis(g.y, g.height, v.y, v.height, Y, H)
           k == Clipped(g, v, Fields)
           at == Rect(h.at, w.at, h.size, w.size)
<1>1. /\ g.x \in Int /\ g.y \in Int /\ g.width \in Nat /\ g.height \in Nat
      /\ v.x \in Int /\ v.y \in Int /\ v.width \in Nat /\ v.height \in Nat
      /\ g = Rect(g.x, g.y, g.width, g.height)
  BY RectFields DEF NonNeg
<1>3. k.geom = at /\ k.changed = (h.changed \/ w.changed) /\ k.changed \in BOOLEAN
  BY DEF Clipped
<1> HIDE DEF k
<1>2. X /\ Y /\ W /\ H
  BY DEF Fields
<1> HIDE DEF X, Y, W, H
<1>4. /\ h.at \in Int /\ v.x <= h.at /\ h.size \in Nat /\ h.at + h.size <= v.x + v.width
      /\ ~h.changed => h.at = g.x /\ h.size = g.width
  <2>1. Inward(h, g.x, g.width, v.x, v.width)
    BY <1>1, <1>2, AxisInside
  <2> HIDE DEF h
  <2> QED BY <2>1 DEF Inward
<1>5. /\ w.at \in Int /\ v.y <= w.at /\ w.size \in Nat /\ w.at + w.size <= v.y + v.height
      /\ ~w.changed => w.at = g.y /\ w.size = g.height
  <2>1. Inward(w, g.y, g.height, v.y, v.height)
    BY <1>1, <1>2, AxisInside
  <2> HIDE DEF w
  <2> QED BY <2>1 DEF Inward
<1> HIDE DEF h, w
<1>6. at \in Rects /\ Within(at, v) /\ NonNeg(at)
  <2>1. at \in Rects
    BY <1>4, <1>5, RectIs
  <2>2. at.x = h.at /\ at.y = w.at /\ at.width = h.size /\ at.height = w.size
    BY DEF Rect
  <2> HIDE DEF at
  <2>3. Within(at, v)
    BY <1>4, <1>5, <2>2 DEF Within
  <2>4. NonNeg(at)
    BY <1>4, <1>5, <2>2 DEF NonNeg
  <2> QED BY <2>1, <2>3, <2>4
<1>7. ~k.changed => at = g
  BY <1>1, <1>3, <1>4, <1>5
<1> HIDE DEF at
<1> QED BY <1>3, <1>6, <1>7 DEF k

\* The record q is what the loop made of r, a dialog's, with v left.
Led(c, r, q, v) ==
  /\ NonNeg(q.frame)
  /\ c \notin Decorated => q.window = q.frame
  /\ r.framed \/ c \notin Decorated => Within(q.frame, v)

LEMMA FreeTurn ==
  ASSUME BareDecors, NEW D \in SUBSET Clients, NEW cs \in [D -> Records], NEW size \in Sizes,
         NEW c \in D, c \in Dialogs, Plain(c, cs[c]), Fits(c, cs[c]),
         NEW a \in Accs(Layouts(cs), size), NonNeg(a.avail), a.clients[c] = cs[c]
  PROVE  Led(c, cs[c], Free(a, c).clients[c], a.avail)
<1> DEFINE r == cs[c]
           v == a.avail
           g == Coverage(r)
           k == Clipped(g, v, Fields)
           b == Ask(a, c, k.geom, k.changed)
           q == b.clients[c]
<1>1. r \in Records /\ v \in Rects /\ Kind[c] \in {"Dialog", "Note"} /\ c \in Clients
  BY PutCovers DEF Dialogs
<1>2. Hints(r) = {"Free", "Movable"}
  BY <1>1 DEF Plain, Hints
<1>3. Free(a, c) = b
  <2>1. Hints(a.clients[c]) = {"Free", "Movable"} /\ Coverage(a.clients[c]) = g
    BY <1>2
  <2>2. {"Free", "Movable"} \cap {"FixedX", "FixedY"} = {}
    OBVIOUS
  <2> QED BY <2>1, <2>2 DEF Free
<1>4. g \in Rects /\ NonNeg(g) /\ (r.framed \/ c \notin Decorated => g = r.frame)
  BY <1>1, RecordFields DEF Fits, Coverage
<1> HIDE DEF g, r
<1>5. /\ k.geom \in Rects /\ k.changed \in BOOLEAN /\ Within(k.geom, v) /\ NonNeg(k.geom)
      /\ ~k.changed => k.geom = g
  BY <1>1, <1>4, ClippedInside
<1> HIDE DEF k
<1>6. q = IF k.changed THEN Requested(r, c, k.geom, "Layout", size) ELSE r
  <2>1. Touched(b, a, D, c, k.geom, k.changed, size, a.avail)
    BY <1>1, <1>5, AskTouches
  <2> QED BY <2>1 DEF Touched, r
<1> HIDE DEF b, q
<1>7. CASE k.changed
  <2> DEFINE via == "Layout"
  <2>1. q = DialogRequest(r, c, k.geom, via)
    BY <1>1, <1>6, <1>7 DEF Requested
  <2>2. via # "Configure" /\ (c \notin Decorated => r.window = r.frame)
    BY DEF Fits, r
  <2> HIDE DEF via
  <2>3. q.frame = k.geom /\ (c \notin Decorated => q.window = k.geom)
    BY <1>1, <1>5, <2>1, <2>2, DialogAsked
  <2> QED BY <1>3, <1>5, <2>3 DEF Led, q, r
<1>8. CASE ~k.changed
  <2>1. q = r /\ k.geom = g
    BY <1>5, <1>6, <1>8
  <2>2. Led(c, r, r, v)
    BY <1>4, <1>5, <2>1 DEF Led, Fits, r
  <2> QED BY <1>3, <2>1, <2>2 DEF q, r
<1> QED BY <1>5, <1>7, <1>8

\* The turns of the loop: the dialogs that had theirs lie in the area.
Turns(cs, size, v, S) ==
  {a \in Accs(Layouts(cs), size) :
     /\ a.avail = v
     /\ \A c \in Framed(cs) :
          IF c \in S THEN Led(c, cs[c], a.clients[c], v) ELSE a.clients[c] = cs[c]}

AllFit(cs) == \A c \in DOMAIN cs : c \in Dialogs => Fits(c, cs[c])

LEMMA FreedLed ==
  ASSUME BareDecors, NEW D \in SUBSET Clients, NEW cs \in [D -> Records], NEW size \in Sizes,
         AllPlainIn(cs), AllFit(cs), NEW q, Lists(q, D), NEW v, NonNeg(v),
         NEW base \in Turns(cs, size, v, {})
  PROVE  /\ Over(Free, base, q).avail = v
         /\ \A c \in Framed(cs) : Led(c, cs[c], Over(Free, base, q).clients[c], v)
<1> DEFINE n == Len(q)
           S(m) == {q[i] : i \in 1..m}
           I == [m \in 0..n |-> Turns(cs, size, v, S(m))]
<1>1. /\ n \in Nat /\ q \in Seq(D) /\ 0 \in 0..n /\ n \in 0..n
      /\ \A m \in 1..n : m - 1 \in 0..n /\ m \in 0..n /\ q[m] \in D
  BY FirstOnes DEF Lists
<1>2. S(0) = {} /\ S(n) = D
  <2>1. S(0) = {}
    OBVIOUS
  <2>2. S(n) \subseteq D
    BY <1>1
  <2>3. D \subseteq S(n)
    BY DEF Lists
  <2> QED BY <2>1, <2>2, <2>3
<1>3. \A m \in 1..n : q[m] \notin S(m - 1) /\ S(m) = S(m - 1) \cup {q[m]}
  <2>1. {} \in SUBSET D
    OBVIOUS
  <2> QED BY <2>1, FirstOnes
<1> HIDE DEF S, n
<1>4. Leads("Free", q, I)
  <2> SUFFICES ASSUME NEW m \in 1..n, NEW a \in I[m - 1]
               PROVE  Step("Free", a, q[m]) \in I[m]
    BY DEF Leads, n
  <2> DEFINE c == q[m]
             b == Step("Free", a, c)
             K == S(m - 1)
  <2>1. c \in D /\ c \notin K /\ S(m) = K \cup {c}
    BY <1>1, <1>3
  <2>2. a \in Turns(cs, size, v, K) /\ I[m] = Turns(cs, size, v, S(m))
    BY <1>1
  <2> HIDE DEF c, K, I
  <2>3. /\ a \in Accs(Layouts(cs), size) /\ a.avail = v
        /\ \A d \in Framed(cs) :
             IF d \in K THEN Led(d, cs[d], a.clients[d], v) ELSE a.clients[d] = cs[d]
    BY <2>2 DEF Turns
  <2>4. b \in Accs(Layouts(cs), size)
    <3> DEFINE P == Layouts(cs)
    <3>1. Closed(P, D, size)
      BY LayoutsClosed
    <3>2. a \in Accs(P, size) /\ "Free" \in Passes
      BY <2>3 DEF Passes
    <3> HIDE DEF P, b
    <3>3. Step("Free", a, c) \in Accs(P, size)
      BY <2>1, <3>1, <3>2, StepIs
    <3> QED BY <3>3 DEF P, b
  <2>5. OnlyAt(b, a, D, c)
    BY <2>1, <2>3, GrowPasses
  <2>6. \A d \in Framed(cs) : d \in D
    BY DEF Framed
  <2>7. c \in Framed(cs) => Led(c, cs[c], b.clients[c], v)
    <3> SUFFICES ASSUME c \in Framed(cs) PROVE Led(c, cs[c], b.clients[c], v)
      OBVIOUS
    <3>1. a.clients[c] = cs[c] /\ c \in Dialogs /\ Plain(c, cs[c]) /\ Fits(c, cs[c])
      BY <2>1, <2>3 DEF Framed, Dialogs, AllPlainIn, AllFit
    <3>2. Led(c, cs[c], Free(a, c).clients[c], a.avail)
      BY <2>1, <2>3, <3>1, FreeTurn
    <3> QED BY <2>3, <3>2 DEF Step
  <2> HIDE DEF b
  <2>8. b.avail = v /\ \A d \in D \ {c} : b.clients[d] = a.clients[d]
    BY <2>3, <2>5 DEF OnlyAt
  <2>9. b \in Turns(cs, size, v, K \cup {c})
    <3>1. ASSUME NEW d \in Framed(cs)
          PROVE  IF d \in K \cup {c} THEN Led(d, cs[d], b.clients[d], v)
                 ELSE b.clients[d] = cs[d]
      <4>1. CASE d = c
        BY <2>7, <4>1
      <4>2. CASE d # c
        BY <2>3, <2>6, <2>8, <4>2
      <4> QED BY <4>1, <4>2
    <3> QED BY <2>4, <2>8, <3>1 DEF Turns
  <2> QED BY <2>1, <2>2, <2>9 DEF b, c
<1>5. base \in I[0] /\ I[Len(q)] = Turns(cs, size, v, D)
  BY <1>1, <1>2 DEF n
<1> HIDE DEF I
<1>6. Over(Free, base, q) \in Turns(cs, size, v, D)
  BY <1>1, <1>4, <1>5, FreeLeads
<1> QED BY <1>6 DEF Turns, Framed

LEMMA FitsFrom ==
  ASSUME NEW c, NEW r, NEW q, Fits(c, r),
         q.window = r.window, q.frame = r.frame, q.framed = r.framed
  PROVE  Fits(c, q)
BY DEF Fits

\* After the layout the dialogs that have their frame, or need none, lie in what the others
\* left.
LEMMA LaidInside ==
  ASSUME BareDecors, Types, AllPlain, AllFit(clients), "Geometry" \in sync,
         Roomy(clients, order, screen), NEW c \in Managed, c \in Dialogs
  PROVE  /\ NonNeg(Laid[c].frame)
         /\ c \notin Decorated => Laid[c].window = Laid[c].frame
         /\ clients[c].framed \/ c \notin Decorated
              => /\ Within(Laid[c].frame, Whole(screen))
                 /\ \A d \in Sharing(clients) : Apart(Laid[c].frame, Coverage(Laid[d]))
<1> DEFINE D == Managed
           cs == clients
           g == Grown(cs, order, screen)
           v == g.avail
           b == Over(Free, g, order)
           T == Takers(cs) \cup Framed(cs)
           z == 0
<1>1. /\ D \in SUBSET Clients /\ cs \in [D -> Records] /\ screen \in Sizes
      /\ Lists(order, D) /\ AllPlainIn(cs) /\ DOMAIN cs = D
  BY DEF Types, Listed, Lists, AllPlain, Managed
<1>2. g \in Put(cs, screen, Takers(cs), z, z) /\ b \in Put(cs, screen, T, z, z)
  BY <1>1, GrownPut, FreedPut
<1>3. \A d \in T : Laid[d] = b.clients[d]
  <2>1. Laid = Updated(clients, order, screen)
    BY DEF Laid
  <2> QED BY <1>1, <2>1, UpdatedKeeps
<1>4. c \in Framed(cs) /\ Sharing(cs) \subseteq T /\ Sharing(cs) \subseteq D
      /\ T \cap Sharing(cs) = Sharing(cs)
  BY <1>1 DEF Framed, Dialogs, Sharing, Takers
<1>5. NonNeg(v) /\ v \in Rects
  <2>1. v.width >= z /\ v.height >= z /\ g \in Accs(Layouts(cs), screen)
    BY <1>2 DEF Put
  <2> QED BY <2>1 DEF NonNeg, Accs
<1>6. g \in Turns(cs, screen, v, {})
  <2>1. \A d \in Framed(cs) : d \in Watched(cs) \ Takers(cs)
    BY DEF Framed, Watched, Takers, Takes
  <2>2. g \in Accs(Layouts(cs), screen) /\ \A d \in Watched(cs) \ Takers(cs) : g.clients[d] = cs[d]
    BY <1>2 DEF Put
  <2> HIDE DEF g, cs
  <2> QED BY <2>1, <2>2 DEF Turns
<1>7. b.avail = v /\ Led(c, cs[c], b.clients[c], v)
  <2> HIDE DEF g, cs, D, v
  <2>1. AllFit(cs)
    BY DEF cs
  <2>2. /\ Over(Free, g, order).avail = v
        /\ \A d \in Framed(cs) : Led(d, cs[d], Over(Free, g, order).clients[d], v)
    BY <1>1, <1>5, <1>6, <2>1, FreedLed
  <2> QED BY <1>4, <2>2
<1>8. /\ b \in Accs(Layouts(cs), screen) /\ Within(b.avail, Whole(screen))
      /\ \A d \in Sharing(cs) : Apart(Coverage(b.clients[d]), b.avail)
  BY <1>2, <1>4 DEF Put
<1> HIDE DEF g, b, v, T, z
<1>9. b.clients[c].frame \in Rects /\ \A d \in Sharing(cs) : Coverage(b.clients[d]) \in Rects
  <2>1. \A d \in D : b.clients[d] \in Records
    BY <1>1, <1>8, PutCovers
  <2> QED BY <1>4, <2>1, RecordFields
<1>10. Laid[c] = b.clients[c] /\ \A d \in Sharing(cs) : Laid[d] = b.clients[d]
  BY <1>3, <1>4 DEF T
<1>11. ASSUME Within(b.clients[c].frame, v)
       PROVE  /\ Within(b.clients[c].frame, Whole(screen))
              /\ \A d \in Sharing(cs) : Apart(b.clients[c].frame, Coverage(b.clients[d]))
  <2>1. Whole(screen) \in Rects /\ Within(v, Whole(screen))
    BY <1>1, <1>7, <1>8, WholeIs
  <2>2. Within(b.clients[c].frame, Whole(screen))
    BY <1>5, <1>9, <1>11, <2>1, WithinTwice
  <2>3. ASSUME NEW d \in Sharing(cs) PROVE Apart(b.clients[c].frame, Coverage(b.clients[d]))
    <3>1. Apart(Coverage(b.clients[d]), v) /\ Coverage(b.clients[d]) \in Rects
      BY <1>7, <1>8, <1>9
    <3> QED BY <1>5, <1>9, <1>11, <3>1, ApartWithin
  <2> QED BY <2>2, <2>3
<1> QED BY <1>7, <1>10, <1>11 DEF Led

\* A sync gives a dialog its frame and moves it no more.
LEMMA DialogStays ==
  ASSUME Types, AllPlain, Sync, NEW c \in Managed, c \in Dialogs
  PROVE  /\ clients'[c].window = Laid[c].window /\ clients'[c].frame = Laid[c].frame
         /\ clients'[c].framed <=> c \in Decorated
<1> DEFINE l == Laid[c]
           e == Realized(Laid)[c]
           q == Refreshed(Realized(Laid))[c]
<1>1. /\ l \in Records /\ Relaid(clients[c], l) /\ Plain(c, clients[c])
      /\ Kind[c] \in {"Dialog", "Note"}
  BY LaidIs DEF Types, Layouts, Managed, AllPlain, AllPlainIn, Dialogs
<1>2. /\ e = [l EXCEPT !.realized = TRUE,
                       !.framed = Kind[c] \notin {"Panel", "Input"} /\ c \in Decorated]
      /\ q = Refilled(c, e)
  BY DEF Realized, Refreshed
<1>3. clients'[c] = Synced(q) /\ q \in Records
  BY SyncIs DEF Ready
<1> HIDE DEF l, e, q
<1>4. "Fullscreen" \notin l.dirty
  BY <1>1 DEF Plain, Relaid
<1>5. /\ e.window = l.window /\ e.frame = l.frame /\ e.dirty = l.dirty
      /\ e.framed <=> c \in Decorated
  <2> DEFINE d == [l EXCEPT !.realized = TRUE]
             h == Kind[c] \notin {"Panel", "Input"} /\ c \in Decorated
  <2>1. d \in Records /\ d.window = l.window /\ d.frame = l.frame /\ d.dirty = l.dirty
    BY <1>1 DEF Records
  <2>2. h <=> c \in Decorated
    BY <1>1
  <2>3. e = [d EXCEPT !.framed = h]
    BY <1>2
  <2> HIDE DEF d, h
  <2> QED BY <2>1, <2>2, <2>3 DEF Records
<1>6. q = e
  BY <1>2, <1>4, <1>5 DEF Refilled
<1> QED BY <1>3, <1>5, <1>6, SyncedIs DEF l

LEMMA SyncFits ==
  ASSUME BareDecors, Types, AllPlain, AllFit(clients), RoomEnough, Sync
  PROVE  AllFit(clients')
<1>1. DOMAIN clients' = Managed /\ DOMAIN clients = Managed
  BY SyncIs DEF Types, Managed
<1>2. ASSUME NEW c \in Managed, c \in Dialogs PROVE Fits(c, clients'[c])
  <2>1. /\ clients'[c].window = Laid[c].window /\ clients'[c].frame = Laid[c].frame
        /\ clients'[c].framed <=> c \in Decorated
    BY <1>2, DialogStays
  <2>2. NonNeg(Laid[c].frame) /\ (c \notin Decorated => Laid[c].window = Laid[c].frame)
    <3>1. CASE "Geometry" \in sync
      BY <1>2, <3>1, LaidInside DEF RoomEnough
    <3>2. CASE "Geometry" \notin sync
      <4>1. Laid = clients /\ Fits(c, clients[c])
        BY <1>1, <1>2, <3>2 DEF Laid, AllFit
      <4> QED BY <4>1 DEF Fits
    <3> QED BY <3>1, <3>2
  <2> QED BY <2>1, <2>2 DEF Fits
<1> QED BY <1>1, <1>2 DEF AllFit

LEMMA OpenedFits ==
  ASSUME BareDecors, Seen, Types, NEW c \in Dialogs, NEW g \in Opening[c]
  PROVE  Fits(c, Opened(c, g))
<1> DEFINE t == IF For[c] \in Managed THEN For[c] ELSE NULL
           r == Fresh(g, t)
<1>1. /\ c \in Clients /\ Kind[c] \in {"Dialog", "Note"} /\ g \in Rects /\ screen \in Sizes
      /\ Managed \subseteq Clients /\ g.width > 0 /\ g.height > 0
  BY LayoutAssumption DEF Dialogs, Seen, Types
<1>2. Kind[c] = "Dialog" => Opened(c, g) = DialogInit(r, c)
  BY DEF Opened
<1>3. Kind[c] = "Note" => Opened(c, g) = NoteInit(r, c)
  BY DEF Opened
<1>4. r.frame = Nowhere
  BY DEF Fresh
<1>5. t \in Clients \cup {NULL}
  BY <1>1
<1> HIDE DEF t
<1>6. NewRecord(r, t) /\ r.window = g
  BY <1>1, <1>5, FreshIs
<1> HIDE DEF r
<1>7. Fits(c, DialogInit(r, c)) /\ Fits(c, NoteInit(r, c))
  BY <1>1, <1>4, <1>6, DialogInitFits, NoteInitFits
<1> QED BY <1>1, <1>2, <1>3, <1>7

LEMMA FitsStep ==
  ASSUME FillsApps, Sized, BareDecors, Seen, Types, AllPlain, AllFit(clients), RoomEnough,
         [Next]_vars
  PROVE  AllFit(clients')
<1>1. /\ clients \in [Managed -> Records] /\ NULL \notin Managed /\ DOMAIN clients = Managed
      /\ \A c \in Managed : clients[c] \in Records /\ (c \in Dialogs => Fits(c, clients[c]))
      /\ Managed' = DOMAIN clients'
  BY LayoutAssumption DEF Types, AllFit, Managed
<1>2. CASE Sync
  BY <1>2, SyncFits
<1>3. CASE HandleRootConfigNotify
  <2>1. clients' = clients
    BY <1>3 DEF HandleRootConfigNotify
  <2> QED BY <2>1
<1>4. ASSUME NEW c \in Clients, NEW g \in Opening[c], HandleMapRequest(c, g)
      PROVE  AllFit(clients')
  <2>1. Managed' = Managed \cup {c} /\ c \notin Managed
    BY <1>4, MapIs
  <2>2. c \in Dialogs => Fits(c, clients'[c])
    <3>1. clients'[c] = Opened(c, g)
      BY <1>4 DEF HandleMapRequest
    <3> QED BY <3>1, OpenedFits
  <2>3. ASSUME NEW d \in Managed, d \in Dialogs PROVE Fits(d, clients'[d])
    <3>1. clients'[d] = [clients[d] EXCEPT !.parent = clients'[d].parent]
      BY <1>4, MapIs
    <3>2. ParentOf(clients[d], clients'[d])
      BY <1>1, <3>1, ParentOnly DEF ParentOf
    <3> QED BY <1>1, <2>3, <3>2, FitsFrom DEF ParentOf
  <2> QED BY <1>1, <2>1, <2>2, <2>3 DEF AllFit
<1>5. ASSUME NEW c \in Clients, NEW g \in Wanted[c], HandleConfigureRequest(c, g)
      PROVE  AllFit(clients')
  <2> DEFINE r == clients[c]
             q == clients'[c]
  <2>1. /\ c \in Managed /\ Managed' = Managed
        /\ \A d \in Managed \ {c} : clients'[d] = clients[d]
    BY <1>5, ConfigureIs
  <2>2. c \in Dialogs => Fits(c, q)
    <3> SUFFICES ASSUME c \in Dialogs PROVE Fits(c, q)
      OBVIOUS
    <3> DEFINE a == [r EXCEPT !.dirty = @ \cup {"Ack"}]
    <3>1. /\ a \in Records /\ a.window = r.window /\ a.frame = r.frame
          /\ a.framed = r.framed
      BY <1>1, <2>1 DEF Records, Bits
    <3>2. q = DialogRequest(a, c, g, "Configure")
      <4>1. q = Requested(a, c, g, "Configure", screen)
        BY <1>1, <1>5, <2>1 DEF HandleConfigureRequest
      <4>2. Kind[c] \in {"Dialog", "Note"}
        BY DEF Dialogs
      <4> HIDE DEF a, q
      <4> QED BY <4>1, <4>2 DEF Requested
    <3>3. g \in Rects /\ NonNeg(g)
      BY LayoutAssumption DEF Sized
    <3>4. Fits(c, a)
      BY <1>1, <2>1, <3>1, FitsFrom
    <3> HIDE DEF a, q
    <3> QED BY <3>1, <3>2, <3>3, <3>4, DialogWishes
  <2> QED BY <1>1, <2>1, <2>2 DEF AllFit
<1>6. ASSUME NEW c \in Clients, HandleFullscreen(c) PROVE AllFit(clients')
  <2>1. /\ c \in Managed /\ Managed' = Managed
        /\ \A d \in Managed \ {c} : clients'[d] = clients[d]
        /\ clients'[c].framed = clients[c].framed /\ clients'[c].window = clients[c].window
        /\ clients'[c].frame = clients[c].frame
    BY <1>6, FilledIs
  <2>2. c \in Dialogs => Fits(c, clients'[c])
    BY <1>1, <2>1, FitsFrom
  <2> QED BY <1>1, <2>1, <2>2 DEF AllFit
<1>7. ASSUME NEW c \in Clients, NEW on \in BOOLEAN, SetMapped(c, on) PROVE AllFit(clients')
  <2>1. /\ c \in Managed /\ Managed' = Managed
        /\ \A d \in Managed \ {c} : clients'[d] = clients[d]
        /\ clients'[c].framed = clients[c].framed /\ clients'[c].window = clients[c].window
        /\ clients'[c].frame = clients[c].frame
    BY <1>7, MappedIs
  <2>2. c \in Dialogs => Fits(c, clients'[c])
    BY <1>1, <2>1, FitsFrom
  <2> QED BY <1>1, <2>1, <2>2 DEF AllFit
<1>8. ASSUME NEW c \in Clients, HandleUnmap(c) PROVE AllFit(clients')
  <2>1. Managed' = Managed \ {c}
    BY <1>8, UnmapIs
  <2>2. ASSUME NEW d \in Managed \ {c}, d \in Dialogs PROVE Fits(d, clients'[d])
    <3>1. clients'[d] = [clients[d] EXCEPT !.parent = clients'[d].parent]
      BY <1>8, UnmapIs
    <3>2. ParentOf(clients[d], clients'[d])
      BY <1>1, <3>1, ParentOnly DEF ParentOf
    <3> QED BY <1>1, <2>2, <3>2, FitsFrom DEF ParentOf
  <2> QED BY <1>1, <2>1, <2>2 DEF AllFit
<1>9. CASE UNCHANGED vars
  BY <1>9 DEF vars
<1>10. TRUE \in BOOLEAN /\ FALSE \in BOOLEAN
  OBVIOUS
<1> QED BY <1>2, <1>3, <1>4, <1>5, <1>6, <1>7, <1>8, <1>9, <1>10 DEF Next, Hide, Show

\* Where a sync with a layout leaves a dialog.
LEMMA SyncInside ==
  ASSUME BareDecors, Types, TypeOK, AllPlain, AllFit(clients), RoomEnough, Sync,
         "Geometry" \in sync, NEW c \in Managed, Kind[c] \in {"Dialog", "Note"},
         clients[c].framed \/ c \notin Decorated
  PROVE  /\ Within(Coverage(clients'[c]), Screen)
         /\ \A d \in Reserving : Apart(Coverage(clients'[c]), Coverage(clients'[d]))
<1>1. c \in Dialogs
  BY DEF Types, Dialogs
<1>2. Reserving \subseteq Sharing(clients) /\ Sharing(clients) \subseteq Managed
  BY DEF Reserving, Sharing, Takes, Orphans, OfFull, TypeOK, Managed
<1>3. /\ c \notin Decorated => Laid[c].window = Laid[c].frame
      /\ Within(Laid[c].frame, Whole(screen))
      /\ \A d \in Sharing(clients) : Apart(Laid[c].frame, Coverage(Laid[d]))
  BY <1>1, LaidInside DEF RoomEnough
<1>4. Coverage(clients'[c]) = Laid[c].frame
  <2>1. /\ clients'[c].window = Laid[c].window /\ clients'[c].frame = Laid[c].frame
        /\ clients'[c].framed <=> c \in Decorated
    BY <1>1, DialogStays
  <2> QED BY <1>3, <2>1 DEF Coverage
<1>5. ASSUME NEW d \in Reserving PROVE Coverage(clients'[d]) = Coverage(Laid[d])
  <2> DEFINE q == Refreshed(Realized(Laid))[d]
  <2>1. d \in Managed /\ Takes(d, clients[d])
    BY <1>2 DEF Sharing
  <2>2. Coverage(q) = Coverage(Laid[d])
    BY <2>1, TakenStays
  <2>3. clients'[d] = Synced(q) /\ q \in Records
    BY <2>1, SyncIs DEF Ready
  <2> HIDE DEF q
  <2> QED BY <2>2, <2>3, SyncedIs DEF Coverage
<1> QED BY <1>2, <1>3, <1>4, <1>5 DEF Screen, Whole

\* After each layout every dialog and note that has its frame, or needs none, lies on the screen
\* and clear of all panels and input methods, wherever the application or its gravity put
\* it, if panels and input methods fit the screen (mb_wm_layout_real_layout_free clips what
\* a dialog covers to the area that the other passes left).
THEOREM DialogsStayInside ==
  FillsApps /\ Sized /\ PlainThemes /\ BareDecors /\ Seen
    => (Spec /\ []RoomEnough => DialogsInside)
<1> SUFFICES ASSUME FillsApps, Sized, PlainThemes, BareDecors, Seen
             PROVE  Spec /\ []RoomEnough => DialogsInside
  OBVIOUS
<1> DEFINE IInv == Types /\ AllPlain /\ Separate /\ AllFit(clients)
           Stay == Sync /\ "Geometry" \in sync
                     => \A c \in Managed :
                          /\ Kind[c] \in {"Dialog", "Note"}
                          /\ clients[c].framed \/ c \notin Decorated
                          => /\ Within(Cover(c)', Screen)
                             /\ \A d \in Reserving : Apart(Cover(c)', Cover(d)')
<1>1. Init => IInv
  <2> SUFFICES ASSUME Init PROVE IInv
    OBVIOUS
  <2>1. Types
    BY InitTypes
  <2>2. clients = << >> /\ DOMAIN clients = {}
    BY DEF Init
  <2> QED BY <2>1, <2>2 DEF AllPlain, AllPlainIn, Separate, Sharing, AllFit
<1>2. IInv /\ RoomEnough /\ [Next]_vars => IInv'
  <2> SUFFICES ASSUME Types, AllPlain, Separate, AllFit(clients), RoomEnough, [Next]_vars
               PROVE  Types' /\ AllPlain' /\ Separate' /\ AllFit(clients')
    OBVIOUS
  <2>1. Types'
    BY TypesStep
  <2>2. AllPlain' /\ Separate'
    BY SeparateStep
  <2>3. AllFit(clients')
    BY FitsStep
  <2> QED BY <2>1, <2>2, <2>3
<1>3. IInv /\ TypeOK /\ RoomEnough => [Stay]_vars
  <2> SUFFICES ASSUME Types, AllPlain, AllFit(clients), TypeOK, RoomEnough, Sync,
                      "Geometry" \in sync, NEW c \in Managed, Kind[c] \in {"Dialog", "Note"},
                      clients[c].framed \/ c \notin Decorated
               PROVE  /\ Within(Cover(c)', Screen)
                      /\ \A d \in Reserving : Apart(Cover(c)', Cover(d)')
    OBVIOUS
  <2> QED BY SyncInside DEF Cover
<1>4. Spec => []TypeOK
  BY TypesHold
<1> HIDE DEF IInv
<1>5. Spec /\ []RoomEnough => []IInv
  BY <1>1, <1>2, PTL DEF Spec
<1>6. Spec /\ []RoomEnough => [][Stay]_vars
  BY <1>3, <1>4, <1>5, PTL
<1> QED BY <1>6 DEF DialogsInside
=============================================================================
