-------------------------- MODULE CompositingProofs --------------------------
(***************************************************************************)
(* Proofs about ClientLifecycle and about Compositing, for any set of      *)
(* windows, any messages and any queue bound; the safety theorems for one  *)
(* desktop.                                                                *)
(*                                                                         *)
(* A window's state says little without the events about it that are still *)
(* in the queue, so the invariant IInv speaks of three things together:    *)
(* the window on the X server, its client, and v, what the queue has for   *)
(* it (Has(queue, w, v)).  Windows do not share anything else but the      *)
(* pending sync, and every action is followed window by window             *)
(* (OneWindow).  The parts of the invariant (Good) are, for a window whose *)
(* client is alive:                                                        *)
(*   Whole    it is in both lists and no change awaits a sync nobody does; *)
(*   Coming   its unmap and map events alternate, and its destruction is   *)
(*            announced;                                                   *)
(*   Owed     the unmap events that skip_unmaps counts are in v, and one   *)
(*            more is if the window is not mapped;                         *)
(*   Seen     a client, shown from the first as its window is activated   *)
(*            with the map request (ActivatesNew), is in view, or a        *)
(*            withdrawal or the next sync will see to it;                  *)
(*   AskedFor a window its application withdrew has that withdrawal in v.  *)
(* The theorems about a window manager with nothing left to do are what    *)
(* remains of these when v is empty and no sync is pending.                *)
(*                                                                         *)
(* The second part is about Compositing, every step of which does to the   *)
(* clients what a step of ClientLifecycle does.  Its invariant adds what   *)
(* every compositor client keeps by itself (Sound): nothing is known of    *)
(* damage without a damage object, and there is none while tracking is     *)
(* paused or after the client is gone.                                     *)
(*                                                                         *)
(* That textures are current needs more (TexInv): what is known of the     *)
(* events to come about a window says whether its unmapping, its mapping   *)
(* or its change of fullscreen is still to be heard of, and until then the *)
(* texture is bound or about to be.                                        *)
(***************************************************************************)
EXTENDS Compositing, FiniteSetTheorems, WellFoundedInduction, TLAPS

Causes == {"app", "wm", "reparent", "release", "hide", "iconify"}

Events ==
  {e \in [type : EventTypes, window : Windows \cup Desktops, by : Causes] :
     IF e.type = "Desktop" THEN e.window \in Desktops ELSE e.window \in Windows}

XRecords ==
  [asked : BOOLEAN, exists : BOOLEAN, mapped : BOOLEAN, framed : BOOLEAN, frameMapped : BOOLEAN]

\* The types of events of windows.
Kinds == EventTypes \ {"Desktop"}

\* What requests cause, before it is said on which window.
Reports == [type : Kinds, by : Causes]

Requests == [x : XRecords, c : Clients, out : Seq(Reports)]

Types ==
  /\ win \in [Windows -> XRecords]
  /\ queue \in Seq(Events)
  /\ client \in [Windows -> Clients]
  /\ desktop \in Desktops
  /\ pending \in BOOLEAN

-----------------------------------------------------------------------------
(* The requests, one by one: which fields they change and what they report. *)

LEMMA XMapDoes ==
  ASSUME NEW r \in Requests, NEW by \in Causes
  PROVE  LET s == XMap(r, by)
         IN  /\ s \in Requests
             /\ s.c = r.c
             /\ s.x.asked = r.x.asked /\ s.x.exists = r.x.exists
             /\ s.x.framed = r.x.framed /\ s.x.frameMapped = r.x.frameMapped
             /\ IF r.x.mapped \/ ~r.x.exists
                THEN s.x.mapped = r.x.mapped /\ s.out = r.out
                ELSE s.x.mapped /\ s.out = Append(r.out, Event("Map", by))
<1>1. Event("Map", by) \in Reports
  BY DEF Event, Reports, Causes, Kinds, EventTypes
<1>2. r.out \in Seq(Reports) /\ r.x \in XRecords /\ r.c \in Clients
  BY DEF Requests
<1>3. Append(r.out, Event("Map", by)) \in Seq(Reports)
  BY <1>1, <1>2
<1>4. \A x \in XRecords, out \in Seq(Reports) : [r EXCEPT !.x = x, !.out = out] \in Requests
  BY DEF Requests
<1> QED BY <1>2, <1>3, <1>4 DEF XMap, XRecords, Requests

LEMMA XUnmapDoes ==
  ASSUME NEW r \in Requests, NEW by \in Causes
  PROVE  LET s == XUnmap(r, by)
         IN  /\ s \in Requests
             /\ s.c = r.c
             /\ s.x.asked = r.x.asked /\ s.x.exists = r.x.exists
             /\ s.x.framed = r.x.framed /\ s.x.frameMapped = r.x.frameMapped
             /\ ~s.x.mapped
             /\ s.out = IF r.x.mapped THEN Append(r.out, Event("Unmap", by)) ELSE r.out
<1>1. Event("Unmap", by) \in Reports
  BY DEF Event, Reports, Causes, Kinds, EventTypes
<1>2. r.out \in Seq(Reports) /\ r.x \in XRecords /\ r.c \in Clients
  BY DEF Requests
<1>3. Append(r.out, Event("Unmap", by)) \in Seq(Reports)
  BY <1>1, <1>2
<1>4. \A x \in XRecords, out \in Seq(Reports) : [r EXCEPT !.x = x, !.out = out] \in Requests
  BY DEF Requests
<1> QED BY <1>2, <1>3, <1>4 DEF XUnmap, XRecords, Requests

LEMMA XReparentDoes ==
  ASSUME NEW r \in Requests, NEW by \in Causes, NEW to \in BOOLEAN
  PROVE  LET s == XReparent(r, to, by)
         IN  /\ s \in Requests
             /\ s.c = r.c
             /\ s.x.asked = r.x.asked /\ s.x.exists = r.x.exists
             /\ s.x.mapped = r.x.mapped /\ s.x.frameMapped = r.x.frameMapped
             /\ s.x.framed = IF r.x.exists THEN to ELSE r.x.framed
             /\ s.out = IF r.x.mapped /\ r.x.exists
                        THEN Append(Append(r.out, Event("Unmap", by)), Event("Map", by))
                        ELSE r.out
<1>1. Event("Unmap", by) \in Reports /\ Event("Map", by) \in Reports
  BY DEF Event, Reports, Kinds, EventTypes
<1>2. r.out \in Seq(Reports)
  BY DEF Requests
<1>3. \A s \in Seq(Reports), e, f \in Reports : /\ s \o <<e, f>> = Append(Append(s, e), f)
                                              /\ s \o <<e, f>> \in Seq(Reports)
  OBVIOUS
<1> QED BY <1>1, <1>2, <1>3 DEF XReparent, Requests, XRecords

LEMMA XUnmapFrameDoes ==
  ASSUME NEW r \in Requests
  PROVE  LET s == XUnmapFrame(r)
         IN  /\ s \in Requests
             /\ s.c = r.c /\ s.out = r.out
             /\ s.x.asked = r.x.asked /\ s.x.exists = r.x.exists
             /\ s.x.mapped = r.x.mapped /\ s.x.framed = r.x.framed
             /\ ~s.x.frameMapped
BY DEF XUnmapFrame, Requests, XRecords

LEMMA XMapFrameDoes ==
  ASSUME NEW r \in Requests
  PROVE  LET s == XMapFrame(r)
         IN  /\ s \in Requests
             /\ s.c = r.c
             /\ s.x.asked = r.x.asked /\ s.x.exists = r.x.exists
             /\ s.x.mapped = r.x.mapped /\ s.x.framed = r.x.framed
             /\ s.x.frameMapped
             /\ s.out = IF r.x.frameMapped THEN r.out
                        ELSE Append(r.out, Event("MapFrame", "wm"))
<1>1. Event("MapFrame", "wm") \in Reports
  BY DEF Event, Reports, Causes, Kinds, EventTypes
<1>2. r.out \in Seq(Reports) /\ r.x \in XRecords /\ r.c \in Clients
  BY DEF Requests
<1>3. Append(r.out, Event("MapFrame", "wm")) \in Seq(Reports)
  BY <1>1, <1>2
<1>4. \A x \in XRecords, out \in Seq(Reports) : [r EXCEPT !.x = x, !.out = out] \in Requests
  BY DEF Requests
<1> QED BY <1>2, <1>3, <1>4 DEF XMapFrame, XRecords, Requests

-----------------------------------------------------------------------------
(* What a queue has for one window: its own events in order, by their types. *)

Kind(es) == [i \in DOMAIN es |-> es[i].type]

IsOf(e, w) == e.window = w /\ e.type # "Desktop"

\* Where the events v of w stand in the queue q.
Places(q, w, v) ==
  {f \in [DOMAIN v -> DOMAIN q] :
     /\ \A i \in DOMAIN v : IsOf(q[f[i]], w) /\ q[f[i]].type = v[i]
     /\ \A i, j \in DOMAIN v : i < j => f[i] < f[j]
     /\ \A k \in DOMAIN q : IsOf(q[k], w) => \E i \in DOMAIN v : f[i] = k}

Has(q, w, v) == v \in Seq(Kinds) /\ Places(q, w, v) # {}

LEMMA HasNothing ==
  ASSUME NEW w
  PROVE  /\ Has(<< >>, w, << >>)
         /\ \A v : Has(<< >>, w, v) => v = << >>
<1>1. [i \in DOMAIN << >> |-> i] \in Places(<< >>, w, << >>)
  BY DEF Places
<1>2. ASSUME NEW v, Has(<< >>, w, v) PROVE v = << >>
  <2>1. PICK f \in Places(<< >>, w, v) : TRUE
    BY <1>2 DEF Has
  <2>2. v \in Seq(Kinds) /\ DOMAIN v = {}
    BY <1>2, <2>1 DEF Has, Places
  <2> QED BY <2>2
<1> QED BY <1>1, <1>2 DEF Has

(* Events of that window only, and events of others only.                  *)
LEMMA HasAllOrNone ==
  ASSUME NEW es \in Seq(Events), NEW w
  PROVE  /\ (\A i \in DOMAIN es : IsOf(es[i], w)) => Has(es, w, Kind(es))
         /\ (\A i \in DOMAIN es : ~IsOf(es[i], w)) => Has(es, w, << >>)
<1>1. DOMAIN es = 1..Len(es) /\ Len(es) \in Nat
  OBVIOUS
<1>2. ASSUME \A i \in DOMAIN es : IsOf(es[i], w) PROVE Has(es, w, Kind(es))
  <2>1. \A i \in 1..Len(es) : es[i].type \in Kinds
    BY <1>1, <1>2 DEF IsOf, Events, Kinds
  <2>2. Kind(es) \in Seq(Kinds) /\ DOMAIN Kind(es) = DOMAIN es
    BY <1>1, <2>1 DEF Kind
  <2>3. [i \in DOMAIN es |-> i] \in Places(es, w, Kind(es))
    BY <1>1, <1>2 DEF Places, Kind
  <2> QED BY <2>2, <2>3 DEF Has
<1>3. ASSUME \A i \in DOMAIN es : ~IsOf(es[i], w) PROVE Has(es, w, << >>)
  <2>1. [i \in DOMAIN << >> |-> i] \in Places(es, w, << >>)
    BY <1>3 DEF Places
  <2> QED BY <2>1 DEF Has
<1> QED BY <1>2, <1>3

(* Two queues, one behind the other.                                       *)
LEMMA HasBoth ==
  ASSUME NEW q \in Seq(Events), NEW es \in Seq(Events), NEW w,
         NEW v, Has(q, w, v), NEW t, Has(es, w, t)
  PROVE  Has(q \o es, w, v \o t)
<1>1. PICK f \in Places(q, w, v) : TRUE
  BY DEF Has
<1>2. PICK h \in Places(es, w, t) : TRUE
  BY DEF Has
<1>3. /\ v \in Seq(Kinds) /\ DOMAIN v = 1..Len(v) /\ Len(v) \in Nat
      /\ t \in Seq(Kinds) /\ DOMAIN t = 1..Len(t) /\ Len(t) \in Nat
  BY DEF Has
<1>4. /\ DOMAIN q = 1..Len(q) /\ DOMAIN (q \o es) = 1..(Len(q) + Len(es))
      /\ DOMAIN es = 1..Len(es) /\ Len(q) \in Nat /\ Len(es) \in Nat
      /\ \A i \in DOMAIN q : i \in DOMAIN (q \o es) /\ (q \o es)[i] = q[i]
      /\ \A i \in DOMAIN es : Len(q) + i \in DOMAIN (q \o es) /\ (q \o es)[Len(q) + i] = es[i]
      /\ \A k \in DOMAIN (q \o es) : k \notin DOMAIN q =>
            k - Len(q) \in DOMAIN es /\ (q \o es)[k] = es[k - Len(q)]
  OBVIOUS
<1>5. /\ f \in [DOMAIN v -> DOMAIN q]
      /\ \A i \in DOMAIN v : IsOf(q[f[i]], w) /\ q[f[i]].type = v[i]
      /\ \A i, j \in DOMAIN v : i < j => f[i] < f[j]
      /\ \A k \in DOMAIN q : IsOf(q[k], w) => \E i \in DOMAIN v : f[i] = k
  BY <1>1 DEF Places
<1>6. /\ h \in [DOMAIN t -> DOMAIN es]
      /\ \A i \in DOMAIN t : IsOf(es[h[i]], w) /\ es[h[i]].type = t[i]
      /\ \A i, j \in DOMAIN t : i < j => h[i] < h[j]
      /\ \A k \in DOMAIN es : IsOf(es[k], w) => \E i \in DOMAIN t : h[i] = k
  BY <1>2 DEF Places
<1> DEFINE u == v \o t
           g == [i \in DOMAIN u |-> IF i > Len(v) THEN Len(q) + h[i - Len(v)] ELSE f[i]]
<1>7. /\ u \in Seq(Kinds)
      /\ DOMAIN u = 1..(Len(v) + Len(t))
      /\ \A i \in DOMAIN v : i \in DOMAIN u /\ u[i] = v[i] /\ ~(i > Len(v))
      /\ \A i \in DOMAIN u : i > Len(v) => i - Len(v) \in DOMAIN t /\ u[i] = t[i - Len(v)]
      /\ \A i \in DOMAIN u : ~(i > Len(v)) => i \in DOMAIN v
      /\ \A i \in DOMAIN t : /\ Len(v) + i \in DOMAIN u /\ Len(v) + i > Len(v)
                             /\ (Len(v) + i) - Len(v) = i
  BY <1>3
<1>8. \A i \in DOMAIN v : g[i] = f[i] /\ f[i] \in DOMAIN q
  BY <1>5, <1>7
<1>9. \A i \in DOMAIN u : i > Len(v) =>
         g[i] = Len(q) + h[i - Len(v)] /\ h[i - Len(v)] \in DOMAIN es
  BY <1>6, <1>7
<1> HIDE DEF u, g
<1>10. g \in [DOMAIN u -> DOMAIN (q \o es)]
  <2>1. ASSUME NEW i \in DOMAIN u PROVE g[i] \in DOMAIN (q \o es)
    <3>1. CASE i > Len(v)
      BY <1>4, <1>9, <3>1
    <3>2. CASE ~(i > Len(v))
      BY <1>4, <1>7, <1>8, <3>2
    <3> QED BY <3>1, <3>2
  <2> QED BY <2>1 DEF g
<1>11. \A i \in DOMAIN u : IsOf((q \o es)[g[i]], w) /\ (q \o es)[g[i]].type = u[i]
  <2> TAKE i \in DOMAIN u
  <2>1. CASE i > Len(v)
    <3>1. (q \o es)[g[i]] = es[h[i - Len(v)]] /\ u[i] = t[i - Len(v)] /\ i - Len(v) \in DOMAIN t
      BY <1>4, <1>7, <1>9, <2>1, SMTT(60)
    <3> QED BY <1>6, <3>1
  <2>2. CASE ~(i > Len(v))
    BY <1>4, <1>5, <1>7, <1>8, <2>2
  <2> QED BY <2>1, <2>2
<1>12. \A i, j \in DOMAIN u : i < j => g[i] < g[j]
  <2> TAKE i, j \in DOMAIN u
  <2> HAVE i < j
  <2>0. i \in Int /\ j \in Int /\ Len(v) \in Int /\ Len(q) \in Int
    BY <1>3, <1>4, <1>7
  <2>1. CASE i > Len(v)
    <3>1. j > Len(v) /\ i - Len(v) < j - Len(v)
      BY <2>0, <2>1
    <3>2. h[i - Len(v)] < h[j - Len(v)] /\ h[i - Len(v)] \in Int /\ h[j - Len(v)] \in Int
      BY <1>4, <1>6, <1>7, <2>1, <3>1
    <3> QED BY <1>9, <2>0, <2>1, <3>1, <3>2
  <2>2. CASE ~(i > Len(v)) /\ j > Len(v)
    <3>1. g[i] \in 1..Len(q) /\ h[j - Len(v)] \in 1..Len(es) /\ g[j] = Len(q) + h[j - Len(v)]
      BY <1>4, <1>7, <1>8, <1>9, <2>2
    <3> QED BY <1>4, <3>1
  <2>3. CASE ~(j > Len(v))
    <3>1. ~(i > Len(v))
      BY <2>0, <2>3
    <3>2. i \in DOMAIN v /\ j \in DOMAIN v
      BY <1>7, <2>3, <3>1
    <3> QED BY <1>5, <1>8, <3>2
  <2> QED BY <2>1, <2>2, <2>3
<1>13. \A k \in DOMAIN (q \o es) : IsOf((q \o es)[k], w) => \E i \in DOMAIN u : g[i] = k
  <2> TAKE k \in DOMAIN (q \o es)
  <2> HAVE IsOf((q \o es)[k], w)
  <2>1. CASE k \in DOMAIN q
    BY <1>4, <1>5, <1>7, <1>8, <2>1
  <2>2. CASE k \notin DOMAIN q
    <3>1. /\ k - Len(q) \in DOMAIN es /\ Len(q) + (k - Len(q)) = k
          /\ IsOf(es[k - Len(q)], w)
      BY <1>4, <2>2
    <3>2. PICK i \in DOMAIN t : h[i] = k - Len(q)
      BY <1>6, <3>1
    <3>3. g[Len(v) + i] = k
      BY <1>7, <1>9, <3>1, <3>2
    <3> QED BY <1>7, <3>3
  <2> QED BY <2>1, <2>2
<1>14. g \in Places(q \o es, w, u)
  BY <1>10, <1>11, <1>12, <1>13 DEF Places
<1>15. Has(q \o es, w, u)
  BY <1>7, <1>14 DEF Has
<1> QED BY <1>15 DEF u

(* The first event is taken away. *)
LEMMA HasLess ==
  ASSUME NEW q \in Seq(Events), q # << >>, NEW w, NEW v, Has(q, w, v)
  PROVE  IF IsOf(Head(q), w)
         THEN v # << >> /\ Head(v) = Head(q).type /\ Has(Tail(q), w, Tail(v))
         ELSE Has(Tail(q), w, v)
<1>1. PICK f \in Places(q, w, v) : TRUE
  BY DEF Has
<1>2. v \in Seq(Kinds) /\ DOMAIN v = 1..Len(v) /\ Len(v) \in Nat
  BY DEF Has
<1>3. /\ DOMAIN q = 1..Len(q) /\ DOMAIN Tail(q) = 1..(Len(q) - 1) /\ Len(q) \in Nat \ {0}
      /\ \A i \in DOMAIN Tail(q) : Tail(q)[i] = q[i + 1]
      /\ Head(q) = q[1]
  OBVIOUS
<1>4. /\ f \in [DOMAIN v -> DOMAIN q]
      /\ \A i \in DOMAIN v : IsOf(q[f[i]], w) /\ q[f[i]].type = v[i]
      /\ \A i, j \in DOMAIN v : i < j => f[i] < f[j]
      /\ \A k \in DOMAIN q : IsOf(q[k], w) => \E i \in DOMAIN v : f[i] = k
  BY <1>1 DEF Places
<1>5. CASE ~IsOf(Head(q), w)
  <2> DEFINE g == [i \in DOMAIN v |-> f[i] - 1]
  <2>0. \A i \in DOMAIN v : f[i] \in 2..Len(q)
    BY <1>3, <1>4, <1>5
  <2>1. g \in [DOMAIN v -> DOMAIN Tail(q)]
    BY <1>3, <2>0
  <2>2. \A i \in DOMAIN v : IsOf(Tail(q)[g[i]], w) /\ Tail(q)[g[i]].type = v[i]
    BY <1>3, <1>4, <2>0
  <2>3. \A k \in DOMAIN Tail(q) : IsOf(Tail(q)[k], w) => \E i \in DOMAIN v : g[i] = k
    BY <1>3, <1>4, <2>0
  <2>4. \A i, j \in DOMAIN v : i < j => g[i] < g[j]
    BY <1>4, <2>0
  <2>5. g \in Places(Tail(q), w, v)
    BY <2>1, <2>2, <2>3, <2>4 DEF Places
  <2> QED BY <1>2, <1>5, <2>5 DEF Has
<1>6. CASE IsOf(Head(q), w)
  <2> DEFINE u == Tail(v)
             g == [i \in DOMAIN u |-> f[i + 1] - 1]
  <2>1. PICK i \in DOMAIN v : f[i] = 1
    BY <1>3, <1>4, <1>6
  <2>2. i = 1
    <3>1. CASE i > 1
      <4>1. 1 \in DOMAIN v /\ f[1] < f[i]
        BY <1>2, <1>4, <2>1, <3>1
      <4> QED BY <1>3, <1>4, <2>1, <4>1
    <3> QED BY <1>2, <3>1
  <2>3. /\ v # << >> /\ 1 \in DOMAIN v /\ v[1] = Head(v) /\ f[1] = 1
        /\ u \in Seq(Kinds) /\ DOMAIN u = 1..(Len(v) - 1)
        /\ \A k \in DOMAIN u : u[k] = v[k + 1] /\ k + 1 \in DOMAIN v
    BY <1>2, <2>1, <2>2
  <2>4. \A k \in DOMAIN u : f[k + 1] \in 2..Len(q)
    BY <1>2, <1>3, <1>4, <2>3
  <2>5. g \in [DOMAIN u -> DOMAIN Tail(q)]
    BY <1>3, <2>4
  <2>6. \A k \in DOMAIN u : IsOf(Tail(q)[g[k]], w) /\ Tail(q)[g[k]].type = u[k]
    BY <1>3, <1>4, <2>3, <2>4, SMTT(60)
  <2>7. \A k, l \in DOMAIN u : k < l => g[k] < g[l]
    <3> TAKE k, l \in DOMAIN u
    <3> HAVE k < l
    <3>1. k + 1 \in DOMAIN v /\ l + 1 \in DOMAIN v /\ k + 1 < l + 1
      BY <1>2, <2>3
    <3>2. f[k + 1] < f[l + 1] /\ f[k + 1] \in Int /\ f[l + 1] \in Int
      BY <1>3, <1>4, <3>1
    <3> QED BY <3>2
  <2>8. \A k \in DOMAIN Tail(q) : IsOf(Tail(q)[k], w) => \E j \in DOMAIN u : g[j] = k
    <3> TAKE k \in DOMAIN Tail(q)
    <3> HAVE IsOf(Tail(q)[k], w)
    <3>1. k + 1 \in DOMAIN q /\ k \in Nat \ {0} /\ IsOf(q[k + 1], w)
      BY <1>3
    <3>2. PICK j \in DOMAIN v : f[j] = k + 1
      BY <1>4, <3>1
    <3>3. j # 1
      BY <2>3, <3>1, <3>2
    <3>4. j - 1 \in DOMAIN u /\ (j - 1) + 1 = j
      BY <1>2, <2>3, <3>3
    <3>5. g[j - 1] = k
      BY <3>1, <3>2, <3>4
    <3> QED BY <3>4, <3>5
  <2>9. g \in Places(Tail(q), w, u)
    BY <2>5, <2>6, <2>7, <2>8 DEF Places
  <2> QED BY <1>3, <1>4, <1>6, <2>3, <2>9 DEF Has
<1> QED BY <1>5, <1>6

(* A set of numbers with one in it has a least one.                        *)
LEMMA Least ==
  ASSUME NEW S \in SUBSET Nat, S # {}
  PROVE  \E m \in S : \A i \in S : m <= i
<1> DEFINE R == OpToRel(<, Nat)
<1>1. PICK m \in S : \A i \in S : <<i, m>> \notin R
  BY WFMin, NatLessThanWellFounded, Zenon
<1>2. ASSUME NEW i \in Nat, NEW j \in Nat, i < j PROVE <<i, j>> \in R
  BY <1>2 DEF OpToRel
<1> HIDE DEF R
<1>3. ASSUME NEW i \in S PROVE m <= i
  <2>1. i \in Nat /\ m \in Nat
    OBVIOUS
  <2>2. ~(i < m)
    BY <1>1, <1>2, <2>1, Zenon
  <2> QED BY <2>1, <2>2
<1> QED BY <1>3

\* The first m of the queues ss, one behind the other.
Joined(ss, m, f) ==
  f = [i \in 1..m |-> IF i = 1 THEN ss[i] ELSE f[i - 1] \o ss[i]]

LEMMA JoinedExists ==
  ASSUME NEW ss, NEW n \in Nat \ {0}
  PROVE  \E f : Joined(ss, n, f)
<1> DEFINE Missing == {m \in Nat \ {0} : ~\E f : Joined(ss, m, f)}
<1>1. ASSUME Missing # {} PROVE FALSE
  <2>1. PICK m \in Missing : \A i \in Missing : m <= i
    <3>1. Missing \in SUBSET Nat
      OBVIOUS
    <3> QED BY <1>1, <3>1, Least
  <2>2. CASE m = 1
    <3>1. Joined(ss, m, [i \in 1..1 |-> ss[i]])
      BY <2>2 DEF Joined
    <3> QED BY <2>1, <3>1
  <2>3. CASE m # 1
    <3>1. m - 1 \in Nat \ {0} /\ m \in Nat \ {0} /\ ~(m <= m - 1)
      BY <2>1, <2>3
    <3>2. PICK f : Joined(ss, m - 1, f)
      BY <2>1, <3>1
    <3> DEFINE g == [i \in 1..m |-> IF i = m THEN f[m - 1] \o ss[m] ELSE f[i]]
    <3>3. \A i \in 1..m : i # m => f[i] = IF i = 1 THEN ss[i] ELSE f[i - 1] \o ss[i]
      <4>1. \A i \in 1..(m - 1) : f[i] = IF i = 1 THEN ss[i] ELSE f[i - 1] \o ss[i]
        BY <3>2, Zenon DEF Joined
      <4>2. \A i \in 1..m : i # m => i \in 1..(m - 1)
        BY <3>1
      <4> QED BY <4>1, <4>2
    <3>4. \A i \in 1..m : i # 1 => g[i - 1] = f[i - 1]
      BY <3>1
    <3>5. \A i \in 1..m : g[i] = IF i = 1 THEN ss[i] ELSE g[i - 1] \o ss[i]
      BY <2>3, <3>1, <3>3, <3>4
    <3>6. Joined(ss, m, g)
      BY <3>5 DEF Joined
    <3> QED BY <2>1, <3>6
  <2> QED BY <2>2, <2>3
<1> QED BY <1>1

LEMMA FlattenIsJoined ==
  ASSUME NEW ss, Len(ss) \in Nat \ {0}
  PROVE  \E f : Joined(ss, Len(ss), f) /\ FlattenSeq(ss) = f[Len(ss)]
<1> DEFINE F(f) == [i \in 1..Len(ss) |-> IF i = 1 THEN ss[i] ELSE f[i - 1] \o ss[i]]
           flatten == CHOOSE f : f = F(f)
<1>1. flatten = F(flatten)
  BY JoinedExists DEF Joined
<1>2. FlattenSeq(ss) = flatten[Len(ss)]
  BY DEF FlattenSeq
<1> QED BY <1>1, <1>2 DEF Joined

(* Of queues joined to one, only the k-th has events of the window w.      *)
LEMMA FlattenHas ==
  ASSUME NEW n \in Nat, NEW ss \in [1..n -> Seq(Events)], NEW w, NEW k \in 1..n,
         \A i \in DOMAIN ss[k] : IsOf(ss[k][i], w),
         \A m \in (1..n) \ {k} : \A i \in DOMAIN ss[m] : ~IsOf(ss[m][i], w)
  PROVE  FlattenSeq(ss) \in Seq(Events) /\ Has(FlattenSeq(ss), w, Kind(ss[k]))
<1>1. Len(ss) = n /\ n \in Nat \ {0}
  OBVIOUS
<1>2. PICK f : Joined(ss, n, f) /\ FlattenSeq(ss) = f[n]
  BY <1>1, FlattenIsJoined
<1> DEFINE Told(m) == IF m >= k THEN Kind(ss[k]) ELSE << >>
           Wrong == {m \in 1..n : ~(f[m] \in Seq(Events) /\ Has(f[m], w, Told(m)))}
<1>3. ASSUME Wrong # {} PROVE FALSE
  <2>1. PICK m \in Wrong : \A i \in Wrong : m <= i
    <3>1. Wrong \in SUBSET Nat
      OBVIOUS
    <3> QED BY <1>3, <3>1, Least
  <2>2. /\ f[m] = IF m = 1 THEN ss[m] ELSE f[m - 1] \o ss[m]
        /\ m \in 1..n /\ ss[m] \in Seq(Events)
    BY <1>2, <2>1 DEF Joined
  <2>3. Has(ss[m], w, IF m = k THEN Kind(ss[k]) ELSE << >>)
    BY <2>2, HasAllOrNone
  <2>4. CASE m = 1
    BY <1>1, <2>1, <2>2, <2>3, <2>4
  <2>5. CASE m # 1
    <3>1. m - 1 \in 1..n /\ ~(m <= m - 1)
      BY <2>2, <2>5
    <3>2. f[m - 1] \in Seq(Events) /\ Has(f[m - 1], w, Told(m - 1))
      BY <2>1, <3>1
    <3>3. f[m] \in Seq(Events)
      BY <2>2, <2>5, <3>2
    <3>4. Has(f[m], w, Told(m - 1) \o (IF m = k THEN Kind(ss[k]) ELSE << >>))
      BY <2>2, <2>3, <2>5, <3>2, HasBoth
    <3>5. Kind(ss[k]) \in Seq(Kinds)
      <4>1. Has(ss[k], w, Kind(ss[k]))
        BY HasAllOrNone
      <4> QED BY <4>1 DEF Has
    <3>6. Told(m - 1) \o (IF m = k THEN Kind(ss[k]) ELSE << >>) = Told(m)
      <4>1. \A t \in Seq(Kinds) : t \o << >> = t /\ << >> \o t = t
        OBVIOUS
      <4>2. << >> \in Seq(Kinds)
        OBVIOUS
      <4>3. m = k => Told(m - 1) = << >> /\ Told(m) = Kind(ss[k])
        BY <2>2
      <4>4. m # k => Told(m - 1) = Told(m) /\ Told(m) \in Seq(Kinds)
        BY <2>2, <3>5, <4>2
      <4> HIDE DEF Told
      <4> QED BY <3>5, <4>1, <4>3, <4>4
    <3> QED BY <2>1, <3>3, <3>4, <3>6
  <2> QED BY <2>4, <2>5
<1>4. Told(n) = Kind(ss[k])
  OBVIOUS
<1> QED BY <1>1, <1>2, <1>3, <1>4

(* The same if none has.                                                   *)
LEMMA FlattenIsQueue ==
  ASSUME NEW n \in Nat, NEW ss \in [1..n -> Seq(Events)]
  PROVE  FlattenSeq(ss) \in Seq(Events)
<1>1. Len(ss) = n
  OBVIOUS
<1>2. CASE n = 0
  <2>1. ss = << >>
    BY <1>2
  <2> QED BY <1>1, <1>2, <2>1 DEF FlattenSeq
<1>3. CASE n # 0
  <2>1. PICK f : Joined(ss, n, f) /\ FlattenSeq(ss) = f[n]
    BY <1>1, <1>3, FlattenIsJoined
  <2> DEFINE Wrong == {m \in 1..n : ~(f[m] \in Seq(Events))}
  <2>2. ASSUME Wrong # {} PROVE FALSE
    <3>1. PICK m \in Wrong : \A i \in Wrong : m <= i
      <4>1. Wrong \in SUBSET Nat
        OBVIOUS
      <4> QED BY <2>2, <4>1, Least
    <3>2. /\ f[m] = IF m = 1 THEN ss[m] ELSE f[m - 1] \o ss[m]
          /\ m \in 1..n /\ ss[m] \in Seq(Events)
      BY <2>1, <3>1 DEF Joined
    <3>3. CASE m # 1
      <4>1. m - 1 \in 1..n /\ ~(m <= m - 1)
        BY <3>2, <3>3
      <4>2. f[m - 1] \in Seq(Events)
        BY <3>1, <4>1
      <4>3. \A s, t \in Seq(Events) : s \o t \in Seq(Events)
        OBVIOUS
      <4>4. f[m] \in Seq(Events)
        BY <3>2, <3>3, <4>2, <4>3
      <4> QED BY <3>1, <4>4
    <3> QED BY <3>1, <3>2, <3>3
  <2> QED BY <1>3, <2>1, <2>2
<1> QED BY <1>2, <1>3


-----------------------------------------------------------------------------
(* The events of one window. *)

Unmaps(v) == {i \in DOMAIN v : v[i] = "Unmap"}
Maps(v) == {i \in DOMAIN v : v[i] = "Map"}
Count(v) == Cardinality(Unmaps(v))

LEMMA CountIsNat ==
  ASSUME NEW v \in Seq(Kinds)
  PROVE  /\ IsFiniteSet(Unmaps(v)) /\ Count(v) \in Nat
         /\ Count(v) = 0 <=> Unmaps(v) = {}
<1>1. 1 \in Int /\ Len(v) \in Int /\ DOMAIN v = 1..Len(v)
  OBVIOUS
<1>2. IsFiniteSet(1..Len(v))
  BY <1>1, FS_Interval, Zenon
<1>3. Unmaps(v) \in SUBSET (1..Len(v))
  BY <1>1 DEF Unmaps
<1>4. IsFiniteSet(Unmaps(v))
  BY <1>2, <1>3, FS_Subset
<1> QED BY <1>4, FS_CardinalityType, FS_EmptySet DEF Count

LEMMA CountEmpty == Count(<< >>) = 0
<1>1. Unmaps(<< >>) = {}
  BY DEF Unmaps
<1> QED BY <1>1, FS_EmptySet DEF Count

LEMMA CountAppend ==
  ASSUME NEW v \in Seq(Kinds), NEW k \in Kinds
  PROVE  Count(Append(v, k)) = Count(v) + (IF k = "Unmap" THEN 1 ELSE 0)
<1>1. /\ DOMAIN v = 1..Len(v) /\ DOMAIN Append(v, k) = 1..(Len(v) + 1) /\ Len(v) \in Nat
      /\ \A i \in DOMAIN v : Append(v, k)[i] = v[i]
      /\ Append(v, k)[Len(v) + 1] = k
  OBVIOUS
<1>2. CASE k = "Unmap"
  <2>1. Unmaps(Append(v, k)) = Unmaps(v) \cup {Len(v) + 1} /\ Len(v) + 1 \notin Unmaps(v)
    BY <1>1, <1>2 DEF Unmaps
  <2> QED BY <1>2, <2>1, CountIsNat, FS_AddElement DEF Count
<1>3. CASE k # "Unmap"
  <2>1. Unmaps(Append(v, k)) = Unmaps(v)
    BY <1>1, <1>3 DEF Unmaps
  <2> QED BY <1>3, <2>1, CountIsNat DEF Count
<1> QED BY <1>2, <1>3

LEMMA CountTail ==
  ASSUME NEW v \in Seq(Kinds), v # << >>
  PROVE  Count(v) = Count(Tail(v)) + (IF Head(v) = "Unmap" THEN 1 ELSE 0)
<1>1. /\ DOMAIN v = 1..Len(v) /\ DOMAIN Tail(v) = 1..(Len(v) - 1) /\ Len(v) \in Nat \ {0}
      /\ \A i \in DOMAIN Tail(v) : Tail(v)[i] = v[i + 1]
      /\ Head(v) = v[1] /\ Tail(v) \in Seq(Kinds)
  OBVIOUS
<1> DEFINE R == Unmaps(v) \ {1}
           f == [i \in Unmaps(Tail(v)) |-> i + 1]
<1>2. \A i \in Unmaps(Tail(v)) : i + 1 \in R
  BY <1>1 DEF Unmaps
<1>3. \A k \in R : k - 1 \in Unmaps(Tail(v)) /\ (k - 1) + 1 = k
  BY <1>1 DEF Unmaps
<1>4. f \in [Unmaps(Tail(v)) -> R]
  BY <1>2
<1>5. \A i, j \in Unmaps(Tail(v)) : f[i] = f[j] => i = j
  BY <1>1 DEF Unmaps
<1>6. \A k \in R : \E i \in Unmaps(Tail(v)) : f[i] = k
  BY <1>3
<1>7. f \in Bijection(Unmaps(Tail(v)), R)
  BY <1>4, <1>5, <1>6 DEF Bijection, Injection, Surjection, IsInjective
<1>8. ExistsBijection(Unmaps(Tail(v)), R)
  BY <1>7 DEF ExistsBijection
<1>9. Cardinality(R) = Count(Tail(v))
  BY <1>1, <1>8, CountIsNat, FS_Bijection DEF Count
<1>10. Cardinality(R) = IF 1 \in Unmaps(v) THEN Count(v) - 1 ELSE Count(v)
  BY CountIsNat, FS_RemoveElement DEF Count
<1>11. 1 \in Unmaps(v) <=> Head(v) = "Unmap"
  BY <1>1 DEF Unmaps
<1> QED BY <1>1, <1>9, <1>10, <1>11, CountIsNat


Messaged == {"SetFullscreen", "ClearFullscreen"}

\* Each of these is followed by the unmapping of the window.
Followed(v, kinds) == \A i \in DOMAIN v : v[i] \in kinds => \E k \in Unmaps(v) : i < k

\* A window is mapped between two times it is unmapped, and after the last one
\* if it is mapped now.
Alternates(v, mapped) ==
  /\ \A i, k \in Unmaps(v) : i < k => \E j \in Maps(v) : i < j /\ j < k
  /\ mapped => \A i \in Unmaps(v) : \E j \in Maps(v) : i < j

\* Messages are sent for mapped windows.
Announced(v, mapped) == ~mapped => Followed(v, Messaged)

\* The first thing heard of is that the window is mapped.
MapNext(v) == \E j \in Maps(v) : \A i \in Unmaps(v) : j < i

\* A window is asked to be mapped when it is not, and each time it is mapped the
\* window manager hears of it before it hears of the next unmapping.
Ordered(v, mapped) ==
  /\ \A i \in DOMAIN v : v[i] = "MapRequest" =>
       \A k \in Unmaps(v) : i < k => \E j \in Maps(v) : i < j /\ j < k
  /\ mapped => \A i \in DOMAIN v : v[i] = "MapRequest" => \E j \in Maps(v) : i < j
  /\ ~mapped => Followed(v, {"Map"})

\* A window that was not heard to be mapped will first be heard to be mapped.
Fresh(v, mapped) == mapped \/ Unmaps(v) # {} => MapNext(v)

\* What an event k on the window, by which it is mapped or unmapped, does not
\* change in the events v.
Grows(v, mapped, u, now) ==
  /\ u \in Seq(Kinds)
  /\ Alternates(v, mapped) => Alternates(u, now)
  /\ Announced(v, mapped) => Announced(u, now)
  /\ MapNext(v) => MapNext(u)
  /\ Ordered(v, mapped) => Ordered(u, now)
  /\ Fresh(v, mapped) => Fresh(u, now)
  /\ Followed(v, {"MapRequest"}) => Followed(u, {"MapRequest"})
  /\ \A k \in {"ClearFullscreen", "Destroy"} :
       (\E i \in DOMAIN v : v[i] = k) <=> (\E i \in DOMAIN u : u[i] = k)

LEMMA GrowsTwice ==
  ASSUME NEW v, NEW m, NEW u, NEW n, NEW t, NEW o, Grows(v, m, u, n), Grows(u, n, t, o)
  PROVE  Grows(v, m, t, o)
BY DEF Grows

LEMMA GrowsNot ==
  ASSUME NEW v \in Seq(Kinds), NEW m
  PROVE  Grows(v, m, v, m)
BY DEF Grows

LEMMA GrowsByOne ==
  ASSUME NEW v \in Seq(Kinds), NEW m \in BOOLEAN, NEW n \in BOOLEAN,
         NEW e \in {"Map", "Unmap", "MapFrame"},
         /\ e = "Map" => ~m /\ n
         /\ e = "Unmap" => m /\ ~n
         /\ e = "MapFrame" => m = n
  PROVE  Grows(v, m, Append(v, e), n)
<1> DEFINE u == Append(v, e)
<1>1. e \in Kinds
  BY DEF Kinds, EventTypes
<1>2. /\ DOMAIN v = 1..Len(v) /\ DOMAIN u = 1..(Len(v) + 1) /\ Len(v) \in Nat
      /\ \A i \in DOMAIN v : u[i] = v[i] /\ i < Len(v) + 1 /\ i \in DOMAIN u
      /\ \A i \in DOMAIN u : i \notin DOMAIN v => i = Len(v) + 1
      /\ u[Len(v) + 1] = e /\ Len(v) + 1 \in DOMAIN u /\ Len(v) + 1 \notin DOMAIN v
      /\ u \in Seq(Kinds)
  BY <1>1
<1> HIDE DEF u
<1>3. /\ Unmaps(u) = IF e = "Unmap" THEN Unmaps(v) \cup {Len(v) + 1} ELSE Unmaps(v)
      /\ Maps(u) = IF e = "Map" THEN Maps(v) \cup {Len(v) + 1} ELSE Maps(v)
      /\ Unmaps(v) \subseteq DOMAIN v /\ Maps(v) \subseteq DOMAIN v
  BY <1>2 DEF Unmaps, Maps
<1>4. Alternates(v, m) => Alternates(u, n)
  BY <1>2, <1>3 DEF Alternates
<1>5. ASSUME NEW kinds, e \notin kinds, Followed(v, kinds) PROVE Followed(u, kinds)
  BY <1>2, <1>3, <1>5 DEF Followed
<1>6. Announced(v, m) => Announced(u, n)
  <2>1. CASE e = "Unmap"
    BY <1>2, <1>3, <2>1 DEF Announced, Followed, Messaged
  <2>2. CASE e # "Unmap"
    BY <1>5, <2>2 DEF Announced, Messaged
  <2> QED BY <2>1, <2>2
<1>7. MapNext(v) => MapNext(u)
  BY <1>2, <1>3 DEF MapNext
<1>8. ASSUME NEW k \in {"ClearFullscreen", "Destroy"}
      PROVE  (\E i \in DOMAIN v : v[i] = k) <=> (\E i \in DOMAIN u : u[i] = k)
  BY <1>2
<1>9. Followed(v, {"MapRequest"}) => Followed(u, {"MapRequest"})
  BY <1>5
<1>10. Ordered(v, m) => Ordered(u, n)
  <2> HAVE Ordered(v, m)
  <2>1. \A i \in DOMAIN u : u[i] = "MapRequest" => i \in DOMAIN v /\ v[i] = "MapRequest"
    BY <1>2
  <2>2. ASSUME NEW i \in DOMAIN u, u[i] = "MapRequest", NEW k \in Unmaps(u), i < k
        PROVE  \E j \in Maps(u) : i < j /\ j < k
    <3>1. CASE k \in Unmaps(v)
      BY <1>3, <2>1, <2>2, <3>1 DEF Ordered
    <3>2. CASE k \notin Unmaps(v)
      <4>1. e = "Unmap" /\ k = Len(v) + 1 /\ m
        BY <1>3, <2>2, <3>2
      <4>2. PICK j \in Maps(v) : i < j
        BY <2>1, <2>2, <4>1 DEF Ordered
      <4> QED BY <1>2, <1>3, <4>1, <4>2
    <3> QED BY <3>1, <3>2
  <2>3. n => \A i \in DOMAIN u : u[i] = "MapRequest" => \E j \in Maps(u) : i < j
    <3>1. CASE e = "Map"
      BY <1>2, <1>3, <2>1, <3>1
    <3>2. CASE e # "Map"
      BY <1>3, <2>1, <3>2 DEF Ordered
    <3> QED BY <3>1, <3>2
  <2>4. ~n => Followed(u, {"Map"})
    <3>1. CASE e = "Unmap"
      BY <1>2, <1>3, <3>1 DEF Followed
    <3>2. CASE e = "MapFrame"
      BY <1>5, <3>2 DEF Ordered
    <3> QED BY <3>1, <3>2
  <2> QED BY <2>2, <2>3, <2>4 DEF Ordered
<1>11. Fresh(v, m) => Fresh(u, n)
  <2>1. CASE e = "Map" /\ Unmaps(v) = {}
    BY <1>2, <1>3, <2>1 DEF Fresh, MapNext
  <2>2. CASE ~(e = "Map" /\ Unmaps(v) = {})
    BY <1>3, <1>7, <2>2 DEF Fresh
  <2> QED BY <2>1, <2>2
<1>12. Grows(v, m, u, n)
  BY <1>2, <1>4, <1>6, <1>7, <1>8, <1>9, <1>10, <1>11 DEF Grows
<1> QED BY <1>12 DEF u


-----------------------------------------------------------------------------
(* The requests, and what the window manager will hear of them. *)

\* The events of a window once those of the request r are told behind v.
Told(v, r) == v \o Kind(r.out)

Onward(v, r, s) == Grows(Told(v, r), r.x.mapped, Told(v, s), s.x.mapped)

LEMMA ToldMore ==
  ASSUME NEW v \in Seq(Kinds), NEW r \in Requests
  PROVE  /\ Told(v, r) \in Seq(Kinds)
         /\ r.out = << >> => Told(v, r) = v
         /\ \A s \in Requests, e \in Reports :
              s.out = Append(r.out, e) => Told(v, s) = Append(Told(v, r), e.type)
         /\ \A s \in Requests : s.out = r.out => Told(v, s) = Told(v, r)
<1>1. r.out \in Seq(Reports) /\ r.x \in XRecords
  BY DEF Requests
<1>2. \A e \in Reports : e.type \in Kinds
  BY DEF Reports, Kinds, EventTypes
<1>3. ASSUME NEW es \in Seq(Reports)
      PROVE  /\ Kind(es) \in Seq(Kinds) /\ Len(Kind(es)) = Len(es)
             /\ \A i \in 1..Len(es) : Kind(es)[i] = es[i].type
  <2>1. DOMAIN es = 1..Len(es) /\ Len(es) \in Nat /\ \A i \in DOMAIN es : es[i].type \in Kinds
    BY <1>2
  <2>2. Kind(es) \in [1..Len(es) -> Kinds] /\ \A i \in 1..Len(es) : Kind(es)[i] = es[i].type
    BY <2>1 DEF Kind
  <2> HIDE DEF Kind
  <2> QED BY <2>1, <2>2
<1>4. r.out = << >> => Told(v, r) = v
  <2>1. Kind(<< >>) = << >>
    BY DEF Kind
  <2>2. v \o << >> = v
    OBVIOUS
  <2> QED BY <2>1, <2>2 DEF Told
<1>5. ASSUME NEW e \in Reports
      PROVE  v \o Kind(Append(r.out, e)) = Append(v \o Kind(r.out), e.type)
  <2> DEFINE es == r.out
  <2>1. es \in Seq(Reports) /\ DOMAIN es = 1..Len(es) /\ Len(es) \in Nat
    BY <1>1
  <2> HIDE DEF es
  <2>2. /\ Append(es, e) \in Seq(Reports) /\ Len(Append(es, e)) = Len(es) + 1
        /\ DOMAIN Append(es, e) = 1..(Len(es) + 1)
        /\ \A i \in 1..Len(es) : Append(es, e)[i] = es[i]
        /\ Append(es, e)[Len(es) + 1] = e
    BY <2>1
  <2>3. /\ Kind(es) \in Seq(Kinds) /\ Len(Kind(es)) = Len(es)
        /\ \A i \in 1..Len(es) : Kind(es)[i] = es[i].type
    BY <1>3, <2>1
  <2>4. /\ Kind(Append(es, e)) \in Seq(Kinds) /\ Len(Kind(Append(es, e))) = Len(es) + 1
        /\ \A i \in 1..(Len(es) + 1) : Kind(Append(es, e))[i] = Append(es, e)[i].type
    BY <1>3, <2>2
  <2> DEFINE t == Kind(es) u == Kind(Append(es, e))
  <2>5. e.type \in Kinds
    BY <1>2
  <2>6. u = Append(t, e.type)
    <3>1. \A i \in 1..(Len(es) + 1) : u[i] = Append(t, e.type)[i]
      BY <2>1, <2>2, <2>3, <2>4, <2>5
    <3> QED BY <2>1, <2>3, <2>4, <2>5, <3>1
  <2>7. t \in Seq(Kinds)
    BY <2>3
  <2> HIDE DEF t, u
  <2>8. v \o Append(t, e.type) = Append(v \o t, e.type)
    BY <2>5, <2>7
  <2> QED BY <2>6, <2>8 DEF t, u, es
<1>6. Told(v, r) \in Seq(Kinds)
  BY <1>1, <1>3 DEF Told
<1>7. ASSUME NEW s \in Requests, NEW e \in Reports, s.out = Append(r.out, e)
      PROVE  Told(v, s) = Append(Told(v, r), e.type)
  BY <1>5, <1>7, Zenon DEF Told
<1>8. ASSUME NEW s \in Requests, s.out = r.out PROVE Told(v, s) = Told(v, r)
  BY <1>8 DEF Told
<1> QED BY <1>4, <1>6, <1>7, <1>8

LEMMA Heard ==
  ASSUME NEW v \in Seq(Kinds), NEW r \in Requests, NEW by \in Causes, NEW to \in BOOLEAN
  PROVE  /\ Onward(v, r, XMap(r, by))
         /\ Count(Told(v, XMap(r, by))) = Count(Told(v, r))
         /\ Onward(v, r, XUnmap(r, by))
         /\ Count(Told(v, XUnmap(r, by))) =
              Count(Told(v, r)) + (IF r.x.mapped THEN 1 ELSE 0)
         /\ Onward(v, r, XReparent(r, to, by))
         /\ Count(Told(v, XReparent(r, to, by))) =
              Count(Told(v, r)) + (IF r.x.mapped /\ r.x.exists THEN 1 ELSE 0)
         /\ Onward(v, r, XUnmapFrame(r))
         /\ Count(Told(v, XUnmapFrame(r))) = Count(Told(v, r))
         /\ Onward(v, r, XMapFrame(r))
         /\ Count(Told(v, XMapFrame(r))) = Count(Told(v, r))
<1> DEFINE t == Told(v, r)
<1>1. t \in Seq(Kinds) /\ Count(t) \in Nat /\ r.x.mapped \in BOOLEAN
  BY ToldMore, CountIsNat DEF Requests, XRecords
<1>2. /\ Event("Map", by) \in Reports /\ Event("Map", by).type = "Map"
      /\ Event("Unmap", by) \in Reports /\ Event("Unmap", by).type = "Unmap"
      /\ Event("MapFrame", "wm") \in Reports /\ Event("MapFrame", "wm").type = "MapFrame"
  BY DEF Event, Reports, Causes, Kinds, EventTypes
<1>3. "Map" \in Kinds /\ "Unmap" \in Kinds /\ "MapFrame" \in Kinds
  BY DEF Kinds, EventTypes
<1>4. /\ Count(Append(t, "Map")) = Count(t) /\ Count(Append(t, "MapFrame")) = Count(t)
      /\ Count(Append(t, "Unmap")) = Count(t) + 1
      /\ Append(t, "Unmap") \in Seq(Kinds)
      /\ Count(Append(Append(t, "Unmap"), "Map")) = Count(t) + 1
  <2>1. Append(t, "Unmap") \in Seq(Kinds)
    BY <1>1, <1>3
  <2>2. \A k \in Kinds : Count(Append(t, k)) = Count(t) + (IF k = "Unmap" THEN 1 ELSE 0)
    BY <1>1, CountAppend
  <2>3. Count(Append(Append(t, "Unmap"), "Map")) = Count(Append(t, "Unmap")) + 0
    BY <1>3, <2>1, CountAppend
  <2> HIDE DEF t
  <2> QED BY <1>1, <1>3, <2>1, <2>2, <2>3
<1>5. \A s \in Requests : /\ s.out = r.out => Told(v, s) = t
                          /\ s.out = r.out /\ s.x.mapped = r.x.mapped => Onward(v, r, s)
  BY <1>1, ToldMore, GrowsNot DEF Onward
<1>6. ASSUME NEW s \in Requests, NEW e \in {"Map", "Unmap", "MapFrame"},
             NEW b \in Causes, s.out = Append(r.out, Event(e, b))
      PROVE  Told(v, s) = Append(t, e)
  <2>1. Event(e, b) \in Reports /\ Event(e, b).type = e
    BY DEF Event, Reports, Kinds, EventTypes
  <2>2. Told(v, s) = Append(Told(v, r), Event(e, b).type)
    BY <1>6, <2>1, ToldMore, ZenonT(60)
  <2> QED BY <2>1, <2>2
<1>7. "wm" \in Causes
  BY DEF Causes
<1> HIDE DEF t
<1>8. Onward(v, r, XMap(r, by)) /\ Count(Told(v, XMap(r, by))) = Count(t)
  <2> DEFINE s == XMap(r, by)
  <2>1. s \in Requests
    BY XMapDoes
  <2>2. CASE r.x.mapped \/ ~r.x.exists
    BY <1>5, <2>1, <2>2, XMapDoes
  <2>3. CASE ~(r.x.mapped \/ ~r.x.exists)
    <3>1. s.x.mapped /\ s.out = Append(r.out, Event("Map", by))
      BY <2>3, XMapDoes
    <3>2. s.x.mapped = TRUE /\ r.x.mapped = FALSE
      BY <1>1, <2>1, <2>3, <3>1 DEF Requests, XRecords
    <3>3. Told(v, s) = Append(t, "Map")
      BY <1>6, <2>1, <3>1
    <3>4. Grows(t, FALSE, Append(t, "Map"), TRUE)
      BY <1>1, GrowsByOne
    <3> QED BY <1>4, <3>2, <3>3, <3>4 DEF Onward, t
  <2> QED BY <2>2, <2>3
<1>9. /\ Onward(v, r, XUnmap(r, by))
      /\ Count(Told(v, XUnmap(r, by))) = Count(t) + (IF r.x.mapped THEN 1 ELSE 0)
  <2> DEFINE s == XUnmap(r, by)
  <2>1. s \in Requests /\ s.x.mapped = FALSE
    BY XUnmapDoes DEF Requests, XRecords
  <2>2. CASE ~r.x.mapped
    <3>1. s.out = r.out /\ s.x.mapped = r.x.mapped
      BY <1>1, <2>1, <2>2, XUnmapDoes
    <3> QED BY <1>1, <1>5, <2>1, <2>2, <3>1
  <2>3. CASE r.x.mapped
    <3>1. s.out = Append(r.out, Event("Unmap", by)) /\ r.x.mapped = TRUE
      BY <1>1, <2>3, XUnmapDoes
    <3>2. Told(v, s) = Append(t, "Unmap")
      BY <1>6, <2>1, <3>1
    <3>3. Grows(t, TRUE, Append(t, "Unmap"), FALSE)
      BY <1>1, GrowsByOne
    <3> QED BY <1>4, <2>1, <3>1, <3>2, <3>3 DEF Onward, t
  <2> QED BY <2>2, <2>3
<1>10. /\ Onward(v, r, XReparent(r, to, by))
       /\ Count(Told(v, XReparent(r, to, by))) =
            Count(t) + (IF r.x.mapped /\ r.x.exists THEN 1 ELSE 0)
  <2> DEFINE s == XReparent(r, to, by)
  <2>1. s \in Requests /\ s.x.mapped = r.x.mapped
    BY XReparentDoes
  <2>2. CASE ~(r.x.mapped /\ r.x.exists)
    <3>1. s.out = r.out
      BY <2>2, XReparentDoes
    <3> QED BY <1>1, <1>5, <2>1, <2>2, <3>1
  <2>3. CASE r.x.mapped /\ r.x.exists
    <3>1. s.out = Append(Append(r.out, Event("Unmap", by)), Event("Map", by))
      <4>1. s.out = IF r.x.mapped /\ r.x.exists
                    THEN Append(Append(r.out, Event("Unmap", by)), Event("Map", by))
                    ELSE r.out
        BY XReparentDoes, Zenon
      <4> QED BY <2>3, <4>1
    <3>0. r.x.mapped = TRUE
      BY <1>1, <2>3
    <3> DEFINE p == [r EXCEPT !.out = Append(@, Event("Unmap", by))]
    <3>2. p \in Requests /\ p.out = Append(r.out, Event("Unmap", by))
      <4>1. r.x \in XRecords /\ r.c \in Clients /\ r.out \in Seq(Reports)
        BY DEF Requests
      <4>2. Append(r.out, Event("Unmap", by)) \in Seq(Reports)
        BY <1>2, <4>1
      <4> QED BY <4>1, <4>2 DEF Requests
    <3>3. Told(v, p) = Append(t, "Unmap")
      BY <1>6, <3>2
    <3>4. s.out = Append(p.out, Event("Map", by))
      BY <3>1, <3>2
    <3> HIDE DEF p
    <3>5. Told(v, s) = Append(Append(t, "Unmap"), "Map")
      <4>1. Told(v, s) = Append(Told(v, p), Event("Map", by).type)
        BY <1>2, <2>1, <3>2, <3>4, ToldMore, ZenonT(60)
      <4> QED BY <1>2, <3>3, <4>1
    <3>6. Grows(t, TRUE, Append(t, "Unmap"), FALSE)
      BY <1>1, GrowsByOne
    <3>7. Grows(Append(t, "Unmap"), FALSE, Append(Append(t, "Unmap"), "Map"), TRUE)
      BY <1>4, GrowsByOne
    <3>8. Grows(t, TRUE, Append(Append(t, "Unmap"), "Map"), TRUE)
      BY <3>6, <3>7 DEF Grows
    <3> QED BY <1>4, <2>1, <2>3, <3>0, <3>5, <3>8 DEF Onward, t
  <2> QED BY <2>2, <2>3
<1>11. Onward(v, r, XUnmapFrame(r)) /\ Count(Told(v, XUnmapFrame(r))) = Count(t)
  BY <1>5, XUnmapFrameDoes
<1>12. Onward(v, r, XMapFrame(r)) /\ Count(Told(v, XMapFrame(r))) = Count(t)
  <2> DEFINE s == XMapFrame(r)
  <2>1. s \in Requests /\ s.x.mapped = r.x.mapped
    BY XMapFrameDoes
  <2>2. CASE r.x.frameMapped
    BY <1>5, <2>1, <2>2, XMapFrameDoes
  <2>3. CASE ~r.x.frameMapped
    <3>1. s.out = Append(r.out, Event("MapFrame", "wm"))
      BY <2>3, XMapFrameDoes
    <3>2. Told(v, s) = Append(t, "MapFrame")
      BY <1>6, <1>7, <2>1, <3>1
    <3>3. Grows(t, r.x.mapped, Append(t, "MapFrame"), r.x.mapped)
      BY <1>1, GrowsByOne
    <3> QED BY <1>4, <2>1, <3>2, <3>3 DEF Onward, t
  <2> QED BY <2>2, <2>3
<1> QED BY <1>8, <1>9, <1>10, <1>11, <1>12 DEF t


-----------------------------------------------------------------------------
(* mb_wm_sync on one window. *)

\* What synchronising a client leaves as it is.
Alike(c, d) ==
  /\ d.alive = c.alive /\ d.listed = c.listed /\ d.stacked = c.stacked
  /\ d.wanted = c.wanted /\ d.hidden = c.hidden /\ d.hiding = c.hiding
  /\ d.fullscreen = c.fullscreen /\ d.skipMaps = c.skipMaps
  /\ d.desktop = c.desktop /\ d.sync = c.sync

Stays(r, s) == s.x.asked = r.x.asked /\ s.x.exists = r.x.exists

More(v, r) == IF r.x.mapped /\ r.x.exists THEN Count(Told(v, r)) + 1 ELSE Count(Told(v, r))

LEMMA RealizeDoes ==
  ASSUME NEW v \in Seq(Kinds), NEW r \in Requests
  PROVE  LET s == Realize(r)
         IN  /\ s \in Requests /\ Onward(v, r, s) /\ Stays(r, s) /\ Alike(r.c, s.c)
             /\ s.c.realized /\ s.c.skipUnmaps = r.c.skipUnmaps
             /\ s.x.mapped = r.x.mapped /\ s.x.frameMapped = r.x.frameMapped
             /\ s.x.framed = IF ~r.c.realized /\ r.x.exists THEN ~r.c.fullscreen ELSE r.x.framed
             /\ Count(Told(v, s)) = IF r.c.realized THEN Count(Told(v, r)) ELSE More(v, r)
<1>0. Told(v, r) \in Seq(Kinds) /\ Count(Told(v, r)) \in Nat
  BY ToldMore, CountIsNat
<1>1. CASE r.c.realized
  <2>1. Realize(r) = r /\ r.c.realized = TRUE
    BY <1>1 DEF Realize, Requests, Clients
  <2> QED BY <1>0, <1>1, <2>1, GrowsNot DEF Onward, Stays, Alike
<1>2. CASE ~r.c.realized
  <2> DEFINE t == XReparent(r, ~r.c.fullscreen, "reparent")
  <2>1. (~r.c.fullscreen) \in BOOLEAN /\ "reparent" \in Causes
    BY DEF Causes
  <2>2. /\ t \in Requests /\ t.c = r.c /\ Stays(r, t)
        /\ t.x.mapped = r.x.mapped /\ t.x.frameMapped = r.x.frameMapped
        /\ t.x.framed = IF r.x.exists THEN ~r.c.fullscreen ELSE r.x.framed
    <3> DEFINE to == ~r.c.fullscreen
    <3>1. to \in BOOLEAN
      OBVIOUS
    <3> HIDE DEF to
    <3>2. LET s == XReparent(r, to, "reparent")
          IN  /\ s \in Requests /\ s.c = r.c /\ Stays(r, s)
              /\ s.x.mapped = r.x.mapped /\ s.x.frameMapped = r.x.frameMapped
              /\ s.x.framed = IF r.x.exists THEN to ELSE r.x.framed
      BY <2>1, <3>1, XReparentDoes DEF Stays
    <3> QED BY <3>2, Zenon DEF to
  <2>3. Onward(v, r, t) /\ Count(Told(v, t)) = More(v, r)
    <3>1. /\ Onward(v, r, t)
          /\ Count(Told(v, t)) = Count(Told(v, r)) + (IF r.x.mapped /\ r.x.exists THEN 1 ELSE 0)
      BY <2>1, Heard
    <3> QED BY <1>0, <3>1 DEF More
  <2> HIDE DEF t
  <2> DEFINE s == [t EXCEPT !.c.realized = TRUE]
  <2>4. Realize(r) = s
    BY <1>2 DEF Realize, t
  <2>5. /\ s \in Requests /\ s.x = t.x /\ s.out = t.out
        /\ s.c.realized = TRUE /\ s.c.skipUnmaps = t.c.skipUnmaps /\ Alike(t.c, s.c)
    BY <2>2 DEF Requests, Clients, Alike
  <2> HIDE DEF s
  <2>6. Told(v, s) = Told(v, t)
    BY <2>5 DEF Told
  <2> QED BY <1>2, <2>2, <2>3, <2>4, <2>5, <2>6 DEF Onward, Stays, Alike
<1> QED BY <1>1, <1>2

\* Coming back from fullscreen, and going there.
Framing(r) == "Fullscreen" \in r.c.sync /\ r.c.wanted

LEMMA FullscreenSyncDoes ==
  ASSUME NEW v \in Seq(Kinds), NEW r \in Requests
  PROVE  LET s == FullscreenSync(r)
         IN  /\ ~Framing(r) => s = r
             /\ Framing(r) =>
                  /\ s \in Requests /\ Onward(v, r, s) /\ Stays(r, s) /\ Alike(r.c, s.c)
                  /\ s.c.realized = r.c.realized
                  /\ s.c.skipUnmaps =
                       r.c.skipUnmaps + (IF ~r.c.fullscreen \/ Viewable(r.x) THEN 1 ELSE 0)
                  /\ s.x.mapped <=> r.x.mapped \/ r.x.exists
                  /\ s.x.frameMapped <=> ~r.c.fullscreen
                  /\ s.x.framed = IF r.x.exists THEN ~r.c.fullscreen ELSE r.x.framed
                  /\ Count(Told(v, s)) = More(v, r)
<1>1. ~Framing(r) => FullscreenSync(r) = r
  BY DEF FullscreenSync, Framing
<1>2. Told(v, r) \in Seq(Kinds) /\ Count(Told(v, r)) \in Nat
  BY ToldMore, CountIsNat
<1>3. "reparent" \in Causes /\ "wm" \in Causes
  BY DEF Causes
<1>4. ASSUME NEW n \in {0, 1}
      PROVE  LET p == [r EXCEPT !.c.skipUnmaps = @ + n]
             IN  /\ p \in Requests /\ p.x = r.x /\ p.out = r.out /\ Alike(r.c, p.c)
                 /\ p.c.skipUnmaps = r.c.skipUnmaps + n /\ p.c.realized = r.c.realized
                 /\ Told(v, p) = Told(v, r)
  <2> DEFINE p == [r EXCEPT !.c.skipUnmaps = @ + n]
             d == [r.c EXCEPT !.skipUnmaps = @ + n]
  <2>1. r.c \in Clients /\ r.out \in Seq(Reports) /\ r.x \in XRecords
    BY DEF Requests
  <2>2. d \in Clients /\ d.skipUnmaps = r.c.skipUnmaps + n /\ d.realized = r.c.realized
        /\ Alike(r.c, d)
    <3>1. r.c.skipUnmaps + n \in Nat
      BY <2>1 DEF Clients
    <3>2. \A k \in Nat : [r.c EXCEPT !.skipUnmaps = k] \in Clients
      BY <2>1 DEF Clients
    <3>3. d = [r.c EXCEPT !.skipUnmaps = r.c.skipUnmaps + n]
      OBVIOUS
    <3>4. d \in Clients
      BY <3>1, <3>2, <3>3
    <3> QED BY <2>1, <3>4 DEF Clients, Alike
  <2> HIDE DEF d
  <2>3. p = [r EXCEPT !.c = d] /\ p.c = d /\ p.x = r.x /\ p.out = r.out
    BY DEF Requests, d
  <2>4. p \in Requests
    BY <2>2, <2>3 DEF Requests
  <2> QED BY <2>2, <2>3, <2>4 DEF Told
<1>5. CASE Framing(r) /\ r.c.fullscreen
  <2> DEFINE n == IF Viewable(r.x) THEN 1 ELSE 0
             p == [r EXCEPT !.c.skipUnmaps = @ + IF Viewable(r.x) THEN 1 ELSE 0]
             q == XReparent(p, FALSE, "reparent")
             t == XUnmapFrame(q)
             s == XMap(t, "wm")
  <2>0. n \in {0, 1} /\ p = [r EXCEPT !.c.skipUnmaps = @ + n]
    OBVIOUS
  <2> HIDE DEF n
  <2>1. FullscreenSync(r) = s
    BY <1>5 DEF FullscreenSync, Framing, Fullscreen
  <2>2. /\ p \in Requests /\ p.x = r.x /\ p.out = r.out /\ Alike(r.c, p.c)
        /\ p.c.skipUnmaps = r.c.skipUnmaps + n /\ p.c.realized = r.c.realized
        /\ Told(v, p) = Told(v, r)
    BY <1>4, <2>0, Zenon
  <2> HIDE DEF p
  <2>3. /\ q \in Requests /\ q.c = p.c /\ Stays(p, q) /\ Onward(v, p, q)
        /\ q.x.mapped = p.x.mapped
        /\ q.x.framed = IF p.x.exists THEN FALSE ELSE p.x.framed
        /\ Count(Told(v, q)) = Count(Told(v, p)) + (IF p.x.mapped /\ p.x.exists THEN 1 ELSE 0)
    <3>1. /\ q \in Requests /\ q.c = p.c /\ Stays(p, q) /\ q.x.mapped = p.x.mapped
          /\ q.x.framed = IF p.x.exists THEN FALSE ELSE p.x.framed
      BY <1>3, <2>2, XReparentDoes DEF Stays
    <3>2. /\ Onward(v, p, q)
          /\ Count(Told(v, q)) = Count(Told(v, p)) + (IF p.x.mapped /\ p.x.exists THEN 1 ELSE 0)
      BY <1>3, <2>2, Heard
    <3> QED BY <3>1, <3>2
  <2> HIDE DEF q
  <2>4. /\ t \in Requests /\ t.c = q.c /\ Stays(q, t) /\ Onward(v, q, t)
        /\ t.x.mapped = q.x.mapped /\ t.x.framed = q.x.framed /\ ~t.x.frameMapped
        /\ Count(Told(v, t)) = Count(Told(v, q))
    BY <1>3, <2>3, XUnmapFrameDoes, Heard DEF Stays
  <2> HIDE DEF t
  <2>5. /\ s \in Requests /\ s.c = t.c /\ Stays(t, s) /\ Onward(v, t, s)
        /\ s.x.framed = t.x.framed /\ s.x.frameMapped = t.x.frameMapped
        /\ s.x.mapped <=> t.x.mapped \/ t.x.exists
        /\ Count(Told(v, s)) = Count(Told(v, t))
    <3>1. Onward(v, t, s) /\ Count(Told(v, s)) = Count(Told(v, t))
      BY <1>3, <2>4, Heard
    <3>2. /\ s \in Requests /\ s.c = t.c /\ Stays(t, s)
          /\ s.x.framed = t.x.framed /\ s.x.frameMapped = t.x.frameMapped
      <4>1. t \in Requests
        BY <2>4
      <4> QED BY <1>3, <4>1, XMapDoes DEF Stays
    <3>3. s.x.mapped <=> t.x.mapped \/ t.x.exists
      <4>1. t.x.mapped \in BOOLEAN /\ t.x.exists \in BOOLEAN
        BY <2>4 DEF Requests, XRecords
      <4>2. /\ t.x.mapped \/ ~t.x.exists => s.x.mapped = t.x.mapped
            /\ ~(t.x.mapped \/ ~t.x.exists) => s.x.mapped
        BY <1>3, <2>4, XMapDoes
      <4> QED BY <4>1, <4>2
    <3> QED BY <3>1, <3>2, <3>3
  <2> HIDE DEF s
  <2>6. Onward(v, p, t)
    BY <2>3, <2>4 DEF Onward, Grows
  <2>7. Onward(v, p, s)
    BY <2>5, <2>6 DEF Onward, Grows
  <2>8. Onward(v, r, s)
    BY <2>2, <2>7 DEF Onward
  <2>9. Count(Told(v, s)) = More(v, r)
    BY <1>2, <2>2, <2>3, <2>4, <2>5 DEF More, Stays
  <2>10. /\ Stays(r, s) /\ Alike(r.c, s.c) /\ s.c.realized = r.c.realized
         /\ s.x.framed = IF r.x.exists THEN FALSE ELSE r.x.framed
         /\ s.x.mapped <=> r.x.mapped \/ r.x.exists
         /\ ~s.x.frameMapped
    BY <2>2, <2>3, <2>4, <2>5 DEF Stays, Alike
  <2>11. s.c.skipUnmaps = r.c.skipUnmaps + (IF ~r.c.fullscreen \/ Viewable(r.x) THEN 1 ELSE 0)
    BY <1>5, <2>2, <2>3, <2>4, <2>5 DEF n
  <2>12. (~r.c.fullscreen) = FALSE
    BY <1>5
  <2> QED BY <1>5, <2>1, <2>5, <2>8, <2>9, <2>10, <2>11, <2>12
<1>6. CASE Framing(r) /\ ~r.c.fullscreen
  <2> DEFINE p == [r EXCEPT !.c.skipUnmaps = @ + 1]
             q == XMapFrame(p)
             t == XReparent(q, TRUE, "reparent")
             s == XMap(t, "wm")
  <2>1. FullscreenSync(r) = s
    BY <1>6 DEF FullscreenSync, Framing, Unfullscreen
  <2>2. /\ p \in Requests /\ p.x = r.x /\ p.out = r.out /\ Alike(r.c, p.c)
        /\ p.c.skipUnmaps = r.c.skipUnmaps + 1 /\ p.c.realized = r.c.realized
        /\ Told(v, p) = Told(v, r)
    BY <1>4
  <2> HIDE DEF p
  <2>3. /\ q \in Requests /\ q.c = p.c /\ Stays(p, q) /\ Onward(v, p, q)
        /\ q.x.mapped = p.x.mapped /\ q.x.framed = p.x.framed /\ q.x.frameMapped
        /\ Count(Told(v, q)) = Count(Told(v, p))
    <3>1. Onward(v, p, q) /\ Count(Told(v, q)) = Count(Told(v, p))
      BY <1>3, <2>2, Heard
    <3> QED BY <1>3, <2>2, <3>1, XMapFrameDoes DEF Stays
  <2> HIDE DEF q
  <2>4. /\ t \in Requests /\ t.c = q.c /\ Stays(q, t) /\ Onward(v, q, t)
        /\ t.x.mapped = q.x.mapped /\ t.x.frameMapped = q.x.frameMapped
        /\ t.x.framed = IF q.x.exists THEN TRUE ELSE q.x.framed
        /\ Count(Told(v, t)) = Count(Told(v, q)) + (IF q.x.mapped /\ q.x.exists THEN 1 ELSE 0)
    <3>1. /\ Onward(v, q, t)
          /\ Count(Told(v, t)) = Count(Told(v, q)) + (IF q.x.mapped /\ q.x.exists THEN 1 ELSE 0)
      BY <1>3, <2>3, Heard
    <3> QED BY <1>3, <2>3, <3>1, XReparentDoes DEF Stays
  <2> HIDE DEF t
  <2>5. /\ s \in Requests /\ s.c = t.c /\ Stays(t, s) /\ Onward(v, t, s)
        /\ s.x.framed = t.x.framed /\ s.x.frameMapped = t.x.frameMapped
        /\ s.x.mapped <=> t.x.mapped \/ t.x.exists
        /\ Count(Told(v, s)) = Count(Told(v, t))
    <3>1. Onward(v, t, s) /\ Count(Told(v, s)) = Count(Told(v, t))
      BY <1>3, <2>4, Heard
    <3>2. /\ s \in Requests /\ s.c = t.c /\ Stays(t, s)
          /\ s.x.framed = t.x.framed /\ s.x.frameMapped = t.x.frameMapped
      <4>1. t \in Requests
        BY <2>4
      <4> QED BY <1>3, <4>1, XMapDoes DEF Stays
    <3>3. s.x.mapped <=> t.x.mapped \/ t.x.exists
      <4>1. t.x.mapped \in BOOLEAN /\ t.x.exists \in BOOLEAN
        BY <2>4 DEF Requests, XRecords
      <4>2. /\ t.x.mapped \/ ~t.x.exists => s.x.mapped = t.x.mapped
            /\ ~(t.x.mapped \/ ~t.x.exists) => s.x.mapped
        BY <1>3, <2>4, XMapDoes
      <4> QED BY <4>1, <4>2
    <3> QED BY <3>1, <3>2, <3>3
  <2> HIDE DEF s
  <2>6. Onward(v, p, t)
    BY <2>3, <2>4 DEF Onward, Grows
  <2>7. Onward(v, p, s)
    BY <2>5, <2>6 DEF Onward, Grows
  <2>8. Onward(v, r, s)
    BY <2>2, <2>7 DEF Onward
  <2>9. Count(Told(v, s)) = More(v, r)
    BY <1>2, <2>2, <2>3, <2>4, <2>5 DEF More, Stays
  <2>10. /\ Stays(r, s) /\ Alike(r.c, s.c) /\ s.c.realized = r.c.realized
         /\ s.x.framed = IF r.x.exists THEN TRUE ELSE r.x.framed
         /\ s.x.mapped <=> r.x.mapped \/ r.x.exists
         /\ s.x.frameMapped
    BY <2>2, <2>3, <2>4, <2>5 DEF Stays, Alike
  <2>11. s.c.skipUnmaps = r.c.skipUnmaps + (IF ~r.c.fullscreen \/ Viewable(r.x) THEN 1 ELSE 0)
    BY <1>6, <2>2, <2>3, <2>4, <2>5
  <2>12. (~r.c.fullscreen) = TRUE
    BY <1>6
  <2> QED BY <1>6, <2>1, <2>5, <2>8, <2>9, <2>10, <2>11, <2>12
<1> QED BY <1>1, <1>5, <1>6

\* XMapSubwindows does not reach a window outside its frame.
Reached(r) == r.c.fullscreen \/ r.x.framed

LEMMA VisibilitySyncDoes ==
  ASSUME NEW v \in Seq(Kinds), NEW r \in Requests
  PROVE  LET s == VisibilitySync(r)
         IN  /\ s \in Requests /\ Onward(v, r, s) /\ Stays(r, s)
             /\ s.c = r.c /\ s.x.framed = r.x.framed
             /\ "Visibility" \notin r.c.sync => s = r
             /\ "Visibility" \in r.c.sync /\ r.c.wanted =>
                  /\ s.x.mapped <=> r.x.mapped \/ (r.x.exists /\ Reached(r))
                  /\ s.x.frameMapped <=> ~r.c.fullscreen
                  /\ Count(Told(v, s)) = Count(Told(v, r))
             /\ "Visibility" \in r.c.sync /\ ~r.c.wanted =>
                  /\ s.x.mapped => r.x.mapped
                  /\ r.c.fullscreen => ~s.x.mapped
                  /\ Count(Told(v, s)) =
                       IF r.x.mapped /\ ~s.x.mapped
                       THEN Count(Told(v, r)) + 1 ELSE Count(Told(v, r))
<1>1. Told(v, r) \in Seq(Kinds) /\ Count(Told(v, r)) \in Nat
  BY ToldMore, CountIsNat
<1>2. "hide" \in Causes /\ "wm" \in Causes
  BY DEF Causes
<1>3. CASE "Visibility" \notin r.c.sync
  <2>1. VisibilitySync(r) = r
    BY <1>3 DEF VisibilitySync
  <2> QED BY <1>1, <1>3, <2>1, GrowsNot DEF Onward, Stays
<1>4. CASE "Visibility" \in r.c.sync /\ r.c.wanted
  <2> DEFINE t == IF r.c.fullscreen THEN XUnmapFrame(r) ELSE XMapFrame(r)
             s == IF Reached(r) THEN XMap(t, "wm") ELSE t
  <2>1. VisibilitySync(r) = s
    BY <1>4 DEF VisibilitySync, Reached
  <2>2. /\ t \in Requests /\ t.c = r.c /\ Stays(r, t) /\ Onward(v, r, t)
        /\ t.x.mapped = r.x.mapped /\ t.x.framed = r.x.framed
        /\ t.x.frameMapped <=> ~r.c.fullscreen
        /\ Count(Told(v, t)) = Count(Told(v, r))
    <3>1. Stays(r, r)
      BY DEF Stays
    <3>2. CASE r.c.fullscreen
      <4>1. t = XUnmapFrame(r)
        BY <3>2
      <4>2. Onward(v, r, t) /\ Count(Told(v, t)) = Count(Told(v, r))
        BY <4>1, <1>2, Heard
      <4> QED BY <3>2, <4>1, <4>2, XUnmapFrameDoes DEF Stays
    <3>3. CASE ~r.c.fullscreen
      <4>1. t = XMapFrame(r)
        BY <3>3
      <4>2. Onward(v, r, t) /\ Count(Told(v, t)) = Count(Told(v, r))
        BY <4>1, <1>2, Heard
      <4> QED BY <3>3, <4>1, <4>2, XMapFrameDoes DEF Stays
    <3> QED BY <3>2, <3>3
  <2> HIDE DEF t
  <2>3. /\ s \in Requests /\ s.c = t.c /\ Stays(t, s) /\ Onward(v, t, s)
        /\ s.x.framed = t.x.framed /\ s.x.frameMapped = t.x.frameMapped
        /\ s.x.mapped <=> t.x.mapped \/ (t.x.exists /\ Reached(r))
        /\ Count(Told(v, s)) = Count(Told(v, t))
    <3>1. CASE Reached(r)
      <4>1. s = XMap(t, "wm")
        BY <3>1
      <4>2. Onward(v, t, s) /\ Count(Told(v, s)) = Count(Told(v, t))
        BY <1>2, <2>2, <4>1, Heard
      <4> QED BY <1>2, <2>2, <3>1, <4>1, <4>2, XMapDoes DEF Stays
    <3>2. CASE ~Reached(r)
      <4>1. s = t
        BY <3>2
      <4>2. Onward(v, t, t)
        BY <2>2, ToldMore, GrowsNot DEF Onward
      <4> HIDE DEF s
      <4> QED BY <2>2, <3>2, <4>1, <4>2 DEF Stays
    <3> QED BY <3>1, <3>2
  <2> HIDE DEF s
  <2>4. Onward(v, r, s)
    BY <2>2, <2>3 DEF Onward, Grows
  <2> QED BY <1>4, <2>1, <2>2, <2>3, <2>4 DEF Stays
<1>5. CASE "Visibility" \in r.c.sync /\ ~r.c.wanted
  <2> DEFINE t == IF r.c.fullscreen THEN r ELSE XUnmapFrame(r)
             s == IF r.c.fullscreen \/ r.x.framed THEN XUnmap(t, "hide") ELSE t
  <2>1. VisibilitySync(r) = s
    BY <1>5 DEF VisibilitySync
  <2>2. /\ t \in Requests /\ t.c = r.c /\ Stays(r, t) /\ Onward(v, r, t)
        /\ t.x.mapped = r.x.mapped /\ t.x.framed = r.x.framed
        /\ Count(Told(v, t)) = Count(Told(v, r))
    <3>1. Onward(v, r, r)
      BY <1>1, GrowsNot DEF Onward
    <3>2. Onward(v, r, XUnmapFrame(r)) /\ Count(Told(v, XUnmapFrame(r))) = Count(Told(v, r))
      BY <1>2, Heard
    <3>3. CASE r.c.fullscreen
      BY <3>1, <3>3 DEF Stays
    <3>4. CASE ~r.c.fullscreen
      <4>1. t = XUnmapFrame(r)
        BY <3>4
      <4> QED BY <3>2, <4>1, XUnmapFrameDoes DEF Stays
    <3> QED BY <3>3, <3>4
  <2> HIDE DEF t
  <2>3. CASE r.c.fullscreen \/ r.x.framed
    <3>1. /\ s \in Requests /\ s.c = t.c /\ Stays(t, s) /\ Onward(v, t, s)
          /\ s.x.framed = t.x.framed /\ ~s.x.mapped
          /\ Count(Told(v, s)) = Count(Told(v, t)) + (IF t.x.mapped THEN 1 ELSE 0)
      <4>1. s = XUnmap(t, "hide")
        BY <2>3
      <4>2. /\ Onward(v, t, s)
            /\ Count(Told(v, s)) = Count(Told(v, t)) + (IF t.x.mapped THEN 1 ELSE 0)
        BY <1>2, <2>2, <4>1, Heard, ZenonT(60)
      <4> QED BY <1>2, <2>2, <4>1, <4>2, XUnmapDoes DEF Stays
    <3>2. Onward(v, r, s)
      BY <2>2, <3>1 DEF Onward, Grows
    <3> QED BY <1>1, <1>5, <2>1, <2>2, <3>1, <3>2 DEF Stays
  <2>4. CASE ~(r.c.fullscreen \/ r.x.framed)
    BY <1>1, <1>5, <2>1, <2>2, <2>4 DEF Stays
  <2> QED BY <2>3, <2>4
<1> QED BY <1>3, <1>4, <1>5

-----------------------------------------------------------------------------
(* The inductive invariant.  Each part speaks of one window w: v are the    *)
(* types of its own events in the queue, x is the X server's view of it, c  *)
(* its client and p whether a sync is pending.                              *)

\* A client is whole or gone, and a change of its state has asked for a sync.
Whole(x, c, p) ==
  /\ c.stacked = c.alive /\ c.listed = c.alive
  /\ ~c.alive => c = NoClient
  /\ ~c.hidden
  /\ c.sync # {} => p /\ "Visibility" \in c.sync
  /\ x.mapped => x.exists

\* Unmap and map events alternate, and a destroyed window's client will hear of it.
Coming(v, x, c) ==
  /\ Alternates(v, x.mapped)
  /\ c.alive /\ ~x.exists => \E i \in DOMAIN v : v[i] = "Destroy"

\* Every unmap event the window manager skips is on its way.  One more is, if
\* the window is not mapped: unless nothing is owed, and coming back from
\* fullscreen is not due, which counts an unmap event for a mapped window.
Owed(v, x, c) ==
  c.alive /\ x.exists =>
    /\ c.skipUnmaps <= Count(v)
    /\ ~x.mapped => \/ c.skipUnmaps < Count(v)
                    \/ c.skipUnmaps = 0 /\ "Fullscreen" \notin c.sync
    /\ c.skipMaps \in {0, 1}
    /\ c.skipMaps = 1 => MapNext(v)

\* Every client is shown.  What keeps it from view is a withdrawal on its way, or
\* the next sync ends it, which also moves a window that is fullscreen in its frame or
\* not fullscreen out of it.
Seen(v, x, c) ==
  /\ c.alive => c.wanted
  /\ c.wanted /\ ~c.realized => "Visibility" \in c.sync
  /\ c.alive /\ x.exists =>
       /\ c.wanted /\ (~x.mapped \/ (x.framed /\ ~x.frameMapped)) =>
            c.skipUnmaps < Count(v) \/ "Visibility" \in c.sync
       /\ c.realized /\ (c.fullscreen <=> x.framed) => "Fullscreen" \in c.sync

\* An application that no longer asks for its window has a withdrawal on its
\* way, behind any request to map it.
AskedFor(v, x, c) ==
  /\ \A i \in DOMAIN v : v[i] # "ClearFullscreen"
  /\ "Fullscreen" \in c.sync => c.fullscreen
  /\ x.exists /\ ~x.asked => Followed(v, {"MapRequest"})
  /\ c.alive /\ x.exists /\ ~x.asked => c.skipUnmaps < Count(v)

Plain == Windows \ (Overrides \cup Preexisting)

Good(w, v, x, c, p) ==
  /\ Whole(x, c, p) /\ Coming(v, x, c)
  /\ w \in Overrides \ Preexisting => c.skipUnmaps = 0 /\ c.skipMaps = 0
  /\ w \in Plain => Owed(v, x, c) /\ Announced(v, x.mapped)
  /\ w \in Plain /\ ActivatesNew => Seen(v, x, c)
  /\ w \in Windows /\ EntersOnly(w) => AskedFor(v, x, c)

IInv ==
  /\ Types
  /\ \A w \in Windows : \E v : Has(queue, w, v) /\ Good(w, v, win[w], client[w], pending)

(* The same events, or more of them that map and unmap the window.          *)
LEMMA GrowsKeeps ==
  ASSUME NEW v \in Seq(Kinds), NEW u \in Seq(Kinds),
         NEW x \in XRecords, NEW y \in XRecords, NEW c \in Clients, NEW d \in Clients,
         Grows(v, x.mapped, u, y.mapped), y.exists = x.exists, y.asked = x.asked,
         d.alive => c.alive
  PROVE  /\ Coming(v, x, c) => Coming(u, y, d)
         /\ Announced(v, x.mapped) => Announced(u, y.mapped)
         /\ AskedFor(v, x, c) =>
              /\ \A i \in DOMAIN u : u[i] # "ClearFullscreen"
              /\ y.exists /\ ~y.asked => Followed(u, {"MapRequest"})
<1>1. Coming(v, x, c) => Coming(u, y, d)
  BY DEF Coming, Grows
<1>2. Announced(v, x.mapped) => Announced(u, y.mapped)
  BY DEF Grows
<1>3. AskedFor(v, x, c) =>
        /\ \A i \in DOMAIN u : u[i] # "ClearFullscreen"
        /\ y.exists /\ ~y.asked => Followed(u, {"MapRequest"})
  BY DEF AskedFor, Grows
<1> QED BY <1>1, <1>2, <1>3

\* How mb_wm_sync changes one window, if its client is on the stack.
LEMMA SyncsTo ==
  ASSUME NEW v \in Seq(Kinds), NEW r \in Requests, r.out = << >>,
         r.x.mapped => r.x.exists,
         r.c.sync # {} => "Visibility" \in r.c.sync
  PROVE  LET s == VisibilitySync(FullscreenSync(Realize(r)))
         IN  /\ s \in Requests /\ Alike(r.c, s.c) /\ s.c.realized /\ Stays(r, s)
             /\ Told(v, s) \in Seq(Kinds)
             /\ Grows(v, r.x.mapped, Told(v, s), s.x.mapped)
             /\ Count(v) <= Count(Told(v, s))
             /\ Framing(r) /\ r.x.mapped => Count(v) + 1 <= Count(Told(v, s))
             /\ r.x.mapped /\ ~s.x.mapped => Count(v) + 1 <= Count(Told(v, s))
             /\ s.c.skipUnmaps = r.c.skipUnmaps \/
                  /\ Framing(r) /\ s.c.skipUnmaps = r.c.skipUnmaps + 1
                  /\ r.c.fullscreen => r.x.mapped
             /\ s.x.mapped => r.x.mapped \/ r.x.exists
             /\ r.c.sync = {} => s.x.mapped = r.x.mapped /\ s.x.frameMapped = r.x.frameMapped
             /\ Framing(r) /\ r.x.exists => s.x.mapped
             /\ r.c.sync # {} /\ r.c.wanted =>
                  /\ r.x.exists /\ (r.c.fullscreen \/ s.x.framed) => s.x.mapped
                  /\ s.x.frameMapped <=> ~r.c.fullscreen
             /\ r.c.sync # {} /\ ~r.c.wanted /\ r.c.fullscreen => ~s.x.mapped
             /\ r.x.exists =>
                  s.x.framed = IF ~r.c.realized \/ Framing(r) THEN ~r.c.fullscreen ELSE r.x.framed
<1> DEFINE p == Realize(r)
           q == FullscreenSync(p)
           s == VisibilitySync(q)
           m == Count(Told(v, r))
<1>1. Told(v, r) = v /\ m = Count(v) /\ m \in Nat
  BY ToldMore, CountIsNat
<1>2. /\ r.x.mapped \in BOOLEAN /\ r.x.exists \in BOOLEAN /\ r.x.framed \in BOOLEAN
      /\ r.c.realized \in BOOLEAN /\ r.c.fullscreen \in BOOLEAN /\ r.c.wanted \in BOOLEAN
      /\ r.c.skipUnmaps \in Nat
  BY DEF Requests, XRecords, Clients
<1>3. /\ p \in Requests /\ Onward(v, r, p) /\ Stays(r, p) /\ Alike(r.c, p.c)
      /\ p.c.realized /\ p.c.skipUnmaps = r.c.skipUnmaps
      /\ p.x.mapped = r.x.mapped /\ p.x.frameMapped = r.x.frameMapped
      /\ p.x.framed = IF ~r.c.realized /\ r.x.exists THEN ~r.c.fullscreen ELSE r.x.framed
      /\ Count(Told(v, p)) = IF r.c.realized THEN Count(Told(v, r)) ELSE More(v, r)
  BY RealizeDoes, Zenon
<1> HIDE DEF p
<1>4. Framing(p) <=> Framing(r)
  BY <1>3 DEF Framing, Alike
<1>5. /\ q \in Requests /\ Onward(v, p, q) /\ Stays(p, q) /\ Alike(p.c, q.c)
      /\ q.c.realized = p.c.realized
      /\ Framing(r) =>
           /\ q.c.skipUnmaps = p.c.skipUnmaps + (IF ~p.c.fullscreen \/ Viewable(p.x) THEN 1 ELSE 0)
           /\ q.x.mapped <=> p.x.mapped \/ p.x.exists
           /\ q.x.frameMapped <=> ~p.c.fullscreen
           /\ q.x.framed = IF p.x.exists THEN ~p.c.fullscreen ELSE p.x.framed
           /\ Count(Told(v, q)) = More(v, p)
      /\ ~Framing(r) => q = p
  <2>1. CASE Framing(r)
    BY <1>3, <1>4, <2>1, FullscreenSyncDoes, Zenon
  <2>2. CASE ~Framing(r)
    <3>1. q = p
      BY <1>3, <1>4, <2>2, FullscreenSyncDoes, Zenon
    <3>2. Onward(v, p, p)
      BY <1>3, ToldMore, GrowsNot DEF Onward
    <3> HIDE DEF q
    <3> QED BY <1>3, <2>2, <3>1, <3>2 DEF Stays, Alike
  <2> QED BY <2>1, <2>2
<1> HIDE DEF q
<1>6. /\ s \in Requests /\ Onward(v, q, s) /\ Stays(q, s)
      /\ s.c = q.c /\ s.x.framed = q.x.framed
      /\ "Visibility" \notin q.c.sync => s = q
      /\ "Visibility" \in q.c.sync /\ q.c.wanted =>
           /\ s.x.mapped <=> q.x.mapped \/ (q.x.exists /\ Reached(q))
           /\ s.x.frameMapped <=> ~q.c.fullscreen
           /\ Count(Told(v, s)) = Count(Told(v, q))
      /\ "Visibility" \in q.c.sync /\ ~q.c.wanted =>
           /\ s.x.mapped => q.x.mapped
           /\ q.c.fullscreen => ~s.x.mapped
           /\ Count(Told(v, s)) =
                IF q.x.mapped /\ ~s.x.mapped
                THEN Count(Told(v, q)) + 1 ELSE Count(Told(v, q))
  BY <1>5, VisibilitySyncDoes, Zenon
<1> HIDE DEF s
<1>7. Alike(r.c, s.c) /\ s.c.realized /\ Stays(r, s)
  BY <1>3, <1>5, <1>6, ZenonT(60) DEF Alike, Stays
<1>8. Told(v, s) \in Seq(Kinds) /\ Told(v, p) \in Seq(Kinds) /\ Told(v, q) \in Seq(Kinds)
  BY <1>3, <1>5, <1>6, ToldMore
<1>9. Grows(v, r.x.mapped, Told(v, s), s.x.mapped)
  <2>1. Onward(v, r, q)
    BY <1>3, <1>5 DEF Onward, Grows
  <2>2. Onward(v, r, s)
    BY <1>6, <2>1 DEF Onward, Grows
  <2> QED BY <1>1, <2>2 DEF Onward
<1>10. /\ Count(Told(v, p)) \in Nat /\ Count(Told(v, q)) \in Nat /\ Count(Told(v, s)) \in Nat
       /\ m <= Count(Told(v, p))
       /\ Count(Told(v, p)) <= Count(Told(v, q))
       /\ Count(Told(v, q)) <= Count(Told(v, s))
       /\ Framing(r) /\ r.x.mapped => Count(Told(v, p)) + 1 <= Count(Told(v, q))
  <2>1. Count(Told(v, p)) \in Nat /\ Count(Told(v, q)) \in Nat /\ Count(Told(v, s)) \in Nat
    BY <1>8, CountIsNat
  <2>2. m <= Count(Told(v, p))
    BY <1>1, <1>3, <2>1 DEF More
  <2>3. /\ Count(Told(v, p)) <= Count(Told(v, q))
        /\ Framing(r) /\ r.x.mapped => Count(Told(v, p)) + 1 <= Count(Told(v, q))
    BY <1>3, <1>5, <2>1 DEF More, Stays
  <2>4. Count(Told(v, q)) <= Count(Told(v, s))
    BY <1>6, <2>1
  <2> HIDE DEF m
  <2> QED BY <2>1, <2>2, <2>3, <2>4
<1>11. Framing(r) => r.c.sync # {} /\ r.c.wanted
  BY DEF Framing
<1>12. q.c.sync = r.c.sync /\ q.c.wanted = r.c.wanted /\ q.c.fullscreen = r.c.fullscreen
       /\ q.x.exists = r.x.exists
       /\ (~Framing(r) => q.x.mapped = r.x.mapped /\ q.x.frameMapped = r.x.frameMapped)
  BY <1>3, <1>5 DEF Alike, Stays
<1>13. r.x.mapped /\ ~s.x.mapped => m + 1 <= Count(Told(v, s))
  <2> HAVE r.x.mapped /\ ~s.x.mapped
  <2>1. r.c.sync # {} /\ ~r.c.wanted
    <3>1. q.x.mapped
      BY <1>3, <1>5, <1>12
    <3>2. "Visibility" \in q.c.sync /\ ~q.c.wanted
      BY <1>6, <3>1
    <3> QED BY <1>12, <3>2
  <2>2. "Visibility" \in q.c.sync /\ ~q.c.wanted /\ q.x.mapped
    BY <1>11, <1>12, <2>1
  <2>3. Count(Told(v, s)) = Count(Told(v, q)) + 1
    BY <1>6, <2>2
  <2>4. m <= Count(Told(v, q)) /\ Count(Told(v, q)) \in Nat /\ m \in Nat
    BY <1>1, <1>10
  <2> QED BY <2>3, <2>4
<1>14. s.c.skipUnmaps = r.c.skipUnmaps \/
         /\ Framing(r) /\ s.c.skipUnmaps = r.c.skipUnmaps + 1
         /\ r.c.fullscreen => r.x.mapped
  <2>1. CASE ~Framing(r)
    BY <1>3, <1>5, <1>6, <2>1
  <2>2. CASE Framing(r)
    BY <1>2, <1>3, <1>5, <1>6, <2>2 DEF Viewable, Alike
  <2> QED BY <2>1, <2>2
<1>15. s.x.mapped => r.x.mapped \/ r.x.exists
  BY <1>3, <1>5, <1>6, <1>11, <1>12 DEF Stays
<1>16. r.c.sync = {} => s.x.mapped = r.x.mapped /\ s.x.frameMapped = r.x.frameMapped
  BY <1>6, <1>11, <1>12
<1>17. r.c.sync # {} /\ r.c.wanted =>
         /\ r.x.exists /\ (r.c.fullscreen \/ s.x.framed) => s.x.mapped
         /\ s.x.frameMapped <=> ~r.c.fullscreen
  BY <1>6, <1>12 DEF Reached
<1>22. Framing(r) /\ r.x.exists => s.x.mapped
  BY <1>3, <1>5, <1>6, <1>11, <1>12 DEF Stays
<1>18. r.c.sync # {} /\ ~r.c.wanted /\ r.c.fullscreen => ~s.x.mapped
  BY <1>6, <1>12
<1>19. r.x.exists =>
         s.x.framed = IF ~r.c.realized \/ Framing(r) THEN ~r.c.fullscreen ELSE r.x.framed
  BY <1>3, <1>5, <1>6 DEF Stays, Alike
<1>20. Framing(r) /\ r.x.mapped => m + 1 <= Count(Told(v, s))
  BY <1>1, <1>10
<1>21. m <= Count(Told(v, s))
  BY <1>1, <1>10
<1> HIDE DEF m
<1> QED BY <1>1, <1>6, <1>7, <1>8, <1>9, <1>13, <1>14, <1>15, <1>16, <1>17, <1>18, <1>19,
           <1>20, <1>21, <1>22 DEF s, q, p

Alone(w) == [x |-> win[w], c |-> client[w], out |-> << >>]

LEMMA AloneIs ==
  ASSUME Types, NEW w \in Windows
  PROVE  /\ Alone(w) \in Requests /\ Alone(w).x = win[w] /\ Alone(w).c = client[w]
         /\ Alone(w).out = << >> /\ Kind(Alone(w).out) = << >>
         /\ win[w] \in XRecords /\ client[w] \in Clients
<1>1. << >> \in Seq(Reports) /\ Kind(<< >>) = << >>
  BY DEF Kind
<1>2. win[w] \in XRecords /\ client[w] \in Clients
  BY DEF Types
<1> QED BY <1>1, <1>2 DEF Alone, Requests

(* What the window manager keeps for the events it causes on a window.      *)
LEMMA OnWindowIs ==
  ASSUME NEW w \in Windows, NEW es \in Seq(Reports)
  PROVE  /\ OnWindow(w, es) \in Seq(Events)
         /\ \A i \in DOMAIN OnWindow(w, es) : IsOf(OnWindow(w, es)[i], w)
         /\ \A u \in Windows \ {w} : \A i \in DOMAIN OnWindow(w, es) : ~IsOf(OnWindow(w, es)[i], u)
         /\ Kind(OnWindow(w, es)) = Kind(es)
<1> DEFINE E(i) == [type |-> es[i].type, window |-> w, by |-> es[i].by]
<1>1. DOMAIN es = 1..Len(es) /\ Len(es) \in Nat
  OBVIOUS
<1>2. ASSUME NEW i \in 1..Len(es) PROVE es[i] \in Reports
  OBVIOUS
<1>3. ASSUME NEW r \in Reports
      PROVE  /\ [type |-> r.type, window |-> w, by |-> r.by] \in Events
             /\ r.type # "Desktop"
  BY DEF Reports, Events, EventTypes, Kinds
<1>4. \A i \in 1..Len(es) : E(i) \in Events /\ E(i).type # "Desktop"
  BY <1>2, <1>3
<1>5. OnWindow(w, es) \in [1..Len(es) -> Events]
  BY <1>4 DEF OnWindow
<1>6. OnWindow(w, es) \in Seq(Events)
  BY <1>1, <1>5
<1>7. DOMAIN OnWindow(w, es) = 1..Len(es) /\ \A i \in 1..Len(es) : OnWindow(w, es)[i] = E(i)
  BY DEF OnWindow
<1>8. \A i \in DOMAIN OnWindow(w, es) : IsOf(OnWindow(w, es)[i], w)
  BY <1>4, <1>7 DEF IsOf
<1>9. \A u \in Windows \ {w} : \A i \in DOMAIN OnWindow(w, es) : ~IsOf(OnWindow(w, es)[i], u)
  BY <1>7 DEF IsOf
<1>10. Kind(OnWindow(w, es)) = Kind(es)
  BY <1>1, <1>7 DEF Kind
<1> QED BY <1>6, <1>8, <1>9, <1>10

(* mb_wm_sync takes every window once.                                      *)
LEMMA EachOnce ==
  ASSUME LifecycleAssumption
  PROVE  LET n == Cardinality(Windows)
         IN  /\ n \in Nat
             /\ SetToSeq(Windows) \in [1..n -> Windows]
             /\ \A i, j \in 1..n : SetToSeq(Windows)[i] = SetToSeq(Windows)[j] => i = j
             /\ \A w \in Windows : \E i \in 1..n : SetToSeq(Windows)[i] = w
<1> DEFINE n == Cardinality(Windows)
           f == SetToSeq(Windows)
<1>1. IsFiniteSet(Windows)
  BY DEF LifecycleAssumption
<1>2. n \in Nat /\ ExistsBijection(1..n, Windows)
  BY <1>1, FS_CardinalityType
<1>3. PICK g \in [1..n -> Windows] : \A a, b \in 1..n : g[a] = g[b] => a = b
  BY <1>2 DEF ExistsBijection, Bijection, Injection, IsInjective
<1>4. \E h \in [1..n -> Windows] : IsInjective(h)
  BY <1>3 DEF IsInjective
<1>5. f \in [1..n -> Windows] /\ IsInjective(f)
  BY <1>4 DEF SetToSeq
<1> HIDE DEF f
<1>6. f \in Injection(1..n, Windows)
  BY <1>5 DEF Injection, IsInjective
<1>7. Cardinality(1..n) = n
  <2>1. 1 \in Int /\ n \in Int /\ (1 > n => n = 0)
    BY <1>2
  <2>2. Cardinality(1..n) = IF 1 > n THEN 0 ELSE n - 1 + 1
    BY <2>1, FS_Interval, Zenon
  <2> QED BY <2>1, <2>2
<1>8. f \in Surjection(1..n, Windows)
  BY <1>1, <1>6, <1>7, FS_Injection
<1>9. \A w \in Windows : \E i \in 1..n : f[i] = w
  BY <1>8 DEF Surjection
<1>10. \A i, j \in 1..n : f[i] = f[j] => i = j
  BY <1>5 DEF IsInjective
<1> QED BY <1>2, <1>5, <1>9, <1>10 DEF f

\* All that mb_wm_sync reports.
Heralds ==
  FlattenSeq([i \in 1..Cardinality(Windows) |->
                LET w == SetToSeq(Windows)[i] IN OnWindow(w, Synced(w).out)])

LEMMA SyncedIs ==
  ASSUME Types, NEW w \in Windows
  PROVE  /\ Synced(w).x \in XRecords /\ Synced(w).c \in Clients
         /\ Synced(w).out \in Seq(Reports)
         /\ LET s == VisibilitySync(FullscreenSync(Realize(Alone(w))))
            IN  IF ~client[w].stacked \/ w \in Overrides
                THEN /\ Synced(w).x = win[w] /\ Synced(w).out = << >>
                     /\ Synced(w).c = [client[w] EXCEPT !.sync = {}]
                ELSE /\ Synced(w).x = s.x /\ Synced(w).out = s.out
                     /\ Synced(w).c = [s.c EXCEPT !.sync = {}]
                     /\ s.c \in Clients
<1> DEFINE s == VisibilitySync(FullscreenSync(Realize(Alone(w))))
           t == IF ~client[w].stacked \/ w \in Overrides THEN Alone(w) ELSE s
<1>1. s \in Requests
  <2>1. << >> \in Seq(Kinds)
    OBVIOUS
  <2>2. Realize(Alone(w)) \in Requests
    BY <2>1, AloneIs, RealizeDoes, Zenon
  <2>3. FullscreenSync(Realize(Alone(w))) \in Requests
    <3> DEFINE r == Realize(Alone(w))
    <3>1. r \in Requests
      BY <2>2
    <3> HIDE DEF r
    <3>2. FullscreenSync(r) \in Requests
      <4>1. CASE Framing(r)
        BY <2>1, <3>1, <4>1, FullscreenSyncDoes, Zenon
      <4>2. CASE ~Framing(r)
        <5>1. FullscreenSync(r) = r
          BY <2>1, <3>1, <4>2, FullscreenSyncDoes, Zenon
        <5> QED BY <3>1, <5>1
      <4> QED BY <4>1, <4>2
    <3> QED BY <3>2 DEF r
  <2> QED BY <2>1, <2>3, VisibilitySyncDoes, Zenon
<1>2. Synced(w) = [t EXCEPT !.c.sync = {}]
  BY Zenon DEF Synced, Alone
<1>3. t \in Requests
  BY <1>1, AloneIs
<1> HIDE DEF s
<1>4. t = IF ~client[w].stacked \/ w \in Overrides THEN Alone(w) ELSE s
  OBVIOUS
<1> HIDE DEF t
<1>5. t.x \in XRecords /\ t.c \in Clients /\ t.out \in Seq(Reports)
  BY <1>3 DEF Requests
<1>6. Synced(w).x = t.x /\ Synced(w).out = t.out /\ Synced(w).c = [t.c EXCEPT !.sync = {}]
  BY <1>2, <1>3 DEF Requests
<1>7. [t.c EXCEPT !.sync = {}] \in Clients
  BY <1>5 DEF Clients
<1>8. s.c \in Clients
  BY <1>1 DEF Requests
<1> QED BY <1>4, <1>5, <1>6, <1>7, <1>8, AloneIs DEF s

LEMMA HeraldsAre ==
  ASSUME LifecycleAssumption, Types
  PROVE  /\ Heralds \in Seq(Events)
         /\ \A w \in Windows : Has(Heralds, w, Kind(Synced(w).out))
<1> DEFINE n == Cardinality(Windows)
           order == SetToSeq(Windows)
           ss == [i \in 1..n |-> OnWindow(order[i], Synced(order[i]).out)]
<1>1. /\ n \in Nat /\ order \in [1..n -> Windows]
      /\ \A i, j \in 1..n : order[i] = order[j] => i = j
      /\ \A w \in Windows : \E i \in 1..n : order[i] = w
  BY EachOnce
<1> HIDE DEF order, n
<1>2. \A i \in 1..n : OnWindow(order[i], Synced(order[i]).out) \in Seq(Events)
  <2> TAKE i \in 1..n
  <2>1. order[i] \in Windows
    BY <1>1
  <2> QED BY <2>1, SyncedIs, OnWindowIs, ZenonT(60)
<1>3. ss \in [1..n -> Seq(Events)]
  BY <1>2
<1>4. Heralds = FlattenSeq(ss)
  BY DEF Heralds, n, order
<1>5. FlattenSeq(ss) \in Seq(Events)
  BY <1>1, <1>3, FlattenIsQueue
<1>6. ASSUME NEW w \in Windows PROVE Has(FlattenSeq(ss), w, Kind(Synced(w).out))
  <2>1. PICK k \in 1..n : order[k] = w
    BY <1>1
  <2>2. ss[k] = OnWindow(w, Synced(w).out) /\ Synced(w).out \in Seq(Reports)
    BY <2>1, SyncedIs
  <2>3. /\ \A i \in DOMAIN ss[k] : IsOf(ss[k][i], w)
        /\ Kind(ss[k]) = Kind(Synced(w).out)
    BY <2>2, OnWindowIs
  <2>4. ASSUME NEW m \in (1..n) \ {k} PROVE \A i \in DOMAIN ss[m] : ~IsOf(ss[m][i], w)
    <3>1. order[m] \in Windows /\ order[m] # w
      BY <1>1, <2>1
    <3>2. ss[m] = OnWindow(order[m], Synced(order[m]).out) /\ Synced(order[m]).out \in Seq(Reports)
      BY <3>1, SyncedIs
    <3> QED BY <3>1, <3>2, OnWindowIs
  <2> HIDE DEF ss
  <2>5. Has(FlattenSeq(ss), w, Kind(ss[k]))
    BY <1>1, <1>3, <2>3, <2>4, FlattenHas
  <2> QED BY <2>3, <2>5
<1> QED BY <1>4, <1>5, <1>6

(* mb_wm_sync keeps the invariant of one window.                            *)
LEMMA SyncKeepsGood ==
  ASSUME Types, NEW w \in Windows, NEW v, v \in Seq(Kinds),
         Good(w, v, win[w], client[w], pending)
  PROVE  Good(w, v \o Kind(Synced(w).out), Synced(w).x, Synced(w).c, FALSE)
<1> DEFINE x == win[w]
           c == client[w]
           y == Synced(w).x
           d == Synced(w).c
           u == v \o Kind(Synced(w).out)
<1>1. x \in XRecords /\ c \in Clients /\ y \in XRecords /\ d \in Clients
  BY AloneIs, SyncedIs
<1>2. Whole(x, c, pending) /\ Coming(v, x, c)
  BY DEF Good
<1>3. CASE ~c.stacked \/ w \in Overrides
  <2>1. y = x /\ d = [c EXCEPT !.sync = {}]
    BY <1>3, SyncedIs
  <2>2. u = v
    <3>1. Synced(w).out = << >>
      BY <1>3, SyncedIs
    <3>2. Kind(<< >>) = << >> /\ v \o << >> = v
      BY DEF Kind
    <3> QED BY <3>1, <3>2
  <2> HIDE DEF x, c, y, d, u
  <2>3. ~c.stacked => d = NoClient /\ c = NoClient /\ ~c.alive
    <3> HAVE ~c.stacked
    <3>1. ~c.alive /\ c = NoClient
      BY <1>1, <1>2 DEF Whole, Clients
    <3>2. NoClient.sync = {}
      BY DEF NoClient
    <3>3. [c EXCEPT !.sync = {}] = c
      BY <1>1, <3>1, <3>2 DEF Clients
    <3> QED BY <2>1, <3>1, <3>3
  <2>4. /\ d.stacked = c.stacked /\ d.alive = c.alive /\ d.listed = c.listed /\ d.hidden = c.hidden
        /\ d.skipUnmaps = c.skipUnmaps /\ d.skipMaps = c.skipMaps /\ d.sync = {}
    BY <1>1, <2>1 DEF Clients
  <2>5. Whole(y, d, FALSE) /\ Coming(v, y, d)
    BY <1>2, <2>1, <2>3, <2>4 DEF Whole, Coming
  <2>6. w \notin Overrides => d = c
    BY <1>3, <2>3
  <2>7. w \in Plain => /\ Owed(v, y, d) /\ Announced(v, y.mapped)
                       /\ ActivatesNew => Seen(v, y, d)
    BY <2>1, <2>6 DEF Good, Plain, x, c
  <2>8. EntersOnly(w) => AskedFor(v, y, d)
    BY <2>1, <2>6 DEF Good, EntersOnly, x, c
  <2>9. Good(w, v, y, d, FALSE)
    BY <2>4, <2>5, <2>7, <2>8 DEF Good, x, c
  <2> QED BY <2>2, <2>9 DEF u, y, d
<1>4. CASE c.stacked /\ w \notin Overrides
  <2> DEFINE r == Alone(w)
             s == VisibilitySync(FullscreenSync(Realize(Alone(w))))
  <2>1. /\ r \in Requests /\ r.out = << >> /\ r.x = x /\ r.c = c
        /\ (r.x.mapped => r.x.exists) /\ (r.c.sync # {} => "Visibility" \in r.c.sync)
    BY <1>2, AloneIs DEF Whole
  <2>2. y = s.x /\ d = [s.c EXCEPT !.sync = {}] /\ Synced(w).out = s.out /\ s.c \in Clients
    BY <1>4, SyncedIs
  <2>3. u = Told(v, s)
    BY <2>2 DEF Told
  <2> HIDE DEF r, x, c, u
  <2>4. /\ s \in Requests /\ Alike(c, s.c) /\ s.c.realized /\ Stays(r, s)
        /\ u \in Seq(Kinds)
        /\ Grows(v, x.mapped, u, y.mapped)
        /\ Count(v) <= Count(u)
        /\ Framing(r) /\ x.mapped => Count(v) + 1 <= Count(u)
        /\ x.mapped /\ ~y.mapped => Count(v) + 1 <= Count(u)
        /\ s.c.skipUnmaps = c.skipUnmaps \/
             /\ Framing(r) /\ s.c.skipUnmaps = c.skipUnmaps + 1
             /\ c.fullscreen => x.mapped
        /\ y.mapped => x.mapped \/ x.exists
        /\ c.sync = {} => y.mapped = x.mapped /\ y.frameMapped = x.frameMapped
        /\ Framing(r) /\ x.exists => y.mapped
        /\ c.sync # {} /\ c.wanted =>
             /\ x.exists /\ (c.fullscreen \/ y.framed) => y.mapped
             /\ y.frameMapped <=> ~c.fullscreen
        /\ c.sync # {} /\ ~c.wanted /\ c.fullscreen => ~y.mapped
        /\ x.exists =>
             y.framed = IF ~c.realized \/ Framing(r) THEN ~c.fullscreen ELSE x.framed
    <3>1. s = VisibilitySync(FullscreenSync(Realize(r)))
      BY DEF r
    <3> HIDE DEF s
    <3>2. r.x.mapped => r.x.exists
      BY <2>1
    <3>3. r.c.sync # {} => "Visibility" \in r.c.sync
      BY <2>1
    <3>4. r \in Requests /\ r.out = << >>
      BY <2>1
    <3> QED BY <2>1, <2>2, <2>3, <3>1, <3>2, <3>3, <3>4, SyncsTo
  <2> HIDE DEF s, y, d
  <2>5. /\ y.exists = x.exists /\ y.asked = x.asked
        /\ d.alive = c.alive /\ d.listed = c.listed /\ d.stacked = c.stacked
        /\ d.hidden = c.hidden /\ d.wanted = c.wanted /\ d.fullscreen = c.fullscreen
        /\ d.skipMaps = c.skipMaps /\ d.sync = {} /\ d.realized
        /\ d.skipUnmaps = s.c.skipUnmaps
    BY <2>1, <2>2, <2>4 DEF Alike, Stays, Clients
  <2>6. c.alive
    BY <1>2, <1>4 DEF Whole, c
  <2>7. Framing(r) <=> "Fullscreen" \in c.sync /\ c.wanted
    BY <2>1 DEF Framing
  <2>8. Whole(y, d, FALSE)
    BY <1>2, <2>4, <2>5, <2>6 DEF Whole, x, c
  <2>9. /\ Coming(u, y, d)
        /\ Announced(v, x.mapped) => Announced(u, y.mapped)
        /\ AskedFor(v, x, c) =>
             /\ \A i \in DOMAIN u : u[i] # "ClearFullscreen"
             /\ y.exists /\ ~y.asked => Followed(u, {"MapRequest"})
    BY <1>1, <1>2, <2>4, <2>5, GrowsKeeps DEF x, c, y, d
  <2>10. /\ Count(v) \in Nat /\ Count(u) \in Nat /\ c.skipUnmaps \in Nat /\ d.skipUnmaps \in Nat
         /\ x.exists \in BOOLEAN /\ x.mapped \in BOOLEAN /\ x.framed \in BOOLEAN
         /\ c.fullscreen \in BOOLEAN /\ c.wanted \in BOOLEAN /\ c.realized \in BOOLEAN
    BY <1>1, <2>4, CountIsNat DEF Clients, XRecords, x, c, y, d
  <2>11. (x.mapped => x.exists) /\ (c.sync # {} => "Visibility" \in c.sync)
    BY <1>2 DEF Whole, x, c
  <2>12. Owed(v, x, c) => Owed(u, y, d)
    <3> SUFFICES ASSUME Owed(v, x, c), x.exists PROVE Owed(u, y, d)
      BY <2>5 DEF Owed
    <3>1. /\ c.skipUnmaps <= Count(v) /\ c.skipMaps \in {0, 1} /\ (c.skipMaps = 1 => MapNext(v))
          /\ ~x.mapped => \/ c.skipUnmaps < Count(v)
                          \/ c.skipUnmaps = 0 /\ "Fullscreen" \notin c.sync
      BY <2>6 DEF Owed
    <3>2. d.skipMaps \in {0, 1} /\ (d.skipMaps = 1 => MapNext(u))
      BY <2>4, <2>5, <3>1 DEF Grows
    <3>3. d.skipUnmaps <= Count(u)
      BY <2>4, <2>5, <2>7, <2>10, <3>1
    <3>4. ~y.mapped => d.skipUnmaps < Count(u) \/ d.skipUnmaps = 0
      <4> HAVE ~y.mapped
      <4>1. ~Framing(r)
        BY <2>4, <2>7
      <4>2. d.skipUnmaps = c.skipUnmaps
        BY <2>4, <2>5, <4>1
      <4> QED BY <2>4, <2>10, <3>1, <4>2
    <3> QED BY <2>5, <3>2, <3>3, <3>4 DEF Owed
  <2>13. Owed(v, x, c) /\ Seen(v, x, c) => Seen(u, y, d)
    <3> SUFFICES ASSUME Owed(v, x, c), Seen(v, x, c), x.exists PROVE Seen(u, y, d)
      BY <2>5 DEF Seen
    <3>1. /\ c.skipUnmaps <= Count(v)
          /\ ~x.mapped => \/ c.skipUnmaps < Count(v)
                          \/ c.skipUnmaps = 0 /\ "Fullscreen" \notin c.sync
          /\ c.wanted /\ (~c.realized => "Visibility" \in c.sync)
          /\ ~x.mapped \/ (x.framed /\ ~x.frameMapped) =>
               c.skipUnmaps < Count(v) \/ "Visibility" \in c.sync
          /\ c.realized /\ (c.fullscreen <=> x.framed) => "Fullscreen" \in c.sync
      BY <2>6 DEF Owed, Seen
    <3>2. ~Framing(r) => d.skipUnmaps = c.skipUnmaps
      BY <2>4, <2>5
    <3>3. y.framed <=> ~c.fullscreen
      <4>1. CASE ~c.realized \/ Framing(r)
        BY <2>4, <4>1
      <4>2. CASE c.realized /\ ~Framing(r)
        BY <2>4, <2>7, <3>1, <4>2
      <4> QED BY <4>1, <4>2
    <3>4. ~y.mapped \/ (y.framed /\ ~y.frameMapped) => d.skipUnmaps < Count(u)
      <4> HAVE ~y.mapped \/ (y.framed /\ ~y.frameMapped)
      <4>1. CASE c.sync = {}
        <5>1. ~Framing(r) /\ c.realized /\ y.framed = x.framed
          BY <2>4, <2>7, <2>10, <3>1, <4>1
        <5> QED BY <2>4, <2>10, <3>1, <3>2, <4>1, <5>1
      <4>2. CASE c.sync # {}
        BY <2>4, <3>1, <3>3, <4>2
      <4> QED BY <4>1, <4>2
    <3> QED BY <2>5, <3>1, <3>3, <3>4 DEF Seen
  <2>14. AskedFor(v, x, c) /\ Owed(v, x, c) => AskedFor(u, y, d)
    <3> SUFFICES ASSUME AskedFor(v, x, c), Owed(v, x, c) PROVE AskedFor(u, y, d)
      OBVIOUS
    <3>1. x.exists /\ ~x.asked => d.skipUnmaps < Count(u)
      <4> HAVE x.exists /\ ~x.asked
      <4>1. c.skipUnmaps < Count(v) /\ ("Fullscreen" \in c.sync => c.fullscreen)
        BY <2>6 DEF AskedFor
      <4> QED BY <2>4, <2>5, <2>7, <2>10, <4>1
    <3> QED BY <2>5, <2>9, <3>1 DEF AskedFor
  <2>15. Good(w, u, y, d, FALSE)
    <3>1. EntersOnly(w) => w \in Plain
      BY DEF EntersOnly, Plain
    <3> QED BY <1>4, <2>8, <2>9, <2>12, <2>13, <2>14, <3>1 DEF Good, x, c
  <2> QED BY <2>15 DEF u, y, d
<1> QED BY <1>3, <1>4

-----------------------------------------------------------------------------
(* What the steps of the window manager do to the events of a window, its   *)
(* view and its client.                                                     *)

(* An event is handled.                                                     *)
LEMMA TailKeeps ==
  ASSUME NEW v \in Seq(Kinds), v # << >>, NEW m
  PROVE  LET t == Tail(v)
         IN  /\ t \in Seq(Kinds)
             /\ Alternates(v, m) => Alternates(t, m)
             /\ Announced(v, m) => Announced(t, m)
             /\ \A kinds : Followed(v, kinds) => Followed(t, kinds)
             /\ \A kinds : Followed(v, kinds) /\ Head(v) \in kinds => Count(t) # 0
             /\ (\A i \in DOMAIN v : v[i] # "ClearFullscreen") =>
                  /\ \A i \in DOMAIN t : t[i] # "ClearFullscreen"
                  /\ Head(v) # "ClearFullscreen"
             /\ Head(v) # "Destroy" /\ (\E i \in DOMAIN v : v[i] = "Destroy") =>
                  \E i \in DOMAIN t : t[i] = "Destroy"
             /\ MapNext(v) => Head(v) # "Unmap"
             /\ MapNext(v) /\ Head(v) # "Map" => MapNext(t)
             /\ Head(v) = "Unmap" /\ Alternates(v, m) /\ (Count(t) # 0 \/ m) => MapNext(t)
<1> DEFINE t == Tail(v)
<1>1. /\ DOMAIN v = 1..Len(v) /\ DOMAIN t = 1..(Len(v) - 1) /\ Len(v) \in Nat \ {0}
      /\ \A i \in DOMAIN t : t[i] = v[i + 1] /\ i + 1 \in DOMAIN v
      /\ \A i \in DOMAIN v : i # 1 => i - 1 \in DOMAIN t /\ t[i - 1] = v[i]
      /\ Head(v) = v[1] /\ 1 \in DOMAIN v /\ t \in Seq(Kinds)
  OBVIOUS
<1> HIDE DEF t
<1>2. /\ \A i \in DOMAIN t : i \in Unmaps(t) <=> i + 1 \in Unmaps(v)
      /\ \A i \in DOMAIN t : i \in Maps(t) <=> i + 1 \in Maps(v)
      /\ \A i \in Unmaps(v) : i # 1 => i - 1 \in Unmaps(t)
      /\ \A i \in Maps(v) : i # 1 => i - 1 \in Maps(t)
      /\ Unmaps(t) \subseteq DOMAIN t /\ Maps(t) \subseteq DOMAIN t
      /\ Unmaps(v) \subseteq DOMAIN v /\ Maps(v) \subseteq DOMAIN v
      /\ (1 \in Unmaps(v) <=> Head(v) = "Unmap") /\ (1 \in Maps(v) <=> Head(v) = "Map")
  BY <1>1 DEF Unmaps, Maps
<1>3. Alternates(v, m) => Alternates(t, m)
  <2> HAVE Alternates(v, m)
  <2>1. ASSUME NEW i \in Unmaps(t), NEW k \in Unmaps(t), i < k
        PROVE  \E j \in Maps(t) : i < j /\ j < k
    <3>1. i + 1 \in Unmaps(v) /\ k + 1 \in Unmaps(v) /\ i + 1 < k + 1
      BY <1>1, <1>2, <2>1
    <3>2. PICK j \in Maps(v) : i + 1 < j /\ j < k + 1
      BY <3>1 DEF Alternates
    <3>3. j - 1 \in Maps(t) /\ i < j - 1 /\ j - 1 < k
      BY <1>1, <1>2, <3>2
    <3> QED BY <3>3
  <2>2. ASSUME m, NEW i \in Unmaps(t) PROVE \E j \in Maps(t) : i < j
    <3>1. i + 1 \in Unmaps(v)
      BY <1>2
    <3>2. PICK j \in Maps(v) : i + 1 < j
      BY <2>2, <3>1 DEF Alternates
    <3>3. j - 1 \in Maps(t) /\ i < j - 1
      BY <1>1, <1>2, <3>2
    <3> QED BY <3>3
  <2> QED BY <2>1, <2>2 DEF Alternates
<1>4. ASSUME NEW kinds, Followed(v, kinds) PROVE Followed(t, kinds)
  <2> SUFFICES ASSUME NEW i \in DOMAIN t, t[i] \in kinds PROVE \E k \in Unmaps(t) : i < k
    BY DEF Followed
  <2>1. PICK k \in Unmaps(v) : i + 1 < k
    BY <1>1, <1>4 DEF Followed
  <2>2. k - 1 \in Unmaps(t) /\ i < k - 1
    BY <1>1, <1>2, <2>1
  <2> QED BY <2>2
<1>5. ASSUME NEW kinds, Followed(v, kinds), Head(v) \in kinds PROVE Count(t) # 0
  <2>1. PICK k \in Unmaps(v) : 1 < k
    BY <1>1, <1>5 DEF Followed
  <2>2. k - 1 \in Unmaps(t)
    BY <1>1, <1>2, <2>1
  <2> QED BY <1>1, <2>2, CountIsNat
<1>6. Announced(v, m) => Announced(t, m)
  BY <1>4 DEF Announced
<1>7. (\A i \in DOMAIN v : v[i] # "ClearFullscreen") =>
        /\ \A i \in DOMAIN t : t[i] # "ClearFullscreen"
        /\ Head(v) # "ClearFullscreen"
  BY <1>1
<1>8. Head(v) # "Destroy" /\ (\E i \in DOMAIN v : v[i] = "Destroy") =>
        \E i \in DOMAIN t : t[i] = "Destroy"
  BY <1>1
<1>9. MapNext(v) => Head(v) # "Unmap"
  BY <1>1, <1>2 DEF MapNext
<1>10. MapNext(v) /\ Head(v) # "Map" => MapNext(t)
  <2> HAVE MapNext(v) /\ Head(v) # "Map"
  <2>1. PICK j \in Maps(v) : \A i \in Unmaps(v) : j < i
    BY DEF MapNext
  <2>2. j - 1 \in Maps(t) /\ j \in Int
    BY <1>1, <1>2
  <2>3. ASSUME NEW i \in Unmaps(t) PROVE j - 1 < i
    <3>1. i + 1 \in Unmaps(v) /\ i \in Int
      BY <1>1, <1>2
    <3> QED BY <2>1, <2>2, <3>1
  <2> QED BY <2>2, <2>3 DEF MapNext
<1>11. Head(v) = "Unmap" /\ Alternates(v, m) /\ (Count(t) # 0 \/ m) => MapNext(t)
  <2> HAVE Head(v) = "Unmap" /\ Alternates(v, m) /\ (Count(t) # 0 \/ m)
  <2>1. 1 \in Unmaps(v)
    BY <1>2
  <2>2. CASE Count(t) # 0
    <3>1. Unmaps(t) # {} /\ Unmaps(t) \in SUBSET Nat
      BY <1>1, <1>2, <2>2, CountIsNat
    <3>2. PICK k \in Unmaps(t) : \A i \in Unmaps(t) : k <= i
      BY <3>1, Least
    <3>3. k + 1 \in Unmaps(v) /\ 1 < k + 1
      BY <1>1, <1>2
    <3>4. PICK j \in Maps(v) : 1 < j /\ j < k + 1
      BY <2>1, <3>3 DEF Alternates
    <3>5. j - 1 \in Maps(t) /\ j - 1 < k
      BY <1>1, <1>2, <3>4
    <3>6. ASSUME NEW i \in Unmaps(t) PROVE j - 1 < i
      <4>1. i \in Int /\ k \in Int /\ j - 1 \in Int /\ k <= i
        BY <1>1, <1>2, <3>2, <3>5
      <4> QED BY <3>5, <4>1
    <3> QED BY <3>5, <3>6 DEF MapNext
  <2>3. CASE Count(t) = 0 /\ m
    <3>1. Unmaps(t) = {}
      BY <1>1, <2>3, CountIsNat
    <3>2. PICK j \in Maps(v) : 1 < j
      BY <2>1, <2>3 DEF Alternates
    <3>3. j - 1 \in Maps(t)
      BY <1>1, <1>2, <3>2
    <3> QED BY <3>1, <3>3 DEF MapNext
  <2> QED BY <2>2, <2>3
<1> QED BY <1>1, <1>3, <1>4, <1>5, <1>6, <1>7, <1>8, <1>9, <1>10, <1>11 DEF t

(* An event that maps and unmaps nothing is added.                          *)
LEMMA QuietAppend ==
  ASSUME NEW v \in Seq(Kinds), NEW k \in Kinds, k \notin {"Map", "Unmap"}, NEW m
  PROVE  LET u == Append(v, k)
         IN  /\ u \in Seq(Kinds) /\ Count(u) = Count(v)
             /\ Alternates(v, m) => Alternates(u, m)
             /\ MapNext(v) => MapNext(u)
             /\ \A kinds : Followed(v, kinds) /\ k \notin kinds => Followed(u, kinds)
             /\ (\E i \in DOMAIN v : v[i] = "Destroy") \/ k = "Destroy" =>
                  \E i \in DOMAIN u : u[i] = "Destroy"
             /\ (\A i \in DOMAIN v : v[i] # "ClearFullscreen") /\ k # "ClearFullscreen" =>
                  \A i \in DOMAIN u : u[i] # "ClearFullscreen"
<1> DEFINE u == Append(v, k)
<1>1. /\ DOMAIN v = 1..Len(v) /\ DOMAIN u = 1..(Len(v) + 1) /\ Len(v) \in Nat
      /\ \A i \in DOMAIN v : u[i] = v[i] /\ i \in DOMAIN u
      /\ \A i \in DOMAIN u : i \notin DOMAIN v => i = Len(v) + 1
      /\ u[Len(v) + 1] = k /\ Len(v) + 1 \in DOMAIN u /\ u \in Seq(Kinds)
  OBVIOUS
<1>2. Count(u) = Count(v)
  BY CountAppend, CountIsNat
<1> HIDE DEF u
<1>3. Unmaps(u) = Unmaps(v) /\ Maps(u) = Maps(v)
  BY <1>1 DEF Unmaps, Maps
<1>4. /\ Alternates(v, m) => Alternates(u, m)
      /\ MapNext(v) => MapNext(u)
  BY <1>3 DEF Alternates, MapNext
<1>5. \A kinds : Followed(v, kinds) /\ k \notin kinds => Followed(u, kinds)
  BY <1>1, <1>3 DEF Followed
<1> QED BY <1>1, <1>2, <1>4, <1>5 DEF u

(* An event is handled that changes nothing but, perhaps, what the client    *)
(* has been confirmed of.                                                   *)
LEMMA TailGood ==
  ASSUME NEW w \in Windows, NEW v \in Seq(Kinds), v # << >>,
         NEW x \in XRecords, NEW c \in Clients, NEW p, Good(w, v, x, c, p),
         c.alive => /\ Head(v) \notin {"Unmap", "Destroy"}
                    /\ Head(v) = "Map" => c.skipMaps = 0
  PROVE  Good(w, Tail(v), x, c, p)
<1> DEFINE t == Tail(v)
<1>0. (\A i \in DOMAIN v : v[i] # "ClearFullscreen") => \A i \in DOMAIN t : t[i] # "ClearFullscreen"
  BY TailKeeps
<1>1. /\ t \in Seq(Kinds)
      /\ Alternates(v, x.mapped) => Alternates(t, x.mapped)
      /\ Announced(v, x.mapped) => Announced(t, x.mapped)
      /\ Followed(v, {"MapRequest"}) => Followed(t, {"MapRequest"})
      /\ Head(v) # "Destroy" /\ (\E i \in DOMAIN v : v[i] = "Destroy") =>
                  \E i \in DOMAIN t : t[i] = "Destroy"
      /\ MapNext(v) /\ Head(v) # "Map" => MapNext(t)
  BY TailKeeps
<1>2. /\ Count(v) \in Nat /\ Count(t) \in Nat
      /\ c.alive => Count(t) = Count(v)
  <2>1. Count(v) \in Nat /\ Count(t) \in Nat
    BY <1>1, CountIsNat
  <2>2. Count(v) = Count(t) + (IF Head(v) = "Unmap" THEN 1 ELSE 0)
    BY CountTail
  <2> HIDE DEF t
  <2> QED BY <2>1, <2>2
<1> HIDE DEF t
<1>3. Coming(v, x, c) => Coming(t, x, c)
  BY <1>1 DEF Coming
<1>4. Owed(v, x, c) => Owed(t, x, c)
  BY <1>1, <1>2 DEF Owed
<1>5. Seen(v, x, c) => Seen(t, x, c)
  BY <1>2 DEF Seen
<1>6. AskedFor(v, x, c) => AskedFor(t, x, c)
  BY <1>0, <1>1, <1>2 DEF AskedFor
<1>7. Good(w, t, x, c, p)
  BY <1>1, <1>3, <1>4, <1>5, <1>6 DEF Good
<1> QED BY <1>7 DEF t

(* What else the window manager knows of a client does not matter.          *)
LEMMA AlikeGood ==
  ASSUME NEW w \in Windows, NEW v \in Seq(Kinds),
         NEW x \in XRecords, NEW c \in Clients, NEW d \in Clients, NEW p, Good(w, v, x, c, p),
         Alike([c EXCEPT !.hiding = d.hiding], d), d.realized = c.realized,
         d.skipUnmaps = c.skipUnmaps, c.alive
  PROVE  Good(w, v, x, d, p)
<1>1. /\ d.alive = c.alive /\ d.listed = c.listed /\ d.stacked = c.stacked
      /\ d.wanted = c.wanted /\ d.hidden = c.hidden /\ d.fullscreen = c.fullscreen
      /\ d.skipMaps = c.skipMaps /\ d.sync = c.sync
  BY DEF Alike, Clients
<1> QED BY <1>1 DEF Good, Whole, Coming, Owed, Seen, AskedFor

(* A map event is skipped.                                                  *)
LEMMA SkippedMapGood ==
  ASSUME NEW w \in Windows, NEW v \in Seq(Kinds), v # << >>, Head(v) \in {"Map", "MapFrame"},
         NEW x \in XRecords, NEW c \in Clients, NEW p, Good(w, v, x, c, p),
         c.alive, c.skipMaps # 0
  PROVE  Good(w, Tail(v), x, [c EXCEPT !.skipMaps = @ - 1], p)
<1> DEFINE t == Tail(v)
           d == [c EXCEPT !.skipMaps = @ - 1]
<1>0. (\A i \in DOMAIN v : v[i] # "ClearFullscreen") => \A i \in DOMAIN t : t[i] # "ClearFullscreen"
  BY TailKeeps
<1>1. /\ t \in Seq(Kinds)
      /\ Alternates(v, x.mapped) => Alternates(t, x.mapped)
      /\ Announced(v, x.mapped) => Announced(t, x.mapped)
      /\ Followed(v, {"MapRequest"}) => Followed(t, {"MapRequest"})
      /\ (\E i \in DOMAIN v : v[i] = "Destroy") => \E i \in DOMAIN t : t[i] = "Destroy"
  BY TailKeeps
<1>2. Count(t) = Count(v)
  <2>1. Count(t) \in Nat
    BY <1>1, CountIsNat
  <2>2. Count(v) = Count(t) + (IF Head(v) = "Unmap" THEN 1 ELSE 0)
    BY CountTail
  <2> HIDE DEF t
  <2> QED BY <2>1, <2>2
<1>3. /\ d.skipMaps = c.skipMaps - 1 /\ c.skipMaps \in Int
      /\ d.stacked = c.stacked /\ d.alive = c.alive /\ d.listed = c.listed
      /\ d.hidden = c.hidden /\ d.wanted = c.wanted /\ d.fullscreen = c.fullscreen
      /\ d.sync = c.sync /\ d.realized = c.realized /\ d.skipUnmaps = c.skipUnmaps
  BY DEF Clients
<1> HIDE DEF t, d
<1>4. Coming(v, x, c) => Coming(t, x, d)
  BY <1>1, <1>3 DEF Coming
<1>5. Owed(v, x, c) => Owed(t, x, d)
  BY <1>1, <1>2, <1>3 DEF Owed
<1>6. Seen(v, x, c) => Seen(t, x, d)
  BY <1>2, <1>3 DEF Seen
<1>7. AskedFor(v, x, c) => AskedFor(t, x, d)
  BY <1>0, <1>1, <1>2, <1>3 DEF AskedFor
<1>8. Whole(x, c, p) => Whole(x, d, p)
  BY <1>3 DEF Whole
<1>9. w \notin Overrides \ Preexisting
  BY DEF Good
<1>10. Good(w, t, x, d, p)
  BY <1>1, <1>4, <1>5, <1>6, <1>7, <1>8, <1>9 DEF Good
<1> QED BY <1>10 DEF t, d

(* An unmap event is skipped, and the map event that comes with it.         *)
LEMMA SkippedUnmapGood ==
  ASSUME NEW w \in Windows, NEW v \in Seq(Kinds), v # << >>, Head(v) = "Unmap",
         NEW x \in XRecords, NEW c \in Clients, NEW p, Good(w, v, x, c, p),
         c.alive, c.skipUnmaps > 0
  PROVE  Good(w, Tail(v), x, Skipped(c), p)
<1> DEFINE t == Tail(v)
           d == Skipped(c)
<1>0. (\A i \in DOMAIN v : v[i] # "ClearFullscreen") => \A i \in DOMAIN t : t[i] # "ClearFullscreen"
  BY TailKeeps
<1>1. /\ t \in Seq(Kinds)
      /\ Alternates(v, x.mapped) => Alternates(t, x.mapped)
      /\ Announced(v, x.mapped) => Announced(t, x.mapped)
      /\ Followed(v, {"MapRequest"}) => Followed(t, {"MapRequest"})
      /\ (\E i \in DOMAIN v : v[i] = "Destroy") => \E i \in DOMAIN t : t[i] = "Destroy"
      /\ ~MapNext(v)
      /\ Alternates(v, x.mapped) /\ (Count(t) # 0 \/ x.mapped) => MapNext(t)
  BY TailKeeps
<1>2. /\ Count(v) = Count(t) + 1 /\ Count(t) \in Nat
      /\ c.skipUnmaps \in Nat /\ c.skipMaps \in Int /\ x.mapped \in BOOLEAN
  BY <1>1, CountTail, CountIsNat DEF Clients, XRecords
<1>3. /\ d.skipUnmaps = c.skipUnmaps - 1 /\ d.skipMaps = c.skipMaps + 1
      /\ d.stacked = c.stacked /\ d.alive = c.alive /\ d.listed = c.listed
      /\ d.hidden = c.hidden /\ d.wanted = c.wanted /\ d.fullscreen = c.fullscreen
      /\ d.sync = c.sync /\ d.realized = c.realized
  BY DEF Clients, Skipped
<1> HIDE DEF t, d
<1>4. Coming(v, x, c) => Coming(t, x, d)
  BY <1>1, <1>3 DEF Coming
<1>5. Owed(v, x, c) /\ Coming(v, x, c) => Owed(t, x, d)
  <2> SUFFICES ASSUME Owed(v, x, c), Coming(v, x, c), x.exists PROVE Owed(t, x, d)
    BY DEF Owed
  <2>1. /\ c.skipUnmaps <= Count(v) /\ c.skipMaps = 0
        /\ ~x.mapped => c.skipUnmaps < Count(v)
    BY <1>1, <1>2 DEF Owed
  <2>2. Count(t) # 0 \/ x.mapped
    BY <1>2, <2>1
  <2>3. MapNext(t)
    BY <1>1, <2>2 DEF Coming
  <2> QED BY <1>2, <1>3, <2>1, <2>3 DEF Owed
<1>6. Seen(v, x, c) => Seen(t, x, d)
  BY <1>2, <1>3 DEF Seen
<1>7. AskedFor(v, x, c) => AskedFor(t, x, d)
  BY <1>0, <1>1, <1>2, <1>3 DEF AskedFor
<1>8. Whole(x, c, p) => Whole(x, d, p)
  BY <1>3 DEF Whole
<1>9. w \notin Overrides \ Preexisting
  BY <1>2 DEF Good
<1>10. Good(w, t, x, d, p)
  BY <1>1, <1>4, <1>5, <1>6, <1>7, <1>8, <1>9 DEF Good
<1> QED BY <1>10 DEF t, d

(* A client is shown.                                                       *)
LEMMA ShownGood ==
  ASSUME NEW w \in Windows, NEW v \in Seq(Kinds),
         NEW x \in XRecords, NEW c \in Clients, NEW p, Good(w, v, x, c, p), c.stacked
  PROVE  Good(w, v, x, Shown(c), TRUE) /\ Shown(c) \in Clients
<1> DEFINE d == Shown(c)
<1>1. /\ d \in Clients /\ d.skipMaps = c.skipMaps /\ d.skipUnmaps = c.skipUnmaps
      /\ d.stacked = c.stacked /\ d.alive = c.alive /\ d.listed = c.listed
      /\ ~d.hidden /\ d.wanted /\ d.fullscreen = c.fullscreen
      /\ d.sync = c.sync \cup {"Visibility"} /\ d.realized = c.realized
  BY DEF Clients, Shown
<1>2. "Visibility" \in d.sync /\ ("Fullscreen" \in d.sync <=> "Fullscreen" \in c.sync)
  BY <1>1
<1> HIDE DEF d
<1>3. Whole(x, c, p) => Whole(x, d, TRUE)
  BY <1>1, <1>2 DEF Whole
<1>4. Coming(v, x, c) => Coming(v, x, d)
  BY <1>1 DEF Coming
<1>5. Owed(v, x, c) => Owed(v, x, d)
  BY <1>1, <1>2 DEF Owed
<1>6. Seen(v, x, c) => Seen(v, x, d)
  BY <1>1, <1>2 DEF Seen
<1>7. AskedFor(v, x, c) => AskedFor(v, x, d)
  BY <1>1, <1>2 DEF AskedFor
<1>8. Good(w, v, x, d, TRUE)
  BY <1>1, <1>3, <1>4, <1>5, <1>6, <1>7 DEF Good
<1> QED BY <1>1, <1>8 DEF d

(* A window that has no client gets one.                                    *)
LEMMA NewGood ==
  ASSUME LifecycleAssumption, NEW w \in Windows, NEW v \in Seq(Kinds),
         NEW x \in XRecords, NEW c \in Clients, NEW p, Good(w, v, x, c, p),
         ~c.alive, x.exists, w \notin Overrides => Count(v) # 0 \/ x.asked \/ ~EntersOnly(w),
         NEW d \in Clients,
         d.alive, d.listed, d.stacked, ~d.hidden, ~d.fullscreen, ~d.realized,
         d.skipUnmaps = 0, d.skipMaps = 0, d.sync = IF d.wanted THEN {"Visibility"} ELSE {},
         w \in Plain /\ ActivatesNew => d.wanted
  PROVE  Good(w, v, x, d, TRUE)
<1>1. Count(v) \in Nat
  BY CountIsNat
<1>2. Whole(x, c, p) => Whole(x, d, TRUE)
  BY DEF Whole, Clients
<1>3. Coming(v, x, c) => Coming(v, x, d)
  BY DEF Coming
<1>4. Owed(v, x, d)
  BY <1>1 DEF Owed
<1>5. w \in Plain /\ ActivatesNew => Seen(v, x, d)
  BY <1>1 DEF Seen
<1>6. EntersOnly(w) => (AskedFor(v, x, c) => AskedFor(v, x, d))
  <2>1. EntersOnly(w) => w \notin Overrides
    BY DEF EntersOnly
  <2> QED BY <1>1, <2>1 DEF AskedFor
<1> QED BY <1>2, <1>3, <1>4, <1>5, <1>6 DEF Good

(* A window loses its client, and may be taken out of the frame.            *)
LEMMA GoneGood ==
  ASSUME LifecycleAssumption, NEW w \in Windows, NEW v \in Seq(Kinds), v # << >>, NEW u \in Seq(Kinds),
         NEW x \in XRecords, NEW y \in XRecords, NEW c \in Clients, NEW p, Good(w, v, x, c, p),
         Grows(Tail(v), x.mapped, u, y.mapped), y.mapped = x.mapped,
         y.exists = x.exists, y.asked = x.asked
  PROVE  Good(w, u, y, NoClient, TRUE) /\ NoClient \in Clients
<1>1. /\ NoClient \in Clients /\ ~NoClient.alive /\ ~NoClient.hidden /\ NoClient.sync = {}
      /\ ~NoClient.stacked /\ ~NoClient.listed /\ NoClient.skipUnmaps = 0 /\ NoClient.skipMaps = 0
      /\ ~NoClient.wanted
      /\ NoClient.stacked = NoClient.alive /\ NoClient.listed = NoClient.alive
  BY DEF NoClient, Clients, LifecycleAssumption
<1>2. /\ Alternates(v, x.mapped) => Alternates(u, y.mapped)
      /\ Announced(v, x.mapped) => Announced(u, y.mapped)
      /\ Followed(v, {"MapRequest"}) => Followed(u, {"MapRequest"})
      /\ (\A i \in DOMAIN v : v[i] # "ClearFullscreen") =>
            \A i \in DOMAIN u : u[i] # "ClearFullscreen"
  BY TailKeeps DEF Grows
<1>3. Whole(x, c, p) => Whole(y, NoClient, TRUE)
  BY <1>1 DEF Whole
<1>4. Coming(v, x, c) => Coming(u, y, NoClient)
  BY <1>1, <1>2 DEF Coming
<1>5. Owed(u, y, NoClient) /\ Seen(u, y, NoClient)
  BY <1>1 DEF Owed, Seen
<1>6. AskedFor(v, x, c) => AskedFor(u, y, NoClient)
  BY <1>1, <1>2 DEF AskedFor
<1> QED BY <1>1, <1>2, <1>3, <1>4, <1>5, <1>6 DEF Good

(* A client is told to become fullscreen or to come back.                   *)
LEMMA FullscreenGood ==
  ASSUME NEW w \in Windows, NEW v \in Seq(Kinds), v # << >>, Head(v) \in Messaged,
         NEW x \in XRecords, NEW c \in Clients, NEW p \in BOOLEAN, Good(w, v, x, c, p), c.alive
  PROVE  LET d == SetFullscreen(c, Head(v) = "SetFullscreen")
         IN  d \in Clients /\ Good(w, Tail(v), x, d, p \/ d # c)
<1> DEFINE on == Head(v) = "SetFullscreen"
           t == Tail(v)
           d == SetFullscreen(c, on)
<1>0. Head(v) \notin {"Unmap", "Destroy", "Map"}
  BY DEF Messaged
<1>1. Good(w, t, x, c, p)
  BY <1>0, TailGood
<1>2. on \in BOOLEAN /\ c.fullscreen \in BOOLEAN
  BY DEF Clients
<1>3. CASE c.fullscreen = on
  <2>1. d = c
    BY <1>3 DEF SetFullscreen
  <2>2. (p \/ d # c) = p
    BY <2>1
  <2> HIDE DEF d
  <2>3. Good(w, t, x, d, p \/ d # c)
    BY <1>1, <2>1, <2>2
  <2> QED BY <2>1, <2>3 DEF d
<1>4. CASE c.fullscreen # on
  <2>1. Count(t) # 0 \/ x.mapped \/ w \notin Plain
    <3>1. Announced(v, x.mapped) /\ ~x.mapped => Count(t) # 0
      BY TailKeeps DEF Announced
    <3> QED BY <3>1 DEF Good
  <2>2. EntersOnly(w) => on
    <3>1. (\A i \in DOMAIN v : v[i] # "ClearFullscreen") => Head(v) # "ClearFullscreen"
      BY TailKeeps
    <3> QED BY <3>1 DEF Good, AskedFor, Messaged
  <2>3. t \in Seq(Kinds) /\ Count(t) \in Nat /\ c.skipUnmaps \in Nat
    BY TailKeeps, CountIsNat DEF Clients
  <2> HIDE DEF on, t
  <2>4. d = [c EXCEPT !.fullscreen = on, !.sync = @ \cup {"Fullscreen", "Visibility"}]
    BY <1>4 DEF SetFullscreen
  <2> HIDE DEF d
  <2>5. /\ d \in Clients /\ d.skipMaps = c.skipMaps /\ d.skipUnmaps = c.skipUnmaps
        /\ d.stacked = c.stacked /\ d.alive = c.alive /\ d.listed = c.listed
        /\ d.hidden = c.hidden /\ d.wanted = c.wanted /\ d.fullscreen = on
        /\ d.sync = c.sync \cup {"Fullscreen", "Visibility"} /\ d.realized = c.realized
    BY <1>2, <2>4 DEF Clients
  <2>6. "Visibility" \in d.sync /\ "Fullscreen" \in d.sync /\ d # c
    BY <1>4, <2>5
  <2>7. Whole(x, c, p) => Whole(x, d, TRUE)
    BY <2>5, <2>6 DEF Whole
  <2>8. Coming(t, x, c) => Coming(t, x, d)
    BY <2>5 DEF Coming
  <2>9. w \in Plain /\ Owed(t, x, c) => Owed(t, x, d)
    BY <2>1, <2>3, <2>5 DEF Owed
  <2>10. Seen(t, x, c) => Seen(t, x, d)
    BY <2>5, <2>6 DEF Seen
  <2>11. EntersOnly(w) /\ AskedFor(t, x, c) => AskedFor(t, x, d)
    BY <2>2, <2>5 DEF AskedFor
  <2>12. Good(w, t, x, d, TRUE)
    BY <1>1, <2>5, <2>7, <2>8, <2>9, <2>10, <2>11 DEF Good
  <2>13. (p \/ d # c) = TRUE
    BY <2>6
  <2> QED BY <2>5, <2>12, <2>13 DEF d, t, on
<1> QED BY <1>3, <1>4

(* The window is unmapped, by its application or by a message of it.        *)
LEMMA UnmappedGood ==
  ASSUME NEW w \in Windows, NEW v \in Seq(Kinds), NEW u \in Seq(Kinds),
         NEW x \in XRecords, NEW y \in XRecords, NEW c \in Clients, NEW p, Good(w, v, x, c, p),
         x.mapped, ~y.mapped, y.exists = x.exists, y.framed = x.framed,
         y.frameMapped = x.frameMapped, u = Append(v, "Unmap")
  PROVE  Good(w, u, y, c, p)
<1>1. "Unmap" \in Kinds /\ x.mapped = TRUE /\ y.mapped = FALSE
  BY DEF Kinds, EventTypes, XRecords
<1>2. Grows(v, x.mapped, u, y.mapped)
  BY <1>1, GrowsByOne
<1>3. Count(u) = Count(v) + 1 /\ Count(v) \in Nat /\ c.skipUnmaps \in Nat
  BY <1>1, CountAppend, CountIsNat DEF Clients
<1>4. Followed(u, {"MapRequest"})
  <2>1. /\ DOMAIN u = 1..(Len(v) + 1) /\ u[Len(v) + 1] = "Unmap" /\ Len(v) \in Nat
    OBVIOUS
  <2>2. Len(v) + 1 \in Unmaps(u)
    BY <2>1 DEF Unmaps
  <2> QED BY <2>1, <2>2 DEF Followed
<1>5. Whole(x, c, p) => Whole(y, c, p)
  BY DEF Whole
<1>6. Coming(v, x, c) => Coming(u, y, c)
  BY <1>2 DEF Coming, Grows
<1>7. Announced(v, x.mapped) => Announced(u, y.mapped)
  BY <1>2 DEF Grows
<1>8. Owed(v, x, c) => Owed(u, y, c)
  BY <1>2, <1>3 DEF Owed, Grows
<1>9. Owed(v, x, c) /\ Seen(v, x, c) => Seen(u, y, c)
  BY <1>3 DEF Owed, Seen
<1>10. Owed(v, x, c) /\ AskedFor(v, x, c) => AskedFor(u, y, c)
  <2>1. (\A i \in DOMAIN v : v[i] # "ClearFullscreen") => \A i \in DOMAIN u : u[i] # "ClearFullscreen"
    BY <1>2 DEF Grows
  <2> QED BY <1>3, <1>4, <2>1 DEF Owed, AskedFor
<1>11. EntersOnly(w) => w \in Plain
  BY DEF EntersOnly, Plain
<1> QED BY <1>5, <1>6, <1>7, <1>8, <1>9, <1>10, <1>11 DEF Good

(* The application asks for its window, which is mapped already, or the     *)
(* request is sent to the window manager.                                   *)
LEMMA RequestedGood ==
  ASSUME NEW w \in Windows, NEW v \in Seq(Kinds),
         NEW x \in XRecords, NEW y \in XRecords, NEW c \in Clients, NEW p, Good(w, v, x, c, p),
         y.mapped = x.mapped, y.exists = x.exists, y.framed = x.framed,
         y.frameMapped = x.frameMapped, y.asked
  PROVE  Good(w, v, y, c, p) /\ Good(w, Append(v, "MapRequest"), y, c, p)
<1>1. "MapRequest" \in Kinds /\ "MapRequest" \notin Messaged
  BY DEF Kinds, EventTypes, Messaged
<1>2. Good(w, v, y, c, p)
  BY DEF Good, Whole, Coming, Owed, Seen, AskedFor
<1> DEFINE u == Append(v, "MapRequest")
<1>3. /\ u \in Seq(Kinds) /\ Count(u) = Count(v)
      /\ Alternates(v, y.mapped) => Alternates(u, y.mapped)
      /\ MapNext(v) => MapNext(u)
      /\ Announced(v, y.mapped) => Announced(u, y.mapped)
      /\ (\E i \in DOMAIN v : v[i] = "Destroy") => \E i \in DOMAIN u : u[i] = "Destroy"
      /\ (\A i \in DOMAIN v : v[i] # "ClearFullscreen") =>
            \A i \in DOMAIN u : u[i] # "ClearFullscreen"
  BY <1>1, QuietAppend DEF Announced
<1> HIDE DEF u
<1>4. Good(w, u, y, c, p)
  BY <1>2, <1>3 DEF Good, Coming, Owed, Seen, AskedFor
<1> QED BY <1>2, <1>4 DEF u

(* An override window is mapped.                                            *)
LEMMA OverrideMappedGood ==
  ASSUME NEW w \in Overrides, w \in Windows, NEW v \in Seq(Kinds),
         NEW x \in XRecords, NEW y \in XRecords, NEW c \in Clients, NEW p, Good(w, v, x, c, p),
         ~x.mapped, y.mapped, y.exists, x.exists
  PROVE  Good(w, Append(v, "Map"), y, c, p)
<1>1. x.mapped = FALSE /\ y.mapped = TRUE
  BY DEF XRecords
<1>2. Grows(v, x.mapped, Append(v, "Map"), y.mapped)
  BY <1>1, GrowsByOne
<1>3. Coming(v, x, c) => Coming(Append(v, "Map"), y, c)
  BY <1>2 DEF Coming, Grows
<1>4. w \notin Plain /\ ~EntersOnly(w)
  BY DEF Plain, EntersOnly
<1> QED BY <1>3, <1>4 DEF Good, Whole

(* A message is sent for a window that is mapped.                           *)
LEMMA MessageGood ==
  ASSUME NEW w \in Windows, NEW v \in Seq(Kinds),
         NEW x \in XRecords, NEW c \in Clients, NEW p, Good(w, v, x, c, p),
         x.mapped, NEW k \in Messages[w], k \in {"SetFullscreen", "ClearFullscreen", "Iconify"}
  PROVE  Good(w, Append(v, k), x, c, p)
<1> DEFINE u == Append(v, k)
<1>1. k \in Kinds /\ k \notin {"Map", "Unmap"} /\ k \notin {"MapRequest"} /\ x.mapped = TRUE
  BY DEF Kinds, EventTypes, XRecords
<1>2. /\ u \in Seq(Kinds) /\ Count(u) = Count(v)
      /\ Alternates(v, x.mapped) => Alternates(u, x.mapped)
      /\ MapNext(v) => MapNext(u)
      /\ Followed(v, {"MapRequest"}) => Followed(u, {"MapRequest"})
      /\ (\E i \in DOMAIN v : v[i] = "Destroy") => \E i \in DOMAIN u : u[i] = "Destroy"
      /\ (\A i \in DOMAIN v : v[i] # "ClearFullscreen") /\ k # "ClearFullscreen" =>
            \A i \in DOMAIN u : u[i] # "ClearFullscreen"
  BY <1>1, QuietAppend
<1> HIDE DEF u
<1>3. EntersOnly(w) => k # "ClearFullscreen"
  BY DEF EntersOnly
<1>4. Announced(u, x.mapped)
  BY DEF Announced
<1>5. Coming(v, x, c) => Coming(u, x, c)
  BY <1>2 DEF Coming
<1>6. /\ Owed(v, x, c) => Owed(u, x, c)
      /\ Seen(v, x, c) => Seen(u, x, c)
  BY <1>2 DEF Owed, Seen
<1>7. EntersOnly(w) /\ AskedFor(v, x, c) => AskedFor(u, x, c)
  BY <1>2, <1>3 DEF AskedFor
<1>8. Good(w, u, x, c, p)
  BY <1>4, <1>5, <1>6, <1>7 DEF Good
<1> QED BY <1>8 DEF u

(* The application destroys its window, which unmaps it.                    *)
LEMMA DestroyedGood ==
  ASSUME NEW w \in Windows, NEW v \in Seq(Kinds),
         NEW x \in XRecords, NEW y \in XRecords, NEW c \in Clients, NEW p, Good(w, v, x, c, p),
         ~y.mapped, ~y.exists
  PROVE  Good(w, Append(IF x.mapped THEN Append(v, "Unmap") ELSE v, "Destroy"), y, c, p)
<1> DEFINE u == IF x.mapped THEN Append(v, "Unmap") ELSE v
           t == Append(u, "Destroy")
<1>1. "Unmap" \in Kinds /\ "Destroy" \in Kinds /\ "Destroy" \notin Messaged /\ y.mapped = FALSE
      /\ x.mapped \in BOOLEAN
  BY DEF Kinds, EventTypes, XRecords, Messaged
<1>2. Grows(v, x.mapped, u, FALSE) /\ u \in Seq(Kinds)
  <2>1. CASE x.mapped
    <3>1. x.mapped = TRUE /\ u = Append(v, "Unmap")
      BY <1>1, <2>1
    <3>2. Grows(v, TRUE, Append(v, "Unmap"), FALSE)
      BY GrowsByOne
    <3>3. Append(v, "Unmap") \in Seq(Kinds)
      BY <1>1
    <3> HIDE DEF u
    <3> QED BY <3>1, <3>2, <3>3
  <2>2. CASE ~x.mapped
    <3>1. x.mapped = FALSE /\ u = v
      BY <1>1, <2>2
    <3> HIDE DEF u
    <3>2. Grows(v, FALSE, v, FALSE)
      BY GrowsNot
    <3> QED BY <3>1, <3>2
  <2> QED BY <1>1, <2>1, <2>2
<1> HIDE DEF u
<1>3. /\ t \in Seq(Kinds)
      /\ Alternates(u, FALSE) => Alternates(t, FALSE)
      /\ Announced(u, FALSE) => Announced(t, FALSE)
      /\ \E i \in DOMAIN t : t[i] = "Destroy"
      /\ (\A i \in DOMAIN u : u[i] # "ClearFullscreen") =>
            \A i \in DOMAIN t : t[i] # "ClearFullscreen"
  BY <1>1, <1>2, QuietAppend DEF Announced
<1> HIDE DEF t
<1>4. Whole(x, c, p) => Whole(y, c, p)
  BY DEF Whole
<1>5. Coming(v, x, c) => Coming(t, y, c)
  BY <1>1, <1>2, <1>3 DEF Coming, Grows
<1>6. Announced(v, x.mapped) => Announced(t, y.mapped)
  BY <1>1, <1>2, <1>3 DEF Grows
<1>7. Owed(t, y, c) /\ (Seen(v, x, c) => Seen(t, y, c))
  BY DEF Owed, Seen
<1>8. AskedFor(v, x, c) => AskedFor(t, y, c)
  <2>1. (\A i \in DOMAIN v : v[i] # "ClearFullscreen") => \A i \in DOMAIN u : u[i] # "ClearFullscreen"
    BY <1>2 DEF Grows
  <2> QED BY <1>3, <2>1 DEF AskedFor
<1>9. Good(w, t, y, c, p)
  BY <1>4, <1>5, <1>6, <1>7, <1>8 DEF Good
<1> QED BY <1>9 DEF t, u

-----------------------------------------------------------------------------
(* Every step keeps the types. *)

LEMMA NewClientsAre ==
  ASSUME LifecycleAssumption, NEW d \in Desktops
  PROVE  /\ NoClient \in Clients /\ NewClient(d) \in Clients
         /\ \A on \in BOOLEAN :
              LET c == Managed(d, on)
              IN  /\ c \in Clients /\ c.alive /\ c.listed /\ c.stacked /\ ~c.hidden
                  /\ ~c.fullscreen /\ ~c.realized /\ c.skipUnmaps = 0 /\ c.skipMaps = 0
                  /\ c.sync = IF c.wanted THEN {"Visibility"} ELSE {}
         /\ ActivatesNew => Managed(d, TRUE).wanted
<1>1. NoClient \in Clients /\ NewClient(d) \in Clients
  <2>1. NoClient \in Clients
    BY DEF NoClient, Clients, LifecycleAssumption
  <2>2. \A c \in Clients :
          [c EXCEPT !.alive = TRUE, !.listed = TRUE, !.stacked = TRUE, !.desktop = d] \in Clients
    BY DEF Clients
  <2> QED BY <2>1, <2>2 DEF NewClient
<1> DEFINE c == NewClient(d)
<1>2. /\ c.alive /\ c.listed /\ c.stacked /\ ~c.hidden
      /\ ~c.fullscreen /\ ~c.realized /\ c.skipUnmaps = 0 /\ c.skipMaps = 0
      /\ c.sync = {} /\ ~c.wanted
  BY DEF NoClient, NewClient
<1>3. c \in Clients
  BY <1>1
<1> HIDE DEF c
<1> DEFINE e == Shown(c)
<1>4. /\ e \in Clients /\ e.alive /\ e.listed /\ e.stacked /\ ~e.hidden
      /\ ~e.fullscreen /\ ~e.realized /\ e.skipUnmaps = 0 /\ e.skipMaps = 0
      /\ e.sync = {"Visibility"} /\ e.wanted
  BY <1>2, <1>3 DEF Shown, Clients
<1> HIDE DEF e
<1>5. ASSUME NEW on \in BOOLEAN PROVE Managed(d, on) = e \/ Managed(d, on) = c
  BY DEF Managed, c, e
<1>6. ASSUME NEW on \in BOOLEAN
      PROVE  LET f == Managed(d, on)
             IN  /\ f \in Clients /\ f.alive /\ f.listed /\ f.stacked /\ ~f.hidden
                 /\ ~f.fullscreen /\ ~f.realized /\ f.skipUnmaps = 0 /\ f.skipMaps = 0
                 /\ f.sync = IF f.wanted THEN {"Visibility"} ELSE {}
  BY <1>2, <1>3, <1>4, <1>5
<1>7. ActivatesNew => Managed(d, TRUE).wanted
  BY <1>4 DEF Managed, c, e
<1> QED BY <1>1, <1>6, <1>7

LEMMA ClientsAre ==
  ASSUME NEW c \in Clients, NEW d \in Desktops, NEW on \in BOOLEAN
  PROVE  /\ Shown(c) \in Clients /\ Hid(c) \in Clients
         /\ SetFullscreen(c, on) \in Clients
         /\ SetHidden(c, on) \in Clients
         /\ DesktopChange(c, d) \in Clients
         /\ c.skipUnmaps > 0 => Skipped(c) \in Clients
<1>1. ASSUME NEW e \in Clients PROVE Shown(e) \in Clients /\ Hid(e) \in Clients
  BY DEF Shown, Hid, Clients
<1>2. SetFullscreen(c, on) \in Clients
  BY DEF SetFullscreen, Clients
<1>3. ASSUME NEW e \in Clients, NEW b \in BOOLEAN PROVE SetHidden(e, b) \in Clients
  <2>1. [e EXCEPT !.hidden = TRUE] \in Clients
    BY DEF Clients
  <2> QED BY <1>1, <2>1 DEF SetHidden
<1>4. DesktopChange(c, d) \in Clients
  <2>1. [c EXCEPT !.hiding = TRUE] \in Clients
    BY DEF Clients
  <2> QED BY <1>3, <2>1 DEF DesktopChange
<1>5. c.skipUnmaps > 0 => Skipped(c) \in Clients
  <2> HAVE c.skipUnmaps > 0
  <2>1. c.skipUnmaps - 1 \in Nat /\ c.skipMaps + 1 \in Int
    BY DEF Clients
  <2>2. ASSUME NEW i \in Nat, NEW k \in Int
        PROVE  [c EXCEPT !.skipUnmaps = i, !.skipMaps = k] \in Clients
    BY DEF Clients
  <2>3. Skipped(c) = [c EXCEPT !.skipUnmaps = c.skipUnmaps - 1, !.skipMaps = c.skipMaps + 1]
    BY DEF Skipped
  <2> QED BY <2>1, <2>2, <2>3
<1> QED BY <1>1, <1>2, <1>3, <1>4, <1>5

(* mb_wm_client_base_destroy takes the window out of the frame.             *)
LEMMA ReleasedIs ==
  ASSUME Types, NEW w \in Windows, NEW v \in Seq(Kinds)
  PROVE  LET s == Released(w)
         IN  /\ s.x \in XRecords /\ s.out \in Seq(Reports)
             /\ v \o Kind(s.out) \in Seq(Kinds)
             /\ s.x.mapped = win[w].mapped /\ s.x.exists = win[w].exists
             /\ s.x.asked = win[w].asked
             /\ Grows(v, win[w].mapped, v \o Kind(s.out), s.x.mapped)
<1> DEFINE r == Alone(w)
           s == IF r.c.realized /\ w \notin Overrides THEN XReparent(r, FALSE, "release") ELSE r
<1>0. "release" \in Causes /\ FALSE \in BOOLEAN
  BY DEF Causes
<1>1. r \in Requests /\ r.x = win[w] /\ Told(v, r) = v
  BY AloneIs, ToldMore
<1>2. s \in Requests /\ Onward(v, r, s) /\ Stays(r, s) /\ s.x.mapped = r.x.mapped
  <2>1. CASE r.c.realized /\ w \notin Overrides
    <3>1. s = XReparent(r, FALSE, "release")
      BY <2>1
    <3>2. Onward(v, r, s)
      BY <1>0, <1>1, <3>1, Heard
    <3> QED BY <1>0, <1>1, <3>1, <3>2, XReparentDoes DEF Stays
  <2>2. CASE ~(r.c.realized /\ w \notin Overrides)
    <3>1. s = r
      BY <2>2
    <3>2. Onward(v, r, r)
      BY <1>1, GrowsNot DEF Onward
    <3> QED BY <1>1, <3>1, <3>2 DEF Stays
  <2> QED BY <2>1, <2>2
<1>3. Released(w) = [s EXCEPT !.x.framed = FALSE, !.x.frameMapped = FALSE]
  BY DEF Released, Alone
<1> HIDE DEF r, s
<1>4. s.x \in XRecords /\ s.out \in Seq(Reports)
  BY <1>2 DEF Requests
<1>5. /\ Released(w).out = s.out /\ Released(w).x \in XRecords
      /\ Released(w).x.mapped = s.x.mapped /\ Released(w).x.exists = s.x.exists
      /\ Released(w).x.asked = s.x.asked
  BY <1>2, <1>3, <1>4, ZenonT(60) DEF Requests, XRecords
<1>6. Told(v, s) = v \o Kind(s.out) /\ Told(v, s) \in Seq(Kinds)
  BY <1>2, ToldMore DEF Told
<1>7. Grows(v, r.x.mapped, Told(v, s), s.x.mapped)
  BY <1>1, <1>2 DEF Onward
<1> QED BY <1>1, <1>2, <1>4, <1>5, <1>6, <1>7 DEF Stays

(* The event at the head of the queue is one of a window, or of a desktop.  *)
LEMMA HeadIs ==
  ASSUME Types, queue # << >>
  PROVE  /\ Head(queue) \in Events /\ Tail(queue) \in Seq(Events)
         /\ Tail(queue) \o << >> = Tail(queue)
         /\ IF Head(queue).type = "Desktop" THEN Head(queue).window \in Desktops
            ELSE Head(queue).window \in Windows
<1>1. queue \in Seq(Events)
  BY DEF Types
<1>2. Head(queue) \in Events /\ Tail(queue) \in Seq(Events)
  BY <1>1
<1>3. Tail(queue) \o << >> = Tail(queue)
  BY <1>2
<1> QED BY <1>2, <1>3 DEF Events

(* An event of a window is handled, and it causes es.                       *)
LEMMA Handled ==
  ASSUME Types, queue # << >>, Head(queue).type # "Desktop",
         NEW es \in Seq(Reports)
  PROVE  LET o == Head(queue).window
             q == Tail(queue) \o OnWindow(o, es)
         IN  /\ o \in Windows /\ q \in Seq(Events)
             /\ \A w \in Windows \ {o} : \A v : Has(queue, w, v) => Has(q, w, v)
             /\ \A v : Has(queue, o, v) =>
                  /\ v \in Seq(Kinds) /\ v # << >> /\ Head(v) = Head(queue).type
                  /\ Has(q, o, Tail(v) \o Kind(es))
<1> DEFINE o == Head(queue).window
           q == Tail(queue) \o OnWindow(o, es)
<1>1. o \in Windows /\ Tail(queue) \in Seq(Events) /\ queue \in Seq(Events)
  BY HeadIs DEF Types
<1>2. /\ OnWindow(o, es) \in Seq(Events)
      /\ Has(OnWindow(o, es), o, Kind(es))
      /\ \A w \in Windows \ {o} : Has(OnWindow(o, es), w, << >>)
  <2>1. /\ OnWindow(o, es) \in Seq(Events) /\ Kind(OnWindow(o, es)) = Kind(es)
        /\ \A i \in DOMAIN OnWindow(o, es) : IsOf(OnWindow(o, es)[i], o)
        /\ \A w \in Windows \ {o} : \A i \in DOMAIN OnWindow(o, es) : ~IsOf(OnWindow(o, es)[i], w)
    BY <1>1, OnWindowIs
  <2> DEFINE n == OnWindow(o, es)
  <2> HIDE DEF n
  <2>2. n \in Seq(Events) => Has(n, o, Kind(n)) \/ ~\A i \in DOMAIN n : IsOf(n[i], o)
    BY HasAllOrNone
  <2>3. ASSUME NEW w \in Windows \ {o}, n \in Seq(Events), \A i \in DOMAIN n : ~IsOf(n[i], w)
        PROVE  Has(n, w, << >>)
    BY <2>3, HasAllOrNone
  <2> QED BY <2>1, <2>2, <2>3 DEF n
<1>3. q \in Seq(Events)
  BY <1>1, <1>2
<1>4. ASSUME NEW w \in Windows \ {o}, NEW v, Has(queue, w, v) PROVE Has(q, w, v)
  <2>1. ~IsOf(Head(queue), w)
    BY DEF IsOf
  <2>2. Has(Tail(queue), w, v)
    BY <1>1, <1>4, <2>1, HasLess
  <2>3. Has(q, w, v \o << >>)
    BY <1>1, <1>2, <2>2, HasBoth
  <2>4. v \in Seq(Kinds)
    BY <1>4 DEF Has
  <2> QED BY <2>3, <2>4
<1>5. ASSUME NEW v, Has(queue, o, v)
      PROVE  /\ v \in Seq(Kinds) /\ v # << >> /\ Head(v) = Head(queue).type
             /\ Has(q, o, Tail(v) \o Kind(es))
  <2>1. IsOf(Head(queue), o)
    BY DEF IsOf
  <2>2. v \in Seq(Kinds) /\ v # << >> /\ Head(v) = Head(queue).type /\ Has(Tail(queue), o, Tail(v))
    BY <1>1, <1>5, <2>1, HasLess DEF Has
  <2> QED BY <1>1, <1>2, <2>2, HasBoth
<1> QED BY <1>1, <1>3, <1>4, <1>5

(* A handler that touches no more than the client of the window of the event *)
(* at the head of the queue.                                                *)
LEMMA QuietTypes ==
  ASSUME Types, queue # << >>, queue' = Tail(queue) \o << >>, win' = win, desktop' = desktop,
         NEW w, client' = client \/ \E c \in Clients : client' = [client EXCEPT ![w] = c],
         pending' \in BOOLEAN
  PROVE  Types'
BY HeadIs DEF Types

LEMMA UnmanageTypes ==
  ASSUME LifecycleAssumption, Types, queue # << >>, Head(queue).type # "Desktop",
         NEW w, w = Head(queue).window, Unmanage(w), desktop' = desktop
  PROVE  Types'
<1>0. w \in Windows
  BY HeadIs
<1>1. NoClient \in Clients
  BY NewClientsAre DEF LifecycleAssumption
<1>2. << >> \in Seq(Kinds)
  OBVIOUS
<1>3. Released(w).x \in XRecords /\ Released(w).out \in Seq(Reports)
  BY <1>0, <1>2, ReleasedIs
<1>4. queue' \in Seq(Events)
  BY <1>3, Handled DEF Unmanage, Done
<1> QED BY <1>1, <1>3, <1>4 DEF Unmanage, Becomes, Types

(* An application's requests and messages.                                  *)
LEMMA SentIs ==
  ASSUME Types, NEW o \in Windows, NEW es \in Seq(Reports), Send(o, es)
  PROVE  /\ queue' \in Seq(Events)
         /\ \A w \in Windows \ {o} : \A v : Has(queue, w, v) => Has(queue', w, v)
         /\ \A v : Has(queue, o, v) => v \in Seq(Kinds) /\ Has(queue', o, v \o Kind(es))
<1> DEFINE n == OnWindow(o, es)
<1>1. queue \in Seq(Events) /\ queue' = queue \o n
  BY DEF Types, Send
<1>2. /\ n \in Seq(Events) /\ Kind(n) = Kind(es)
      /\ \A i \in DOMAIN n : IsOf(n[i], o)
      /\ \A w \in Windows \ {o} : \A i \in DOMAIN n : ~IsOf(n[i], w)
  BY OnWindowIs
<1> HIDE DEF n
<1>3. Has(n, o, Kind(es))
  BY <1>2, HasAllOrNone
<1>4. ASSUME NEW w \in Windows \ {o} PROVE Has(n, w, << >>)
  BY <1>2, HasAllOrNone
<1>5. queue' \in Seq(Events)
  BY <1>1, <1>2
<1>6. ASSUME NEW w \in Windows \ {o}, NEW v, Has(queue, w, v) PROVE Has(queue', w, v)
  <2>1. Has(queue \o n, w, v \o << >>)
    BY <1>1, <1>2, <1>4, <1>6, HasBoth
  <2>2. v \in Seq(Kinds)
    BY <1>6 DEF Has
  <2> QED BY <1>1, <2>1, <2>2
<1>7. ASSUME NEW v, Has(queue, o, v) PROVE v \in Seq(Kinds) /\ Has(queue', o, v \o Kind(es))
  <2>1. Has(queue \o n, o, v \o Kind(es))
    BY <1>1, <1>2, <1>3, <1>7, HasBoth
  <2>2. v \in Seq(Kinds)
    BY <1>7 DEF Has
  <2> QED BY <1>1, <2>1, <2>2
<1> QED BY <1>5, <1>6, <1>7

LEMMA TypesKept ==
  ASSUME LifecycleAssumption, Types, [Next]_vars
  PROVE  Types'
<1>0. desktop \in Desktops /\ pending \in BOOLEAN /\ queue \in Seq(Events)
  BY DEF Types
<1>1. CASE UNCHANGED vars
  BY <1>1 DEF vars, Types
<1>2. CASE Sync
  <2>1. \A w \in Windows : Synced(w).x \in XRecords /\ Synced(w).c \in Clients
    BY SyncedIs
  <2>2. queue' = queue \o Heralds /\ Heralds \in Seq(Events)
    BY <1>2, HeraldsAre DEF Sync, Heralds
  <2>3. queue' \in Seq(Events)
    BY <1>0, <2>2
  <2> QED BY <1>0, <1>2, <2>1, <2>3 DEF Sync, Types
<1>3. CASE HandleMapRequest
  <2> DEFINE w == Head(queue).window
  <2>1. queue # << >> /\ w \in Windows
    BY <1>3, HeadIs DEF HandleMapRequest, Receive
  <2>2. client[w] \in Clients
    BY <2>1 DEF Types
  <2>3. Shown(client[w]) \in Clients /\ Managed(desktop, TRUE) \in Clients
    BY <1>0, <2>2, ClientsAre, NewClientsAre
  <2>4. client' = client \/ \E c \in Clients : client' = [client EXCEPT ![w] = c]
    BY <1>3, <2>3 DEF HandleMapRequest, Becomes
  <2> QED BY <1>0, <1>3, <2>1, <2>4, QuietTypes DEF HandleMapRequest, Done
<1>4. CASE HandleMapNotify
  <2> DEFINE w == Head(queue).window
             c == client[w]
  <2>1. queue # << >> /\ w \in Windows
    BY <1>4, HeadIs DEF HandleMapNotify
  <2>2. c \in Clients /\ Managed(desktop, TRUE) \in Clients
    BY <1>0, <2>1, NewClientsAre DEF Types
  <2>3. /\ [c EXCEPT !.skipMaps = @ - 1] \in Clients
        /\ \A b \in BOOLEAN : [c EXCEPT !.confirmed = TRUE, !.hiding = b] \in Clients
        /\ [Managed(desktop, TRUE) EXCEPT !.confirmed = TRUE] \in Clients
        /\ (c.hiding /\ Head(queue).type = "MapFrame") \in BOOLEAN
    <3>1. ASSUME NEW d \in Clients
          PROVE  /\ [d EXCEPT !.confirmed = TRUE] \in Clients
                 /\ [d EXCEPT !.skipMaps = @ - 1] \in Clients
                 /\ \A b \in BOOLEAN : [d EXCEPT !.confirmed = TRUE, !.hiding = b] \in Clients
      <4>1. d.skipMaps - 1 \in Int
        BY DEF Clients
      <4>2. \A i \in Int : [d EXCEPT !.skipMaps = i] \in Clients
        BY DEF Clients
      <4>3. [d EXCEPT !.skipMaps = @ - 1] = [d EXCEPT !.skipMaps = d.skipMaps - 1]
        OBVIOUS
      <4>4. /\ [d EXCEPT !.confirmed = TRUE] \in Clients
            /\ \A b \in BOOLEAN : [d EXCEPT !.confirmed = TRUE, !.hiding = b] \in Clients
        BY DEF Clients
      <4> QED BY <4>1, <4>2, <4>3, <4>4
    <3>2. (c.hiding /\ Head(queue).type = "MapFrame") \in BOOLEAN
      OBVIOUS
    <3> QED BY <2>2, <3>1, <3>2
  <2>4. client' = client \/ \E d \in Clients : client' = [client EXCEPT ![w] = d]
    <3>1. [c EXCEPT !.confirmed = TRUE, !.hiding = @ /\ Head(queue).type = "MapFrame"] =
            [c EXCEPT !.confirmed = TRUE, !.hiding = c.hiding /\ Head(queue).type = "MapFrame"]
      OBVIOUS
    <3> QED BY <1>4, <2>3, <3>1 DEF HandleMapNotify, Becomes
  <2>5. pending' \in BOOLEAN
    BY <1>0, <1>4 DEF HandleMapNotify
  <2> QED BY <1>4, <2>1, <2>4, <2>5, QuietTypes DEF HandleMapNotify, Done
<1>5. CASE HandleUnmapNotify
  <2> DEFINE w == Head(queue).window
             c == client[w]
  <2>1. queue # << >> /\ w \in Windows /\ Head(queue).type # "Desktop" /\ desktop' = desktop
    BY <1>5, HeadIs DEF HandleUnmapNotify, Receive
  <2>2. c \in Clients
    BY <2>1 DEF Types
  <2>3. CASE Unmanage(w)
    BY <2>1, <2>3, UnmanageTypes
  <2>4. CASE ~Unmanage(w)
    <3>1. [c EXCEPT !.confirmed = FALSE] \in Clients /\ (c.skipUnmaps > 0 => Skipped(c) \in Clients)
      <4>1. [c EXCEPT !.confirmed = FALSE] \in Clients
        BY <2>2 DEF Clients
      <4> QED BY <1>0, <2>2, <4>1, ClientsAre
    <3>2. client' = client \/ \E d \in Clients : client' = [client EXCEPT ![w] = d]
      BY <1>5, <2>4, <3>1 DEF HandleUnmapNotify, Becomes
    <3>3. queue' = Tail(queue) \o << >> /\ UNCHANGED <<win, pending>>
      BY <1>5, <2>4 DEF HandleUnmapNotify, Done
    <3> QED BY <1>0, <2>1, <3>2, <3>3, QuietTypes
  <2> QED BY <2>3, <2>4
<1>6. CASE HandleDestroyNotify
  <2> DEFINE w == Head(queue).window
             c == client[w]
  <2>1. queue # << >> /\ w \in Windows /\ Head(queue).type # "Desktop" /\ desktop' = desktop
    BY <1>6, HeadIs DEF HandleDestroyNotify, Receive
  <2>2. c \in Clients
    BY <2>1 DEF Types
  <2>3. CASE Unmanage(w)
    BY <2>1, <2>3, UnmanageTypes
  <2>4. CASE ~Unmanage(w)
    <3>1. [c EXCEPT !.alive = FALSE, !.listed = FALSE] \in Clients
      BY <2>2 DEF Clients
    <3>2. << >> \in Seq(Kinds)
      OBVIOUS
    <3>3. Released(w).x \in XRecords
      BY <2>1, <3>2, ReleasedIs
    <3>4. queue' = Tail(queue) /\ Tail(queue) \in Seq(Events) /\ UNCHANGED pending
      BY <1>6, <2>1, <2>4, HeadIs DEF HandleDestroyNotify, Done
    <3>5. client' = client \/ client' = [client EXCEPT ![w] = [c EXCEPT !.alive = FALSE, !.listed = FALSE]]
      BY <1>6, <2>4 DEF HandleDestroyNotify, Becomes
    <3>6. win' = win \/ win' = [win EXCEPT ![w] = Released(w).x]
      BY <1>6, <2>4 DEF HandleDestroyNotify
    <3> QED BY <2>1, <3>1, <3>3, <3>4, <3>5, <3>6 DEF Types
  <2> QED BY <2>3, <2>4
<1>7. CASE HandleFullscreen
  <2> DEFINE w == Head(queue).window
             on == Head(queue).type = "SetFullscreen"
             c == SetFullscreen(client[w], on)
  <2>1. queue # << >> /\ w \in Windows
    BY <1>7, HeadIs DEF HandleFullscreen
  <2>2. c \in Clients
    <3>1. on \in BOOLEAN /\ client[w] \in Clients
      BY <2>1 DEF Types
    <3> QED BY <1>0, <3>1, ClientsAre
  <2>3. client' = client \/ \E d \in Clients : client' = [client EXCEPT ![w] = d]
    <3> HIDE DEF c
    <3>1. client' = client \/ client' = [client EXCEPT ![w] = c]
      BY <1>7 DEF HandleFullscreen, Becomes, c
    <3> QED BY <2>2, <3>1
  <2>4. pending' \in BOOLEAN
    BY <1>0, <1>7 DEF HandleFullscreen
  <2> QED BY <1>7, <2>1, <2>3, <2>4, QuietTypes DEF HandleFullscreen, Done
<1>8. CASE HandleIconify
  <2> DEFINE w == Head(queue).window
             r == XUnmap(Alone(w), "iconify")
  <2>1. queue # << >> /\ w \in Windows /\ Head(queue).type # "Desktop"
    BY <1>8, HeadIs DEF HandleIconify, Receive
  <2>2. r \in Requests /\ "iconify" \in Causes
    BY <2>1, AloneIs, XUnmapDoes DEF Causes
  <2> HIDE DEF r
  <2>3. r.x \in XRecords /\ r.out \in Seq(Reports)
    BY <2>2 DEF Requests
  <2>4. [r.x EXCEPT !.asked = @ /\ ~win[w].mapped] \in XRecords
    BY <2>3 DEF XRecords
  <2>5. Tail(queue) \in Seq(Events) /\ Tail(queue) \o << >> = Tail(queue)
        /\ Tail(queue) \o OnWindow(w, r.out) \in Seq(Events)
    BY <2>1, <2>3, HeadIs, Handled
  <2>6. queue' = Tail(queue) \/ queue' = Tail(queue) \o OnWindow(w, r.out)
    BY <1>8, <2>5 DEF HandleIconify, Done, r, Alone
  <2>7. win' = win \/ win' = [win EXCEPT ![w] = [r.x EXCEPT !.asked = @ /\ ~win[w].mapped]]
    BY <1>8 DEF HandleIconify, r, Alone
  <2>8. win' \in [Windows -> XRecords]
    BY <2>1, <2>4, <2>7 DEF Types
  <2>9. queue' \in Seq(Events)
    BY <2>5, <2>6
  <2> QED BY <1>8, <2>8, <2>9 DEF HandleIconify, Types
<1>9. CASE HandleDesktop
  <2> DEFINE d == Head(queue).window
  <2>1. queue # << >> /\ d \in Desktops
    BY <1>9, HeadIs DEF HandleDesktop, Receive
  <2>2. \A w \in Windows : DesktopChange(client[w], d) \in Clients
    BY <2>1, ClientsAre DEF Types
  <2>3. queue' \in Seq(Events)
    BY <1>9, <2>1, HeadIs DEF HandleDesktop, Done
  <2>4. client' \in [Windows -> Clients]
    BY <1>9, <2>2 DEF HandleDesktop, Types
  <2>5. desktop' \in Desktops /\ pending' \in BOOLEAN
    BY <1>0, <1>9, <2>1 DEF HandleDesktop
  <2> QED BY <1>9, <2>3, <2>4, <2>5 DEF HandleDesktop, Types
<1>10. ASSUME NEW w \in Windows, AppMap(w) PROVE Types'
  <2>1. win[w] \in XRecords
    BY DEF Types
  <2>2. [win[w] EXCEPT !.asked = TRUE, !.mapped = win[w].mapped \/ w \in Overrides] \in XRecords
    BY <2>1 DEF XRecords
  <2>3. queue' \in Seq(Events)
    <3>1. \A t \in {"Map", "MapRequest"} : <<Event(t, "app")>> \in Seq(Reports)
      BY DEF Event, Reports, Causes, Kinds, EventTypes
    <3> QED BY <1>0, <1>10, <3>1, SentIs DEF AppMap
  <2>4. win' = [win EXCEPT ![w] = [win[w] EXCEPT !.asked = TRUE, !.mapped = win[w].mapped \/ w \in Overrides]]
    BY <1>10 DEF AppMap, Types
  <2> QED BY <1>10, <2>2, <2>3, <2>4 DEF AppMap, Types
<1>11. ASSUME NEW w \in Windows, AppWithdraw(w) PROVE Types'
  <2>1. win[w] \in XRecords
    BY DEF Types
  <2>2. [win[w] EXCEPT !.asked = FALSE, !.mapped = FALSE] \in XRecords
    BY <2>1 DEF XRecords
  <2>3. queue' \in Seq(Events)
    <3>1. <<Event("Unmap", "app")>> \in Seq(Reports)
      BY DEF Event, Reports, Causes, Kinds, EventTypes
    <3> QED BY <1>11, <3>1, SentIs DEF AppWithdraw
  <2>4. win' = [win EXCEPT ![w] = [win[w] EXCEPT !.asked = FALSE, !.mapped = FALSE]]
    BY <1>11 DEF AppWithdraw, Types
  <2> QED BY <1>11, <2>2, <2>3, <2>4 DEF AppWithdraw, Types
<1>12. ASSUME NEW w \in Windows, AppDestroy(w) PROVE Types'
  <2>1. win[w] \in XRecords
    BY DEF Types
  <2>2. [win[w] EXCEPT !.asked = FALSE, !.exists = FALSE, !.mapped = FALSE] \in XRecords
    BY <2>1 DEF XRecords
  <2>3. queue' \in Seq(Events)
    <3>1. Event("Unmap", "app") \in Reports /\ Event("Destroy", "app") \in Reports
      BY DEF Event, Reports, Causes, Kinds, EventTypes
    <3>2. /\ <<Event("Unmap", "app")>> \o <<Event("Destroy", "app")>> \in Seq(Reports)
          /\ << >> \o <<Event("Destroy", "app")>> \in Seq(Reports)
      BY <3>1
    <3> QED BY <1>12, <3>2, SentIs DEF AppDestroy
  <2>4. win' = [win EXCEPT ![w] = [win[w] EXCEPT !.asked = FALSE, !.exists = FALSE, !.mapped = FALSE]]
    BY <1>12 DEF AppDestroy, Types
  <2> QED BY <1>12, <2>2, <2>3, <2>4 DEF AppDestroy, Types
<1>13. ASSUME NEW w \in Windows, Activate(w) PROVE Types'
  <2>1. Shown(client[w]) \in Clients
    BY <1>0, ClientsAre DEF Types
  <2> QED BY <1>13, <2>1 DEF Activate, Becomes, Types
<1>14. CASE Message
  <2>1. CASE \E w \in Windows : \E type \in Messages[w] :
               win[w].mapped /\ Send(w, <<Event(type, "app")>>)
    <3>1. PICK w \in Windows : \E type \in Messages[w] :
               win[w].mapped /\ Send(w, <<Event(type, "app")>>)
      BY <2>1
    <3>2. PICK type \in Messages[w] : Send(w, <<Event(type, "app")>>)
      BY <3>1
    <3>3. type \in {"SetFullscreen", "ClearFullscreen", "Iconify"}
      BY DEF LifecycleAssumption
    <3>4. <<Event(type, "app")>> \in Seq(Reports)
      BY <3>3 DEF Event, Reports, Causes, Kinds, EventTypes
    <3>5. queue' \in Seq(Events)
      BY <3>2, <3>4, SentIs
    <3> QED BY <1>14, <3>5 DEF Message, Types
  <2>2. CASE \E d \in Desktops : Send(d, <<Event("Desktop", "app")>>)
    <3>1. PICK d \in Desktops : Send(d, <<Event("Desktop", "app")>>)
      BY <2>2
    <3>2. OnWindow(d, <<Event("Desktop", "app")>>) \in Seq(Events)
      <4> DEFINE e == [type |-> "Desktop", window |-> d, by |-> "app"]
      <4>1. e \in Events
        BY DEF Events, EventTypes, Causes
      <4>2. OnWindow(d, <<Event("Desktop", "app")>>) = [i \in 1..1 |-> e]
        BY DEF OnWindow, Event
      <4> HIDE DEF e
      <4>3. [i \in 1..1 |-> e] \in Seq(Events)
        BY <4>1
      <4> QED BY <4>2, <4>3
    <3>3. queue' \in Seq(Events)
      BY <1>0, <3>1, <3>2 DEF Send
    <3> QED BY <1>14, <3>3 DEF Message, Types
  <2> QED BY <1>14, <2>1, <2>2 DEF Message
<1> QED BY <1>1, <1>2, <1>3, <1>4, <1>5, <1>6, <1>7, <1>8, <1>9, <1>10, <1>11, <1>12, <1>13, <1>14
        DEF Next, Step

-----------------------------------------------------------------------------
(* Every step keeps the invariant, if there is one desktop. *)

(* A sync that becomes due changes nothing for a window.                    *)
LEMMA DueGood ==
  ASSUME NEW w, NEW v, NEW x, NEW c, NEW p, NEW o, p => o, Good(w, v, x, c, p)
  PROVE  Good(w, v, x, c, o)
BY DEF Good, Whole

(* A step on one window, which adds no events of others and asks for a sync *)
(* or leaves it due.                                                        *)
LEMMA OneWindow ==
  ASSUME IInv, Types', NEW o \in Windows, pending => pending',
         \A w \in Windows \ {o} : /\ win'[w] = win[w] /\ client'[w] = client[w]
                                  /\ \A v : Has(queue, w, v) => Has(queue', w, v),
         \A v : Has(queue, o, v) /\ Good(o, v, win[o], client[o], pending) =>
                  \E u : Has(queue', o, u) /\ Good(o, u, win'[o], client'[o], pending')
  PROVE  IInv'
<1>1. ASSUME NEW w \in Windows
      PROVE  \E u : Has(queue', w, u) /\ Good(w, u, win'[w], client'[w], pending')
  <2>1. PICK v : Has(queue, w, v) /\ Good(w, v, win[w], client[w], pending)
    BY DEF IInv
  <2>2. CASE w = o
    BY <2>1, <2>2
  <2>3. CASE w # o
    <3>1. Has(queue', w, v) /\ win'[w] = win[w] /\ client'[w] = client[w]
      BY <2>1, <2>3
    <3>2. Good(w, v, win[w], client[w], pending')
      BY <2>1, DueGood
    <3> QED BY <3>1, <3>2
  <2> QED BY <2>2, <2>3
<1> QED BY <1>1 DEF IInv

(* An event is handled that causes no others.                               *)
LEMMA HandledQuietly ==
  ASSUME Types, queue # << >>, Head(queue).type # "Desktop", queue' = Tail(queue) \o << >>
  PROVE  LET o == Head(queue).window
         IN  /\ o \in Windows
             /\ \A w \in Windows \ {o} : \A v : Has(queue, w, v) => Has(queue', w, v)
             /\ \A v : Has(queue, o, v) =>
                  /\ v \in Seq(Kinds) /\ v # << >> /\ Head(v) = Head(queue).type
                  /\ Has(queue', o, Tail(v))
<1>1. /\ << >> \in Seq(Reports) /\ Kind(<< >>) = << >>
      /\ \A o : OnWindow(o, << >>) = << >>
  BY DEF Kind, OnWindow
<1>2. \A v \in Seq(Kinds) : v # << >> => Tail(v) \o << >> = Tail(v)
  OBVIOUS
<1> QED BY <1>1, <1>2, Handled

LEMMA SyncKeeps ==
  ASSUME LifecycleAssumption, IInv, Types', Sync
  PROVE  IInv'
<1>0. Types /\ queue \in Seq(Events)
  BY DEF IInv, Types
<1>1. queue' = queue \o Heralds
  BY DEF Sync, Heralds
<1>2. ASSUME NEW w \in Windows
      PROVE  \E u : Has(queue', w, u) /\ Good(w, u, win'[w], client'[w], pending')
  <2>1. PICK v : Has(queue, w, v) /\ Good(w, v, win[w], client[w], pending)
    BY DEF IInv
  <2>2. v \in Seq(Kinds)
    BY <2>1 DEF Has
  <2> DEFINE u == v \o Kind(Synced(w).out)
  <2>3. Has(queue', w, u)
    BY <1>0, <1>1, <2>1, HeraldsAre, HasBoth
  <2>4. Good(w, u, Synced(w).x, Synced(w).c, FALSE)
    BY <1>0, <2>1, <2>2, SyncKeepsGood
  <2>5. win'[w] = Synced(w).x /\ client'[w] = Synced(w).c /\ pending' = FALSE
    BY DEF Sync
  <2> HIDE DEF u
  <2> QED BY <2>3, <2>4, <2>5
<1> QED BY <1>2 DEF IInv

LEMMA UnmanageKeeps ==
  ASSUME LifecycleAssumption, IInv, Types', queue # << >>, Head(queue).type # "Desktop",
         Unmanage(Head(queue).window)
  PROVE  IInv'
<1> DEFINE o == Head(queue).window
           es == Released(o).out
<1>0. Types /\ o \in Windows
  BY HeadIs DEF IInv
<1>1. << >> \in Seq(Kinds)
  OBVIOUS
<1>2. es \in Seq(Reports) /\ Released(o).x \in XRecords
  BY <1>0, <1>1, ReleasedIs
<1>3. queue' = Tail(queue) \o OnWindow(o, es) /\ pending' = TRUE
  BY DEF Unmanage, Done
<1>4. client'[o] = NoClient /\ win'[o] = Released(o).x
  BY <1>0 DEF Unmanage, Becomes, Types
<1>5. \A w \in Windows \ {o} : win'[w] = win[w] /\ client'[w] = client[w]
  BY <1>0 DEF Unmanage, Becomes, Types
<1> HIDE DEF o, es
<1>6. /\ \A w \in Windows \ {o} : \A v : Has(queue, w, v) => Has(queue', w, v)
      /\ \A v : Has(queue, o, v) =>
           v \in Seq(Kinds) /\ v # << >> /\ Has(queue', o, Tail(v) \o Kind(es))
  BY <1>0, <1>2, <1>3, Handled DEF o
<1>7. ASSUME NEW v, Has(queue, o, v), Good(o, v, win[o], client[o], pending)
      PROVE  \E u : Has(queue', o, u) /\ Good(o, u, win'[o], client'[o], pending')
  <2> DEFINE u == Tail(v) \o Kind(es)
  <2>1. v \in Seq(Kinds) /\ v # << >> /\ Has(queue', o, u)
    BY <1>6, <1>7
  <2>2. Tail(v) \in Seq(Kinds)
    BY <2>1
  <2> DEFINE x == win[o]
             y == Released(o).x
             c == client[o]
  <2>3. /\ Grows(Tail(v), x.mapped, u, y.mapped) /\ u \in Seq(Kinds)
        /\ y.mapped = x.mapped /\ y.exists = x.exists /\ y.asked = x.asked
    BY <1>0, <2>2, ReleasedIs DEF es
  <2>4. x \in XRecords /\ c \in Clients /\ y \in XRecords
    BY <1>0, <1>2, AloneIs
  <2>5. Good(o, v, x, c, pending)
    BY <1>7
  <2> HIDE DEF u, x, y, c
  <2>6. Good(o, u, y, NoClient, TRUE)
    BY <1>0, <2>1, <2>3, <2>4, <2>5, GoneGood
  <2> QED BY <1>3, <1>4, <2>1, <2>6 DEF y
<1> QED BY <1>0, <1>3, <1>5, <1>6, <1>7, OneWindow

(* A handler that changes at most the client of the window of its event.    *)
LEMMA HandlerKeeps ==
  ASSUME IInv, Types', queue # << >>, Head(queue).type # "Desktop",
         queue' = Tail(queue) \o << >>, win' = win, pending => pending',
         NEW d, client' = [client EXCEPT ![Head(queue).window] = d],
         LET o == Head(queue).window
         IN  \A v \in Seq(Kinds) :
               v # << >> /\ Head(v) = Head(queue).type /\ Good(o, v, win[o], client[o], pending) =>
                 Good(o, Tail(v), win[o], d, pending')
  PROVE  IInv'
<1> DEFINE o == Head(queue).window
<1>0. Types /\ o \in Windows
  BY HeadIs DEF IInv
<1>1. /\ \A w \in Windows \ {o} : client'[w] = client[w]
      /\ client'[o] = d
  BY <1>0 DEF Types
<1>2. /\ \A w \in Windows \ {o} : \A v : Has(queue, w, v) => Has(queue', w, v)
      /\ \A v : Has(queue, o, v) =>
           v \in Seq(Kinds) /\ v # << >> /\ Head(v) = Head(queue).type /\ Has(queue', o, Tail(v))
  BY <1>0, HandledQuietly
<1>3. ASSUME NEW v, Has(queue, o, v), Good(o, v, win[o], client[o], pending)
      PROVE  \E u : Has(queue', o, u) /\ Good(o, u, win'[o], client'[o], pending')
  BY <1>1, <1>2, <1>3
<1> HIDE DEF o
<1> QED BY <1>0, <1>1, <1>2, <1>3, OneWindow

LEMMA MapRequestKeeps ==
  ASSUME LifecycleAssumption, IInv, Types', HandleMapRequest
  PROVE  IInv'
<1> DEFINE o == Head(queue).window
           c == client[o]
<1>0. Types /\ queue # << >> /\ Head(queue).type = "MapRequest" /\ o \in Windows
  BY HeadIs DEF IInv, HandleMapRequest, Receive
<1>1. c \in Clients /\ win[o] \in XRecords /\ desktop \in Desktops
  BY <1>0 DEF Types
<1>2. queue' = Tail(queue) \o << >> /\ win' = win
  BY DEF HandleMapRequest, Done
<1>3. ASSUME NEW v \in Seq(Kinds), v # << >>, Head(v) = "MapRequest",
             Good(o, v, win[o], c, pending)
      PROVE  /\ Good(o, Tail(v), win[o], c, pending) /\ Tail(v) \in Seq(Kinds)
             /\ Count(Tail(v)) # 0 \/ win[o].asked \/ ~win[o].exists \/ ~EntersOnly(o)
             /\ c.stacked = c.alive
  <2>1. Good(o, Tail(v), win[o], c, pending)
    BY <1>0, <1>1, <1>3, TailGood
  <2>2. Followed(v, {"MapRequest"}) => Count(Tail(v)) # 0
    BY <1>3, TailKeeps
  <2>3. c.stacked = c.alive
    BY <1>3 DEF Good, Whole
  <2>4. EntersOnly(o) /\ win[o].exists /\ ~win[o].asked => Followed(v, {"MapRequest"})
    BY <1>0, <1>3 DEF Good, AskedFor
  <2>5. Tail(v) \in Seq(Kinds)
    BY <1>3
  <2> QED BY <2>1, <2>2, <2>3, <2>4, <2>5
<1>4. CASE c.stacked
  <2>1. client' = [client EXCEPT ![o] = Shown(c)] /\ pending' = TRUE
    BY <1>4 DEF HandleMapRequest, Becomes
  <2>2. ASSUME NEW v \in Seq(Kinds), v # << >>, Head(v) = Head(queue).type,
               Good(o, v, win[o], client[o], pending)
        PROVE  Good(o, Tail(v), win[o], Shown(c), pending')
    <3>1. Good(o, Tail(v), win[o], c, pending) /\ Tail(v) \in Seq(Kinds)
      BY <1>0, <1>3, <2>2
    <3>2. Good(o, Tail(v), win[o], Shown(c), TRUE)
      BY <1>0, <1>1, <1>4, <3>1, ShownGood
    <3> QED BY <2>1, <3>2
  <2> QED BY <1>0, <1>2, <2>1, <2>2, HandlerKeeps
<1>5. CASE ~c.stacked /\ win[o].exists
  <2> DEFINE d == Managed(desktop, TRUE)
  <2>1. client' = [client EXCEPT ![o] = d] /\ pending' = TRUE
    BY <1>5 DEF HandleMapRequest, Becomes
  <2>2. /\ d \in Clients /\ d.alive /\ d.listed /\ d.stacked /\ ~d.hidden
        /\ ~d.fullscreen /\ ~d.realized /\ d.skipUnmaps = 0 /\ d.skipMaps = 0
        /\ d.sync = IF d.wanted THEN {"Visibility"} ELSE {}
        /\ ActivatesNew => d.wanted
    BY <1>1, NewClientsAre
  <2> HIDE DEF d
  <2>3. ASSUME NEW v \in Seq(Kinds), v # << >>, Head(v) = Head(queue).type,
               Good(o, v, win[o], client[o], pending)
        PROVE  Good(o, Tail(v), win[o], d, pending')
    <3>1. /\ Good(o, Tail(v), win[o], c, pending) /\ Tail(v) \in Seq(Kinds)
          /\ Count(Tail(v)) # 0 \/ win[o].asked \/ ~win[o].exists \/ ~EntersOnly(o)
          /\ ~c.alive
      BY <1>0, <1>1, <1>3, <1>5, <2>3 DEF Clients
    <3>2. Good(o, Tail(v), win[o], d, TRUE)
      BY <1>0, <1>1, <1>5, <2>2, <3>1, NewGood
    <3> QED BY <2>1, <3>2
  <2> QED BY <1>0, <1>2, <2>1, <2>3, HandlerKeeps
<1>6. CASE ~c.stacked /\ ~win[o].exists
  <2>1. client' = [client EXCEPT ![o] = c] /\ pending' = pending
    BY <1>0, <1>6 DEF HandleMapRequest, Types
  <2>2. ASSUME NEW v \in Seq(Kinds), v # << >>, Head(v) = Head(queue).type,
               Good(o, v, win[o], client[o], pending)
        PROVE  Good(o, Tail(v), win[o], c, pending')
    BY <1>0, <1>3, <2>1, <2>2
  <2> QED BY <1>0, <1>2, <2>1, <2>2, HandlerKeeps
<1> QED BY <1>4, <1>5, <1>6

LEMMA MapNotifyKeeps ==
  ASSUME LifecycleAssumption, IInv, Types', HandleMapNotify
  PROVE  IInv'
<1> DEFINE o == Head(queue).window
           c == client[o]
<1>0. Types /\ queue # << >> /\ Head(queue).type \in {"Map", "MapFrame"} /\ o \in Windows
      /\ Head(queue).type # "Desktop"
  BY HeadIs DEF IInv, HandleMapNotify
<1>1. c \in Clients /\ win[o] \in XRecords /\ desktop \in Desktops /\ pending \in BOOLEAN
  BY <1>0 DEF Types
<1>2. queue' = Tail(queue) \o << >> /\ win' = win
  BY DEF HandleMapNotify, Done
<1>3. \A v : Good(o, v, win[o], c, pending) => c.stacked = c.alive
  BY DEF Good, Whole
<1>4. CASE c.stacked /\ c.skipMaps # 0
  <2> DEFINE d == [c EXCEPT !.skipMaps = @ - 1]
  <2>1. client' = [client EXCEPT ![o] = d] /\ pending' = pending
    BY <1>4 DEF HandleMapNotify, Becomes
  <2>2. ASSUME NEW v \in Seq(Kinds), v # << >>, Head(v) = Head(queue).type,
               Good(o, v, win[o], client[o], pending)
        PROVE  Good(o, Tail(v), win[o], d, pending')
    <3>1. c.alive /\ Head(v) \in {"Map", "MapFrame"}
      BY <1>0, <1>3, <1>4, <2>2
    <3>2. Good(o, Tail(v), win[o], d, pending)
      BY <1>0, <1>1, <1>4, <2>2, <3>1, SkippedMapGood
    <3> QED BY <2>1, <3>2
  <2> HIDE DEF d
  <2> QED BY <1>0, <1>2, <2>1, <2>2, HandlerKeeps
<1>5. CASE c.stacked /\ c.skipMaps = 0
  <2> DEFINE d == [c EXCEPT !.confirmed = TRUE, !.hiding = @ /\ Head(queue).type = "MapFrame"]
  <2>1. client' = [client EXCEPT ![o] = d] /\ pending' = pending
    BY <1>5 DEF HandleMapNotify, Becomes
  <2>2. /\ Alike([c EXCEPT !.hiding = d.hiding], d) /\ d.realized = c.realized
        /\ d.skipUnmaps = c.skipUnmaps /\ d \in Clients
    <3>1. (c.hiding /\ Head(queue).type = "MapFrame") \in BOOLEAN
      BY <1>1 DEF Clients
    <3>2. \A b \in BOOLEAN : [c EXCEPT !.confirmed = TRUE, !.hiding = b] \in Clients
      BY <1>1 DEF Clients
    <3>3. d = [c EXCEPT !.confirmed = TRUE, !.hiding = c.hiding /\ Head(queue).type = "MapFrame"]
      OBVIOUS
    <3> QED BY <1>1, <3>1, <3>2, <3>3, ZenonT(60) DEF Alike, Clients
  <2>3. ASSUME NEW v \in Seq(Kinds), v # << >>, Head(v) = Head(queue).type,
               Good(o, v, win[o], client[o], pending)
        PROVE  Good(o, Tail(v), win[o], d, pending')
    <3>1. c.alive /\ Head(v) \notin {"Unmap", "Destroy"}
      BY <1>0, <1>3, <1>5, <2>3
    <3>2. Good(o, Tail(v), win[o], c, pending) /\ Tail(v) \in Seq(Kinds)
      BY <1>0, <1>1, <1>5, <2>3, <3>1, TailGood, TailKeeps
    <3>3. Good(o, Tail(v), win[o], d, pending)
      BY <1>0, <1>1, <2>2, <3>1, <3>2, AlikeGood
    <3> QED BY <2>1, <3>3
  <2> HIDE DEF d
  <2> QED BY <1>0, <1>2, <2>1, <2>3, HandlerKeeps
<1>6. CASE ~c.stacked /\ win[o].exists /\ o \in Overrides
  <2> DEFINE m == Managed(desktop, TRUE)
             d == [m EXCEPT !.confirmed = TRUE]
  <2>1. client' = [client EXCEPT ![o] = d] /\ pending' = TRUE
    BY <1>6 DEF HandleMapNotify, Becomes
  <2>2. /\ m \in Clients /\ m.alive /\ m.listed /\ m.stacked /\ ~m.hidden
        /\ ~m.fullscreen /\ ~m.realized /\ m.skipUnmaps = 0 /\ m.skipMaps = 0
        /\ m.sync = IF m.wanted THEN {"Visibility"} ELSE {}
    BY <1>1, NewClientsAre
  <2> HIDE DEF m
  <2>3. /\ d \in Clients /\ d.alive /\ d.listed /\ d.stacked /\ ~d.hidden
        /\ ~d.fullscreen /\ ~d.realized /\ d.skipUnmaps = 0 /\ d.skipMaps = 0
        /\ d.sync = IF d.wanted THEN {"Visibility"} ELSE {}
    BY <2>2 DEF Clients
  <2> HIDE DEF d
  <2>4. ASSUME NEW v \in Seq(Kinds), v # << >>, Head(v) = Head(queue).type,
               Good(o, v, win[o], client[o], pending)
        PROVE  Good(o, Tail(v), win[o], d, pending')
    <3>1. ~c.alive
      BY <1>1, <1>3, <1>6, <2>4 DEF Clients
    <3>2. Good(o, Tail(v), win[o], c, pending) /\ Tail(v) \in Seq(Kinds)
      BY <1>0, <1>1, <2>4, <3>1, TailGood, TailKeeps
    <3>3. Good(o, Tail(v), win[o], d, TRUE)
      <4>1. o \notin Plain
        BY <1>6 DEF Plain
      <4> QED BY <1>0, <1>1, <1>6, <2>3, <3>1, <3>2, <4>1, NewGood
    <3> QED BY <2>1, <3>3
  <2> QED BY <1>0, <1>2, <2>1, <2>4, HandlerKeeps
<1>7. CASE ~c.stacked /\ ~(win[o].exists /\ o \in Overrides)
  <2>1. client' = [client EXCEPT ![o] = c] /\ pending' = pending
    BY <1>0, <1>7 DEF HandleMapNotify, Types
  <2>2. ASSUME NEW v \in Seq(Kinds), v # << >>, Head(v) = Head(queue).type,
               Good(o, v, win[o], client[o], pending)
        PROVE  Good(o, Tail(v), win[o], c, pending')
    <3>1. ~c.alive
      BY <1>1, <1>3, <1>7, <2>2 DEF Clients
    <3> QED BY <1>0, <1>1, <2>1, <2>2, <3>1, TailGood
  <2> QED BY <1>0, <1>2, <2>1, <2>2, HandlerKeeps
<1> QED BY <1>4, <1>5, <1>6, <1>7

(* A window without client hears an event, and nothing happens.             *)
LEMMA UnheardKeeps ==
  ASSUME IInv, Types', queue # << >>, Head(queue).type # "Desktop",
         queue' = Tail(queue) \o << >>, win' = win, client' = client, pending' = pending,
         ~client[Head(queue).window].listed
  PROVE  IInv'
<1> DEFINE o == Head(queue).window
           c == client[o]
<1>0. Types /\ o \in Windows
  BY HeadIs DEF IInv
<1>1. c \in Clients /\ win[o] \in XRecords /\ client' = [client EXCEPT ![o] = c]
  BY <1>0 DEF Types
<1>2. ASSUME NEW v \in Seq(Kinds), v # << >>, Good(o, v, win[o], client[o], pending)
      PROVE  Good(o, Tail(v), win[o], c, pending')
  <2>1. ~c.alive
    BY <1>1, <1>2 DEF Good, Whole, Clients
  <2> QED BY <1>0, <1>1, <1>2, <2>1, TailGood
<1> QED BY <1>0, <1>1, <1>2, HandlerKeeps

LEMMA UnmapNotifyKeeps ==
  ASSUME LifecycleAssumption, IInv, Types', HandleUnmapNotify
  PROVE  IInv'
<1> DEFINE o == Head(queue).window
           c == client[o]
<1>0. Types /\ queue # << >> /\ Head(queue).type = "Unmap" /\ o \in Windows
      /\ Head(queue).type # "Desktop"
  BY HeadIs DEF IInv, HandleUnmapNotify, Receive
<1>1. c \in Clients /\ win[o] \in XRecords
  BY <1>0 DEF Types
<1>2. c.listed = c.alive /\ ~c.hidden
  BY <1>0 DEF IInv, Good, Whole
<1>3. CASE c.listed /\ c.skipUnmaps > 0
  <2>1. client' = [client EXCEPT ![o] = Skipped(c)] /\ pending' = pending /\ win' = win
        /\ queue' = Tail(queue) \o << >>
    BY <1>1, <1>3 DEF HandleUnmapNotify, Becomes, Done, Clients
  <2>2. ASSUME NEW v \in Seq(Kinds), v # << >>, Head(v) = Head(queue).type,
               Good(o, v, win[o], client[o], pending)
        PROVE  Good(o, Tail(v), win[o], Skipped(c), pending')
    <3>1. Good(o, Tail(v), win[o], Skipped(c), pending)
      BY <1>0, <1>1, <1>2, <1>3, <2>2, SkippedUnmapGood
    <3> QED BY <2>1, <3>1
  <2> QED BY <1>0, <2>1, <2>2, HandlerKeeps
<1>4. CASE c.listed /\ ~(c.skipUnmaps > 0)
  <2>1. Unmanage(o)
    BY <1>1, <1>2, <1>4 DEF HandleUnmapNotify, Clients
  <2> QED BY <1>0, <2>1, UnmanageKeeps
<1>5. CASE ~c.listed
  <2>1. client' = client /\ pending' = pending /\ win' = win /\ queue' = Tail(queue) \o << >>
    BY <1>5 DEF HandleUnmapNotify, Done
  <2> QED BY <1>0, <1>5, <2>1, UnheardKeeps
<1> QED BY <1>3, <1>4, <1>5

LEMMA DestroyNotifyKeeps ==
  ASSUME LifecycleAssumption, IInv, Types', HandleDestroyNotify
  PROVE  IInv'
<1> DEFINE o == Head(queue).window
           c == client[o]
<1>0. Types /\ queue # << >> /\ Head(queue).type = "Destroy" /\ o \in Windows
      /\ Head(queue).type # "Desktop"
  BY HeadIs DEF IInv, HandleDestroyNotify, Receive
<1>1. ~c.hidden
  BY <1>0 DEF IInv, Good, Whole
<1>2. CASE c.listed
  <2>1. Unmanage(o)
    BY <1>1, <1>2 DEF HandleDestroyNotify
  <2> QED BY <1>0, <2>1, UnmanageKeeps
<1>3. CASE ~c.listed
  <2>1. client' = client /\ pending' = pending /\ win' = win /\ queue' = Tail(queue) \o << >>
    BY <1>3 DEF HandleDestroyNotify, Done
  <2> QED BY <1>0, <1>3, <2>1, UnheardKeeps
<1> QED BY <1>2, <1>3

LEMMA FullscreenKeeps ==
  ASSUME LifecycleAssumption, IInv, Types', HandleFullscreen
  PROVE  IInv'
<1> DEFINE o == Head(queue).window
           c == client[o]
           d == SetFullscreen(c, Head(queue).type = "SetFullscreen")
<1>0. Types /\ queue # << >> /\ Head(queue).type \in Messaged /\ o \in Windows
      /\ Head(queue).type # "Desktop"
  BY HeadIs DEF IInv, HandleFullscreen, Messaged
<1>1. c \in Clients /\ win[o] \in XRecords /\ pending \in BOOLEAN
  BY <1>0 DEF Types
<1>2. queue' = Tail(queue) \o << >> /\ win' = win
  BY DEF HandleFullscreen, Done
<1>3. CASE c.listed
  <2>1. client' = [client EXCEPT ![o] = d] /\ pending' = (pending \/ d # c)
    BY <1>3 DEF HandleFullscreen, Becomes
  <2>2. ASSUME NEW v \in Seq(Kinds), v # << >>, Head(v) = Head(queue).type,
               Good(o, v, win[o], client[o], pending)
        PROVE  Good(o, Tail(v), win[o], d, pending')
    <3>1. c.alive /\ Good(o, v, win[o], c, pending)
      BY <1>3, <2>2 DEF Good, Whole
    <3>2. LET e == SetFullscreen(c, Head(v) = "SetFullscreen")
          IN  Good(o, Tail(v), win[o], e, pending \/ e # c)
      <4>1. Head(v) \in Messaged
        BY <1>0, <2>2
      <4> HIDE DEF c, o
      <4> QED BY <1>0, <1>1, <2>2, <3>1, <4>1, FullscreenGood
    <3> QED BY <2>1, <2>2, <3>2
  <2> HIDE DEF d
  <2>3. pending => pending'
    BY <2>1
  <2> QED BY <1>0, <1>2, <2>1, <2>2, <2>3, HandlerKeeps
<1>4. CASE ~c.listed
  <2>1. client' = client /\ pending' = pending
    BY <1>4 DEF HandleFullscreen
  <2> QED BY <1>0, <1>2, <1>4, <2>1, UnheardKeeps
<1> QED BY <1>3, <1>4

LEMMA IconifyKeeps ==
  ASSUME LifecycleAssumption, IInv, Types', HandleIconify
  PROVE  IInv'
<1> DEFINE o == Head(queue).window
           c == client[o]
           r == XUnmap(Alone(o), "iconify")
<1>0. Types /\ queue # << >> /\ Head(queue).type = "Iconify" /\ o \in Windows
      /\ Head(queue).type # "Desktop"
  BY HeadIs DEF IInv, HandleIconify, Receive
<1>1. c \in Clients /\ win[o] \in XRecords /\ pending' = pending /\ client' = client
  BY <1>0 DEF Types, HandleIconify
<1>2. CASE ~c.listed
  <2>1. win' = win /\ queue' = Tail(queue) \o << >>
    BY <1>2 DEF HandleIconify, Done
  <2> QED BY <1>0, <1>1, <1>2, <2>1, UnheardKeeps
<1>3. CASE c.listed
  <2> DEFINE y == [r.x EXCEPT !.asked = @ /\ ~win[o].mapped]
             es == r.out
  <2>1. win' = [win EXCEPT ![o] = y] /\ queue' = Tail(queue) \o OnWindow(o, es)
    BY <1>3 DEF HandleIconify, Done, Alone
  <2>2. /\ r \in Requests /\ r.x.asked = win[o].asked /\ r.x.exists = win[o].exists
        /\ r.x.framed = win[o].framed /\ r.x.frameMapped = win[o].frameMapped
        /\ ~r.x.mapped
        /\ r.out = IF win[o].mapped THEN Append(<< >>, Event("Unmap", "iconify")) ELSE << >>
    <3>1. /\ Alone(o) \in Requests /\ Alone(o).x = win[o] /\ Alone(o).out = << >>
          /\ "iconify" \in Causes
      BY <1>0, AloneIs DEF Causes
    <3> HIDE DEF o
    <3>2. /\ r \in Requests /\ r.x.asked = Alone(o).x.asked /\ r.x.exists = Alone(o).x.exists
          /\ r.x.framed = Alone(o).x.framed /\ r.x.frameMapped = Alone(o).x.frameMapped
          /\ ~r.x.mapped
          /\ r.out = IF Alone(o).x.mapped THEN Append(Alone(o).out, Event("Unmap", "iconify"))
                     ELSE Alone(o).out
      BY <3>1, XUnmapDoes, Zenon
    <3> HIDE DEF r
    <3> QED BY <3>1, <3>2
  <2> HIDE DEF r
  <2>3. /\ y \in XRecords /\ y.exists = win[o].exists /\ y.framed = win[o].framed
        /\ y.frameMapped = win[o].frameMapped /\ ~y.mapped
        /\ es \in Seq(Reports)
        /\ ~win[o].mapped => y.asked = win[o].asked
    BY <1>1, <2>2 DEF Requests, XRecords
  <2>4. Kind(es) = IF win[o].mapped THEN <<"Unmap">> ELSE << >>
    BY <2>2 DEF Kind, Event
  <2> HIDE DEF y, es
  <2>5. /\ \A w \in Windows \ {o} : \A v : Has(queue, w, v) => Has(queue', w, v)
        /\ \A v : Has(queue, o, v) =>
             /\ v \in Seq(Kinds) /\ v # << >> /\ Head(v) = Head(queue).type
             /\ Has(queue', o, Tail(v) \o Kind(es))
    BY <1>0, <2>1, <2>3, Handled
  <2>6. ASSUME NEW v, Has(queue, o, v), Good(o, v, win[o], client[o], pending)
        PROVE  \E u : Has(queue', o, u) /\ Good(o, u, win'[o], client'[o], pending')
    <3> DEFINE t == Tail(v)
               u == t \o Kind(es)
               x == win[o]
    <3>1. /\ v \in Seq(Kinds) /\ v # << >> /\ Head(v) = "Iconify" /\ Has(queue', o, u)
          /\ t \in Seq(Kinds) /\ win'[o] = y
      BY <1>0, <2>1, <2>5, <2>6 DEF Types
    <3>2. Good(o, t, x, c, pending)
      BY <1>0, <1>1, <2>6, <3>1, TailGood
    <3>3. x.mapped => u = Append(t, "Unmap") /\ u \in Seq(Kinds)
      <4>1. "Unmap" \in Kinds
        BY DEF Kinds, EventTypes
      <4>2. x.mapped => u = t \o <<"Unmap">>
        BY <2>4
      <4>3. t \o <<"Unmap">> = Append(t, "Unmap") /\ Append(t, "Unmap") \in Seq(Kinds)
        <5> HIDE DEF t
        <5> QED BY <3>1, <4>1
      <4> QED BY <4>2, <4>3, Zenon
    <3>4. ~x.mapped => u = t
      <4>1. ~x.mapped => u = t \o << >>
        BY <2>4
      <4>2. t \o << >> = t
        <5> HIDE DEF t
        <5> QED BY <3>1
      <4> QED BY <4>1, <4>2, Zenon
    <3>5. x \in XRecords /\ c \in Clients
      BY <1>1
    <3> HIDE DEF t, u, x, c
    <3>6. Good(o, u, y, c, pending)
      <4>1. CASE x.mapped
        BY <1>0, <2>3, <3>1, <3>2, <3>3, <3>5, <4>1, UnmappedGood DEF x
      <4>2. CASE ~x.mapped
        <5>1. y = x
          BY <2>3, <3>5, <4>2 DEF XRecords, x
        <5> QED BY <3>2, <3>4, <4>2, <5>1
      <4> QED BY <4>1, <4>2
    <3> QED BY <1>1, <3>1, <3>6 DEF c
  <2>7. \A w \in Windows \ {o} : win'[w] = win[w] /\ client'[w] = client[w]
    BY <1>0, <1>1, <2>1 DEF Types
  <2> HIDE DEF o
  <2> QED BY <1>0, <1>1, <2>5, <2>6, <2>7, OneWindow
<1> QED BY <1>2, <1>3

LEMMA DesktopKeeps ==
  ASSUME LifecycleAssumption, Desktops = {0}, IInv, Types', HandleDesktop
  PROVE  IInv'
<1>0. Types /\ queue # << >> /\ Head(queue).type = "Desktop" /\ queue \in Seq(Events)
  BY DEF IInv, HandleDesktop, Receive, Types
<1>1. Head(queue).window = desktop
  BY <1>0, HeadIs DEF Types
<1>2. queue' = Tail(queue) /\ UNCHANGED <<win, client, pending>>
  BY <1>0, <1>1, HeadIs DEF HandleDesktop, Done
<1>3. ASSUME NEW w \in Windows
      PROVE  \E u : Has(queue', w, u) /\ Good(w, u, win'[w], client'[w], pending')
  <2>1. PICK v : Has(queue, w, v) /\ Good(w, v, win[w], client[w], pending)
    BY DEF IInv
  <2>2. ~IsOf(Head(queue), w)
    BY <1>0 DEF IsOf
  <2>3. Has(queue', w, v)
    BY <1>0, <1>2, <2>1, <2>2, HasLess
  <2> QED BY <1>2, <2>1, <2>3
<1> QED BY <1>3 DEF IInv

(* An application acts on its window, and es are sent.                      *)
LEMMA SentKeeps ==
  ASSUME IInv, Types', NEW o \in Windows, NEW es \in Seq(Reports), Send(o, es),
         NEW y, win' = [win EXCEPT ![o] = y], client' = client, pending' = pending,
         \A v \in Seq(Kinds) : Good(o, v, win[o], client[o], pending) =>
            Good(o, v \o Kind(es), y, client[o], pending)
  PROVE  IInv'
<1>0. Types
  BY DEF IInv
<1>1. win'[o] = y /\ \A w \in Windows \ {o} : win'[w] = win[w]
  BY <1>0 DEF Types
<1>2. /\ \A w \in Windows \ {o} : \A v : Has(queue, w, v) => Has(queue', w, v)
      /\ \A v : Has(queue, o, v) => v \in Seq(Kinds) /\ Has(queue', o, v \o Kind(es))
  BY <1>0, SentIs
<1>3. ASSUME NEW v, Has(queue, o, v), Good(o, v, win[o], client[o], pending)
      PROVE  \E u : Has(queue', o, u) /\ Good(o, u, win'[o], client'[o], pending')
  BY <1>1, <1>2, <1>3
<1> QED BY <1>1, <1>2, <1>3, OneWindow

(* The kinds of what applications send.                                     *)
LEMMA SentKinds ==
  ASSUME NEW k \in Kinds
  PROVE  /\ <<Event(k, "app")>> \in Seq(Reports)
         /\ \A v \in Seq(Kinds) : v \o Kind(<<Event(k, "app")>>) = Append(v, k)
<1>1. Event(k, "app") \in Reports /\ Event(k, "app").type = k
  BY DEF Event, Reports, Causes
<1> DEFINE e == Event(k, "app")
<1> HIDE DEF e
<1>2. <<e>> \in Seq(Reports)
  BY <1>1 DEF e
<1>3. Kind(<<e>>) = [i \in 1..1 |-> k]
  BY <1>1 DEF Kind, e
<1>4. [i \in 1..1 |-> k] = <<k>>
  OBVIOUS
<1>5. \A v \in Seq(Kinds) : v \o <<k>> = Append(v, k)
  OBVIOUS
<1> QED BY <1>2, <1>3, <1>4, <1>5 DEF e

LEMMA AppMapKeeps ==
  ASSUME IInv, Types', NEW o \in Windows, AppMap(o)
  PROVE  IInv'
<1> DEFINE x == win[o]
           c == client[o]
           y == [x EXCEPT !.asked = TRUE, !.mapped = x.mapped \/ o \in Overrides]
<1>0. Types /\ x \in XRecords /\ c \in Clients
  BY DEF IInv, Types
<1>1. win' = [win EXCEPT ![o] = y] /\ client' = client /\ pending' = pending
  BY <1>0 DEF AppMap, Types
<1>2. /\ y \in XRecords /\ y.asked /\ y.exists = x.exists /\ y.framed = x.framed
      /\ y.frameMapped = x.frameMapped /\ (y.mapped <=> x.mapped \/ o \in Overrides)
      /\ x.mapped \in BOOLEAN /\ y.mapped \in BOOLEAN
  BY <1>0 DEF XRecords
<1>3. x.exists
  BY DEF AppMap
<1> HIDE DEF y
<1>4. CASE x.mapped
  <2>1. queue' = queue
    BY <1>4 DEF AppMap
  <2>2. win'[o] = y /\ \A w \in Windows \ {o} : win'[w] = win[w]
    BY <1>0, <1>1 DEF Types
  <2>3. y.mapped = x.mapped
    BY <1>2, <1>4
  <2>4. ASSUME NEW v, Has(queue, o, v), Good(o, v, x, c, pending)
        PROVE  \E u : Has(queue', o, u) /\ Good(o, u, win'[o], client'[o], pending')
    <3>1. v \in Seq(Kinds)
      BY <2>4 DEF Has
    <3>2. Good(o, v, y, c, pending)
      BY <1>0, <1>2, <2>3, <2>4, <3>1, RequestedGood
    <3> QED BY <1>1, <2>1, <2>2, <2>4, <3>2
  <2> QED BY <1>0, <1>1, <2>1, <2>2, <2>4, OneWindow
<1>5. CASE ~x.mapped /\ o \notin Overrides
  <2>1. "MapRequest" \in Kinds /\ Send(o, <<Event("MapRequest", "app")>>)
    BY <1>5 DEF AppMap, Kinds, EventTypes
  <2>2. y.mapped = x.mapped
    BY <1>2, <1>5
  <2>3. ASSUME NEW v \in Seq(Kinds), Good(o, v, x, c, pending)
        PROVE  Good(o, v \o Kind(<<Event("MapRequest", "app")>>), y, c, pending)
    <3>1. Good(o, Append(v, "MapRequest"), y, c, pending)
      BY <1>0, <1>2, <2>2, <2>3, RequestedGood
    <3> QED BY <2>1, <3>1, SentKinds
  <2> QED BY <1>1, <2>1, <2>3, SentKinds, SentKeeps
<1>6. CASE ~x.mapped /\ o \in Overrides
  <2>1. "Map" \in Kinds /\ Send(o, <<Event("Map", "app")>>)
    BY <1>6 DEF AppMap, Kinds, EventTypes
  <2>2. ASSUME NEW v \in Seq(Kinds), Good(o, v, x, c, pending)
        PROVE  Good(o, v \o Kind(<<Event("Map", "app")>>), y, c, pending)
    <3>1. Good(o, Append(v, "Map"), y, c, pending)
      BY <1>0, <1>2, <1>3, <1>6, <2>2, OverrideMappedGood
    <3> QED BY <2>1, <3>1, SentKinds
  <2> QED BY <1>1, <2>1, <2>2, SentKinds, SentKeeps
<1> QED BY <1>4, <1>5, <1>6

LEMMA AppWithdrawKeeps ==
  ASSUME IInv, Types', NEW o \in Windows, AppWithdraw(o)
  PROVE  IInv'
<1> DEFINE x == win[o]
           c == client[o]
           y == [x EXCEPT !.asked = FALSE, !.mapped = FALSE]
<1>0. Types /\ x \in XRecords /\ c \in Clients
  BY DEF IInv, Types
<1>1. win' = [win EXCEPT ![o] = y] /\ client' = client /\ pending' = pending
  BY <1>0 DEF AppWithdraw, Types
<1>2. /\ y \in XRecords /\ y.exists = x.exists /\ y.framed = x.framed
      /\ y.frameMapped = x.frameMapped /\ ~y.mapped
  BY <1>0 DEF XRecords
<1>3. "Unmap" \in Kinds /\ Send(o, <<Event("Unmap", "app")>>) /\ x.mapped
  BY DEF AppWithdraw, Kinds, EventTypes
<1> HIDE DEF y
<1>4. ASSUME NEW v \in Seq(Kinds), Good(o, v, x, c, pending)
      PROVE  Good(o, v \o Kind(<<Event("Unmap", "app")>>), y, c, pending)
  <2>1. Append(v, "Unmap") \in Seq(Kinds)
    BY <1>3
  <2>2. Good(o, Append(v, "Unmap"), y, c, pending)
    BY <1>0, <1>2, <1>3, <1>4, <2>1, UnmappedGood
  <2> QED BY <1>3, <2>2, SentKinds
<1> QED BY <1>1, <1>3, <1>4, SentKinds, SentKeeps

(* The events of a destroyed window, which may have been mapped.            *)
LEMMA DestroySent ==
  ASSUME NEW b, NEW es,
         es = (IF b THEN <<Event("Unmap", "app")>> ELSE << >>) \o <<Event("Destroy", "app")>>
  PROVE  /\ es \in Seq(Reports)
         /\ \A v \in Seq(Kinds) :
              v \o Kind(es) = Append(IF b THEN Append(v, "Unmap") ELSE v, "Destroy")
<1>0. /\ Event("Unmap", "app") \in Reports /\ Event("Unmap", "app").type = "Unmap"
      /\ Event("Destroy", "app") \in Reports /\ Event("Destroy", "app").type = "Destroy"
      /\ "Unmap" \in Kinds /\ "Destroy" \in Kinds
  BY DEF Event, Reports, Causes, Kinds, EventTypes
<1> DEFINE e == Event("Unmap", "app")
           f == Event("Destroy", "app")
<1> HIDE DEF e, f
<1>1. CASE b
  <2>1. es = <<e, f>>
    <3>1. es = <<e>> \o <<f>>
      BY <1>1 DEF e, f
    <3>2. \A i, j \in Reports : <<i>> \o <<j>> = <<i, j>>
      <4>1. \A s \in Seq(Reports), j \in Reports : s \o <<j>> = Append(s, j)
        OBVIOUS
      <4>2. \A i \in Reports : <<i>> \in Seq(Reports)
        OBVIOUS
      <4>3. ASSUME NEW i \in Reports, NEW j \in Reports
            PROVE  Append(<<i>>, j) = <<i, j>>
        <5> DEFINE p == Append(<<i>>, j)
                   q == <<i, j>>
        <5>1. <<i>> \in Seq(Reports) /\ Len(<<i>>) = 1 /\ <<i>>[1] = i
          OBVIOUS
        <5>2. p \in Seq(Reports) /\ Len(p) = 2 /\ p[1] = i /\ p[2] = j
          BY <5>1
        <5>3. q \in Seq(Reports) /\ Len(q) = 2 /\ q[1] = i /\ q[2] = j
          OBVIOUS
        <5> HIDE DEF p, q
        <5>4. \A k \in 1..2 : p[k] = q[k]
          BY <5>2, <5>3
        <5>5. p = q
          BY <5>2, <5>3, <5>4
        <5> QED BY <5>5 DEF p, q
      <4> QED BY <4>1, <4>2, <4>3
    <3>3. e \in Reports /\ f \in Reports
      BY <1>0 DEF e, f
    <3> QED BY <3>1, <3>2, <3>3
  <2>2. <<e, f>> \in Seq(Reports)
    BY <1>0 DEF e, f
  <2>3. Kind(<<e, f>>) = [i \in 1..2 |-> IF i = 1 THEN "Unmap" ELSE "Destroy"]
    BY <1>0 DEF Kind, e, f
  <2>4. [i \in 1..2 |-> IF i = 1 THEN "Unmap" ELSE "Destroy"] = <<"Unmap", "Destroy">>
    OBVIOUS
  <2>5. \A v \in Seq(Kinds) :
          v \o <<"Unmap", "Destroy">> = Append(Append(v, "Unmap"), "Destroy")
    BY <1>0
  <2> QED BY <1>1, <2>1, <2>2, <2>3, <2>4, <2>5
<1>2. CASE ~b
  <2>1. es = <<f>>
    BY <1>2 DEF f
  <2>2. <<f>> \in Seq(Reports) /\ \A v \in Seq(Kinds) : v \o Kind(<<f>>) = Append(v, "Destroy")
    BY <1>0, SentKinds DEF f
  <2> QED BY <1>2, <2>1, <2>2
<1> QED BY <1>1, <1>2

LEMMA AppDestroyKeeps ==
  ASSUME IInv, Types', NEW o \in Windows, AppDestroy(o)
  PROVE  IInv'
<1> DEFINE x == win[o]
           c == client[o]
           y == [x EXCEPT !.asked = FALSE, !.exists = FALSE, !.mapped = FALSE]
           es == (IF x.mapped THEN <<Event("Unmap", "app")>> ELSE << >>)
                 \o <<Event("Destroy", "app")>>
<1>0. Types /\ x \in XRecords /\ c \in Clients
  BY DEF IInv, Types
<1>1. win' = [win EXCEPT ![o] = y] /\ client' = client /\ pending' = pending
  BY <1>0 DEF AppDestroy, Types
<1>2. y \in XRecords /\ ~y.exists /\ ~y.mapped
  BY <1>0 DEF XRecords
<1>3. Send(o, es)
  BY DEF AppDestroy
<1>4. /\ es \in Seq(Reports)
      /\ \A v \in Seq(Kinds) :
           v \o Kind(es) = Append(IF x.mapped THEN Append(v, "Unmap") ELSE v, "Destroy")
  <2>1. es = (IF x.mapped THEN <<Event("Unmap", "app")>> ELSE << >>)
             \o <<Event("Destroy", "app")>>
    OBVIOUS
  <2> HIDE DEF es
  <2> QED BY <2>1, DestroySent
<1> HIDE DEF y, es
<1>5. ASSUME NEW v \in Seq(Kinds), Good(o, v, x, c, pending)
      PROVE  Good(o, v \o Kind(es), y, c, pending)
  BY <1>0, <1>2, <1>4, <1>5, DestroyedGood
<1> QED BY <1>1, <1>3, <1>4, <1>5, SentKeeps

LEMMA ActivateKeeps ==
  ASSUME IInv, Types', NEW o \in Windows, Activate(o)
  PROVE  IInv'
<1> DEFINE c == client[o]
<1>0. Types /\ win[o] \in XRecords /\ c \in Clients
  BY DEF IInv, Types
<1>1. /\ win' = win /\ queue' = queue /\ pending' = TRUE /\ client'[o] = Shown(c) /\ c.stacked
      /\ \A w \in Windows \ {o} : client'[w] = client[w]
  BY <1>0 DEF Activate, Becomes, Types
<1>2. ASSUME NEW v, Has(queue, o, v), Good(o, v, win[o], client[o], pending)
      PROVE  \E u : Has(queue', o, u) /\ Good(o, u, win'[o], client'[o], pending')
  <2>1. v \in Seq(Kinds)
    BY <1>2 DEF Has
  <2>2. Good(o, v, win[o], Shown(c), TRUE)
    BY <1>0, <1>1, <1>2, <2>1, ShownGood
  <2> QED BY <1>1, <1>2, <2>2
<1> QED BY <1>1, <1>2, OneWindow

LEMMA MessageKeeps ==
  ASSUME LifecycleAssumption, IInv, Types', Message
  PROVE  IInv'
<1>0. Types /\ win' = win /\ client' = client /\ pending' = pending /\ queue \in Seq(Events)
  BY DEF IInv, Message, Types
<1>1. CASE \E w \in Windows : \E type \in Messages[w] :
             win[w].mapped /\ Send(w, <<Event(type, "app")>>)
  <2>1. PICK o \in Windows : \E type \in Messages[o] :
             win[o].mapped /\ Send(o, <<Event(type, "app")>>)
    BY <1>1
  <2>2. PICK k \in Messages[o] : win[o].mapped /\ Send(o, <<Event(k, "app")>>)
    BY <2>1
  <2>3. k \in {"SetFullscreen", "ClearFullscreen", "Iconify"}
    BY DEF LifecycleAssumption
  <2>4. k \in Kinds
    BY <2>3 DEF Kinds, EventTypes
  <2>5. win[o] \in XRecords /\ client[o] \in Clients /\ win' = [win EXCEPT ![o] = win[o]]
    BY <1>0 DEF Types
  <2>6. ASSUME NEW v \in Seq(Kinds), Good(o, v, win[o], client[o], pending)
        PROVE  Good(o, v \o Kind(<<Event(k, "app")>>), win[o], client[o], pending)
    <3>1. Good(o, Append(v, k), win[o], client[o], pending)
      BY <2>2, <2>3, <2>5, <2>6, MessageGood
    <3> QED BY <2>4, <3>1, SentKinds
  <2> QED BY <1>0, <2>2, <2>4, <2>5, <2>6, SentKinds, SentKeeps
<1>2. CASE \E d \in Desktops : Send(d, <<Event("Desktop", "app")>>)
  <2>1. PICK d \in Desktops : Send(d, <<Event("Desktop", "app")>>)
    BY <1>2
  <2> DEFINE n == OnWindow(d, <<Event("Desktop", "app")>>)
  <2>2. /\ n = [i \in 1..1 |-> [type |-> "Desktop", window |-> d, by |-> "app"]]
        /\ [type |-> "Desktop", window |-> d, by |-> "app"] \in Events
    BY DEF OnWindow, Event, Events, EventTypes, Causes
  <2>3. n \in Seq(Events)
    <3> DEFINE e == [type |-> "Desktop", window |-> d, by |-> "app"]
    <3>1. n = [i \in 1..1 |-> e] /\ e \in Events
      BY <2>2
    <3> HIDE DEF n, e
    <3> QED BY <3>1
  <2>4. \A i \in DOMAIN n : \A w : ~IsOf(n[i], w)
    BY <2>2 DEF IsOf
  <2>5. queue' = queue \o n
    BY <2>1 DEF Send
  <2> HIDE DEF n
  <2>6. ASSUME NEW w \in Windows
        PROVE  \E u : Has(queue', w, u) /\ Good(w, u, win'[w], client'[w], pending')
    <3>1. PICK v : Has(queue, w, v) /\ Good(w, v, win[w], client[w], pending)
      BY DEF IInv
    <3>2. Has(n, w, << >>)
      BY <2>3, <2>4, HasAllOrNone
    <3>3. Has(queue', w, v \o << >>)
      BY <1>0, <2>3, <2>5, <3>1, <3>2, HasBoth
    <3>4. v \o << >> = v
      <4>1. v \in Seq(Kinds)
        BY <3>1 DEF Has
      <4> QED BY <4>1
    <3> QED BY <1>0, <3>1, <3>3, <3>4
  <2> QED BY <2>6 DEF IInv
<1> QED BY <1>1, <1>2 DEF Message

LEMMA InitGood ==
  ASSUME LifecycleAssumption, Init
  PROVE  IInv
<1>1. NoClient \in Clients
  BY NewClientsAre DEF LifecycleAssumption
<1> DEFINE m == Managed(0, FALSE)
           d == [m EXCEPT !.skipUnmaps = 1, !.skipMaps = -1]
<1>2. /\ m \in Clients /\ m.alive /\ m.listed /\ m.stacked /\ ~m.hidden
      /\ ~m.fullscreen /\ ~m.realized /\ m.sync = IF m.wanted THEN {"Visibility"} ELSE {}
  BY NewClientsAre DEF LifecycleAssumption
<1>3. m = NewClient(0) /\ ~NewClient(0).wanted
  BY DEF Managed, NewClient, NoClient
<1>4. ~m.wanted
  BY <1>3
<1> HIDE DEF m
<1>5. /\ d \in Clients /\ d.alive /\ d.listed /\ d.stacked /\ ~d.hidden /\ d.sync = {}
  <2>1. \A i \in Nat, k \in Int : [m EXCEPT !.skipUnmaps = i, !.skipMaps = k] \in Clients
    BY <1>2 DEF Clients
  <2>2. d \in Clients
    <3>1. 1 \in Nat /\ -1 \in Int
      OBVIOUS
    <3>2. [m EXCEPT !.skipUnmaps = 1, !.skipMaps = -1] \in Clients
      BY <2>1, <3>1, Zenon
    <3> QED BY <3>2
  <2>3. /\ d.alive = m.alive /\ d.listed = m.listed /\ d.stacked = m.stacked
        /\ d.hidden = m.hidden /\ d.sync = m.sync
    BY <1>2 DEF Clients
  <2> QED BY <1>2, <1>4, <2>2, <2>3
<1> HIDE DEF d
<1>6. /\ NoClient.skipUnmaps = 0 /\ NoClient.skipMaps = 0 /\ ~NoClient.alive /\ ~NoClient.hidden
      /\ NoClient.sync = {} /\ ~NoClient.wanted
      /\ NoClient.stacked = NoClient.alive /\ NoClient.listed = NoClient.alive
  BY DEF NoClient
<1>7. /\ win = [w \in Windows |-> XWindow(w \in Preexisting)] /\ queue = << >>
      /\ client = [w \in Windows |-> IF w \in Preexisting THEN d ELSE NoClient]
      /\ desktop = 0 /\ pending = (Preexisting # {})
  BY DEF Init, InitWith, d, m
<1>8. \A b \in BOOLEAN : XWindow(b) \in XRecords /\ XWindow(b).exists
  BY DEF XWindow, XRecords
<1>9. Types
  <2>1. \A w \in Windows : (w \in Preexisting) \in BOOLEAN
    OBVIOUS
  <2>2. win \in [Windows -> XRecords]
    BY <1>7, <1>8, <2>1
  <2>3. client \in [Windows -> Clients]
    BY <1>1, <1>5, <1>7
  <2>4. queue \in Seq(Events)
    BY <1>7
  <2> QED BY <1>7, <2>2, <2>3, <2>4 DEF Types, LifecycleAssumption
<1>10. ASSUME NEW w \in Windows
       PROVE  Has(queue, w, << >>) /\ Good(w, << >>, win[w], client[w], pending)
  <2>1. Has(queue, w, << >>)
    BY <1>7, HasNothing
  <2>2. /\ Unmaps(<< >>) = {} /\ \A k : Followed(<< >>, k)
        /\ \A m1 : Alternates(<< >>, m1) /\ Announced(<< >>, m1)
        /\ \A i \in DOMAIN << >> : FALSE
    BY DEF Unmaps, Followed, Alternates, Announced
  <2>3. win[w].exists
    <3>1. (w \in Preexisting) \in BOOLEAN
      OBVIOUS
    <3> QED BY <1>7, <1>8, <3>1
  <2>4. CASE w \in Preexisting
    <3>1. client[w] = d /\ w \notin Plain /\ ~EntersOnly(w)
      BY <1>7, <2>4 DEF Plain, EntersOnly
    <3>2. Whole(win[w], d, pending)
      BY <1>5, <2>3 DEF Whole, Clients
    <3>3. Coming(<< >>, win[w], d)
      BY <2>2, <2>3 DEF Coming
    <3> QED BY <2>1, <2>4, <3>1, <3>2, <3>3 DEF Good
  <2>5. CASE w \notin Preexisting
    <3>1. client[w] = NoClient
      BY <1>7, <2>5
    <3>2. Whole(win[w], NoClient, pending) /\ Coming(<< >>, win[w], NoClient)
      BY <1>6, <2>2, <2>3 DEF Whole, Coming
    <3>3. /\ Owed(<< >>, win[w], NoClient) /\ Seen(<< >>, win[w], NoClient)
          /\ AskedFor(<< >>, win[w], NoClient)
      BY <1>6, <2>2 DEF Owed, Seen, AskedFor
    <3> QED BY <1>6, <2>1, <2>2, <3>1, <3>2, <3>3 DEF Good
  <2> QED BY <2>4, <2>5
<1> QED BY <1>9, <1>10 DEF IInv

LEMMA NextKeeps ==
  ASSUME LifecycleAssumption, Desktops = {0}, IInv, [Next]_vars
  PROVE  IInv'
<1>0. Types'
  BY TypesKept DEF IInv
<1>1. CASE UNCHANGED vars
  <2>1. win' = win /\ queue' = queue /\ client' = client /\ pending' = pending
    BY <1>1 DEF vars
  <2> QED BY <1>0, <2>1 DEF IInv
<1>2. CASE Next
  BY <1>0, <1>2, SyncKeeps, MapRequestKeeps, MapNotifyKeeps, UnmapNotifyKeeps,
     DestroyNotifyKeeps, FullscreenKeeps, IconifyKeeps, DesktopKeeps, AppMapKeeps,
     AppWithdrawKeeps, AppDestroyKeeps, ActivateKeeps, MessageKeeps DEF Next, Step
<1> QED BY <1>1, <1>2

-----------------------------------------------------------------------------
(* The theorems. *)

(* Type correctness, for every number of desktops: the window manager never  *)
(* counts below zero the unmap events it is owed (skip_unmaps), and every   *)
(* event is one of a window that is there or of a desktop.                  *)
THEOREM TypesHold == Spec => []TypeOK
<1> USE LifecycleAssumption
<1>1. Init => Types
  BY InitGood DEF IInv
<1>2. Types /\ [Next]_vars => Types'
  BY TypesKept
<1>3. Types => TypeOK
  <2> HAVE Types
  <2>1. ASSUME NEW i \in 1..Len(queue)
        PROVE  /\ queue[i].type \in EventTypes
               /\ IF queue[i].type = "Desktop" THEN queue[i].window \in Desktops
                  ELSE queue[i].window \in Windows
               /\ queue[i].by \in {"app", "wm", "reparent", "release", "hide", "iconify"}
    <3>1. queue[i] \in Events
      BY DEF Types
    <3> QED BY <3>1 DEF Events, Causes
  <2> QED BY <2>1 DEF Types, TypeOK, XRecords
<1> QED BY <1>1, <1>2, <1>3, PTL DEF Spec

LEMMA InvariantHolds == ASSUME Desktops = {0} PROVE Spec => []IInv
<1> USE LifecycleAssumption
<1>1. Init => IInv
  BY InitGood
<1>2. IInv /\ [Next]_vars => IInv'
  BY NextKeeps
<1> QED BY <1>1, <1>2, PTL DEF Spec

(* On one desktop no freed client is reachable: every way in which a client  *)
(* leaves the stack (mb_wm_stack_remove) takes it off wm->clients and frees *)
(* it, and none is freed in another way.  With several desktops this fails. *)
THEOREM NothingDangles == ASSUME Desktops = {0} PROVE Spec => []NoDanglingClient
<1>1. IInv => NoDanglingClient
  BY DEF IInv, Good, Whole, NoDanglingClient
<1> QED BY <1>1, InvariantHolds, PTL

\* Nothing is left to hear of a window at rest.
LEMMA AtRestIs ==
  ASSUME IInv, AtRest, NEW w \in Windows
  PROVE  /\ Good(w, << >>, win[w], client[w], FALSE)
         /\ Count(<< >>) = 0 /\ ~MapNext(<< >>)
         /\ win[w] \in XRecords /\ client[w] \in Clients
         /\ client[w].sync = {} /\ (client[w].alive => win[w].exists)
<1>1. queue = << >> /\ pending = FALSE /\ Types
  BY DEF AtRest, IInv, Types
<1>2. PICK v : Has(queue, w, v) /\ Good(w, v, win[w], client[w], pending)
  BY DEF IInv
<1>3. v = << >>
  BY <1>1, <1>2, HasNothing
<1>4. Good(w, << >>, win[w], client[w], FALSE)
  BY <1>1, <1>2, <1>3
<1>5. ~MapNext(<< >>) /\ ~\E i \in DOMAIN << >> : TRUE
  BY DEF MapNext, Maps
<1>6. client[w].sync = {} /\ (client[w].alive => win[w].exists)
  BY <1>4, <1>5 DEF Good, Whole, Coming
<1> QED BY <1>1, <1>4, <1>5, <1>6, CountEmpty DEF Types

(* On one desktop a withdrawal is heard of: whatever the window manager does *)
(* with the window meanwhile - reparenting it, taking it to fullscreen and  *)
(* counting the unmap events that causes (skip_unmaps) - no unmap event of  *)
(* the application is swallowed, for windows that were not mapped before    *)
(* the window manager started and never leave fullscreen.                   *)
THEOREM WithdrawnAreUnmanaged ==
  ASSUME Desktops = {0} PROVE Spec => []WithdrawnIsUnmanagedInTime
<1>1. IInv => WithdrawnIsUnmanagedInTime
  <2> SUFFICES ASSUME IInv, AtRest, NEW w \in Windows, EntersOnly(w), client[w].alive, ~win[w].asked
               PROVE  FALSE
    BY AtRestIs DEF WithdrawnIsUnmanagedInTime, Heeded, AtRest, XRecords
  <2>1. /\ Good(w, << >>, win[w], client[w], FALSE) /\ Count(<< >>) = 0
        /\ client[w] \in Clients /\ win[w].exists
    BY AtRestIs
  <2>2. client[w].skipUnmaps < 0 /\ client[w].skipUnmaps \in Nat
    BY <2>1 DEF Good, AskedFor, Clients
  <2> QED BY <2>2
<1> QED BY <1>1, InvariantHolds, PTL

(* On one desktop, and if no window was mapped before the window manager     *)
(* started, skip_unmaps and skip_maps return to zero: every unmap event     *)
(* counted by realize, fullscreen and their reverses is one the X server    *)
(* sends.                                                                   *)
THEOREM NothingStaysOwed ==
  ASSUME Desktops = {0}, Preexisting = {} PROVE Spec => []NothingOwed
<1>1. IInv => NothingOwed
  <2> SUFFICES ASSUME IInv, AtRest, NEW w \in Windows, client[w].alive
               PROVE  client[w].skipUnmaps = 0 /\ client[w].skipMaps = 0
    BY DEF NothingOwed
  <2>1. /\ Good(w, << >>, win[w], client[w], FALSE) /\ Count(<< >>) = 0 /\ ~MapNext(<< >>)
        /\ client[w] \in Clients /\ win[w].exists
    BY AtRestIs
  <2>2. CASE w \in Overrides
    BY <2>1, <2>2 DEF Good
  <2>3. CASE w \notin Overrides
    BY <2>1, <2>3 DEF Good, Plain, Owed, Clients
  <2> QED BY <2>2, <2>3
<1> QED BY <1>1, InvariantHolds, PTL

(* Under the same assumptions, and if clients are activated as they are      *)
(* mapped (ActivatesNew), a client that was shown is in view when nothing is *)
(* left to do: its window is mapped and so is the frame it is in, and it is  *)
(* in none when it is fullscreen.  (No client is hidden then.)               *)
THEOREM ShownAreViewable ==
  ASSUME Desktops = {0}, Preexisting = {}, ActivatesNew PROVE Spec => []ViewAgrees
<1>1. IInv => ViewAgrees
  <2> SUFFICES ASSUME IInv, AtRest, NEW w \in Windows \ Overrides
               PROVE  /\ client[w].wanted /\ win[w].exists => Viewable(win[w])
                      /\ ~client[w].hidden
    BY DEF ViewAgrees, ShownIsViewable, HiddenIsUnmapped
  <2>1. /\ Good(w, << >>, win[w], client[w], FALSE) /\ Count(<< >>) = 0
        /\ client[w] \in Clients /\ client[w].sync = {} /\ w \in Plain
    BY AtRestIs DEF Plain
  <2>2. ~client[w].hidden /\ (~client[w].alive => ~client[w].wanted)
    BY <2>1 DEF Good, Whole, NoClient
  <2>3. client[w].wanted /\ win[w].exists => Viewable(win[w])
    BY <2>1, <2>2 DEF Good, Seen, Viewable, Clients
  <2> QED BY <2>2, <2>3
<1> QED BY <1>1, InvariantHolds, PTL

-----------------------------------------------------------------------------
(* Compositing: what every compositor client keeps.                         *)

CmClients ==
  [linked : BOOLEAN, mapped : BOOLEAN, waits : BOOLEAN, paused : BOOLEAN,
   fullscreen : BOOLEAN, texture : {"none", "old", "stale", "skipped", "current"},
   damage : {"none", "empty", "full"}, reports : Nat]

Sound(c) ==
  /\ c \in CmClients
  /\ c.paused \/ ~c.linked => c.damage = "none"
  /\ ~c.linked => ~c.mapped
  /\ c.damage = "full" => c.reports > 0

CmInv ==
  /\ cm \in [Windows -> CmClients]
  /\ \A w \in Windows : Sound(cm[w]) /\ cm[w].linked = client[w].alive

-----------------------------------------------------------------------------
\* Every behaviour of Compositing is one of ClientLifecycle.
LEMMA ImplementsLifecycle == CmSpec => Spec
<1>1. CmInit => Init
  BY DEF CmInit
<1>2. [CmNext]_cmVars => [Next]_vars
  <2> SUFFICES ASSUME [CmNext]_cmVars PROVE [Next]_vars
    OBVIOUS
  <2>1. CASE CmSync
    BY <2>1 DEF CmSync, Next, Step
  <2>2. CASE Handle
    <3>1. CASE CmMapRequest \/ CmMapNotify \/ HandleGone \/ HandleMessage
      BY <3>1
         DEF CmMapRequest, CmMapNotify, HandleGone, HandleMessage, Next, Step
    <3>2. CASE \E w \in Windows : HandleDamage(w) \/ CmActivate(w)
      BY <3>2 DEF HandleDamage, CmActivate, Next, vars
    <3> QED BY <2>2, <3>1, <3>2 DEF Handle
  <2>3. CASE App
    BY <2>3 DEF App, Next
  <2>4. ASSUME NEW w \in Windows, NEW on \in BOOLEAN,
               Draw(w) \/ SetDontUpdate(w, on) \/ TrackDamage(w, on)
        PROVE  UNCHANGED vars
    BY <2>4 DEF Draw, SetDontUpdate, TrackDamage, Changes, vars
  <2>5. CASE UNCHANGED cmVars
    BY <2>5 DEF cmVars, vars
  <2> QED BY <2>1, <2>2, <2>3, <2>4, <2>5 DEF CmNext
<1> QED BY <1>1, <1>2, PTL DEF CmSpec, Spec

-----------------------------------------------------------------------------
(* What the operations do with a compositor client.                         *)

\* What the compositor client is after each of its operations.
LEMMA CmClientsAre ==
  ASSUME NEW c \in CmClients, Sound(c), NEW w
  PROVE  /\ Sound(Registered(c)) /\ Registered(c).linked
         /\ Sound(Unregistered(c)) /\ ~Unregistered(c).linked
         /\ Sound(Reported(c)) /\ Reported(c).linked = c.linked
         /\ Sound(Fetched(c, w)) /\ Fetched(c, w).linked = c.linked
         /\ Sound(Untracked(c)) /\ Untracked(c).linked = c.linked
<1>1. Sound(Registered(c)) /\ Registered(c).linked
  BY DEF Registered, NoCm, Sound, CmClients
<1>2. Sound(Unregistered(c)) /\ ~Unregistered(c).linked
  BY DEF Unregistered, NoCm, Sound, CmClients
<1>3. Sound(Reported(c)) /\ Reported(c).linked = c.linked
  <2>1. \A k \in Nat : k > 0 =>
          LET d == [c EXCEPT !.damage = "full", !.reports = k]
          IN  (~c.paused /\ c.linked => Sound(d)) /\ d.linked = c.linked
    BY DEF Sound, CmClients
  <2>2. c.reports + 1 \in Nat /\ c.reports + 1 > 0
    BY DEF CmClients
  <2>3. c.damage = "empty" => ~c.paused /\ c.linked
    BY DEF Sound, CmClients
  <2> QED BY <2>1, <2>2, <2>3 DEF Reported
<1>4. Sound(Fetched(c, w)) /\ Fetched(c, w).linked = c.linked
  BY DEF Fetched, Sound, CmClients
<1>5. Sound(Untracked(c)) /\ Untracked(c).linked = c.linked
  BY DEF Untracked, Sound, CmClients
<1> QED BY <1>1, <1>2, <1>3, <1>4, <1>5

\* The texture does not concern the damage.
LEMMA ConfiguredIs ==
  ASSUME Types, NEW c \in CmClients, Sound(c), NEW w \in Windows
  PROVE  Sound(Configured(c, w)) /\ Configured(c, w).linked = c.linked
<1> DEFINE d == [c EXCEPT !.fullscreen = client[w].fullscreen]
<1>1. client[w].fullscreen \in BOOLEAN
  BY DEF Types, Clients
<1>2. d \in CmClients /\ Sound(d) /\ d.linked = c.linked
  BY <1>1 DEF Sound, CmClients
<1>3. Configured(c, w) = IF c.fullscreen = client[w].fullscreen THEN c ELSE Fetched(d, w)
  BY DEF Configured
<1> HIDE DEF d
<1>4. Sound(Fetched(d, w)) /\ Fetched(d, w).linked = d.linked
  BY <1>2, CmClientsAre
<1> QED BY <1>2, <1>3, <1>4

\* Damage is tracked anew for a client that shows.
LEMMA TrackedIs ==
  ASSUME NEW c \in CmClients, Sound(c), c.linked, NEW w
  PROVE  Sound(Tracked(c, w)) /\ Tracked(c, w).linked
<1> DEFINE d == [c EXCEPT !.paused = FALSE, !.damage = "empty"]
           e == IF NowViewable(w) THEN Reported(d) ELSE d
<1>1. d \in CmClients /\ Sound(d) /\ d.linked
  BY DEF Sound, CmClients
<1> HIDE DEF d
<1>2. e \in CmClients /\ Sound(e) /\ e.linked
  BY <1>1, CmClientsAre DEF Sound
<1> HIDE DEF e
<1>3. Sound(Fetched(e, w)) /\ Fetched(e, w).linked
  BY <1>2, CmClientsAre
<1>4. Tracked(c, w) = IF c.damage # "none" THEN c ELSE Fetched(e, w)
  BY DEF Tracked, d, e
<1> QED BY <1>3, <1>4

\* A map event that is not skipped.
LEMMA MapNotifiedIs ==
  ASSUME Types, NEW c \in CmClients, Sound(c), c.linked, NEW w \in Windows
  PROVE  Sound(MapNotified(c, w)) /\ MapNotified(c, w).linked
<1> DEFINE seen == [c EXCEPT !.fullscreen = client[w].fullscreen]
           m == [seen EXCEPT !.mapped = TRUE]
           t == Tracked(m, w)
           bound == CASE client[w].hiding -> Fetched(seen, w)
                      [] ~client[w].hiding /\ c.mapped -> seen
                      [] OTHER -> Fetched(t, w)
<1>0. client[w].fullscreen \in BOOLEAN /\ client[w].hiding \in BOOLEAN
  BY DEF Types, Clients
<1>1. seen \in CmClients /\ Sound(seen) /\ seen.linked
  BY <1>0 DEF Sound, CmClients
<1>2. m \in CmClients /\ Sound(m) /\ m.linked
  <2> HIDE DEF seen
  <2> QED BY <1>1 DEF Sound, CmClients
<1> HIDE DEF seen, m
<1>3. t \in CmClients /\ Sound(t) /\ t.linked
  BY <1>2, TrackedIs DEF Sound
<1> HIDE DEF t
<1>4. /\ Sound(Fetched(t, w)) /\ Fetched(t, w).linked
      /\ Sound(Fetched(seen, w)) /\ Fetched(seen, w).linked
  BY <1>1, <1>3, CmClientsAre
<1>5. Sound(bound) /\ bound.linked
  BY <1>0, <1>1, <1>4
<1>6. MapNotified(c, w) = [bound EXCEPT !.waits = FALSE]
  BY DEF MapNotified, bound, t, m, seen
<1> HIDE DEF bound
<1> QED BY <1>5, <1>6 DEF Sound, CmClients

\* A damage event is handled, or let go for a window without a client.
LEMMA RepairedIs ==
  ASSUME NEW c \in CmClients, Sound(c), c.reports > 0, NEW w \in Windows,
         NEW known \in BOOLEAN, c.linked => known
  PROVE  LET d == [c EXCEPT !.reports = @ - 1]
             e == IF known /\ c.linked THEN Repaired(d, w) ELSE d
         IN  Sound(e) /\ e.linked = c.linked
<1> DEFINE d == [c EXCEPT !.reports = @ - 1]
<1>1. /\ d \in CmClients /\ d.linked = c.linked /\ d.damage = c.damage
      /\ d.paused = c.paused /\ d.mapped = c.mapped
  BY DEF CmClients
<1>2. CASE known /\ c.linked /\ ~c.paused
  <2> DEFINE s == Subtracted(d)
  <2>1. s \in CmClients /\ Sound(s) /\ s.linked /\ s.damage # "full"
    <3> HIDE DEF d
    <3> QED BY <1>1, <1>2 DEF Subtracted, Sound, CmClients
  <2>2. \A x \in {"none", "old", "stale", "skipped", "current"} :
           Sound([s EXCEPT !.texture = x]) /\ [s EXCEPT !.texture = x].linked
    <3> HIDE DEF s
    <3> QED BY <2>1 DEF Sound, CmClients
  <2>3. Repaired(d, w) = [s EXCEPT !.texture =
          IF s.texture # "stale" THEN s.texture
          ELSE IF d.waits /\ w \notin Ignoring THEN "skipped" ELSE "current"]
    <3> HIDE DEF d
    <3>1. ~d.paused
      BY <1>1, <1>2
    <3> QED BY <2>1, <3>1 DEF Repaired
  <2>4. s.texture \in {"none", "old", "stale", "skipped", "current"}
    BY <2>1 DEF CmClients
  <2> HIDE DEF s, d
  <2> QED BY <1>2, <2>2, <2>3, <2>4 DEF d
<1>3. CASE ~(known /\ c.linked /\ ~c.paused)
  <2>1. c.damage = "none"
    BY <1>3 DEF Sound, CmClients
  <2>2. Sound(d)
    <3> HIDE DEF d
    <3> QED BY <1>1, <2>1 DEF Sound
  <2>3. known /\ c.linked => Repaired(d, w) = d
    BY <1>1, <1>3 DEF Repaired
  <2> HIDE DEF d
  <2> QED BY <1>1, <2>2, <2>3 DEF d
<1> QED BY <1>2, <1>3

\* A step of the X server or of an application concerns the texture only.
LEMMA AgedIs ==
  ASSUME CmInv, NEW w \in Windows, NEW n
  PROVE  Sound(Aged(w, n)) /\ Aged(w, n).linked = cm[w].linked
<1> DEFINE c == cm[w]
<1>1. c \in CmClients /\ Sound(c)
  BY DEF CmInv
<1>2. Aged(w, n) = c \/ Aged(w, n) = [c EXCEPT !.texture = "old"]
  BY <1>1 DEF Aged, CmClients
<1>3. Sound([c EXCEPT !.texture = "old"]) /\ [c EXCEPT !.texture = "old"].linked = c.linked
  <2> HIDE DEF c
  <2> QED BY <1>1 DEF Sound, CmClients
<1> QED BY <1>1, <1>2, <1>3

-----------------------------------------------------------------------------
(* How long clients live: what each handler does to client[w].alive.        *)

\* mb_wm_sync frees no client.
LEMMA SyncSparesAll ==
  ASSUME IInv, Sync, NEW w \in Windows
  PROVE  client'[w].alive = client[w].alive
<1> DEFINE s == VisibilitySync(FullscreenSync(Realize(Alone(w))))
<1>1. /\ Types /\ Alone(w) \in Requests /\ Alone(w).x = win[w] /\ Alone(w).c = client[w]
      /\ Alone(w).out = << >>
  BY AloneIs DEF IInv
<1>2. client'[w] = Synced(w).c /\ client[w] \in Clients
  BY <1>1 DEF Sync, Types
<1>3. PICK v : v \in Seq(Kinds) /\ Good(w, v, win[w], client[w], pending)
  BY DEF IInv, Has
<1>4. (win[w].mapped => win[w].exists) /\ (client[w].sync # {} => "Visibility" \in client[w].sync)
  BY <1>3 DEF Good, Whole
<1>5. Alike(client[w], s.c)
  BY <1>1, <1>3, <1>4, SyncsTo
<1>6. \/ Synced(w).c = [client[w] EXCEPT !.sync = {}]
      \/ s.c \in Clients /\ Synced(w).c = [s.c EXCEPT !.sync = {}]
  BY <1>1, SyncedIs
<1> HIDE DEF s
<1> QED BY <1>2, <1>5, <1>6 DEF Clients, Alike

\* The client of the window itself.
LEMMA LivesAre ==
  ASSUME NEW c \in Clients
  PROVE  /\ Shown(c).alive = c.alive /\ Shown(c).stacked = c.stacked
         /\ \A on \in BOOLEAN : SetFullscreen(c, on).alive = c.alive
         /\ \A d : DesktopChange(c, d).alive = c.alive
         /\ Skipped(c).alive = c.alive
<1>1. /\ Shown(c).alive = c.alive /\ Shown(c).stacked = c.stacked
      /\ Skipped(c).alive = c.alive
  BY DEF Shown, Skipped, Clients
<1>2. \A on \in BOOLEAN : SetFullscreen(c, on).alive = c.alive
  BY DEF SetFullscreen, Clients
<1>3. ASSUME NEW e \in Clients, NEW b \in BOOLEAN PROVE SetHidden(e, b).alive = e.alive
  BY DEF SetHidden, Shown, Hid, Clients
<1>4. [c EXCEPT !.hiding = TRUE] \in Clients /\ [c EXCEPT !.hiding = TRUE].alive = c.alive
  BY DEF Clients
<1>5. \A d : DesktopChange(c, d).alive = c.alive
  BY <1>3, <1>4 DEF DesktopChange
<1> QED BY <1>1, <1>2, <1>5

\* A map request or event.
LEMMA LivesMapped ==
  ASSUME Types, NEW w \in Windows, HandleMapRequest \/ HandleMapNotify
  PROVE  IF w = Head(queue).window
         THEN client[w].stacked => client'[w].stacked /\ client'[w].alive = client[w].alive
         ELSE client'[w] = client[w]
<1> DEFINE c == client[w]
<1>0. client \in [Windows -> Clients] /\ c \in Clients
  BY DEF Types
<1>1. \A u, d : Becomes(u, d) => client'[w] = IF w = u THEN d ELSE client[w]
  BY <1>0 DEF Becomes
<1>2. CASE HandleMapRequest
  <2>1. Shown(c).alive = c.alive /\ Shown(c).stacked = c.stacked
    BY <1>0, LivesAre
  <2>2. CASE w # Head(queue).window
    <3>1. \/ Becomes(Head(queue).window, Shown(client[Head(queue).window]))
          \/ Becomes(Head(queue).window, Managed(desktop, TRUE))
          \/ client' = client
      BY <1>2 DEF HandleMapRequest
    <3>2. \A d : Becomes(Head(queue).window, d) => client'[w] = client[w]
      BY <1>1, <2>2
    <3> QED BY <2>2, <3>1, <3>2
  <2>3. CASE w = Head(queue).window /\ c.stacked
    <3>1. Becomes(w, Shown(c))
      BY <1>2, <2>3 DEF HandleMapRequest
    <3> QED BY <1>1, <2>1, <2>3, <3>1
  <2> QED BY <2>2, <2>3
<1>3. CASE HandleMapNotify
  <2> DEFINE u == Head(queue).window
             p == [c EXCEPT !.skipMaps = @ - 1]
             q == [c EXCEPT !.confirmed = TRUE, !.hiding = @ /\ Head(queue).type = "MapFrame"]
  <2>1. p.alive = c.alive /\ q.alive = c.alive /\ p.stacked = c.stacked /\ q.stacked = c.stacked
    BY <1>0 DEF Clients
  <2>2. CASE w # u
    BY <1>1, <1>3, <2>2 DEF HandleMapNotify
  <2>3. CASE w = u /\ c.stacked
    <3>1. Becomes(u, p) \/ Becomes(u, q)
      BY <1>3, <2>3 DEF HandleMapNotify
    <3> HIDE DEF p, q
    <3> QED BY <1>1, <2>1, <2>3, <3>1
  <2> QED BY <2>2, <2>3
<1> QED BY <1>2, <1>3

\* A withdrawal or a destroyed window.
LEMMA LivesEnded ==
  ASSUME Types, NEW w \in Windows, HandleUnmapNotify \/ HandleDestroyNotify
  PROVE  IF w = Head(queue).window
         THEN client'[w].alive => client[w].alive
         ELSE client'[w] = client[w]
<1> DEFINE c == client[w]
           u == Head(queue).window
           p == [c EXCEPT !.confirmed = FALSE]
           q == [c EXCEPT !.alive = FALSE, !.listed = FALSE]
<1>0. client \in [Windows -> Clients] /\ c \in Clients
  BY DEF Types
<1>1. \A v, d : Becomes(v, d) => client'[w] = IF w = v THEN d ELSE client[w]
  BY <1>0 DEF Becomes
<1>2. p.alive = c.alive /\ ~q.alive /\ ~NoClient.alive /\ Skipped(c).alive = c.alive
  BY <1>0, LivesAre DEF Clients, NoClient
<1>3. CASE w # u
  BY <1>1, <1>3 DEF HandleUnmapNotify, HandleDestroyNotify, Unmanage
<1>4. CASE w = u
  <2>1. \/ Becomes(u, Skipped(c)) \/ Becomes(u, p) \/ Becomes(u, q) \/ Becomes(u, NoClient)
        \/ client' = client
    BY <1>4 DEF HandleUnmapNotify, HandleDestroyNotify, Unmanage
  <2> HIDE DEF p, q
  <2> QED BY <1>1, <1>2, <1>4, <2>1
<1> QED BY <1>3, <1>4

\* The other handlers.
LEMMA LivesSpared ==
  ASSUME Types, NEW w \in Windows,
         HandleFullscreen \/ HandleIconify \/ HandleDesktop \/ (\E u \in Windows : Activate(u))
  PROVE  client'[w].alive = client[w].alive
<1> DEFINE c == client[w]
<1>0. client \in [Windows -> Clients] /\ c \in Clients
  BY DEF Types
<1>1. \A v, d : Becomes(v, d) => client'[w] = IF w = v THEN d ELSE client[w]
  BY <1>0 DEF Becomes
<1>2. CASE HandleFullscreen
  <2>1. (Head(queue).type = "SetFullscreen") \in BOOLEAN
    OBVIOUS
  <2>2. \/ Becomes(Head(queue).window,
                   SetFullscreen(client[Head(queue).window], Head(queue).type = "SetFullscreen"))
        \/ client' = client
    BY <1>2 DEF HandleFullscreen
  <2>3. \A on \in BOOLEAN : SetFullscreen(c, on).alive = c.alive
    BY <1>0, LivesAre
  <2>4. CASE w = Head(queue).window
    BY <1>1, <2>1, <2>2, <2>3, <2>4
  <2>5. CASE w # Head(queue).window
    BY <1>1, <2>2, <2>5
  <2> QED BY <2>4, <2>5
<1>3. CASE HandleIconify
  BY <1>3 DEF HandleIconify
<1>4. CASE HandleDesktop
  <2>1. client'[w] = c \/ client'[w] = DesktopChange(c, Head(queue).window)
    BY <1>4 DEF HandleDesktop
  <2>2. \A d : DesktopChange(c, d).alive = c.alive
    BY <1>0, LivesAre
  <2> QED BY <2>1, <2>2
<1>5. CASE \E u \in Windows : Activate(u)
  <2>1. Shown(c).alive = c.alive
    BY <1>0, LivesAre
  <2>2. PICK u \in Windows : Becomes(u, Shown(client[u]))
    BY <1>5 DEF Activate
  <2> QED BY <1>1, <2>1, <2>2
<1> QED BY <1>2, <1>3, <1>4, <1>5

-----------------------------------------------------------------------------
(* The invariant.                                                           *)

\* Whether a client is gone, in the words of the stack.
LEMMA StackedAlive ==
  ASSUME IInv, NEW w \in Windows
  PROVE  client[w].stacked = client[w].alive /\ client[w].listed = client[w].alive
BY DEF IInv, Good, Whole

\* One compositor client changes, with the textures of all the others.
LEMMA ReceiverBecomes ==
  ASSUME CmInv, NEW u \in Windows, NEW d \in CmClients, Sound(d), NEW n,
         cm' = [Aging(n) EXCEPT ![u] = d],
         d.linked = client'[u].alive,
         \A w \in Windows \ {u} : client'[w].alive = client[w].alive
  PROVE  CmInv'
<1>1. \A w \in Windows : Sound(Aged(w, n)) /\ Aged(w, n).linked = cm[w].linked
  BY AgedIs
<1>2. \A w \in Windows : Aged(w, n) \in CmClients
  BY <1>1 DEF Sound
<1>3. cm' \in [Windows -> CmClients] /\ cm'[u] = d
      /\ \A w \in Windows \ {u} : cm'[w] = Aged(w, n)
  BY <1>2 DEF Aging
<1> QED BY <1>1, <1>3 DEF CmInv

\* No compositor client changes, the textures of all age.
LEMMA AllAge ==
  ASSUME CmInv, NEW n, cm' = Aging(n),
         \A w \in Windows : client'[w].alive = client[w].alive
  PROVE  CmInv'
<1>1. \A w \in Windows : Sound(Aged(w, n)) /\ Aged(w, n).linked = cm[w].linked
  BY AgedIs
<1>2. \A w \in Windows : Aged(w, n) \in CmClients
  BY <1>1 DEF Sound
<1>3. cm' \in [Windows -> CmClients] /\ \A w \in Windows : cm'[w] = Aged(w, n)
  BY <1>2 DEF Aging
<1> QED BY <1>1, <1>3 DEF CmInv

\* One compositor client changes, and no client.
LEMMA OneChanges ==
  ASSUME CmInv, NEW w \in Windows, NEW d, Sound(d), d.linked = cm[w].linked,
         cm' = [cm EXCEPT ![w] = d], client' = client
  PROVE  CmInv'
BY DEF CmInv, Sound

\* The sync shows and hides compositor clients.
LEMMA CmSyncKeeps ==
  ASSUME IInv, CmInv, CmSync
  PROVE  CmInv'
<1> DEFINE n == Len(queue)
           d(w) == LET c == Aged(w, n)
                   IN  IF Resized(w) /\ c.linked THEN Configured(c, w) ELSE c
<1>1. Sync /\ Types
  BY DEF CmSync, IInv
<1>2. ASSUME NEW w \in Windows PROVE Sound(d(w)) /\ d(w).linked = cm[w].linked
  <2> DEFINE c == Aged(w, n)
  <2>1. c \in CmClients /\ Sound(c) /\ c.linked = cm[w].linked
    BY AgedIs DEF Sound
  <2> HIDE DEF c
  <2>2. Sound(Configured(c, w)) /\ Configured(c, w).linked = c.linked
    BY <1>1, <2>1, ConfiguredIs
  <2> QED BY <2>1, <2>2 DEF c
<1>3. cm' = [w \in Windows |-> d(w)]
  BY DEF CmSync
<1>4. \A w \in Windows : client'[w].alive = client[w].alive
  BY <1>1, SyncSparesAll
<1> HIDE DEF d
<1> QED BY <1>2, <1>3, <1>4 DEF CmInv, Sound

\* The handlers that make and free compositor clients.
LEMMA CmHandlersKeep ==
  ASSUME IInv, IInv', CmInv,
         \/ CmMapRequest \/ CmMapNotify \/ HandleGone \/ HandleMessage
  PROVE  CmInv'
<1> DEFINE u == Head(queue).window
           n == Len(queue) - 1
<1>0. Types
  BY DEF IInv
<1>1. CASE HandleMessage
  <2>1. HandleFullscreen \/ HandleIconify \/ HandleDesktop
    BY <1>1 DEF HandleMessage
  <2>2. \A w \in Windows : client'[w].alive = client[w].alive
    BY <1>0, <2>1, LivesSpared
  <2>3. cm' = Aging(n)
    BY <1>1 DEF HandleMessage, Left
  <2> QED BY <2>2, <2>3, AllAge
<1>2. CASE HandleGone
  <2>1. HandleUnmapNotify \/ HandleDestroyNotify
    BY <1>2 DEF HandleGone
  <2>2. u \in Windows
    BY <1>0, <2>1, HeadIs DEF HandleUnmapNotify, HandleDestroyNotify, Receive
  <2>3. /\ \A w \in Windows \ {u} : client'[w].alive = client[w].alive
        /\ client'[u].alive => client[u].alive
    BY <1>0, <2>1, <2>2, LivesEnded
  <2>4. CASE client[u].alive /\ ~client'[u].alive
    <3>1. cm' = [Aging(n) EXCEPT ![u] = Unregistered(cm[u])]
      BY <1>2, <2>4 DEF HandleGone, Receiver, CmBecomes, Left
    <3>2. Sound(Unregistered(cm[u])) /\ ~Unregistered(cm[u]).linked
      BY <2>2, CmClientsAre DEF CmInv
    <3>3. Unregistered(cm[u]).linked \in BOOLEAN /\ client'[u].alive \in BOOLEAN
      BY <2>2, <3>2 DEF Sound, CmClients, IInv, Types, Clients
    <3> QED BY <2>2, <2>3, <2>4, <3>1, <3>2, <3>3, ReceiverBecomes DEF Sound
  <2>5. CASE ~(client[u].alive /\ ~client'[u].alive)
    <3>1. cm' = Aging(n)
      BY <1>2, <2>5 DEF HandleGone, Receiver, Left
    <3>2. client'[u].alive \in BOOLEAN /\ client[u].alive \in BOOLEAN
      BY <2>2 DEF IInv, Types, Clients
    <3>3. \A w \in Windows : client'[w].alive = client[w].alive
      BY <2>3, <2>5, <3>2
    <3> QED BY <3>1, <3>3, AllAge
  <2> QED BY <2>4, <2>5
<1>3. CASE CmMapRequest \/ CmMapNotify
  <2>1. HandleMapRequest \/ HandleMapNotify
    BY <1>3 DEF CmMapRequest, CmMapNotify
  <2>2. u \in Windows
    BY <1>0, <2>1, HeadIs DEF HandleMapRequest, HandleMapNotify, Receive
  <2>3. /\ \A w \in Windows \ {u} : client'[w].alive = client[w].alive
        /\ client[u].stacked => client'[u].stacked
    BY <1>0, <2>1, <2>2, LivesMapped
  <2>4. /\ client[u].stacked = client[u].alive
        /\ client'[u].stacked = client'[u].alive
        /\ client[u].stacked \in BOOLEAN /\ client'[u].stacked \in BOOLEAN
    BY <2>2, StackedAlive DEF IInv, Types, Clients, Good, Whole
  <2> DEFINE r == Registered(cm[u])
  <2>5. cm[u] \in CmClients /\ Sound(cm[u]) /\ cm[u].linked = client[u].alive
    BY <2>2 DEF CmInv
  <2>6. r \in CmClients /\ Sound(r) /\ r.linked = TRUE
    BY <2>5, CmClientsAre DEF Sound, CmClients
  <2>7. PICK d : /\ cm' = [Aging(n) EXCEPT ![u] = d]
                 /\ Sound(d) /\ d.linked = client'[u].alive
    <3>1. CASE CmMapRequest
      <4>1. cm' = [Aging(n) EXCEPT ![u] = IF client'[u].stacked THEN r ELSE cm[u]]
        BY <3>1 DEF CmMapRequest, Receiver, CmBecomes, Left
      <4> HIDE DEF r
      <4> QED BY <2>3, <2>4, <2>5, <2>6, <4>1
    <3>2. CASE CmMapNotify
      <4> DEFINE m == MapNotified(r, u)
                 passed == \/ client[u].stacked /\ client[u].skipMaps = 0 /\ Head(queue).type = "Map"
                           \/ ~client[u].stacked /\ client'[u].stacked
      <4>1. cm' = [Aging(n) EXCEPT ![u] = IF passed THEN m ELSE cm[u]]
        BY <3>2 DEF CmMapNotify, Receiver, CmBecomes, Left
      <4> HIDE DEF r
      <4>2. Sound(m) /\ m.linked = TRUE
        BY <1>0, <2>2, <2>6, MapNotifiedIs DEF Sound, CmClients
      <4> HIDE DEF m
      <4> QED BY <2>3, <2>4, <2>5, <4>1, <4>2
    <3> QED BY <1>3, <3>1, <3>2
  <2> QED BY <2>2, <2>3, <2>7, ReceiverBecomes DEF Sound
<1> QED BY <1>1, <1>2, <1>3

\* Every step of the composite manager keeps the invariant.
LEMMA CmKeeps ==
  ASSUME IInv, IInv', CmInv, [CmNext]_cmVars
  PROVE  CmInv'
<1>0. Types
  BY DEF IInv
<1>1. CASE CmSync
  BY <1>1, CmSyncKeeps
<1>2. CASE Handle
  <2>1. CASE CmMapRequest \/ CmMapNotify \/ HandleGone \/ HandleMessage
    BY <2>1, CmHandlersKeep
  <2>2. ASSUME NEW w \in Windows, HandleDamage(w) PROVE CmInv'
    <3> DEFINE c == cm[w]
               d == [c EXCEPT !.reports = @ - 1]
               e == IF client[w].listed /\ c.linked THEN Repaired(d, w) ELSE d
    <3>1. /\ c \in CmClients /\ Sound(c) /\ c.linked = client[w].alive
          /\ c.linked \in BOOLEAN /\ client[w].listed = client[w].alive
          /\ client[w].listed \in BOOLEAN
      BY <1>0, StackedAlive DEF CmInv, CmClients, Types, Clients
    <3>2. c.reports > 0 /\ cm' = [cm EXCEPT ![w] = e] /\ client' = client
      BY <2>2, <3>1 DEF HandleDamage, CmClients
    <3>3. Sound(e) /\ e.linked = c.linked
      BY <3>1, <3>2, RepairedIs
    <3> HIDE DEF e
    <3> QED BY <3>2, <3>3, OneChanges
  <2>3. ASSUME NEW w \in Windows, CmActivate(w) PROVE CmInv'
    <3>1. Activate(w) /\ cm' = cm
      BY <2>3 DEF CmActivate
    <3>2. \A u \in Windows : client'[u].alive = client[u].alive
      BY <1>0, <3>1, LivesSpared
    <3> QED BY <3>1, <3>2 DEF CmInv
  <2> QED BY <1>2, <2>1, <2>2, <2>3 DEF Handle
<1>3. CASE App
  <2>1. client' = client
    BY <1>3 DEF App, AppMap, AppWithdraw, AppDestroy, Message
  <2> QED BY <1>3, <2>1, AllAge DEF App
<1>4. ASSUME NEW w \in Windows, NEW on \in BOOLEAN,
             Draw(w) \/ SetDontUpdate(w, on) \/ TrackDamage(w, on)
      PROVE  CmInv'
  <2> DEFINE c == cm[w]
  <2>1. c \in CmClients /\ Sound(c)
    BY DEF CmInv
  <2>2. CASE Draw(w)
    <3> DEFINE d == [c EXCEPT !.texture = IF @ = "current" THEN "stale" ELSE @]
    <3>1. d \in CmClients /\ Sound(d) /\ d.linked = c.linked
      <4>1. \A x \in {"none", "old", "stale", "skipped", "current"} :
               LET y == [c EXCEPT !.texture = x]
               IN  y \in CmClients /\ Sound(y) /\ y.linked = c.linked
        <5> HIDE DEF c
        <5> QED BY <2>1 DEF Sound, CmClients
      <4>2. c.texture \in {"none", "old", "stale", "skipped", "current"}
        BY <2>1 DEF CmClients
      <4> QED BY <4>1, <4>2
    <3>2. cm' = [cm EXCEPT ![w] = Reported(d)] /\ client' = client
      BY <2>2 DEF Draw, Changes
    <3> HIDE DEF d
    <3>3. Sound(Reported(d)) /\ Reported(d).linked = d.linked
      BY <3>1, CmClientsAre
    <3> QED BY <3>1, <3>2, <3>3, OneChanges
  <2>3. CASE SetDontUpdate(w, on)
    <3>1. Sound([c EXCEPT !.waits = on]) /\ [c EXCEPT !.waits = on].linked = c.linked
      <4> HIDE DEF c
      <4> QED BY <2>1 DEF Sound, CmClients
    <3>2. cm' = [cm EXCEPT ![w] = [c EXCEPT !.waits = on]] /\ client' = client
      BY <2>3 DEF SetDontUpdate, Changes
    <3> QED BY <3>1, <3>2, OneChanges
  <2>4. CASE TrackDamage(w, on)
    <3>1. c.linked = TRUE
      BY <2>1, <2>4 DEF TrackDamage, Sound, CmClients
    <3> DEFINE d == IF on THEN Tracked(c, w) ELSE Untracked(c)
    <3>2. cm' = [cm EXCEPT ![w] = d] /\ client' = client
      BY <2>4 DEF TrackDamage, Changes
    <3>3. Sound(d) /\ d.linked = c.linked
      <4>1. Sound(Tracked(c, w)) /\ Tracked(c, w).linked
        BY <2>1, <3>1, TrackedIs
      <4>2. Sound(Untracked(c)) /\ Untracked(c).linked = c.linked
        BY <2>1, CmClientsAre
      <4> QED BY <3>1, <4>1, <4>2 DEF Sound, CmClients
    <3> HIDE DEF d
    <3> QED BY <3>2, <3>3, OneChanges
  <2> QED BY <1>4, <2>2, <2>3, <2>4
<1>5. CASE UNCHANGED cmVars
  BY <1>5 DEF cmVars, CmInv
<1> QED BY <1>1, <1>2, <1>3, <1>4, <1>5 DEF CmNext

\* The compositor clients of the windows that were there before.
LEMMA CmInitKeeps ==
  ASSUME CmInit, IInv
  PROVE  CmInv
<1>1. NoCm \in CmClients /\ Sound(NoCm) /\ ~NoCm.linked
  BY DEF NoCm, Sound, CmClients
<1>2. Sound(Registered(NoCm)) /\ Registered(NoCm).linked
  BY <1>1, CmClientsAre
<1>3. \A w \in Windows : client[w].alive \in BOOLEAN
  BY DEF IInv, Types, Clients
<1>4. cm = [w \in Windows |-> IF client[w].alive THEN Registered(NoCm) ELSE NoCm]
  BY DEF CmInit
<1>5. NoCm.linked = FALSE /\ Registered(NoCm).linked = TRUE
  BY <1>1, <1>2 DEF Sound, CmClients
<1> QED BY <1>1, <1>2, <1>3, <1>4, <1>5 DEF CmInv, Sound

(* On one desktop, drawing is never lost track of: as long as a damage      *)
(* object is not empty a damage event is under way                          *)
(* (mb_wm_comp_mgr_clutter_handle_damage subtracts the damage even of a     *)
(* client it does not draw), and a compositor client lives exactly as long  *)
(* as its client.  With several desktops, a client freed on the stack may   *)
(* get a compositor client again.                                           *)
THEOREM DamageIsHeard == ASSUME Desktops = {0} PROVE CmSpec => []DamageHeard
<1> USE LifecycleAssumption
<1>1. CmInit /\ IInv => CmInv
  BY CmInitKeeps
<1>2. CmInv /\ IInv /\ IInv' /\ [CmNext]_cmVars => CmInv'
  BY CmKeeps
<1>3. CmInv /\ TypeOK => DamageHeard
  BY DEF DamageHeard, CmTypeOK, CmInv, CmClients, Sound
<1> QED BY <1>1, <1>2, <1>3, ImplementsLifecycle, InvariantHolds, TypesHold, PTL DEF CmSpec

-----------------------------------------------------------------------------
(* Textures.  A window whose client has more unmap events to come than it   *)
(* is owed is going to be unmanaged; if it comes back from fullscreen while *)
(* it is unmapped, it is not (Doomed), unless it has one more (Lost).       *)

Doomed(v, c) == c.skipUnmaps < Count(v)
Lost(v, x, c) == c.skipUnmaps + (IF x.mapped THEN 0 ELSE 1) < Count(v)

Bound(m) == m.paused \/ m.texture \in {"current", "stale", "skipped"}

\* The compositor client knows whether its client is fullscreen, unless the next sync
\* will tell it, and its texture is bound to the pixmap of a window that stays.
Following(v, x, c, m) ==
  \/ Lost(v, x, c)
  \/ /\ "Fullscreen" \in c.sync /\ c.wanted => m.fullscreen # c.fullscreen
     /\ "Fullscreen" \notin c.sync =>
          \/ m.fullscreen = c.fullscreen
          \/ Doomed(v, c) /\ ("Visibility" \in c.sync \/ ~c.wanted)
     /\ Doomed(v, c) \/ (c.wanted /\ Viewable(x) /\ Bound(m))

\* Until the compositor client hears that its window was mapped, this is the first it
\* will hear.
Awaits(v, x, c, m) ==
  c.alive /\ ~m.mapped => c.skipMaps = 0 /\ Fresh(v, x.mapped)

Decorated(v, x, c, m, p) ==
  /\ c.alive /\ ~c.realized => p /\ ~m.mapped
  /\ c.alive /\ c.realized /\ x.mapped => c.wanted \/ Doomed(v, c)
  /\ c.alive /\ m.mapped /\ x.exists => Following(v, x, c, m)

\* An override window has no frame.
Frameless(v, x) == ~x.framed /\ \A i \in DOMAIN v : v[i] # "MapFrame"

Undecorated(v, x, c, m) ==
  /\ Frameless(v, x)
  /\ c.alive /\ m.mapped /\ x.exists => Doomed(v, c) \/ (Viewable(x) /\ Bound(m))

Follows(w, v, x, c, m, p) ==
  /\ ~c.hiding
  /\ Ordered(v, x.mapped)
  /\ Awaits(v, x, c, m)
  /\ w \in Plain => Decorated(v, x, c, m, p)
  /\ w \in Overrides => Undecorated(v, x, c, m)

\* Drawing that is not in the texture is in the damage.
TextureSound(w, m) ==
  /\ ~m.mapped => m.texture = "none"
  /\ m.mapped /\ ~m.paused => m.damage # "none"
  /\ m.texture = "stale" /\ ~m.paused => m.damage = "full"
  /\ m.texture = "skipped" => w \notin Ignoring

TexInv ==
  \A w \in Windows :
    /\ TextureSound(w, cm[w])
    /\ \A v : Has(queue, w, v) => Follows(w, v, win[w], client[w], cm[w], pending)

-----------------------------------------------------------------------------
(* A queue has no two views of one window: the places of the events are in  *)
(* order and leave none out.                                                *)
LEMMA PlacesAgree ==
  ASSUME NEW q \in Seq(Events), NEW w, NEW v, Has(q, w, v), NEW u, Has(q, w, u),
         NEW f \in Places(q, w, v), NEW g \in Places(q, w, u)
  PROVE  \A i \in DOMAIN v : i \in DOMAIN u /\ f[i] = g[i]
<1>1. /\ DOMAIN v = 1..Len(v) /\ Len(v) \in Nat /\ DOMAIN u = 1..Len(u) /\ Len(u) \in Nat
      /\ DOMAIN q = 1..Len(q) /\ Len(q) \in Nat
  BY DEF Has
<1>2. /\ f \in [DOMAIN v -> DOMAIN q]
      /\ \A i \in DOMAIN v : IsOf(q[f[i]], w)
      /\ \A i, j \in DOMAIN v : i < j => f[i] < f[j]
      /\ \A k \in DOMAIN q : IsOf(q[k], w) => \E i \in DOMAIN v : f[i] = k
  BY DEF Places
<1>3. /\ g \in [DOMAIN u -> DOMAIN q]
      /\ \A i \in DOMAIN u : IsOf(q[g[i]], w)
      /\ \A i, j \in DOMAIN u : i < j => g[i] < g[j]
      /\ \A k \in DOMAIN q : IsOf(q[k], w) => \E i \in DOMAIN u : g[i] = k
  BY DEF Places
<1> DEFINE Bad == {i \in DOMAIN v : ~(i \in DOMAIN u /\ f[i] = g[i])}
<1> SUFFICES ASSUME Bad # {} PROVE FALSE
  OBVIOUS
<1>4. PICK i \in Bad : \A j \in Bad : i <= j
  <2>1. Bad \in SUBSET Nat
    BY <1>1
  <2> HIDE DEF Bad
  <2> QED BY <2>1, Least
<1>5. i \in DOMAIN v /\ f[i] \in DOMAIN q /\ IsOf(q[f[i]], w) /\ i \in 1..Len(v)
      /\ ~(i \in DOMAIN u /\ f[i] = g[i])
  BY <1>1, <1>2, <1>4
<1>6. \A j \in DOMAIN v : j < i => j \in DOMAIN u /\ f[j] = g[j]
  <2> TAKE j \in DOMAIN v
  <2> HAVE j < i
  <2>1. j \notin Bad
    BY <1>1, <1>4, <1>5
  <2> QED BY <2>1
<1>7. PICK j \in DOMAIN u : g[j] = f[i]
  BY <1>3, <1>5
<1>8. i < j
  <2>1. i # j
    BY <1>5, <1>7
  <2>2. CASE j < i
    <3>1. j \in DOMAIN v
      BY <1>1, <1>5, <1>7, <2>2
    <3>2. f[j] = f[i] /\ f[j] < f[i] /\ f[i] \in Int
      BY <1>1, <1>2, <1>5, <1>6, <1>7, <2>2, <3>1
    <3> QED BY <3>2
  <2> QED BY <1>1, <1>5, <1>7, <2>1, <2>2
<1>9. i \in DOMAIN u
  BY <1>1, <1>5, <1>7, <1>8
<1>10. g[i] < f[i] /\ g[i] \in DOMAIN q /\ IsOf(q[g[i]], w)
  BY <1>3, <1>7, <1>8, <1>9
<1>11. PICK l \in DOMAIN v : f[l] = g[i]
  BY <1>2, <1>10
<1>12. l < i
  <2>1. f[l] \in Int /\ f[i] \in Int /\ l \in Int /\ i \in Int
    BY <1>1, <1>2, <1>5
  <2>2. ~(i < l)
    BY <1>2, <1>5, <1>10, <1>11, <2>1
  <2>3. i # l
    BY <1>5, <1>9, <1>11
  <2> QED BY <2>1, <2>2, <2>3
<1>13. l \in DOMAIN u /\ g[l] = g[i]
  BY <1>6, <1>11, <1>12
<1>14. g[l] < g[i] /\ g[i] \in Int
  BY <1>1, <1>3, <1>9, <1>12, <1>13
<1> QED BY <1>13, <1>14

\* A queue has one view of a window.
LEMMA HasOne ==
  ASSUME NEW q \in Seq(Events), NEW w, NEW v, Has(q, w, v), NEW u, Has(q, w, u)
  PROVE  u = v
<1>1. PICK f \in Places(q, w, v) : TRUE
  BY DEF Has
<1>2. PICK g \in Places(q, w, u) : TRUE
  BY DEF Has
<1>3. /\ \A i \in DOMAIN v : i \in DOMAIN u /\ f[i] = g[i]
      /\ \A i \in DOMAIN u : i \in DOMAIN v
  BY <1>1, <1>2, PlacesAgree
<1>4. v \in Seq(Kinds) /\ u \in Seq(Kinds)
  BY DEF Has
<1>5. Len(v) = Len(u)
  <2>1. DOMAIN v = DOMAIN u
    BY <1>3
  <2> QED BY <1>4, <2>1
<1>6. \A i \in 1..Len(v) : u[i] = v[i]
  <2> TAKE i \in 1..Len(v)
  <2>1. i \in DOMAIN v /\ i \in DOMAIN u
    BY <1>4, <1>5
  <2>2. q[f[i]].type = v[i] /\ q[g[i]].type = u[i]
    BY <1>1, <1>2, <2>1 DEF Places
  <2> QED BY <1>3, <2>1, <2>2
<1> QED BY <1>4, <1>5, <1>6

-----------------------------------------------------------------------------
(* The events of one window.                                                *)

\* The first is done with.
LEMMA OrderTail ==
  ASSUME NEW v \in Seq(Kinds), v # << >>, NEW m, Ordered(v, m)
  PROVE  /\ Ordered(Tail(v), m)
         /\ Fresh(v, m) => Head(v) # "Unmap"
         /\ Fresh(v, m) /\ Head(v) # "Map" => Fresh(Tail(v), m)
         /\ Head(v) = "MapRequest" => Fresh(Tail(v), m)
         /\ Head(v) = "Map" /\ ~m => Count(Tail(v)) # 0
<1> DEFINE t == Tail(v)
<1>1. /\ DOMAIN v = 1..Len(v) /\ DOMAIN t = 1..(Len(v) - 1) /\ Len(v) \in Nat \ {0}
      /\ \A i \in DOMAIN t : t[i] = v[i + 1] /\ i + 1 \in DOMAIN v
      /\ \A i \in DOMAIN v : i # 1 => i - 1 \in DOMAIN t /\ t[i - 1] = v[i]
      /\ Head(v) = v[1] /\ 1 \in DOMAIN v /\ t \in Seq(Kinds)
  OBVIOUS
<1> HIDE DEF t
<1>2. /\ \A i \in DOMAIN t : i \in Int /\ (i + 1) - 1 = i /\ 1 < i + 1
      /\ \A i \in DOMAIN v : i \in Int /\ 1 <= i /\ (i - 1) + 1 = i
      /\ \A i \in DOMAIN t, j \in DOMAIN v : i + 1 < j => j # 1 /\ i < j - 1
      /\ \A i \in DOMAIN t, j \in DOMAIN v : j < i + 1 => j - 1 < i
  BY <1>1
<1>3. /\ \A i \in Unmaps(t) : i + 1 \in Unmaps(v)
      /\ \A i \in Maps(t) : i + 1 \in Maps(v)
      /\ \A i \in Unmaps(v) : i # 1 => i - 1 \in Unmaps(t)
      /\ \A i \in Maps(v) : i # 1 => i - 1 \in Maps(t)
      /\ Unmaps(t) \subseteq DOMAIN t /\ Maps(t) \subseteq DOMAIN t
      /\ Unmaps(v) \subseteq DOMAIN v /\ Maps(v) \subseteq DOMAIN v
      /\ 1 \in Unmaps(v) <=> Head(v) = "Unmap"
      /\ 1 \in Maps(v) <=> Head(v) = "Map"
  BY <1>1, <1>2 DEF Unmaps, Maps
<1>4. Ordered(t, m)
  <2>1. ASSUME NEW i \in DOMAIN t, t[i] = "MapRequest", NEW k \in Unmaps(t), i < k
        PROVE  \E j \in Maps(t) : i < j /\ j < k
    <3>0. i + 1 \in DOMAIN v /\ v[i + 1] = "MapRequest" /\ k + 1 \in Unmaps(v) /\ i + 1 < k + 1
      BY <1>1, <1>3, <2>1
    <3>1. PICK j \in Maps(v) : i + 1 < j /\ j < k + 1
      BY <3>0 DEF Ordered
    <3>2. j - 1 \in Maps(t) /\ i < j - 1 /\ j - 1 < k
      BY <1>2, <1>3, <2>1, <3>1, SMTT(30)
    <3> QED BY <3>2
  <2>2. ASSUME m, NEW i \in DOMAIN t, t[i] = "MapRequest" PROVE \E j \in Maps(t) : i < j
    <3>1. PICK j \in Maps(v) : i + 1 < j
      BY <1>1, <2>2 DEF Ordered
    <3>2. j - 1 \in Maps(t) /\ i < j - 1
      BY <1>2, <1>3, <2>2, <3>1
    <3> QED BY <3>2
  <2>3. ASSUME ~m PROVE Followed(t, {"Map"})
    <3>1. Followed(v, {"Map"})
      BY <2>3 DEF Ordered
    <3>2. ASSUME NEW i \in DOMAIN t, t[i] \in {"Map"} PROVE \E k \in Unmaps(t) : i < k
      <4>1. PICK k \in Unmaps(v) : i + 1 < k
        BY <1>1, <3>1, <3>2 DEF Followed
      <4>2. k - 1 \in Unmaps(t) /\ i < k - 1
        BY <1>2, <1>3, <3>2, <4>1
      <4> QED BY <4>2
    <3> QED BY <3>2 DEF Followed
  <2> QED BY <2>1, <2>2, <2>3 DEF Ordered
<1>5. Fresh(v, m) => Head(v) # "Unmap"
  <2> SUFFICES ASSUME Fresh(v, m), Head(v) = "Unmap" PROVE FALSE
    OBVIOUS
  <2>1. 1 \in Unmaps(v)
    BY <1>3
  <2>2. PICK j \in Maps(v) : j < 1
    BY <2>1 DEF Fresh, MapNext
  <2> QED BY <1>2, <1>3, <2>2
<1>6. ASSUME Fresh(v, m), Head(v) # "Map" PROVE Fresh(t, m)
  <2> SUFFICES ASSUME m \/ Unmaps(t) # {} PROVE MapNext(t)
    BY DEF Fresh
  <2>1. m \/ Unmaps(v) # {}
    BY <1>3
  <2>2. PICK j \in Maps(v) : \A i \in Unmaps(v) : j < i
    BY <1>6, <2>1 DEF Fresh, MapNext
  <2>3. j - 1 \in Maps(t) /\ \A i \in Unmaps(t) : j - 1 < i
    BY <1>2, <1>3, <1>6, <2>2
  <2> QED BY <2>3 DEF MapNext
<1>7. ASSUME Head(v) = "MapRequest" PROVE Fresh(t, m)
  <2> SUFFICES ASSUME m \/ Unmaps(t) # {} PROVE MapNext(t)
    BY DEF Fresh
  <2> DEFINE A == {j \in Maps(v) : 1 < j}
  <2>1. A # {}
    <3>1. CASE m
      BY <1>1, <1>7, <3>1 DEF Ordered
    <3>2. CASE Unmaps(t) # {}
      <4>1. PICK k \in Unmaps(v) : 1 < k
        BY <1>2, <1>3, <3>2
      <4> QED BY <1>1, <1>7, <4>1 DEF Ordered
    <3> QED BY <3>1, <3>2
  <2>2. A \in SUBSET Nat
    BY <1>1, <1>3
  <2> HIDE DEF A
  <2>3. PICK j \in A : \A i \in A : j <= i
    BY <2>1, <2>2, Least
  <2>4. j \in Maps(v) /\ 1 < j /\ \A i \in Maps(v) : 1 < i => j <= i
    BY <2>3 DEF A
  <2>5. ASSUME NEW i \in Unmaps(t) PROVE j - 1 < i
    <3>1. i + 1 \in Unmaps(v) /\ 1 < i + 1
      BY <1>2, <1>3
    <3>2. PICK l \in Maps(v) : 1 < l /\ l < i + 1
      BY <1>1, <1>7, <3>1 DEF Ordered
    <3> QED BY <1>2, <1>3, <2>4, <3>2
  <2>6. j - 1 \in Maps(t)
    BY <1>2, <1>3, <2>4
  <2> QED BY <2>5, <2>6 DEF MapNext
<1>8. ASSUME Head(v) = "Map", ~m PROVE Count(t) # 0
  <2>1. PICK k \in Unmaps(v) : 1 < k
    BY <1>1, <1>8 DEF Ordered, Followed
  <2>2. Unmaps(t) # {}
    BY <1>2, <1>3, <2>1
  <2> QED BY <1>1, <2>2, CountIsNat
<1> QED BY <1>4, <1>5, <1>6, <1>7, <1>8 DEF t

\* One more.
LEMMA OrderAppend ==
  ASSUME NEW v \in Seq(Kinds), NEW m \in BOOLEAN, NEW n \in BOOLEAN, NEW k \in Kinds,
         /\ k = "Map" => ~m /\ n
         /\ k = "Unmap" => m /\ ~n
         /\ k = "MapRequest" => ~m
         /\ k \notin {"Map", "Unmap"} => m = n
  PROVE  /\ Ordered(v, m) => Ordered(Append(v, k), n)
         /\ Fresh(v, m) => Fresh(Append(v, k), n)
<1>1. CASE k \in {"Map", "Unmap"}
  <2>1. Grows(v, m, Append(v, k), n)
    BY <1>1, GrowsByOne
  <2> QED BY <2>1 DEF Grows
<1>2. CASE k \notin {"Map", "Unmap"}
  <2> DEFINE u == Append(v, k)
  <2>1. /\ DOMAIN v = 1..Len(v) /\ DOMAIN u = 1..(Len(v) + 1) /\ Len(v) \in Nat
        /\ \A i \in DOMAIN v : u[i] = v[i] /\ i < Len(v) + 1 /\ i \in DOMAIN u
        /\ \A i \in DOMAIN u : i \notin DOMAIN v => i = Len(v) + 1
        /\ u[Len(v) + 1] = k /\ Len(v) + 1 \in DOMAIN u
    OBVIOUS
  <2> HIDE DEF u
  <2>2. Unmaps(u) = Unmaps(v) /\ Maps(u) = Maps(v) /\ Unmaps(v) \subseteq DOMAIN v
    BY <1>2, <2>1 DEF Unmaps, Maps
  <2>3. Fresh(v, m) => Fresh(u, n)
    BY <1>2, <2>2 DEF Fresh, MapNext
  <2>4. ASSUME Ordered(v, m) PROVE Ordered(u, n)
    <3>1. ASSUME NEW i \in DOMAIN u, u[i] = "MapRequest", i \notin DOMAIN v
          PROVE  ~n /\ \A j \in Unmaps(u) : ~(i < j)
      BY <1>2, <2>1, <2>2, <3>1
    <3>2. \A i \in DOMAIN u : u[i] = "MapRequest" =>
             \A j \in Unmaps(u) : i < j => \E l \in Maps(u) : i < l /\ l < j
      BY <2>1, <2>2, <2>4, <3>1 DEF Ordered
    <3>3. n => \A i \in DOMAIN u : u[i] = "MapRequest" => \E l \in Maps(u) : i < l
      BY <1>2, <2>1, <2>2, <2>4, <3>1 DEF Ordered
    <3>4. ~n => Followed(u, {"Map"})
      BY <1>2, <2>1, <2>2, <2>4 DEF Ordered, Followed
    <3> QED BY <3>2, <3>3, <3>4 DEF Ordered
  <2> QED BY <2>3, <2>4 DEF u
<1> QED BY <1>1, <1>2

\* Those of which some are unmap events.
LEMMA CountMore ==
  ASSUME NEW v \in Seq(Kinds), NEW t \in Seq(Kinds), Unmaps(t) # {}
  PROVE  Count(v) < Count(v \o t)
<1>1. /\ DOMAIN v = 1..Len(v) /\ DOMAIN t = 1..Len(t) /\ Len(v) \in Nat /\ Len(t) \in Nat
      /\ v \o t \in Seq(Kinds) /\ DOMAIN (v \o t) = 1..(Len(v) + Len(t))
      /\ \A i \in DOMAIN v : (v \o t)[i] = v[i] /\ i \in DOMAIN (v \o t)
      /\ \A i \in DOMAIN t : /\ (v \o t)[Len(v) + i] = t[i] /\ Len(v) + i \in DOMAIN (v \o t)
                             /\ Len(v) + i \notin DOMAIN v
  OBVIOUS
<1>2. PICK i \in DOMAIN t : t[i] = "Unmap"
  BY DEF Unmaps
<1>3. Unmaps(v) \in SUBSET Unmaps(v \o t)
  BY <1>1 DEF Unmaps
<1>4. Len(v) + i \in Unmaps(v \o t) /\ Len(v) + i \notin Unmaps(v)
  BY <1>1, <1>2 DEF Unmaps
<1>5. IsFiniteSet(Unmaps(v \o t)) /\ Count(v) \in Nat /\ Count(v \o t) \in Nat
  BY <1>1, CountIsNat
<1>6. /\ Cardinality(Unmaps(v)) <= Cardinality(Unmaps(v \o t))
      /\ Cardinality(Unmaps(v)) = Cardinality(Unmaps(v \o t)) => Unmaps(v) = Unmaps(v \o t)
  BY <1>3, <1>5, FS_Subset
<1> QED BY <1>4, <1>5, <1>6 DEF Count

\* Less events, or one more that is not of a frame.
LEMMA FramelessMore ==
  ASSUME NEW v \in Seq(Kinds), NEW x, Frameless(v, x)
  PROVE  /\ v # << >> => Frameless(Tail(v), x)
         /\ \A k \in Kinds \ {"MapFrame"} : Frameless(Append(v, k), x)
<1>1. v # << >> => Frameless(Tail(v), x)
  BY DEF Frameless
<1>2. ASSUME NEW k \in Kinds, k # "MapFrame" PROVE Frameless(Append(v, k), x)
  BY <1>2 DEF Frameless
<1> QED BY <1>1, <1>2

\* How mb_wm_sync changes one window, more exactly.
LEMMA SyncsMore ==
  ASSUME NEW v \in Seq(Kinds), NEW r \in Requests, r.out = << >>,
         r.x.mapped => r.x.exists,
         r.c.sync # {} => "Visibility" \in r.c.sync
  PROVE  LET s == VisibilitySync(FullscreenSync(Realize(r)))
         IN  /\ r.c.realized /\ ~Framing(r) /\ r.c.wanted => Count(Told(v, s)) = Count(v)
             /\ ~r.c.wanted /\ s.x.mapped => r.x.mapped
             /\ ~r.c.wanted /\ r.x.mapped /\ ~r.c.realized => Count(v) + 1 <= Count(Told(v, s))
             /\ Framing(r) /\ ~r.c.fullscreen /\ r.x.exists => s.x.framed
<1> DEFINE p == Realize(r)
           q == FullscreenSync(p)
           s == VisibilitySync(q)
<1>1. Told(v, r) = v /\ Count(v) \in Nat
  BY ToldMore, CountIsNat
<1>2. /\ p \in Requests /\ Alike(r.c, p.c) /\ Stays(r, p)
      /\ p.x.mapped = r.x.mapped
      /\ Count(Told(v, p)) = IF r.c.realized THEN Count(Told(v, r)) ELSE More(v, r)
  BY RealizeDoes, Zenon
<1> HIDE DEF p
<1>3. Framing(p) <=> Framing(r)
  BY <1>2 DEF Framing, Alike
<1>4. /\ ~Framing(r) => q = p
      /\ Framing(r) => /\ q \in Requests /\ Alike(p.c, q.c)
                       /\ q.x.framed = IF p.x.exists THEN ~p.c.fullscreen ELSE p.x.framed
  <2>1. CASE Framing(r)
    BY <1>2, <1>3, <2>1, FullscreenSyncDoes, Zenon
  <2>2. CASE ~Framing(r)
    BY <1>2, <1>3, <2>2, FullscreenSyncDoes, Zenon
  <2> QED BY <2>1, <2>2
<1>5. q \in Requests /\ Alike(r.c, q.c)
  BY <1>2, <1>4 DEF Alike
<1> HIDE DEF q
<1>6. /\ s \in Requests /\ s.x.framed = q.x.framed
      /\ "Visibility" \notin q.c.sync => s = q
      /\ "Visibility" \in q.c.sync /\ q.c.wanted => Count(Told(v, s)) = Count(Told(v, q))
      /\ "Visibility" \in q.c.sync /\ ~q.c.wanted =>
           /\ s.x.mapped => q.x.mapped
           /\ Count(Told(v, s)) =
                IF q.x.mapped /\ ~s.x.mapped
                THEN Count(Told(v, q)) + 1 ELSE Count(Told(v, q))
  BY <1>5, VisibilitySyncDoes, Zenon
<1>7. Count(Told(v, q)) \in Nat
  BY <1>5, ToldMore, CountIsNat
<1> HIDE DEF s
<1>8. q.c.wanted = r.c.wanted /\ p.c.fullscreen = r.c.fullscreen /\ p.x.exists = r.x.exists
      /\ (Framing(r) => r.c.wanted)
  BY <1>2, <1>5 DEF Alike, Stays, Framing
<1>9. r.c.realized /\ ~Framing(r) /\ r.c.wanted => Count(Told(v, s)) = Count(v)
  BY <1>1, <1>2, <1>4, <1>6, <1>8
<1>10. ~r.c.wanted /\ s.x.mapped => r.x.mapped
  BY <1>2, <1>4, <1>6, <1>8
<1>11. ~r.c.wanted /\ r.x.mapped /\ ~r.c.realized => Count(v) + 1 <= Count(Told(v, s))
  <2> HAVE ~r.c.wanted /\ r.x.mapped /\ ~r.c.realized
  <2>1. q = p /\ Count(Told(v, p)) = Count(v) + 1
    BY <1>1, <1>2, <1>4, <1>8 DEF More
  <2> QED BY <1>6, <1>7, <1>8, <2>1
<1>12. Framing(r) /\ ~r.c.fullscreen /\ r.x.exists => s.x.framed
  BY <1>4, <1>6, <1>8
<1> QED BY <1>9, <1>10, <1>11, <1>12 DEF s, q, p

-----------------------------------------------------------------------------
(* What keeps a window followed.                                            *)

\* As many unmap events to come as before that are not owed, and nothing else changed
\* that a texture depends on.
LEMMA StaysFollowed ==
  ASSUME NEW w, NEW v, NEW u, NEW x, NEW y, NEW c \in Clients, NEW d \in Clients,
         NEW m, NEW n, NEW p, NEW o, Follows(w, v, x, c, m, p), p => o,
         Count(v) \in Nat, Count(u) \in Nat, Ordered(u, y.mapped),
         d.skipUnmaps + Count(v) = c.skipUnmaps + Count(u),
         y.mapped = x.mapped, y.exists = x.exists, y.framed = x.framed,
         y.frameMapped = x.frameMapped,
         d.alive = c.alive, d.realized = c.realized, d.wanted = c.wanted,
         d.fullscreen = c.fullscreen, d.sync = c.sync, d.hiding => c.hiding,
         Frameless(v, x) => Frameless(u, y),
         n.mapped = m.mapped,
         c.alive /\ ~m.mapped =>
            d.skipMaps = c.skipMaps /\ (Fresh(v, x.mapped) => Fresh(u, y.mapped)),
         n.fullscreen = m.fullscreen \/ (n.fullscreen = c.fullscreen /\ c.sync = {}),
         c.alive /\ m.mapped /\ Viewable(x) /\ Bound(m) => Bound(n)
  PROVE  Follows(w, u, y, d, n, o)
<1>1. Awaits(u, y, d, n)
  BY DEF Follows, Awaits
<1>2. Viewable(y) = Viewable(x)
  BY DEF Viewable
<1>3. /\ Doomed(v, c) <=> Doomed(u, d)
      /\ Lost(v, x, c) <=> Lost(u, y, d)
  <2>1. c.skipUnmaps \in Nat /\ d.skipUnmaps \in Nat
    BY DEF Clients
  <2> QED BY <2>1 DEF Doomed, Lost
<1>4. c.alive /\ m.mapped /\ Following(v, x, c, m) => Following(u, y, d, n)
  BY <1>2, <1>3 DEF Following
<1>5. w \in Plain => Decorated(u, y, d, n, o)
  BY <1>3, <1>4 DEF Follows, Decorated
<1>6. w \in Overrides => Undecorated(u, y, d, n)
  BY <1>2, <1>3 DEF Follows, Undecorated
<1> QED BY <1>1, <1>5, <1>6 DEF Follows

\* The client is gone.
LEMMA GoneFollowed ==
  ASSUME NEW w, NEW v, NEW x, NEW d, NEW m, NEW p,
         Ordered(v, x.mapped), ~d.alive, ~d.hiding, w \in Overrides => Frameless(v, x)
  PROVE  Follows(w, v, x, d, m, p)
BY DEF Follows, Awaits, Decorated, Undecorated

\* mb_wm_client_show, while no sync is due.
LEMMA ShownFollowed ==
  ASSUME NEW w, NEW v, NEW x, NEW c \in Clients, NEW m, NEW p,
         Follows(w, v, x, c, m, p), c.sync = {}
  PROVE  Follows(w, v, x, Shown(c), m, TRUE)
<1> DEFINE d == Shown(c)
<1>1. /\ d.alive = c.alive /\ d.realized = c.realized /\ d.skipUnmaps = c.skipUnmaps
      /\ d.skipMaps = c.skipMaps /\ d.fullscreen = c.fullscreen /\ d.hiding = c.hiding
      /\ d.wanted /\ d.sync = {"Visibility"}
  BY DEF Shown, Clients
<1> HIDE DEF d
<1>2. (Doomed(v, c) <=> Doomed(v, d)) /\ (Lost(v, x, c) <=> Lost(v, x, d))
  BY <1>1 DEF Doomed, Lost
<1>3. Following(v, x, c, m) => Following(v, x, d, m)
  BY <1>1, <1>2 DEF Following
<1> QED BY <1>1, <1>2, <1>3 DEF Follows, Awaits, Decorated, Undecorated, d

\* mb_wm_client_set_state for fullscreen, while no sync is due.
LEMMA FullscreenFollowed ==
  ASSUME NEW w, NEW v, NEW x, NEW c \in Clients, NEW m \in CmClients, NEW p \in BOOLEAN,
         NEW on \in BOOLEAN, Follows(w, v, x, c, m, p), c.sync = {}
  PROVE  Follows(w, v, x, SetFullscreen(c, on), m, p \/ SetFullscreen(c, on) # c)
<1> DEFINE d == SetFullscreen(c, on)
<1>1. CASE c.fullscreen = on
  <2>1. d = c
    BY <1>1 DEF SetFullscreen
  <2> HIDE DEF d
  <2>2. (p \/ d # c) = p
    BY <2>1
  <2> QED BY <2>1, <2>2 DEF d
<1>2. CASE c.fullscreen # on
  <2>1. /\ d.alive = c.alive /\ d.realized = c.realized /\ d.skipUnmaps = c.skipUnmaps
        /\ d.skipMaps = c.skipMaps /\ d.fullscreen = on /\ d.hiding = c.hiding
        /\ d.wanted = c.wanted /\ d.sync = {"Fullscreen", "Visibility"} /\ d # c
    BY <1>2 DEF SetFullscreen, Clients
  <2>2. c.fullscreen \in BOOLEAN /\ m.fullscreen \in BOOLEAN
    BY DEF Clients, CmClients
  <2> HIDE DEF d
  <2>3. (Doomed(v, c) <=> Doomed(v, d)) /\ (Lost(v, x, c) <=> Lost(v, x, d))
    BY <2>1 DEF Doomed, Lost
  <2>4. Following(v, x, c, m) => Following(v, x, d, m)
    BY <1>2, <2>1, <2>2, <2>3 DEF Following
  <2> QED BY <2>1, <2>3, <2>4 DEF Follows, Awaits, Decorated, Undecorated, d
<1> QED BY <1>1, <1>2

\* A client is made for a window that was asked to be mapped, or for an override window.
LEMMA NewFollowed ==
  ASSUME NEW w, NEW v, NEW x, NEW d, NEW m,
         Ordered(v, x.mapped), d.skipMaps = 0, ~d.realized, ~d.hiding,
         ~m.mapped, Fresh(v, x.mapped), w \in Overrides => Frameless(v, x)
  PROVE  Follows(w, v, x, d, m, TRUE)
BY DEF Follows, Awaits, Decorated, Undecorated

\* The window is unmapped, by its application or by mb_wm_client_iconize.
LEMMA UnmappedFollowed ==
  ASSUME NEW w, NEW v \in Seq(Kinds), NEW x \in XRecords, NEW y \in XRecords, NEW c \in Clients,
         NEW m, NEW n, NEW p, Follows(w, v, x, c, m, p),
         x.mapped, ~y.mapped, y.exists = x.exists, y.framed = x.framed,
         n.mapped = m.mapped, n.fullscreen = m.fullscreen,
         w \in Plain => Owed(v, x, c),
         c.alive /\ w \in Overrides => c.skipUnmaps = 0
  PROVE  Follows(w, Append(v, "Unmap"), y, c, n, p)
<1> DEFINE u == Append(v, "Unmap")
<1>1. "Unmap" \in Kinds /\ x.mapped = TRUE /\ y.mapped = FALSE
  BY DEF Kinds, EventTypes, XRecords
<1>2. /\ Count(u) = Count(v) + 1 /\ Count(v) \in Nat /\ c.skipUnmaps \in Nat
      /\ Ordered(v, TRUE) => Ordered(u, FALSE)
      /\ Fresh(v, TRUE) => Fresh(u, FALSE)
  BY <1>1, CountAppend, CountIsNat, OrderAppend DEF Clients
<1> HIDE DEF u
<1>3. Awaits(u, y, c, n)
  BY <1>1, <1>2 DEF Follows, Awaits
<1>4. w \in Plain => Decorated(u, y, c, n, p)
  <2> HAVE w \in Plain
  <2>1. c.alive /\ y.exists => Doomed(u, c)
    BY <1>2 DEF Owed, Doomed
  <2>2. Lost(v, x, c) => Lost(u, y, c)
    BY <1>1, <1>2 DEF Lost
  <2>3. c.alive /\ y.exists /\ Following(v, x, c, m) => Following(u, y, c, n)
    BY <2>1, <2>2 DEF Following, Doomed
  <2> QED BY <1>1, <2>3 DEF Follows, Decorated
<1>5. w \in Overrides => Undecorated(u, y, c, n)
  <2>1. Frameless(v, x) => Frameless(u, y)
    BY FramelessMore DEF u, Frameless
  <2> QED BY <1>2, <2>1 DEF Follows, Undecorated, Doomed
<1> QED BY <1>1, <1>2, <1>3, <1>4, <1>5 DEF Follows, u

\* The first that is heard of the window is that it was mapped.
LEMMA FirstMapFollowed ==
  ASSUME NEW w \in Windows, NEW v \in Seq(Kinds), v # << >>, Head(v) = "Map",
         NEW x \in XRecords, NEW c \in Clients, NEW d, NEW m, NEW n,
         Follows(w, v, x, c, m, FALSE), Whole(x, c, FALSE), Preexisting = {}, ActivatesNew,
         w \in Plain => Owed(v, x, c) /\ Seen(v, x, c),
         c.alive /\ w \in Overrides => c.skipUnmaps = 0,
         d.skipUnmaps = c.skipUnmaps, d.alive = c.alive, d.realized = c.realized,
         d.wanted = c.wanted, d.fullscreen = c.fullscreen, d.sync = c.sync,
         d.hiding => c.hiding, n.mapped, n.fullscreen = c.fullscreen,
         Viewable(x) => Bound(n)
  PROVE  Follows(w, Tail(v), x, d, n, FALSE)
<1> DEFINE u == Tail(v)
<1>1. Ordered(v, x.mapped) /\ c.sync = {}
  BY DEF Follows, Whole
<1>2. /\ u \in Seq(Kinds) /\ Count(u) = Count(v) /\ Count(v) \in Nat
      /\ Ordered(u, x.mapped) /\ (x.mapped \/ Count(u) # 0)
      /\ c.skipUnmaps \in Nat
  <2>1. u \in Seq(Kinds)
    OBVIOUS
  <2>2. Count(v) = Count(u) + 0 /\ Count(u) \in Nat
    BY <2>1, CountTail, CountIsNat
  <2>3. Ordered(u, x.mapped) /\ (x.mapped \/ Count(u) # 0)
    BY <1>1, OrderTail
  <2> QED BY <2>1, <2>2, <2>3 DEF Clients
<1> HIDE DEF u
<1>3. /\ Doomed(u, d) <=> Doomed(v, c)
      /\ Doomed(v, c) => ~(c.skipUnmaps >= Count(v))
  BY <1>2 DEF Doomed
<1>4. w \in Plain => Decorated(u, x, d, n, FALSE)
  <2> HAVE w \in Plain
  <2>1. c.alive => c.realized
    BY DEF Follows, Decorated
  <2>2. c.alive /\ x.exists /\ ~Doomed(v, c) => c.wanted /\ Viewable(x)
    <3> HAVE c.alive /\ x.exists /\ ~Doomed(v, c)
    <3>1. x.mapped
      BY <1>1, <1>2 DEF Owed, Doomed
    <3>2. c.wanted
      BY <2>1, <3>1 DEF Follows, Decorated
    <3>3. ~(x.framed /\ ~x.frameMapped)
      BY <1>1, <3>2 DEF Seen, Doomed
    <3> QED BY <3>1, <3>2, <3>3 DEF Viewable
  <2>3. c.alive /\ x.exists => Following(u, x, d, n)
    BY <1>1, <1>3, <2>2 DEF Following
  <2> QED BY <1>3, <2>1, <2>3 DEF Follows, Decorated
<1>5. w \in Overrides => Undecorated(u, x, d, n)
  <2> HAVE w \in Overrides
  <2>1. Frameless(v, x)
    BY DEF Follows, Undecorated
  <2>3. Frameless(u, x) /\ ~x.framed
    BY <2>1, FramelessMore DEF u, Frameless
  <2>2. c.alive /\ ~Doomed(v, c) => x.mapped
    BY <1>2 DEF Doomed
  <2> QED BY <1>3, <2>2, <2>3 DEF Undecorated, Viewable
<1>6. Awaits(u, x, d, n)
  BY DEF Awaits
<1> QED BY <1>2, <1>4, <1>5, <1>6 DEF Follows, u

\* The kinds of events a request causes.
LEMMA KindIs == ASSUME NEW es \in Seq(Reports) PROVE Kind(es) \in Seq(Kinds)
<1>1. /\ Len(es) \in Nat /\ DOMAIN es = 1..Len(es)
      /\ \A i \in 1..Len(es) : es[i] \in Reports
  OBVIOUS
<1>2. \A i \in 1..Len(es) : es[i].type \in Kinds
  BY <1>1 DEF Reports
<1>3. Kind(es) = [i \in 1..Len(es) |-> es[i].type]
  BY <1>1 DEF Kind
<1> QED BY <1>2, <1>3, <1>1

\* The sync of one window whose client is on the stack, n being its compositor client
\* afterwards.
LEMMA SyncedFollowed ==
  ASSUME NEW w \in Windows, w \in Plain, NEW v \in Seq(Kinds), NEW r \in Requests, r.out = << >>,
         NEW m, NEW n, NEW p, ActivatesNew,
         Good(w, v, r.x, r.c, p), Follows(w, v, r.x, r.c, m, p), r.c.alive,
         NEW s, s = VisibilitySync(FullscreenSync(Realize(r))),
         n.mapped = m.mapped,
         n.fullscreen = IF Framing(r) THEN r.c.fullscreen ELSE m.fullscreen,
         Framing(r) /\ m.mapped /\ m.fullscreen # r.c.fullscreen /\ Viewable(s.x) => Bound(n),
         Bound(m) /\ Viewable(s.x) /\ Unmaps(Kind(s.out)) = {} => Bound(n)
  PROVE  Follows(w, Told(v, s), s.x, [s.c EXCEPT !.sync = {}], n, FALSE)
<1> DEFINE x == r.x
           y == s.x
           c == r.c
           d == [s.c EXCEPT !.sync = {}]
           u == Told(v, s)
<1>1. /\ Whole(x, c, p) /\ Owed(v, x, c) /\ Seen(v, x, c)
      /\ Ordered(v, x.mapped) /\ Awaits(v, x, c, m) /\ Decorated(v, x, c, m, p)
  BY DEF Good, Follows
<1>2. /\ x.mapped => x.exists
      /\ c.sync # {} => "Visibility" \in c.sync
      /\ x \in XRecords /\ c \in Clients
  BY <1>1 DEF Whole, Requests
<1>3. /\ s \in Requests /\ Alike(c, s.c) /\ s.c.realized /\ Stays(r, s)
      /\ u \in Seq(Kinds) /\ Grows(v, x.mapped, u, y.mapped)
      /\ Count(v) <= Count(u)
      /\ Framing(r) /\ x.mapped => Count(v) + 1 <= Count(u)
      /\ x.mapped /\ ~y.mapped => Count(v) + 1 <= Count(u)
      /\ s.c.skipUnmaps = c.skipUnmaps \/
           /\ Framing(r) /\ s.c.skipUnmaps = c.skipUnmaps + 1
           /\ c.fullscreen => x.mapped
      /\ c.sync = {} => y.mapped = x.mapped /\ y.frameMapped = x.frameMapped
      /\ Framing(r) /\ x.exists => y.mapped
      /\ c.sync # {} /\ c.wanted =>
           /\ x.exists /\ (c.fullscreen \/ y.framed) => y.mapped
           /\ y.frameMapped <=> ~c.fullscreen
      /\ x.exists =>
           y.framed = IF ~c.realized \/ Framing(r) THEN ~c.fullscreen ELSE x.framed
  BY <1>2, SyncsTo, Zenon
<1>4. /\ c.realized /\ ~Framing(r) /\ c.wanted => Count(u) = Count(v)
      /\ ~c.wanted /\ y.mapped => x.mapped
      /\ ~c.wanted /\ x.mapped /\ ~c.realized => Count(v) + 1 <= Count(u)
  BY <1>2, SyncsMore, Zenon
<1>5. /\ d.alive = c.alive /\ d.realized /\ d.wanted = c.wanted /\ d.sync = {}
      /\ d.fullscreen = c.fullscreen /\ d.skipMaps = c.skipMaps /\ d.hiding = c.hiding
      /\ d.skipUnmaps = s.c.skipUnmaps
  <2>1. s.c \in Clients
    BY <1>3 DEF Requests
  <2> QED BY <1>3, <2>1 DEF Alike, Clients
<1>6. Count(u) = Count(v) => Unmaps(Kind(s.out)) = {}
  <2>1. Kind(s.out) \in Seq(Kinds)
    BY <1>3, KindIs DEF Requests
  <2>2. Unmaps(Kind(s.out)) # {} => Count(v) < Count(v \o Kind(s.out))
    BY <2>1, CountMore
  <2>3. Count(v) \in Nat
    BY CountIsNat
  <2> QED BY <2>2, <2>3 DEF Told
<1>7. y.exists = x.exists /\ y \in XRecords
  BY <1>3 DEF Stays, Requests
<1>8. /\ Framing(r) <=> "Fullscreen" \in c.sync /\ c.wanted
      /\ c.skipUnmaps \in Nat /\ Count(v) \in Nat /\ Count(u) \in Nat
      /\ c.fullscreen \in BOOLEAN
  BY <1>2, <1>3, CountIsNat DEF Framing, Clients
<1> HIDE DEF d, u, y, x, c
<1>9. Ordered(u, y.mapped) /\ Awaits(u, y, d, n)
  BY <1>1, <1>3, <1>5 DEF Awaits, Grows
<1>10. y.mapped => d.wanted \/ Doomed(u, d)
  <2> SUFFICES ASSUME y.mapped, ~c.wanted PROVE Doomed(u, d)
    BY <1>5
  <2>1. x.mapped /\ x.exists /\ c.alive
    BY <1>2, <1>4 DEF c
  <2>2. d.skipUnmaps = c.skipUnmaps
    BY <1>3, <1>5, <1>8
  <2>3. c.skipUnmaps < Count(u)
    <3>1. CASE c.realized
      BY <1>1, <1>3, <1>8, <2>1, <3>1 DEF Decorated, Doomed
    <3>2. CASE ~c.realized
      BY <1>1, <1>4, <1>8, <2>1, <3>2 DEF Owed
    <3> QED BY <3>1, <3>2
  <2> QED BY <2>2, <2>3 DEF Doomed
<1>11. ASSUME n.mapped, y.exists PROVE Following(u, y, d, n)
  <2>1. m.mapped /\ x.exists /\ c.alive /\ c.realized /\ Following(v, x, c, m)
    BY <1>1, <1>7, <1>11 DEF Decorated, c
  <2>2. CASE Lost(v, x, c)
    <3>1. Lost(u, y, d)
      <4>1. CASE Framing(r)
        <5>1. y.mapped
          BY <1>3, <1>8, <2>1, <4>1
        <5>2. d.skipUnmaps <= c.skipUnmaps + 1
          BY <1>3, <1>5, <1>8
        <5>3. x.mapped => Count(v) + 1 <= Count(u)
          BY <1>3, <4>1
        <5>4. d.skipUnmaps < Count(u)
          BY <1>3, <1>5, <1>8, <2>2, <5>2, <5>3 DEF Lost
        <5> QED BY <5>1, <5>4, <1>3, <1>5, <1>8 DEF Lost
      <4>2. CASE ~Framing(r)
        <5>1. d.skipUnmaps = c.skipUnmaps
          BY <1>3, <1>5, <4>2
        <5> QED BY <1>3, <1>8, <2>2, <5>1 DEF Lost
      <4> QED BY <4>1, <4>2
    <3> QED BY <3>1 DEF Following
  <2>3. CASE ~Lost(v, x, c)
    <3>1. /\ "Fullscreen" \in c.sync /\ c.wanted => m.fullscreen # c.fullscreen
          /\ "Fullscreen" \notin c.sync =>
               \/ m.fullscreen = c.fullscreen
               \/ Doomed(v, c) /\ ("Visibility" \in c.sync \/ ~c.wanted)
          /\ Doomed(v, c) \/ (c.wanted /\ Viewable(x) /\ Bound(m))
      BY <2>1, <2>3 DEF Following
    <3>2. CASE Framing(r)
      <4>1. y.mapped /\ y.framed = ~c.fullscreen /\ (y.frameMapped <=> ~c.fullscreen)
        BY <1>3, <1>8, <2>1, <3>2
      <4>2. Viewable(y)
        BY <1>8, <4>1 DEF Viewable
      <4>3. Bound(n)
        BY <1>8, <2>1, <3>1, <3>2, <4>2 DEF y, c
      <4>4. n.fullscreen = d.fullscreen
        BY <1>5, <3>2 DEF c
      <4> QED BY <1>5, <1>8, <3>2, <4>2, <4>3, <4>4 DEF Following
    <3>3. CASE ~Framing(r) /\ ~c.wanted
      <4>1. Doomed(v, c) /\ d.skipUnmaps = c.skipUnmaps
        BY <1>3, <1>5, <3>1, <3>3
      <4>2. Doomed(u, d)
        BY <1>3, <1>8, <4>1 DEF Doomed
      <4> QED BY <1>5, <3>3, <4>2 DEF Following
    <3>4. CASE ~Framing(r) /\ c.wanted
      <4>1. /\ Count(u) = Count(v) /\ d.skipUnmaps = c.skipUnmaps
            /\ "Fullscreen" \notin c.sync /\ n.fullscreen = m.fullscreen
            /\ y.framed = x.framed
        BY <1>3, <1>4, <1>5, <1>8, <2>1, <3>4
      <4>2. /\ Doomed(u, d) <=> Doomed(v, c)
            /\ y.framed <=> ~c.fullscreen
        BY <1>1, <1>7, <2>1, <4>1 DEF Doomed, Seen
      <4>3. Unmaps(Kind(s.out)) = {}
        BY <1>6, <4>1
      <4>4. CASE Doomed(v, c) /\ c.sync # {}
        <5>1. y.mapped
          BY <1>3, <2>1, <3>4, <4>2, <4>4
        <5>2. Lost(u, y, d)
          BY <1>3, <1>5, <1>8, <4>1, <4>4, <5>1 DEF Lost, Doomed
        <5> QED BY <5>2 DEF Following
      <4>5. CASE Doomed(v, c) /\ c.sync = {}
        <5>1. m.fullscreen = c.fullscreen
          BY <3>1, <3>4, <4>5
        <5> QED BY <1>5, <4>1, <4>2, <4>5, <5>1 DEF Following
      <4>6. CASE ~Doomed(v, c)
        <5>1. Viewable(x) /\ Bound(m) /\ m.fullscreen = c.fullscreen
          BY <3>1, <4>1, <4>6
        <5>2. Viewable(y)
          <6>1. CASE c.sync = {}
            BY <1>3, <4>1, <5>1, <6>1 DEF Viewable
          <6>2. CASE c.sync # {}
            <7>1. y.mapped /\ (y.frameMapped <=> ~c.fullscreen)
              BY <1>3, <2>1, <3>4, <4>2, <6>2
            <7> QED BY <1>8, <4>2, <7>1 DEF Viewable
          <6> QED BY <6>1, <6>2
        <5>3. Bound(n)
          BY <4>3, <5>1, <5>2 DEF y
        <5> QED BY <1>5, <3>4, <4>1, <5>1, <5>2, <5>3 DEF Following
      <4> QED BY <4>4, <4>5, <4>6
    <3> QED BY <3>2, <3>3, <3>4
  <2> QED BY <2>2, <2>3
<1>12. Decorated(u, y, d, n, FALSE)
  BY <1>5, <1>10, <1>11 DEF Decorated
<1>13. w \notin Overrides
  BY DEF Plain
<1>14. ~d.hiding
  BY <1>5 DEF Follows, c
<1> QED BY <1>9, <1>12, <1>13, <1>14 DEF Follows, d, u, y

-----------------------------------------------------------------------------
(* The windows that age, and those that do not.                             *)

\* No unmap event of w is among those that were added.
LEMMA NotUnmapped ==
  ASSUME NEW q \in Seq(Events), NEW es \in Seq(Events), queue' = q \o es,
         NEW w \in Windows, NEW v, Has(es, w, v), Unmaps(v) = {}
  PROVE  w \notin UnmappedAfter(Len(q))
<1> SUFFICES ASSUME w \in UnmappedAfter(Len(q)) PROVE FALSE
  OBVIOUS
<1>1. PICK i \in Len(q) + 1 .. Len(queue') : queue'[i].type = "Unmap" /\ queue'[i].window = w
  BY DEF UnmappedAfter
<1>2. Len(q) \in Nat /\ Len(es) \in Nat /\ Len(queue') = Len(q) + Len(es)
      /\ DOMAIN es = 1..Len(es)
  OBVIOUS
<1> DEFINE k == i - Len(q)
<1>3. k \in DOMAIN es /\ queue'[i] = es[k]
  BY <1>1, <1>2
<1>4. IsOf(es[k], w)
  BY <1>1, <1>3 DEF IsOf
<1>5. PICK f \in Places(es, w, v) : TRUE
  BY DEF Has
<1>6. PICK j \in DOMAIN v : f[j] = k
  BY <1>3, <1>4, <1>5 DEF Places
<1>7. v[j] = "Unmap"
  BY <1>1, <1>3, <1>5, <1>6 DEF Places
<1> QED BY <1>7 DEF Unmaps

\* The server's events on o are no others'.
LEMMA OthersStayMapped ==
  ASSUME NEW q \in Seq(Events), NEW o \in Windows, NEW es \in Seq(Reports),
         queue' = q \o OnWindow(o, es)
  PROVE  /\ \A w \in Windows \ {o} : w \notin UnmappedAfter(Len(q))
         /\ Unmaps(Kind(es)) = {} => o \notin UnmappedAfter(Len(q))
<1>1. /\ OnWindow(o, es) \in Seq(Events)
      /\ \A i \in DOMAIN OnWindow(o, es) : IsOf(OnWindow(o, es)[i], o)
      /\ \A u \in Windows \ {o} : \A i \in DOMAIN OnWindow(o, es) : ~IsOf(OnWindow(o, es)[i], u)
      /\ Kind(OnWindow(o, es)) = Kind(es)
  BY OnWindowIs
<1> DEFINE ws == OnWindow(o, es)
<1>2. /\ Has(ws, o, Kind(es))
      /\ \A w \in Windows \ {o} : Has(ws, w, << >>)
  <2> HIDE DEF ws
  <2>1. ws \in Seq(Events)
    BY <1>1 DEF ws
  <2>2. Has(ws, o, Kind(ws))
    BY <1>1, <2>1, HasAllOrNone DEF ws
  <2>3. ASSUME NEW w \in Windows \ {o} PROVE Has(ws, w, << >>)
    BY <1>1, <2>1, HasAllOrNone DEF ws
  <2> QED BY <1>1, <2>2, <2>3 DEF ws
<1>3. Unmaps(<< >>) = {}
  BY DEF Unmaps
<1> HIDE DEF ws
<1>4. ws \in Seq(Events) /\ queue' = q \o ws
  BY <1>1 DEF ws
<1>5. ASSUME NEW w \in Windows \ {o} PROVE w \notin UnmappedAfter(Len(q))
  BY <1>2, <1>3, <1>4, NotUnmapped
<1>6. Unmaps(Kind(es)) = {} => o \notin UnmappedAfter(Len(q))
  BY <1>2, <1>4, NotUnmapped
<1> QED BY <1>5, <1>6

\* What is left of a compositor client by a step of the X server.
LEMMA AgedTexture ==
  ASSUME CmInv, NEW w \in Windows, NEW n
  PROVE  /\ Aged(w, n).mapped = cm[w].mapped /\ Aged(w, n).fullscreen = cm[w].fullscreen
         /\ Aged(w, n).paused = cm[w].paused /\ Aged(w, n).linked = cm[w].linked
         /\ w \notin UnmappedAfter(n) /\ NowViewable(w) => Aged(w, n) = cm[w]
         /\ TextureSound(w, cm[w]) => TextureSound(w, Aged(w, n))
         /\ Aged(w, n) \in CmClients
<1> DEFINE c == cm[w]
<1>1. c \in CmClients
  BY DEF CmInv
<1>2. Aged(w, n) = c \/ (c.texture # "none" /\ Aged(w, n) = [c EXCEPT !.texture = "old"])
  BY <1>1 DEF Aged, CmClients
<1>3. w \notin UnmappedAfter(n) /\ NowViewable(w) => Aged(w, n) = c
  BY <1>1 DEF Aged, CmClients
<1> DEFINE d == [c EXCEPT !.texture = "old"]
<1>4. /\ d.mapped = c.mapped /\ d.fullscreen = c.fullscreen /\ d.paused = c.paused
      /\ d.linked = c.linked /\ d.texture = "old" /\ d.damage = c.damage /\ d \in CmClients
  <2> HIDE DEF c
  <2> QED BY <1>1 DEF CmClients
<1> HIDE DEF c, d
<1>5. c.texture # "none" /\ TextureSound(w, c) => TextureSound(w, d)
  BY <1>4 DEF TextureSound
<1> QED BY <1>1, <1>2, <1>3, <1>4, <1>5 DEF c, d

-----------------------------------------------------------------------------
(* Window by window.                                                        *)

\* Each window is still followed.
LEMMA FollowsEach ==
  ASSUME IInv, TexInv, Types',
         \A w \in Windows :
           /\ TextureSound(w, cm'[w])
           /\ \A v : /\ Has(queue, w, v)
                     /\ Good(w, v, win[w], client[w], pending)
                     /\ Follows(w, v, win[w], client[w], cm[w], pending)
                     => \E u : /\ Has(queue', w, u)
                               /\ Follows(w, u, win'[w], client'[w], cm'[w], pending')
  PROVE  TexInv'
<1>1. ASSUME NEW w \in Windows, NEW t, Has(queue', w, t)
      PROVE  Follows(w, t, win'[w], client'[w], cm'[w], pending')
  <2>1. PICK v : Has(queue, w, v) /\ Good(w, v, win[w], client[w], pending)
    BY DEF IInv
  <2>2. Follows(w, v, win[w], client[w], cm[w], pending)
    BY <2>1 DEF TexInv
  <2>3. PICK u : Has(queue', w, u) /\ Follows(w, u, win'[w], client'[w], cm'[w], pending')
    BY <2>1, <2>2
  <2>4. queue' \in Seq(Events)
    BY DEF Types
  <2>5. t = u
    BY <1>1, <2>3, <2>4, HasOne
  <2> QED BY <2>3, <2>5
<1> QED BY <1>1 DEF TexInv

\* A window on which nothing happens.
LEMMA Bystander ==
  ASSUME IInv, CmInv, TexInv, NEW w \in Windows, pending => pending',
         win'[w] = win[w], client'[w] = client[w],
         \A v : Has(queue, w, v) => Has(queue', w, v),
         NEW n, \/ cm'[w] = cm[w]
                \/ cm'[w] = Aged(w, n) /\ w \notin UnmappedAfter(n)
  PROVE  /\ TextureSound(w, cm'[w])
         /\ \A v : /\ Has(queue, w, v)
                   /\ Good(w, v, win[w], client[w], pending)
                   /\ Follows(w, v, win[w], client[w], cm[w], pending)
                   => \E u : /\ Has(queue', w, u)
                             /\ Follows(w, u, win'[w], client'[w], cm'[w], pending')
<1>1. TextureSound(w, cm[w])
  BY DEF TexInv
<1>2. TextureSound(w, cm'[w])
  BY <1>1, AgedTexture
<1>3. ASSUME NEW v, Has(queue, w, v), Follows(w, v, win[w], client[w], cm[w], pending)
      PROVE  Follows(w, v, win'[w], client'[w], cm'[w], pending')
  <2> DEFINE x == win[w]
             c == client[w]
             m == cm[w]
             n1 == cm'[w]
  <2>1. /\ n1.mapped = m.mapped /\ n1.fullscreen = m.fullscreen
        /\ Viewable(x) => n1 = m
    BY AgedTexture DEF NowViewable
  <2>2. v \in Seq(Kinds) /\ Count(v) \in Nat /\ c \in Clients
    BY <1>3, CountIsNat DEF Has, IInv, Types
  <2>3. Follows(w, v, x, c, m, pending) /\ Ordered(v, x.mapped)
    BY <1>3 DEF Follows
  <2> HIDE DEF x, c, m, n1
  <2>4. Follows(w, v, x, c, n1, pending')
    BY <2>1, <2>2, <2>3, StaysFollowed
  <2> QED BY <2>4 DEF x, c, n1
<1> QED BY <1>2, <1>3

\* A step on one window and what is known of it.
LEMMA OneFollows ==
  ASSUME IInv, CmInv, TexInv, Types', NEW o \in Windows, pending => pending',
         NEW n,
         \A w \in Windows \ {o} :
           /\ win'[w] = win[w] /\ client'[w] = client[w]
           /\ \A v : Has(queue, w, v) => Has(queue', w, v)
           /\ cm'[w] = cm[w] \/ (cm'[w] = Aged(w, n) /\ w \notin UnmappedAfter(n)),
         TextureSound(o, cm'[o]),
         \A v : /\ Has(queue, o, v)
                /\ Good(o, v, win[o], client[o], pending)
                /\ Follows(o, v, win[o], client[o], cm[o], pending)
                => \E u : /\ Has(queue', o, u)
                          /\ Follows(o, u, win'[o], client'[o], cm'[o], pending')
  PROVE  TexInv'
<1>1. ASSUME NEW w \in Windows
      PROVE  /\ TextureSound(w, cm'[w])
             /\ \A v : /\ Has(queue, w, v)
                       /\ Good(w, v, win[w], client[w], pending)
                       /\ Follows(w, v, win[w], client[w], cm[w], pending)
                       => \E u : /\ Has(queue', w, u)
                                 /\ Follows(w, u, win'[w], client'[w], cm'[w], pending')
  <2>1. CASE w = o
    BY <2>1
  <2>2. CASE w # o
    <3>1. /\ win'[w] = win[w] /\ client'[w] = client[w]
          /\ \A v : Has(queue, w, v) => Has(queue', w, v)
          /\ cm'[w] = cm[w] \/ (cm'[w] = Aged(w, n) /\ w \notin UnmappedAfter(n))
      BY <2>2
    <3> QED BY <3>1, Bystander
  <2> QED BY <2>1, <2>2
<1> QED BY <1>1, FollowsEach

\* A handler that causes no events unmaps nothing.
LEMMA NoneUnmapped ==
  ASSUME Types, queue # << >>, queue' = Tail(queue) \o << >>, NEW w \in Windows
  PROVE  w \notin UnmappedAfter(Left)
<1>1. << >> \in Seq(Events) /\ Tail(queue) \in Seq(Events) /\ Left = Len(Tail(queue))
  BY DEF Types, Left
<1>2. Has(<< >>, w, << >>) /\ Unmaps(<< >>) = {}
  BY HasNothing DEF Unmaps
<1>3. w \notin UnmappedAfter(Len(Tail(queue)))
  BY <1>1, <1>2, NotUnmapped
<1> QED BY <1>1, <1>3

-----------------------------------------------------------------------------
(* What the operations do with a texture.                                   *)

\* The texture is bound to the pixmap of a window in view.
LEMMA FetchedTexture ==
  ASSUME NEW c \in CmClients, NEW w, NEW o, c.mapped /\ ~c.paused => c.damage # "none",
         ~c.mapped => c.texture = "none"
  PROVE  LET d == Fetched(c, w)
         IN  /\ TextureSound(o, d)
             /\ d \in CmClients
             /\ d.mapped = c.mapped /\ d.fullscreen = c.fullscreen /\ d.paused = c.paused
             /\ d.linked = c.linked /\ d.damage = c.damage
             /\ c.mapped /\ NowViewable(w) => d.texture = "current"
BY DEF Fetched, TextureSound, CmClients

\* Drawing is taken note of in the damage.
LEMMA ReportedTexture ==
  ASSUME NEW c \in CmClients
  PROVE  LET d == Reported(c)
         IN  /\ d \in CmClients
             /\ d.mapped = c.mapped /\ d.fullscreen = c.fullscreen /\ d.paused = c.paused
             /\ d.linked = c.linked /\ d.texture = c.texture
             /\ c.damage = "none" <=> d.damage = "none"
             /\ c.damage # "none" => d.damage = "full"
<1>1. CASE c.damage # "empty"
  BY <1>1 DEF Reported, CmClients
<1>2. CASE c.damage = "empty"
  <2>1. \A k \in Nat :
          LET d == [c EXCEPT !.damage = "full", !.reports = k]
          IN  /\ d \in CmClients
              /\ d.mapped = c.mapped /\ d.fullscreen = c.fullscreen /\ d.paused = c.paused
              /\ d.linked = c.linked /\ d.texture = c.texture /\ d.damage = "full"
    BY DEF CmClients
  <2>2. c.reports + 1 \in Nat
    BY DEF CmClients
  <2>3. Reported(c) = [c EXCEPT !.damage = "full", !.reports = c.reports + 1]
    BY <1>2 DEF Reported
  <2> HIDE DEF Reported
  <2> QED BY <1>2, <2>1, <2>2, <2>3
<1> QED BY <1>1, <1>2

\* Tracking damage again binds the texture.
LEMMA TrackedTexture ==
  ASSUME NEW c \in CmClients, NEW w, NEW o, c.mapped,
         c.damage # "none" => TextureSound(o, c)
  PROVE  LET d == Tracked(c, w)
         IN  /\ TextureSound(o, d) /\ d \in CmClients
             /\ d.mapped /\ d.fullscreen = c.fullscreen /\ d.linked = c.linked
             /\ d.damage # "none"
             /\ NowViewable(w) /\ (Bound(c) \/ c.damage = "none") => Bound(d)
<1> DEFINE e == [c EXCEPT !.paused = FALSE, !.damage = "empty"]
           f == IF NowViewable(w) THEN Reported(e) ELSE e
<1>1. CASE c.damage # "none"
  BY <1>1 DEF Tracked
<1>2. CASE c.damage = "none"
  <2>1. /\ e \in CmClients /\ e.mapped /\ e.fullscreen = c.fullscreen /\ e.linked = c.linked
        /\ e.damage # "none"
    BY DEF CmClients
  <2>2. Tracked(c, w) = Fetched(f, w)
    BY <1>2 DEF Tracked
  <2> HIDE DEF e
  <2>3. /\ f \in CmClients /\ f.mapped /\ f.fullscreen = c.fullscreen /\ f.linked = c.linked
        /\ f.damage # "none"
    BY <2>1, ReportedTexture
  <2> HIDE DEF f
  <2> DEFINE g == Fetched(f, w)
  <2>4. /\ TextureSound(o, g) /\ g \in CmClients
        /\ g.mapped = f.mapped /\ g.fullscreen = f.fullscreen
        /\ g.linked = f.linked /\ g.damage = f.damage
        /\ f.mapped /\ NowViewable(w) => g.texture = "current"
    BY <2>3, FetchedTexture
  <2> HIDE DEF g
  <2>5. Tracked(c, w) = g
    BY <2>2 DEF g
  <2> HIDE DEF Tracked
  <2> QED BY <1>2, <2>3, <2>4, <2>5 DEF Bound
<1> QED BY <1>1, <1>2

\* A client whose damage is not tracked counts as bound.
LEMMA UntrackedTexture ==
  ASSUME NEW c \in CmClients, NEW o
  PROVE  LET d == Untracked(c)
         IN  /\ TextureSound(o, d) /\ d \in CmClients /\ Bound(d)
             /\ d.mapped = c.mapped /\ d.fullscreen = c.fullscreen /\ d.linked = c.linked
BY DEF Untracked, TextureSound, CmClients, Bound

\* The texture of a client whose map is heard of is bound.
LEMMA MapNotifiedTexture ==
  ASSUME Types, NEW c \in CmClients, NEW w \in Windows, TextureSound(w, c),
         ~client[w].hiding
  PROVE  LET d == MapNotified(c, w)
         IN  /\ TextureSound(w, d) /\ d.mapped
             /\ d.fullscreen = client[w].fullscreen
             /\ NowViewable(w) /\ ~c.mapped => Bound(d)
             /\ c.mapped /\ Bound(c) => Bound(d)
<1> DEFINE seen == [c EXCEPT !.fullscreen = client[w].fullscreen]
           m == [seen EXCEPT !.mapped = TRUE]
           t == Tracked(m, w)
           bound == IF c.mapped THEN seen ELSE Fetched(t, w)
<1>0. client[w].fullscreen \in BOOLEAN
  BY DEF Types, Clients
<1>1. /\ seen \in CmClients /\ seen.fullscreen = client[w].fullscreen /\ seen.mapped = c.mapped
      /\ seen.texture = c.texture /\ seen.damage = c.damage /\ seen.paused = c.paused
  BY <1>0 DEF CmClients
<1>2. MapNotified(c, w) = [bound EXCEPT !.waits = FALSE]
  BY <1>0 DEF MapNotified
<1> HIDE DEF seen
<1>3. c.mapped => TextureSound(w, seen)
  BY <1>1 DEF TextureSound
<1>4. /\ m \in CmClients /\ m.mapped /\ m.fullscreen = client[w].fullscreen
      /\ m.texture = c.texture
  BY <1>1 DEF CmClients
<1> HIDE DEF m
<1>5. ~c.mapped => TextureSound(w, m) \/ m.damage = "none"
  BY <1>4 DEF TextureSound
<1>6. ~c.mapped => /\ t \in CmClients /\ t.mapped /\ t.fullscreen = client[w].fullscreen
                   /\ t.damage # "none"
  <2> HAVE ~c.mapped
  <2>1. m.damage # "none" => TextureSound(w, m)
    BY <1>5
  <2> QED BY <1>4, <2>1, TrackedTexture
<1> HIDE DEF t
<1>7. ~c.mapped => LET d == Fetched(t, w)
                   IN  /\ TextureSound(w, d) /\ d \in CmClients
                       /\ d.mapped /\ d.fullscreen = client[w].fullscreen
                       /\ NowViewable(w) => d.texture = "current"
  BY <1>6, FetchedTexture
<1>8. /\ TextureSound(w, bound) /\ bound \in CmClients /\ bound.mapped
      /\ bound.fullscreen = client[w].fullscreen
      /\ NowViewable(w) /\ ~c.mapped => Bound(bound)
      /\ c.mapped /\ Bound(c) => Bound(bound)
  <2>1. CASE c.mapped
    BY <1>1, <1>3, <2>1 DEF Bound
  <2>2. CASE ~c.mapped
    <3> DEFINE d == Fetched(t, w)
    <3>1. /\ TextureSound(w, d) /\ d \in CmClients
          /\ d.mapped /\ d.fullscreen = client[w].fullscreen
          /\ NowViewable(w) => d.texture = "current"
      BY <1>7, <2>2
    <3>2. bound = d
      BY <2>2
    <3> HIDE DEF d, bound
    <3> QED BY <2>2, <3>1, <3>2 DEF Bound
  <2> QED BY <2>1, <2>2
<1> HIDE DEF bound
<1> DEFINE b == [bound EXCEPT !.waits = FALSE]
<1>9. /\ b.mapped = bound.mapped /\ b.fullscreen = bound.fullscreen /\ b.texture = bound.texture
      /\ b.damage = bound.damage /\ b.paused = bound.paused
  BY <1>8 DEF CmClients
<1>10. MapNotified(c, w) = b
  BY <1>2
<1> HIDE DEF b, MapNotified
<1> QED BY <1>8, <1>9, <1>10 DEF TextureSound, Bound

\* A resized window has its texture bound again.
LEMMA ConfiguredTexture ==
  ASSUME Types, NEW c \in CmClients, NEW w \in Windows, TextureSound(w, c)
  PROVE  LET d == Configured(c, w)
         IN  /\ TextureSound(w, d) /\ d.mapped = c.mapped
             /\ d.fullscreen = client[w].fullscreen
             /\ c.mapped /\ c.fullscreen # client[w].fullscreen /\ NowViewable(w) => Bound(d)
             /\ Bound(c) /\ NowViewable(w) => Bound(d)
<1>1. CASE c.fullscreen = client[w].fullscreen
  BY <1>1 DEF Configured
<1>2. CASE c.fullscreen # client[w].fullscreen
  <2> DEFINE e == [c EXCEPT !.fullscreen = client[w].fullscreen]
             d == Fetched(e, w)
  <2>1. client[w].fullscreen \in BOOLEAN
    BY DEF Types, Clients
  <2>2. /\ e \in CmClients /\ e.mapped = c.mapped /\ e.fullscreen = client[w].fullscreen
        /\ e.paused = c.paused /\ e.texture = c.texture /\ e.damage = c.damage
    BY <2>1 DEF CmClients
  <2>3. Configured(c, w) = d
    BY <1>2 DEF Configured
  <2> HIDE DEF e
  <2>4. /\ e.mapped /\ ~e.paused => e.damage # "none"
        /\ ~e.mapped => e.texture = "none"
    BY <2>2 DEF TextureSound
  <2>5. /\ TextureSound(w, d)
        /\ d.mapped = e.mapped /\ d.fullscreen = e.fullscreen /\ d.paused = e.paused
        /\ e.mapped /\ NowViewable(w) => d.texture = "current"
    BY <2>2, <2>4, FetchedTexture
  <2>6. ~e.mapped /\ e.texture = "none" /\ Bound(c) => Bound(d)
    BY <2>2, <2>5 DEF Bound
  <2> HIDE DEF d, Configured
  <2> QED BY <2>2, <2>3, <2>4, <2>5, <2>6 DEF Bound
<1> QED BY <1>1, <1>2

\* A damage event that is handled, or let go.
LEMMA RepairedTexture ==
  ASSUME NEW c \in CmClients, NEW w \in Windows, TextureSound(w, c), c.reports > 0,
         NEW known \in BOOLEAN, c.linked => known, Sound(c)
  PROVE  LET d == [c EXCEPT !.reports = @ - 1]
             e == IF known /\ c.linked THEN Repaired(d, w) ELSE d
         IN  /\ TextureSound(w, e)
             /\ e.mapped = c.mapped /\ e.fullscreen = c.fullscreen
             /\ Bound(c) => Bound(e)
<1> DEFINE d == [c EXCEPT !.reports = @ - 1]
<1>1. /\ d.linked = c.linked /\ d.damage = c.damage /\ d.texture = c.texture
      /\ d.paused = c.paused /\ d.mapped = c.mapped /\ d.fullscreen = c.fullscreen
      /\ d.waits = c.waits /\ d \in CmClients
  BY DEF CmClients
<1> HIDE DEF d
<1>2. TextureSound(w, d) /\ (Bound(c) => Bound(d))
  BY <1>1 DEF TextureSound, Bound
<1>3. LET e == Repaired(d, w)
      IN  /\ TextureSound(w, e) /\ e.mapped = d.mapped /\ e.fullscreen = d.fullscreen
          /\ Bound(d) => Bound(e)
  <2>1. CASE d.paused
    BY <1>2, <2>1 DEF Repaired
  <2>2. CASE ~d.paused
    <3> DEFINE s == Subtracted(d)
               x == IF s.texture # "stale" THEN s.texture
                    ELSE IF d.waits /\ w \notin Ignoring THEN "skipped" ELSE "current"
               e == [s EXCEPT !.texture = x]
    <3>1. /\ s \in CmClients /\ s.mapped = d.mapped /\ s.fullscreen = d.fullscreen
          /\ s.texture = d.texture /\ s.paused = d.paused
          /\ s.damage = "none" <=> d.damage = "none"
      BY <1>1 DEF Subtracted, CmClients
    <3>2. Repaired(d, w) = e
      BY <2>2 DEF Repaired
    <3> HIDE DEF s
    <3>3. x \in {"none", "old", "stale", "skipped", "current"}
      BY <3>1 DEF CmClients
    <3>4. /\ x # "stale"
          /\ ~d.mapped => x = "none"
          /\ x = "skipped" => w \notin Ignoring
          /\ d.texture \in {"current", "stale", "skipped"} => x \in {"current", "skipped"}
      BY <1>2, <3>1 DEF TextureSound
    <3> HIDE DEF x
    <3>5. /\ e.mapped = d.mapped /\ e.fullscreen = d.fullscreen /\ e.texture = x
          /\ e.paused = d.paused /\ e.damage = s.damage
      BY <3>1 DEF CmClients
    <3> HIDE DEF e, Repaired
    <3> QED BY <1>2, <3>1, <3>2, <3>4, <3>5 DEF TextureSound, Bound
  <2> QED BY <2>1, <2>2
<1> QED BY <1>1, <1>2, <1>3 DEF d

\* Drawing on a window.
LEMMA DrawnTexture ==
  ASSUME NEW c \in CmClients, NEW w, TextureSound(w, c)
  PROVE  LET d == Reported([c EXCEPT !.texture = IF @ = "current" THEN "stale" ELSE @])
         IN  /\ TextureSound(w, d) /\ d.mapped = c.mapped /\ d.fullscreen = c.fullscreen
             /\ Bound(c) => Bound(d)
<1> DEFINE x == IF c.texture = "current" THEN "stale" ELSE c.texture
           e == [c EXCEPT !.texture = x]
           d == Reported(e)
<1>1. /\ x \in {"none", "old", "stale", "skipped", "current"}
      /\ x = "stale" => c.texture \in {"stale", "current"}
      /\ x = c.texture \/ x = "stale"
      /\ c.texture = "none" => x = "none"
      /\ c.texture \in {"current", "stale", "skipped"} => x \in {"stale", "skipped"}
  BY DEF CmClients
<1> HIDE DEF x
<1>2. /\ e \in CmClients /\ e.texture = x /\ e.mapped = c.mapped /\ e.fullscreen = c.fullscreen
      /\ e.paused = c.paused /\ e.damage = c.damage
  BY <1>1 DEF CmClients
<1> HIDE DEF e
<1>3. /\ d.mapped = e.mapped /\ d.fullscreen = e.fullscreen /\ d.paused = e.paused
      /\ d.texture = e.texture
      /\ e.damage = "none" <=> d.damage = "none"
      /\ e.damage # "none" => d.damage = "full"
  BY <1>2, ReportedTexture
<1> HIDE DEF d
<1>4. TextureSound(w, d)
  BY <1>1, <1>2, <1>3 DEF TextureSound
<1>5. Bound(c) => Bound(d)
  BY <1>1, <1>2, <1>3 DEF Bound
<1> QED BY <1>2, <1>3, <1>4, <1>5 DEF d, e, x

-----------------------------------------------------------------------------
(* Every step keeps the textures.                                           *)

\* What mb_wm_sync makes of a compositor client.
LEMMA SyncTexture ==
  ASSUME LifecycleAssumption, IInv, CmInv, TexInv, CmSync, NEW w \in Windows
  PROVE  LET m == cm[w]
             n == cm'[w]
         IN  /\ TextureSound(w, n) /\ n.mapped = m.mapped
             /\ client[w].alive => n.fullscreen = IF Resized(w) THEN client[w].fullscreen
                                                  ELSE m.fullscreen
             /\ client[w].alive /\ Resized(w) /\ m.mapped /\ m.fullscreen # client[w].fullscreen
                  /\ Viewable(Synced(w).x) => Bound(n)
             /\ Bound(m) /\ Viewable(Synced(w).x) /\ Unmaps(Kind(Synced(w).out)) = {} => Bound(n)
<1> DEFINE m == cm[w]
           c == Aged(w, Len(queue))
           e == Configured(c, w)
           n == IF Resized(w) /\ c.linked THEN e ELSE c
<1>0. Types /\ queue \in Seq(Events) /\ m \in CmClients
  BY DEF IInv, Types, CmInv
<1>1. Sync /\ cm'[w] = n
  BY DEF CmSync
<1>2. queue' = queue \o Heralds /\ win'[w] = Synced(w).x
  BY <1>1 DEF Sync, Heralds
<1>3. NowViewable(w) = Viewable(Synced(w).x)
  BY <1>2 DEF NowViewable
<1>4. Heralds \in Seq(Events) /\ Has(Heralds, w, Kind(Synced(w).out))
  BY <1>0, HeraldsAre
<1>5. Unmaps(Kind(Synced(w).out)) = {} => w \notin UnmappedAfter(Len(queue))
  BY <1>0, <1>2, <1>4, NotUnmapped
<1>6. /\ c.mapped = m.mapped /\ c.fullscreen = m.fullscreen /\ c.linked = m.linked
      /\ w \notin UnmappedAfter(Len(queue)) /\ NowViewable(w) => c = m
      /\ TextureSound(w, c) /\ c \in CmClients
  BY AgedTexture DEF TexInv
<1> HIDE DEF c
<1>7. /\ TextureSound(w, e) /\ e.mapped = c.mapped
      /\ e.fullscreen = client[w].fullscreen
      /\ c.mapped /\ c.fullscreen # client[w].fullscreen /\ NowViewable(w) => Bound(e)
      /\ Bound(c) /\ NowViewable(w) => Bound(e)
  BY <1>0, <1>6, ConfiguredTexture
<1> HIDE DEF e
<1>8. m.linked = client[w].alive
  BY DEF CmInv
<1> HIDE DEF m
<1>9. /\ TextureSound(w, n) /\ n.mapped = m.mapped
      /\ client[w].alive => n.fullscreen = IF Resized(w) THEN client[w].fullscreen
                                           ELSE m.fullscreen
      /\ client[w].alive /\ Resized(w) /\ m.mapped /\ m.fullscreen # client[w].fullscreen
           /\ NowViewable(w) => Bound(n)
      /\ Bound(m) /\ NowViewable(w) /\ Unmaps(Kind(Synced(w).out)) = {} => Bound(n)
  <2>1. CASE Resized(w) /\ c.linked
    BY <1>5, <1>6, <1>7, <1>8, <2>1
  <2>2. CASE ~(Resized(w) /\ c.linked)
    BY <1>5, <1>6, <1>8, <2>2
  <2> QED BY <2>1, <2>2
<1> HIDE DEF n
<1> QED BY <1>1, <1>3, <1>9 DEF m

\* A sync: what is unmapped is owed, and what is shown gets its texture.
LEMMA CmSyncFollows ==
  ASSUME LifecycleAssumption, Preexisting = {}, ActivatesNew, IInv, CmInv, TexInv, Types', CmSync
  PROVE  TexInv'
<1>0. Types /\ queue \in Seq(Events) /\ Sync
  BY DEF IInv, Types, CmSync
<1>1. queue' = queue \o Heralds
  BY <1>0 DEF Sync, Heralds
<1>2. ASSUME NEW w \in Windows, NEW v, Has(queue, w, v),
             Good(w, v, win[w], client[w], pending),
             Follows(w, v, win[w], client[w], cm[w], pending)
      PROVE  \E u : Has(queue', w, u) /\ Follows(w, u, win'[w], client'[w], cm'[w], pending')
  <2>1. v \in Seq(Kinds)
    BY <1>2 DEF Has
  <2> DEFINE u == v \o Kind(Synced(w).out)
             s == VisibilitySync(FullscreenSync(Realize(Alone(w))))
             m == cm[w]
             n == cm'[w]
  <2>2. Has(queue', w, u)
    BY <1>0, <1>1, <1>2, HeraldsAre, HasBoth
  <2>3. win'[w] = Synced(w).x /\ client'[w] = Synced(w).c /\ pending' = FALSE
    BY <1>0 DEF Sync
  <2>4. /\ n.mapped = m.mapped
        /\ client[w].alive => n.fullscreen = IF Resized(w) THEN client[w].fullscreen
                                             ELSE m.fullscreen
        /\ client[w].alive /\ Resized(w) /\ m.mapped /\ m.fullscreen # client[w].fullscreen
             /\ Viewable(Synced(w).x) => Bound(n)
        /\ Bound(m) /\ Viewable(Synced(w).x) /\ Unmaps(Kind(Synced(w).out)) = {} => Bound(n)
    BY SyncTexture
  <2>5. /\ Synced(w).x \in XRecords /\ Synced(w).c \in Clients
        /\ Synced(w).out \in Seq(Reports)
        /\ IF ~client[w].stacked \/ w \in Overrides
           THEN /\ Synced(w).x = win[w] /\ Synced(w).out = << >>
                /\ Synced(w).c = [client[w] EXCEPT !.sync = {}]
           ELSE /\ Synced(w).x = s.x /\ Synced(w).out = s.out
                /\ Synced(w).c = [s.c EXCEPT !.sync = {}]
    BY <1>0, SyncedIs
  <2>6. /\ Alone(w) \in Requests /\ Alone(w).x = win[w] /\ Alone(w).c = client[w]
        /\ Alone(w).out = << >> /\ client[w] \in Clients
    BY <1>0, AloneIs
  <2>7. client[w].stacked = client[w].alive
    BY <1>2 DEF Good, Whole
  <2> HIDE DEF m, n, s
  <2>8. Follows(w, u, Synced(w).x, Synced(w).c, n, FALSE)
    <3>1. CASE ~client[w].stacked \/ w \in Overrides
      <4> DEFINE c == client[w]
                 d == [c EXCEPT !.sync = {}]
                 x == win[w]
      <4>1. v \o Kind(<< >>) = v /\ Unmaps(Kind(<< >>)) = {}
        BY <2>1 DEF Kind, Unmaps
      <4>2. u = v /\ Synced(w).x = x /\ Synced(w).c = d
        BY <2>5, <3>1, <4>1
      <4>3. /\ d.alive = c.alive /\ d.hiding = c.hiding /\ d.skipMaps = c.skipMaps
            /\ d.skipUnmaps = c.skipUnmaps
        BY <2>6 DEF Clients
      <4>4. ~Resized(w)
        BY <3>1 DEF Resized
      <4>5. Bound(m) /\ Viewable(x) => Bound(n)
        BY <2>4, <2>5, <3>1, <4>1, <4>2
      <4>6. Follows(w, v, x, c, m, pending)
        BY <1>2 DEF m
      <4>7. w \in Plain => ~c.alive
        BY <2>7, <3>1 DEF Plain
      <4> HIDE DEF d, c, x, u
      <4>8. Awaits(v, x, d, n)
        BY <2>4, <4>3, <4>6 DEF Follows, Awaits
      <4>9. w \in Plain => Decorated(v, x, d, n, FALSE)
        BY <4>3, <4>7 DEF Decorated
      <4>10. w \in Overrides => Undecorated(v, x, d, n)
        BY <2>4, <4>3, <4>5, <4>6 DEF Follows, Undecorated, Doomed
      <4> QED BY <4>2, <4>3, <4>6, <4>8, <4>9, <4>10 DEF Follows
    <3>2. CASE client[w].stacked /\ w \notin Overrides
      <4>1. w \in Plain
        BY <3>2 DEF Plain
      <4>2. Framing(Alone(w)) <=> Resized(w)
        BY <2>6, <3>2 DEF Framing, Resized
      <4>3. client[w].alive
        BY <2>7, <3>2
      <4>4. /\ Good(w, v, Alone(w).x, Alone(w).c, pending)
            /\ Follows(w, v, Alone(w).x, Alone(w).c, m, pending)
        BY <1>2, <2>6 DEF m
      <4>5. s = VisibilitySync(FullscreenSync(Realize(Alone(w))))
        BY DEF s
      <4>6. /\ Synced(w).x = s.x /\ Synced(w).out = s.out
            /\ Synced(w).c = [s.c EXCEPT !.sync = {}]
            /\ Told(v, s) = u
        BY <2>5, <3>2 DEF Told
      <4>7. /\ n.fullscreen = IF Framing(Alone(w)) THEN Alone(w).c.fullscreen ELSE m.fullscreen
            /\ Framing(Alone(w)) /\ m.mapped /\ m.fullscreen # Alone(w).c.fullscreen
                 /\ Viewable(s.x) => Bound(n)
            /\ Bound(m) /\ Viewable(s.x) /\ Unmaps(Kind(s.out)) = {} => Bound(n)
        BY <2>4, <2>6, <4>2, <4>3, <4>6
      <4>8. Follows(w, Told(v, s), s.x, [s.c EXCEPT !.sync = {}], n, FALSE)
        BY <2>1, <2>4, <2>6, <4>1, <4>3, <4>4, <4>5, <4>7, SyncedFollowed
      <4> QED BY <4>6, <4>8
    <3> QED BY <3>1, <3>2
  <2> HIDE DEF u
  <2> QED BY <2>2, <2>3, <2>8 DEF n
<1>3. \A w \in Windows : TextureSound(w, cm'[w])
  BY SyncTexture
<1> QED BY <1>2, <1>3, FollowsEach

\* An event is handled that leaves the window as it is.
LEMMA TailFollowed ==
  ASSUME NEW w, NEW v \in Seq(Kinds), v # << >>, NEW x, NEW c \in Clients, NEW d \in Clients,
         NEW m, NEW n, NEW p, NEW o, Follows(w, v, x, c, m, p), p => o,
         d.skipUnmaps = c.skipUnmaps - (IF Head(v) = "Unmap" THEN 1 ELSE 0),
         d.alive = c.alive, d.realized = c.realized, d.wanted = c.wanted,
         d.fullscreen = c.fullscreen, d.sync = c.sync, d.hiding => c.hiding,
         n.mapped = m.mapped,
         c.alive /\ ~m.mapped => Head(v) # "Map" /\ (Head(v) # "Unmap" => d.skipMaps = c.skipMaps),
         n.fullscreen = m.fullscreen \/ (n.fullscreen = c.fullscreen /\ c.sync = {}),
         c.alive /\ m.mapped /\ Viewable(x) /\ Bound(m) => Bound(n)
  PROVE  Follows(w, Tail(v), x, d, n, o)
<1> DEFINE u == Tail(v)
<1>1. Ordered(v, x.mapped) /\ Awaits(v, x, c, m)
  BY DEF Follows
<1>2. u \in Seq(Kinds)
  OBVIOUS
<1>3. Count(v) = Count(u) + (IF Head(v) = "Unmap" THEN 1 ELSE 0) /\ Count(u) \in Nat
      /\ Count(v) \in Nat
  BY <1>2, CountTail, CountIsNat
<1>4. /\ Ordered(u, x.mapped)
      /\ Fresh(v, x.mapped) => Head(v) # "Unmap"
      /\ Fresh(v, x.mapped) /\ Head(v) # "Map" => Fresh(u, x.mapped)
  BY <1>1, OrderTail
<1>5. Frameless(v, x) => Frameless(u, x)
  BY FramelessMore
<1> HIDE DEF u
<1>6. c.skipUnmaps \in Nat /\ d.skipUnmaps \in Nat
  BY DEF Clients
<1>7. d.skipUnmaps + Count(v) = c.skipUnmaps + Count(u)
  BY <1>3, <1>6
<1>8. c.alive /\ ~m.mapped =>
        d.skipMaps = c.skipMaps /\ (Fresh(v, x.mapped) => Fresh(u, x.mapped))
  BY <1>1, <1>4 DEF Awaits
<1> QED BY <1>3, <1>4, <1>5, <1>7, <1>8, StaysFollowed DEF u

\* A handler that changes at most the client of the window of its event and its
\* compositor client.
LEMMA HandlerFollows ==
  ASSUME IInv, CmInv, TexInv, Types', queue # << >>, Head(queue).type # "Desktop",
         queue' = Tail(queue) \o << >>, win' = win, pending => pending',
         NEW d, client' = [client EXCEPT ![Head(queue).window] = d],
         NEW m, cm' = [Aging(Left) EXCEPT ![Head(queue).window] = m],
         TextureSound(Head(queue).window, m),
         LET o == Head(queue).window
         IN  \A v \in Seq(Kinds) :
               /\ v # << >> /\ Head(v) = Head(queue).type
               /\ Good(o, v, win[o], client[o], pending)
               /\ Follows(o, v, win[o], client[o], cm[o], pending)
               => Follows(o, Tail(v), win[o], d, m, pending')
  PROVE  TexInv'
<1> DEFINE o == Head(queue).window
<1>0. Types /\ o \in Windows
  BY HeadIs DEF IInv
<1>1. /\ \A w \in Windows \ {o} : client'[w] = client[w]
      /\ client'[o] = d
  BY <1>0 DEF Types
<1>2. /\ \A w \in Windows \ {o} : \A v : Has(queue, w, v) => Has(queue', w, v)
      /\ \A v : Has(queue, o, v) =>
           v \in Seq(Kinds) /\ v # << >> /\ Head(v) = Head(queue).type /\ Has(queue', o, Tail(v))
  BY <1>0, HandledQuietly
<1>3. cm'[o] = m /\ \A w \in Windows \ {o} : cm'[w] = Aged(w, Left)
  BY <1>0 DEF Aging
<1>4. \A w \in Windows \ {o} : w \notin UnmappedAfter(Left)
  BY <1>0, NoneUnmapped
<1>5. ASSUME NEW v, Has(queue, o, v), Good(o, v, win[o], client[o], pending),
             Follows(o, v, win[o], client[o], cm[o], pending)
      PROVE  \E u : Has(queue', o, u) /\ Follows(o, u, win'[o], client'[o], cm'[o], pending')
  BY <1>1, <1>2, <1>3, <1>5
<1>6. TextureSound(o, cm'[o])
  BY <1>3
<1> HIDE DEF o
<1>7. \A w \in Windows \ {o} : win'[w] = win[w]
  OBVIOUS
<1> QED BY <1>0, <1>1, <1>2, <1>3, <1>4, <1>5, <1>6, <1>7, OneFollows

\* A handler that does not concern the compositor client.
LEMMA QuietFollows ==
  ASSUME IInv, CmInv, TexInv, Types', queue # << >>, Head(queue).type # "Desktop",
         queue' = Tail(queue) \o << >>, win' = win, pending => pending',
         NEW d, client' = [client EXCEPT ![Head(queue).window] = d],
         cm' = Aging(Left),
         LET o == Head(queue).window
         IN  \A v \in Seq(Kinds) :
               /\ v # << >> /\ Head(v) = Head(queue).type
               /\ Good(o, v, win[o], client[o], pending)
               /\ Follows(o, v, win[o], client[o], cm[o], pending)
               => \A n : /\ n.mapped = cm[o].mapped /\ n.fullscreen = cm[o].fullscreen
                         /\ Viewable(win[o]) => n = cm[o]
                         => Follows(o, Tail(v), win[o], d, n, pending')
  PROVE  TexInv'
<1> DEFINE o == Head(queue).window
           n == Aged(o, Left)
<1>0. Types /\ o \in Windows
  BY HeadIs DEF IInv
<1>1. o \notin UnmappedAfter(Left)
  BY <1>0, NoneUnmapped
<1>2. /\ n.mapped = cm[o].mapped /\ n.fullscreen = cm[o].fullscreen
      /\ Viewable(win[o]) => n = cm[o]
      /\ TextureSound(o, n)
  BY <1>0, <1>1, AgedTexture DEF NowViewable, TexInv
<1>3. cm' = [Aging(Left) EXCEPT ![o] = n]
  BY <1>0 DEF Aging
<1> HIDE DEF n
<1>4. ASSUME NEW v \in Seq(Kinds), v # << >>, Head(v) = Head(queue).type,
             Good(o, v, win[o], client[o], pending),
             Follows(o, v, win[o], client[o], cm[o], pending)
      PROVE  Follows(o, Tail(v), win[o], d, n, pending')
  BY <1>2, <1>4
<1> QED BY <1>2, <1>3, <1>4, HandlerFollows

\* Nothing happens to a window without a client.
LEMMA UnheardFollows ==
  ASSUME IInv, CmInv, TexInv, Types', queue # << >>, Head(queue).type # "Desktop",
         queue' = Tail(queue) \o << >>, win' = win, client' = client, pending' = pending,
         ~client[Head(queue).window].listed,
         \/ cm' = Aging(Left)
         \/ cm' = [Aging(Left) EXCEPT ![Head(queue).window] = cm[Head(queue).window]]
  PROVE  TexInv'
<1> DEFINE o == Head(queue).window
           c == client[o]
<1>0. Types /\ o \in Windows
  BY HeadIs DEF IInv
<1>1. client' = [client EXCEPT ![o] = c] /\ ~c.alive
  BY <1>0, StackedAlive DEF Types
<1>2. ASSUME NEW v \in Seq(Kinds), v # << >>, NEW n,
             Follows(o, v, win[o], c, cm[o], pending)
      PROVE  Follows(o, Tail(v), win[o], c, n, pending')
  <2> DEFINE x == win[o]
             m == cm[o]
  <2>1. Follows(o, v, x, c, m, pending)
    BY <1>2
  <2> HIDE DEF x, m, c, o
  <2>2. Ordered(v, x.mapped) /\ ~c.hiding /\ (o \in Overrides => Frameless(v, x))
    BY <2>1 DEF Follows, Undecorated
  <2>3. Ordered(Tail(v), x.mapped) /\ (o \in Overrides => Frameless(Tail(v), x))
    BY <1>2, <2>2, OrderTail, FramelessMore
  <2>4. Follows(o, Tail(v), x, c, n, pending')
    BY <1>1, <2>2, <2>3, GoneFollowed
  <2> QED BY <2>4 DEF x
<1>3. TextureSound(o, cm[o])
  BY <1>0 DEF TexInv
<1>4. CASE cm' = Aging(Left)
  BY <1>1, <1>2, <1>4, QuietFollows
<1>5. CASE cm' = [Aging(Left) EXCEPT ![o] = cm[o]]
  BY <1>1, <1>2, <1>3, <1>5, HandlerFollows
<1> QED BY <1>4, <1>5

\* A map request.
LEMMA CmMapRequestFollows ==
  ASSUME LifecycleAssumption, IInv, CmInv, TexInv, Types', ~pending, CmMapRequest
  PROVE  TexInv'
<1> DEFINE o == Head(queue).window
           c == client[o]
           m == cm[o]
           x == win[o]
<1>0. Types /\ queue # << >> /\ Head(queue).type = "MapRequest" /\ o \in Windows
      /\ Head(queue).type # "Desktop" /\ HandleMapRequest
  BY HeadIs DEF IInv, CmMapRequest, HandleMapRequest, Receive
<1>1. c \in Clients /\ x \in XRecords /\ desktop \in Desktops /\ m \in CmClients
  BY <1>0 DEF Types, CmInv
<1>2. queue' = Tail(queue) \o << >> /\ win' = win
  BY <1>0 DEF HandleMapRequest, Done
<1>3. c.stacked = c.alive /\ m.linked = c.alive /\ c.stacked \in BOOLEAN /\ c.listed = c.alive
  BY <1>0, <1>1, StackedAlive DEF CmInv, Clients
<1>4. cm' = [Aging(Left) EXCEPT ![o] = IF client'[o].stacked THEN Registered(m) ELSE m]
  BY DEF CmMapRequest, Receiver, CmBecomes
<1>5. TextureSound(o, m)
  BY <1>0 DEF TexInv
<1>6. CASE c.stacked
  <2>1. client' = [client EXCEPT ![o] = Shown(c)] /\ pending' = TRUE
    BY <1>0, <1>6 DEF HandleMapRequest, Becomes
  <2>2. Registered(m) = m
    BY <1>3, <1>6 DEF Registered
  <2>3. cm' = [Aging(Left) EXCEPT ![o] = m]
    BY <1>4, <2>2
  <2>4. ASSUME NEW v \in Seq(Kinds), v # << >>, Head(v) = Head(queue).type,
               Good(o, v, win[o], client[o], pending),
               Follows(o, v, win[o], client[o], cm[o], pending)
        PROVE  Follows(o, Tail(v), win[o], Shown(c), m, pending')
    <3>0. Head(v) = "MapRequest" /\ c.sync = {}
      BY <1>0, <2>4 DEF Good, Whole
    <3>1. Follows(o, v, x, c, m, pending)
      BY <2>4
    <3>2. Shown(c) \in Clients
      BY <1>1 DEF Shown, Clients
    <3> HIDE DEF x, c, m
    <3>3. Follows(o, v, x, Shown(c), m, TRUE)
      BY <1>1, <3>0, <3>1, ShownFollowed
    <3>4. Shown(c).skipUnmaps = Shown(c).skipUnmaps - 0
      BY <3>2 DEF Clients
    <3>5. Follows(o, Tail(v), x, Shown(c), m, TRUE)
      BY <2>4, <3>0, <3>2, <3>3, <3>4, TailFollowed
    <3> QED BY <2>1, <3>5 DEF x
  <2> HIDE DEF c, m
  <2>5. pending => pending'
    BY <2>1
  <2> QED BY <1>0, <1>2, <1>5, <2>1, <2>3, <2>4, <2>5, HandlerFollows
<1>7. CASE ~c.stacked /\ x.exists
  <2> DEFINE d == Managed(desktop, TRUE)
             n == Registered(m)
  <2>1. client' = [client EXCEPT ![o] = d] /\ pending' = TRUE
    BY <1>0, <1>7 DEF HandleMapRequest, Becomes
  <2>2. d.skipMaps = 0 /\ ~d.realized /\ d.stacked
    BY <1>1, NewClientsAre
  <2>3. ~d.hiding
    BY DEF Managed, NewClient, NoClient, Shown
  <2> HIDE DEF d
  <2>4. client'[o] = d
    BY <1>0, <2>1 DEF Types
  <2>5. cm' = [Aging(Left) EXCEPT ![o] = n]
    BY <1>4, <2>2, <2>4
  <2>6. ~n.mapped /\ TextureSound(o, n)
    BY <1>3, <1>7 DEF Registered, NoCm, TextureSound
  <2> HIDE DEF n
  <2>7. ASSUME NEW v \in Seq(Kinds), v # << >>, Head(v) = Head(queue).type,
               Good(o, v, win[o], client[o], pending),
               Follows(o, v, win[o], client[o], cm[o], pending)
        PROVE  Follows(o, Tail(v), win[o], d, n, pending')
    <3>0. Head(v) = "MapRequest"
      BY <1>0, <2>7
    <3>1. Follows(o, v, x, c, m, pending)
      BY <2>7
    <3> HIDE DEF x, c, m
    <3>2. Ordered(v, x.mapped) /\ (o \in Overrides => Frameless(v, x))
      BY <3>1 DEF Follows, Undecorated
    <3>3. /\ Ordered(Tail(v), x.mapped) /\ Fresh(Tail(v), x.mapped)
          /\ o \in Overrides => Frameless(Tail(v), x)
      BY <2>7, <3>0, <3>2, OrderTail, FramelessMore
    <3>4. Follows(o, Tail(v), x, d, n, TRUE)
      BY <2>2, <2>3, <2>6, <3>3, NewFollowed
    <3> QED BY <2>1, <3>4 DEF x
  <2>8. pending => pending'
    BY <2>1
  <2> QED BY <1>0, <1>2, <2>1, <2>5, <2>6, <2>7, <2>8, HandlerFollows
<1>8. CASE ~c.stacked /\ ~x.exists
  <2>1. client' = client /\ pending' = pending
    BY <1>0, <1>8 DEF HandleMapRequest
  <2>2. cm' = [Aging(Left) EXCEPT ![o] = m]
    BY <1>4, <1>8, <2>1
  <2>3. ~client[o].listed
    BY <1>3, <1>8
  <2> QED BY <1>0, <1>2, <2>1, <2>2, <2>3, UnheardFollows
<1> QED BY <1>6, <1>7, <1>8

\* A map event.
LEMMA CmMapNotifyFollows ==
  ASSUME LifecycleAssumption, Preexisting = {}, ActivatesNew, IInv, CmInv, TexInv, Types', ~pending,
         CmMapNotify
  PROVE  TexInv'
<1> DEFINE o == Head(queue).window
           c == client[o]
           m == cm[o]
           x == win[o]
           passed == \/ client[o].stacked /\ client[o].skipMaps = 0 /\ Head(queue).type = "Map"
                     \/ ~client[o].stacked /\ client'[o].stacked
           n == MapNotified(Registered(m), o)
<1>0. Types /\ queue # << >> /\ Head(queue).type \in {"Map", "MapFrame"} /\ o \in Windows
      /\ Head(queue).type # "Desktop" /\ HandleMapNotify
  BY HeadIs DEF IInv, CmMapNotify, HandleMapNotify
<1>1. c \in Clients /\ x \in XRecords /\ desktop \in Desktops /\ m \in CmClients /\ Sound(m)
      /\ pending = FALSE
  BY <1>0 DEF Types, CmInv
<1>2. queue' = Tail(queue) \o << >> /\ win' = win
  BY <1>0 DEF HandleMapNotify, Done
<1>3. c.stacked = c.alive /\ m.linked = c.alive /\ c.stacked \in BOOLEAN /\ c.listed = c.alive
  BY <1>0, <1>1, StackedAlive DEF CmInv, Clients
<1>4. cm' = [Aging(Left) EXCEPT ![o] = IF passed THEN n ELSE m]
  BY DEF CmMapNotify, Receiver, CmBecomes
<1>5. TextureSound(o, m)
  BY <1>0 DEF TexInv
<1>5a. ~c.hiding
  BY <1>0 DEF TexInv, IInv, Follows
<1>6. NowViewable(o) = Viewable(x)
  BY <1>2 DEF NowViewable
<1>7. CASE c.stacked /\ c.skipMaps # 0
  <2> DEFINE d == [c EXCEPT !.skipMaps = @ - 1]
  <2>1. client' = [client EXCEPT ![o] = d] /\ pending' = pending
    BY <1>0, <1>7 DEF HandleMapNotify, Becomes
  <2>2. cm' = [Aging(Left) EXCEPT ![o] = m]
    BY <1>4, <1>7
  <2>3. /\ d.alive = c.alive /\ d.realized = c.realized /\ d.wanted = c.wanted
        /\ d.fullscreen = c.fullscreen /\ d.sync = c.sync /\ d.hiding = c.hiding
        /\ d.skipUnmaps = c.skipUnmaps - 0 /\ d \in Clients
    BY <1>1 DEF Clients
  <2> HIDE DEF d
  <2>4. ASSUME NEW v \in Seq(Kinds), v # << >>, Head(v) = Head(queue).type,
               Good(o, v, win[o], client[o], pending),
               Follows(o, v, win[o], client[o], cm[o], pending)
        PROVE  Follows(o, Tail(v), win[o], d, m, pending')
    <3>0. Head(v) # "Unmap"
      BY <1>0, <2>4
    <3>1. Follows(o, v, x, c, m, pending)
      BY <2>4
    <3> HIDE DEF x, c, m
    <3>2. c.alive /\ ~m.mapped => FALSE
      BY <1>7, <3>1 DEF Follows, Awaits
    <3>3. Follows(o, Tail(v), x, d, m, pending)
      BY <1>1, <2>3, <2>4, <3>0, <3>1, <3>2, TailFollowed
    <3> QED BY <2>1, <3>3 DEF x
  <2> HIDE DEF c, m
  <2>5. pending => pending'
    BY <2>1
  <2> QED BY <1>0, <1>2, <1>5, <2>1, <2>2, <2>4, <2>5, HandlerFollows
<1>8. CASE c.stacked /\ c.skipMaps = 0
  <2> DEFINE h == c.hiding /\ Head(queue).type = "MapFrame"
             d == [c EXCEPT !.confirmed = TRUE, !.hiding = h]
  <2>1. client' = [client EXCEPT ![o] = d] /\ pending' = pending
    BY <1>0, <1>8 DEF HandleMapNotify, Becomes
  <2>2. Registered(m) = m
    BY <1>3, <1>8 DEF Registered
  <2>3. h \in BOOLEAN /\ (h => c.hiding)
    BY <1>1 DEF Clients
  <2> HIDE DEF h
  <2>4. /\ d.alive = c.alive /\ d.realized = c.realized /\ d.wanted = c.wanted
        /\ d.fullscreen = c.fullscreen /\ d.sync = c.sync /\ (d.hiding => c.hiding)
        /\ d.skipUnmaps = c.skipUnmaps - 0 /\ d.skipUnmaps = c.skipUnmaps
        /\ d.skipMaps = c.skipMaps /\ d \in Clients
    <3>1. d \in Clients
      BY <1>1, <2>3 DEF Clients
    <3>2. c.skipUnmaps - 0 = c.skipUnmaps
      BY <1>1 DEF Clients
    <3>3. /\ d.alive = c.alive /\ d.realized = c.realized /\ d.wanted = c.wanted
          /\ d.fullscreen = c.fullscreen /\ d.sync = c.sync /\ d.hiding = h
          /\ d.skipUnmaps = c.skipUnmaps /\ d.skipMaps = c.skipMaps
      <4> HIDE DEF c
      <4> QED BY <1>1 DEF Clients
    <3> HIDE DEF d, c
    <3> QED BY <2>3, <3>1, <3>2, <3>3
  <2> HIDE DEF d
  <2>5. pending => pending'
    BY <2>1
  <2>6. CASE Head(queue).type = "MapFrame"
    <3>1. cm' = [Aging(Left) EXCEPT ![o] = m]
      <4>1. ~passed
        BY <1>8, <2>6
      <4> QED BY <1>4, <4>1
    <3>2. ASSUME NEW v \in Seq(Kinds), v # << >>, Head(v) = Head(queue).type,
                 Good(o, v, win[o], client[o], pending),
                 Follows(o, v, win[o], client[o], cm[o], pending)
          PROVE  Follows(o, Tail(v), win[o], d, m, pending')
      <4>0. Head(v) = "MapFrame"
        BY <2>6, <3>2
      <4>1. Follows(o, v, x, c, m, pending)
        BY <3>2
      <4> HIDE DEF x, c, m
      <4>2. Follows(o, Tail(v), x, d, m, pending)
        BY <1>1, <2>4, <3>2, <4>0, <4>1, TailFollowed
      <4> QED BY <2>1, <4>2 DEF x
    <3> HIDE DEF c, m
    <3> QED BY <1>0, <1>2, <1>5, <2>1, <2>5, <3>1, <3>2, HandlerFollows
  <2>7. CASE Head(queue).type = "Map"
    <3> DEFINE k == MapNotified(m, o)
    <3>1. cm' = [Aging(Left) EXCEPT ![o] = k]
      <4>1. passed
        BY <1>8, <2>7
      <4> QED BY <1>4, <2>2, <4>1
    <3>2. /\ TextureSound(o, k) /\ k.mapped /\ k.fullscreen = c.fullscreen
          /\ NowViewable(o) /\ ~m.mapped => Bound(k)
          /\ m.mapped /\ Bound(m) => Bound(k)
      BY <1>0, <1>1, <1>5, <1>5a, MapNotifiedTexture
    <3> HIDE DEF k
    <3>3. ASSUME NEW v \in Seq(Kinds), v # << >>, Head(v) = Head(queue).type,
                 Good(o, v, win[o], client[o], pending),
                 Follows(o, v, win[o], client[o], cm[o], pending)
          PROVE  Follows(o, Tail(v), win[o], d, k, pending')
      <4>0. Head(v) = "Map"
        BY <2>7, <3>3
      <4>1. Follows(o, v, x, c, m, FALSE)
        BY <1>1, <3>3
      <4>2. /\ Whole(x, c, FALSE)
            /\ o \in Plain => Owed(v, x, c) /\ Seen(v, x, c)
            /\ c.alive /\ o \in Overrides => c.skipUnmaps = 0
        BY <1>1, <3>3 DEF Good
      <4> HIDE DEF x, c, m
      <4>3. CASE m.mapped
        <5>1. c.sync = {}
          BY <4>2 DEF Whole
        <5>2. Follows(o, Tail(v), x, d, k, FALSE)
          BY <1>1, <2>4, <3>2, <3>3, <4>0, <4>1, <4>3, <5>1, TailFollowed
        <5> QED BY <1>1, <2>1, <5>2 DEF x
      <4>4. CASE ~m.mapped
        <5>1. Viewable(x) => Bound(k)
          BY <1>6, <3>2, <4>4
        <5>2. Follows(o, Tail(v), x, d, k, FALSE)
          BY <1>0, <1>1, <2>4, <3>2, <3>3, <4>0, <4>1, <4>2, <5>1, FirstMapFollowed
        <5> QED BY <1>1, <2>1, <5>2 DEF x
      <4> QED BY <4>3, <4>4
    <3> HIDE DEF c, m
    <3> QED BY <1>0, <1>2, <2>1, <2>5, <3>1, <3>2, <3>3, HandlerFollows
  <2> QED BY <1>0, <2>6, <2>7
<1>9. CASE ~c.stacked /\ x.exists /\ o \in Overrides
  <2> DEFINE a == Managed(desktop, TRUE)
             d == [a EXCEPT !.confirmed = TRUE]
             r == Registered(m)
             k == MapNotified(r, o)
  <2>1. client' = [client EXCEPT ![o] = d] /\ pending' = TRUE
    BY <1>0, <1>9 DEF HandleMapNotify, Becomes
  <2>2. a \in Clients /\ a.skipUnmaps = 0 /\ a.stacked
    BY <1>1, NewClientsAre
  <2>3. ~a.hiding
    BY DEF Managed, NewClient, NoClient, Shown
  <2> HIDE DEF a
  <2>4. d.skipUnmaps = 0 /\ d.stacked /\ ~d.hiding
    BY <2>2, <2>3 DEF Clients
  <2> HIDE DEF d
  <2>5. client'[o] = d
    BY <1>0, <2>1 DEF Types
  <2>6. cm' = [Aging(Left) EXCEPT ![o] = k]
    BY <1>4, <1>9, <2>4, <2>5
  <2>7. r \in CmClients /\ ~r.mapped /\ TextureSound(o, r)
    <3>1. Sound(r)
      BY <1>1, CmClientsAre
    <3> QED BY <1>3, <1>9, <3>1 DEF Registered, NoCm, TextureSound, Sound
  <2> HIDE DEF r
  <2>8. /\ TextureSound(o, k) /\ k.mapped
        /\ NowViewable(o) => Bound(k)
    BY <1>0, <1>5a, <2>7, MapNotifiedTexture
  <2> HIDE DEF k
  <2>9. ASSUME NEW v \in Seq(Kinds), v # << >>, Head(v) = Head(queue).type,
               Good(o, v, win[o], client[o], pending),
               Follows(o, v, win[o], client[o], cm[o], pending)
        PROVE  Follows(o, Tail(v), win[o], d, k, pending')
    <3>1. Follows(o, v, x, c, m, pending)
      BY <2>9
    <3> HIDE DEF x, c, m
    <3>2. Ordered(v, x.mapped) /\ Frameless(v, x)
      BY <1>9, <3>1 DEF Follows, Undecorated
    <3>3. Head(v) = "Map"
      <4>1. Head(v) = v[1] /\ 1 \in DOMAIN v
        BY <2>9
      <4> QED BY <1>0, <2>9, <3>2, <4>1 DEF Frameless
    <3>4. /\ Ordered(Tail(v), x.mapped) /\ Frameless(Tail(v), x)
          /\ ~x.mapped => Count(Tail(v)) # 0
      BY <2>9, <3>2, <3>3, OrderTail, FramelessMore
    <3>5. Count(Tail(v)) \in Nat
      <4>1. Tail(v) \in Seq(Kinds)
        BY <2>9
      <4> QED BY <4>1, CountIsNat
    <3>6. ~x.mapped => Doomed(Tail(v), d)
      BY <2>4, <3>4, <3>5 DEF Doomed
    <3>7. x.mapped => Viewable(x) /\ Bound(k)
      BY <1>6, <2>8, <3>2 DEF Viewable, Frameless
    <3>8. Undecorated(Tail(v), x, d, k) /\ Awaits(Tail(v), x, d, k)
      BY <2>8, <3>4, <3>6, <3>7 DEF Undecorated, Awaits
    <3>9. o \notin Plain
      BY <1>9 DEF Plain
    <3> QED BY <2>4, <3>4, <3>8, <3>9 DEF Follows, x
  <2>10. pending => pending'
    BY <2>1
  <2> HIDE DEF c, m
  <2> QED BY <1>0, <1>2, <2>1, <2>6, <2>8, <2>9, <2>10, HandlerFollows
<1>10. CASE ~c.stacked /\ ~(x.exists /\ o \in Overrides)
  <2>1. client' = client /\ pending' = pending
    BY <1>0, <1>10 DEF HandleMapNotify
  <2>2. cm' = [Aging(Left) EXCEPT ![o] = m]
    BY <1>4, <1>10, <2>1
  <2>3. ~client[o].listed
    BY <1>3, <1>10
  <2> QED BY <1>0, <1>2, <2>1, <2>2, <2>3, UnheardFollows
<1> QED BY <1>7, <1>8, <1>9, <1>10

\* The client and its compositor client go, and the window back to the root.
LEMMA UnmanageFollows ==
  ASSUME LifecycleAssumption, IInv, CmInv, TexInv, Types', queue # << >>,
         Head(queue).type # "Desktop", Unmanage(Head(queue).window),
         cm' = [Aging(Left) EXCEPT ![Head(queue).window] = Unregistered(cm[Head(queue).window])]
  PROVE  TexInv'
<1> DEFINE o == Head(queue).window
           es == Released(o).out
           n == Unregistered(cm[o])
<1>0. Types /\ o \in Windows
  BY HeadIs DEF IInv
<1>1. << >> \in Seq(Kinds) /\ Tail(queue) \in Seq(Events) /\ Left = Len(Tail(queue))
  BY <1>0 DEF Types, Left
<1>2. es \in Seq(Reports) /\ Released(o).x \in XRecords
  BY <1>0, <1>1, ReleasedIs
<1>3. queue' = Tail(queue) \o OnWindow(o, es) /\ pending' = TRUE
  BY DEF Unmanage, Done
<1>4. client'[o] = NoClient /\ win'[o] = Released(o).x
  BY <1>0 DEF Unmanage, Becomes, Types
<1>5. \A w \in Windows \ {o} : win'[w] = win[w] /\ client'[w] = client[w]
  BY <1>0 DEF Unmanage, Becomes, Types
<1>6. cm'[o] = n /\ \A w \in Windows \ {o} : cm'[w] = Aged(w, Left)
  BY <1>0 DEF Aging
<1>7. TextureSound(o, n)
  BY DEF Unregistered, NoCm, TextureSound
<1>8. o \in Overrides => es = << >> /\ ~Released(o).x.framed
  <2> HAVE o \in Overrides
  <2>1. Released(o) = [Alone(o) EXCEPT !.x.framed = FALSE, !.x.frameMapped = FALSE]
    BY DEF Released, Alone
  <2>2. Alone(o) \in Requests /\ Alone(o).out = << >>
    BY <1>0, AloneIs
  <2> HIDE DEF o
  <2> QED BY <2>1, <2>2 DEF es, Requests, XRecords
<1>9. ~NoClient.alive /\ ~NoClient.hiding
  BY DEF NoClient
<1> HIDE DEF o, es, n
<1>10. /\ \A w \in Windows \ {o} : \A v : Has(queue, w, v) => Has(queue', w, v)
       /\ \A v : Has(queue, o, v) =>
            v \in Seq(Kinds) /\ v # << >> /\ Has(queue', o, Tail(v) \o Kind(es))
  BY <1>0, <1>2, <1>3, Handled DEF o
<1>11. \A w \in Windows \ {o} : w \notin UnmappedAfter(Left)
  BY <1>0, <1>1, <1>2, <1>3, OthersStayMapped
<1>12. ASSUME NEW v, Has(queue, o, v), Good(o, v, win[o], client[o], pending),
              Follows(o, v, win[o], client[o], cm[o], pending)
       PROVE  \E u : Has(queue', o, u) /\ Follows(o, u, win'[o], client'[o], cm'[o], pending')
  <2> DEFINE u == Tail(v) \o Kind(es)
             x == win[o]
             y == Released(o).x
             c == client[o]
  <2>1. v \in Seq(Kinds) /\ v # << >> /\ Has(queue', o, u) /\ Tail(v) \in Seq(Kinds)
    BY <1>10, <1>12
  <2>2. Grows(Tail(v), x.mapped, u, y.mapped)
    BY <1>0, <2>1, ReleasedIs DEF es
  <2>3. o \in Overrides => u = Tail(v)
    <3>1. \A t \in Seq(Kinds) : t \o Kind(<< >>) = t
      BY DEF Kind
    <3> QED BY <1>8, <2>1, <3>1
  <2>4. Ordered(v, x.mapped) /\ (o \in Overrides => Frameless(v, x))
    BY <1>12 DEF Follows, Undecorated
  <2> HIDE DEF u, x, c
  <2>5. Ordered(Tail(v), x.mapped) /\ (o \in Overrides => Frameless(Tail(v), x))
    BY <2>1, <2>4, OrderTail, FramelessMore
  <2>6. Ordered(u, y.mapped)
    BY <2>2, <2>5 DEF Grows
  <2>7. o \in Overrides => Frameless(u, y)
    BY <1>8, <2>3, <2>5 DEF Frameless
  <2> HIDE DEF y
  <2>8. Follows(o, u, y, NoClient, n, TRUE)
    BY <1>9, <2>6, <2>7, GoneFollowed
  <2> QED BY <1>3, <1>4, <1>6, <2>1, <2>8 DEF y
<1>13. TextureSound(o, cm'[o])
  BY <1>6, <1>7
<1>14. pending => pending'
  BY <1>3
<1> QED BY <1>0, <1>5, <1>6, <1>10, <1>11, <1>12, <1>13, <1>14, OneFollows

\* An unmap event, or one of a destroyed window.
LEMMA HandleGoneFollows ==
  ASSUME LifecycleAssumption, IInv, CmInv, TexInv, Types', HandleGone
  PROVE  TexInv'
<1> DEFINE o == Head(queue).window
           c == client[o]
<1>0. /\ Types /\ queue # << >> /\ o \in Windows /\ Head(queue).type # "Desktop"
      /\ HandleUnmapNotify \/ HandleDestroyNotify
      /\ HandleUnmapNotify => Head(queue).type = "Unmap"
  BY HeadIs DEF IInv, HandleGone, HandleUnmapNotify, HandleDestroyNotify, Receive
<1>1. c \in Clients /\ win[o] \in XRecords /\ cm[o] \in CmClients
  BY <1>0 DEF Types, CmInv
<1>2. c.listed = c.alive /\ ~c.hidden
  BY <1>0 DEF IInv, Good, Whole
<1>3. IF c.alive /\ ~client'[o].alive THEN cm' = [Aging(Left) EXCEPT ![o] = Unregistered(cm[o])]
      ELSE cm' = Aging(Left)
  BY DEF HandleGone, Receiver, CmBecomes
<1>4. CASE ~c.listed
  <2>1. client' = client /\ pending' = pending /\ win' = win /\ queue' = Tail(queue) \o << >>
    BY <1>0, <1>4 DEF HandleUnmapNotify, HandleDestroyNotify, Done
  <2>2. cm' = Aging(Left)
    BY <1>2, <1>3, <1>4
  <2> QED BY <1>0, <1>4, <2>1, <2>2, UnheardFollows
<1>5. CASE Unmanage(o) /\ c.listed
  <2>1. client'[o] = NoClient /\ ~NoClient.alive
    BY <1>0, <1>5 DEF Unmanage, Becomes, Types, NoClient
  <2>2. cm' = [Aging(Left) EXCEPT ![o] = Unregistered(cm[o])]
    BY <1>2, <1>3, <1>5, <2>1
  <2> QED BY <1>0, <1>5, <2>2, UnmanageFollows
<1>6. CASE c.listed /\ c.skipUnmaps > 0 /\ HandleUnmapNotify
  <2> DEFINE d == Skipped(c)
  <2>1. client' = [client EXCEPT ![o] = d] /\ pending' = pending /\ win' = win
        /\ queue' = Tail(queue) \o << >>
    BY <1>1, <1>6 DEF HandleUnmapNotify, Becomes, Done, Clients
  <2>2. /\ d.alive = c.alive /\ d.realized = c.realized /\ d.wanted = c.wanted
        /\ d.fullscreen = c.fullscreen /\ d.sync = c.sync /\ d.hiding = c.hiding
        /\ d.skipUnmaps = c.skipUnmaps - 1 /\ d \in Clients
    <3>1. c.skipUnmaps - 1 \in Nat /\ c.skipMaps + 1 \in Int
      BY <1>1, <1>6 DEF Clients
    <3> HIDE DEF c
    <3> QED BY <1>1, <3>1 DEF Skipped, Clients
  <2> HIDE DEF d
  <2>3. client'[o] = d
    BY <1>0, <2>1 DEF Types
  <2>4. cm' = Aging(Left)
    BY <1>3, <2>2, <2>3
  <2>5. ASSUME NEW v \in Seq(Kinds), v # << >>, Head(v) = Head(queue).type,
               Good(o, v, win[o], client[o], pending),
               Follows(o, v, win[o], client[o], cm[o], pending),
               NEW n, n.mapped = cm[o].mapped, n.fullscreen = cm[o].fullscreen,
               Viewable(win[o]) => n = cm[o]
        PROVE  Follows(o, Tail(v), win[o], d, n, pending')
    <3> DEFINE x == win[o]
               m == cm[o]
    <3>0. Head(v) = "Unmap"
      BY <1>0, <1>6, <2>5
    <3>1. Follows(o, v, x, c, m, pending)
      BY <2>5
    <3>2. n.mapped = m.mapped /\ n.fullscreen = m.fullscreen /\ (Viewable(x) => n = m)
      BY <2>5
    <3> HIDE DEF x, m, c, o
    <3>3. Follows(o, Tail(v), x, d, n, pending')
      BY <1>1, <2>1, <2>2, <2>5, <3>0, <3>1, <3>2, TailFollowed
    <3> QED BY <3>3 DEF x
  <2> HIDE DEF c
  <2>6. pending => pending'
    BY <2>1
  <2> QED BY <1>0, <2>1, <2>4, <2>5, <2>6, QuietFollows
<1>7. CASE c.listed /\ ~(c.skipUnmaps > 0 /\ HandleUnmapNotify)
  <2>1. Unmanage(o)
    BY <1>0, <1>1, <1>2, <1>7 DEF HandleUnmapNotify, HandleDestroyNotify, Clients
  <2> QED BY <1>5, <1>7, <2>1
<1> QED BY <1>4, <1>6, <1>7

\* A fullscreen message.
LEMMA CmFullscreenFollows ==
  ASSUME LifecycleAssumption, IInv, CmInv, TexInv, Types', ~pending, HandleFullscreen,
         cm' = Aging(Left)
  PROVE  TexInv'
<1> DEFINE o == Head(queue).window
           c == client[o]
           on == Head(queue).type = "SetFullscreen"
           d == SetFullscreen(c, on)
<1>0. /\ Types /\ queue # << >> /\ Head(queue).type \in Messaged /\ o \in Windows
      /\ Head(queue).type # "Desktop"
  BY HeadIs DEF IInv, HandleFullscreen, Messaged
<1>1. c \in Clients /\ cm[o] \in CmClients /\ pending = FALSE
  BY <1>0 DEF Types, CmInv
<1>2. queue' = Tail(queue) \o << >> /\ win' = win
  BY DEF HandleFullscreen, Done
<1>3. CASE c.listed
  <2>1. client' = [client EXCEPT ![o] = d] /\ pending' = (d # c)
    BY <1>1, <1>3 DEF HandleFullscreen, Becomes
  <2>2. on \in BOOLEAN
    OBVIOUS
  <2> HIDE DEF on
  <2>3. /\ d.alive = c.alive /\ d.realized = c.realized /\ d.wanted = c.wanted
        /\ d.hiding = c.hiding /\ d.skipUnmaps = c.skipUnmaps - 0 /\ d.skipMaps = c.skipMaps
        /\ d \in Clients
    <3>1. d \in Clients /\ c.skipUnmaps - 0 = c.skipUnmaps
      <4>1. 0 \in Desktops
        BY DEF LifecycleAssumption
      <4>2. c.skipUnmaps - 0 = c.skipUnmaps
        BY <1>1 DEF Clients
      <4> HIDE DEF c
      <4> QED BY <1>1, <2>2, <4>1, <4>2, ClientsAre
    <3>2. /\ d.alive = c.alive /\ d.realized = c.realized /\ d.wanted = c.wanted
          /\ d.hiding = c.hiding /\ d.skipUnmaps = c.skipUnmaps /\ d.skipMaps = c.skipMaps
      <4> HIDE DEF c
      <4> QED BY <1>1, <2>2 DEF SetFullscreen, Clients
    <3> HIDE DEF c, d
    <3> QED BY <3>1, <3>2
  <2>4. ASSUME NEW v \in Seq(Kinds), v # << >>, Head(v) = Head(queue).type,
               Good(o, v, win[o], client[o], pending),
               Follows(o, v, win[o], client[o], cm[o], pending),
               NEW n, n.mapped = cm[o].mapped, n.fullscreen = cm[o].fullscreen,
               Viewable(win[o]) => n = cm[o]
        PROVE  Follows(o, Tail(v), win[o], d, n, pending')
    <3> DEFINE x == win[o]
               m == cm[o]
    <3>0. Head(v) \notin {"Unmap", "Map"} /\ c.sync = {} /\ d.skipUnmaps = d.skipUnmaps - 0
      <4>1. Head(v) \notin {"Unmap", "Map"} /\ c.sync = {}
        BY <1>0, <1>1, <2>4 DEF Good, Whole, Messaged
      <4>2. d.skipUnmaps = d.skipUnmaps - 0
        <5> HIDE DEF c, d
        <5> QED BY <1>1, <2>3 DEF Clients
      <4> QED BY <4>1, <4>2
    <3>1. Follows(o, v, x, c, m, FALSE)
      BY <1>1, <2>4
    <3>2. n.mapped = m.mapped /\ n.fullscreen = m.fullscreen /\ (Viewable(x) => n = m)
      BY <2>4
    <3>3. m \in CmClients /\ FALSE \in BOOLEAN
      BY <1>1
    <3> HIDE DEF x, m, c, o
    <3>4. Follows(o, v, x, d, m, FALSE \/ d # c)
      BY <1>1, <2>2, <3>0, <3>1, <3>3, FullscreenFollowed
    <3>5. Follows(o, v, x, d, m, d # c)
      BY <3>4
    <3> HIDE DEF d
    <3>6. Follows(o, Tail(v), x, d, n, d # c)
      BY <2>3, <2>4, <3>0, <3>2, <3>5, TailFollowed
    <3> QED BY <2>1, <3>6 DEF x
  <2> HIDE DEF c, d
  <2>5. pending => pending'
    BY <1>1
  <2> QED BY <1>0, <1>2, <2>1, <2>4, <2>5, QuietFollows
<1>4. CASE ~c.listed
  <2>1. client' = client /\ pending' = pending
    BY <1>4 DEF HandleFullscreen
  <2> QED BY <1>0, <1>2, <1>4, <2>1, UnheardFollows
<1> QED BY <1>3, <1>4

\* The message by which a window is minimised, which only unmaps it.
LEMMA CmIconifyFollows ==
  ASSUME LifecycleAssumption, Preexisting = {}, IInv, CmInv, TexInv, Types', HandleIconify,
         cm' = Aging(Left)
  PROVE  TexInv'
<1> DEFINE o == Head(queue).window
           c == client[o]
           r == XUnmap(Alone(o), "iconify")
<1>0. Types /\ queue # << >> /\ Head(queue).type = "Iconify" /\ o \in Windows
      /\ Head(queue).type # "Desktop"
  BY HeadIs DEF IInv, HandleIconify, Receive
<1>1. c \in Clients /\ win[o] \in XRecords /\ pending' = pending /\ client' = client
  BY <1>0 DEF Types, HandleIconify
<1>2. CASE ~c.listed
  <2>1. win' = win /\ queue' = Tail(queue) \o << >>
    BY <1>2 DEF HandleIconify, Done
  <2> QED BY <1>0, <1>1, <1>2, <2>1, UnheardFollows
<1>3. CASE c.listed
  <2> DEFINE y == [r.x EXCEPT !.asked = @ /\ ~win[o].mapped]
             es == r.out
             n == Aged(o, Left)
  <2>1. win' = [win EXCEPT ![o] = y] /\ queue' = Tail(queue) \o OnWindow(o, es)
    BY <1>3 DEF HandleIconify, Done, Alone
  <2>2. /\ r \in Requests /\ r.x.asked = win[o].asked /\ r.x.exists = win[o].exists
        /\ r.x.framed = win[o].framed /\ r.x.frameMapped = win[o].frameMapped
        /\ ~r.x.mapped
        /\ r.out = IF win[o].mapped THEN Append(<< >>, Event("Unmap", "iconify")) ELSE << >>
    <3>1. /\ Alone(o) \in Requests /\ Alone(o).x = win[o] /\ Alone(o).out = << >>
          /\ "iconify" \in Causes
      BY <1>0, AloneIs DEF Causes
    <3> HIDE DEF o
    <3>2. /\ r \in Requests /\ r.x.asked = Alone(o).x.asked /\ r.x.exists = Alone(o).x.exists
          /\ r.x.framed = Alone(o).x.framed /\ r.x.frameMapped = Alone(o).x.frameMapped
          /\ ~r.x.mapped
          /\ r.out = IF Alone(o).x.mapped THEN Append(Alone(o).out, Event("Unmap", "iconify"))
                     ELSE Alone(o).out
      BY <3>1, XUnmapDoes, Zenon
    <3> HIDE DEF r
    <3> QED BY <3>1, <3>2
  <2> HIDE DEF r
  <2>3. /\ y \in XRecords /\ y.exists = win[o].exists /\ y.framed = win[o].framed
        /\ y.frameMapped = win[o].frameMapped /\ ~y.mapped
        /\ es \in Seq(Reports)
        /\ ~win[o].mapped => y.asked = win[o].asked
    BY <1>1, <2>2 DEF Requests, XRecords
  <2>4. Kind(es) = IF win[o].mapped THEN <<"Unmap">> ELSE << >>
    BY <2>2 DEF Kind, Event
  <2> HIDE DEF y, es
  <2>5. /\ \A w \in Windows \ {o} : \A v : Has(queue, w, v) => Has(queue', w, v)
        /\ \A v : Has(queue, o, v) =>
             /\ v \in Seq(Kinds) /\ v # << >> /\ Head(v) = Head(queue).type
             /\ Has(queue', o, Tail(v) \o Kind(es))
    BY <1>0, <2>1, <2>3, Handled
  <2>6. cm'[o] = n /\ \A w \in Windows \ {o} : cm'[w] = Aged(w, Left)
    BY <1>0 DEF Aging
  <2>7. n.mapped = cm[o].mapped /\ n.fullscreen = cm[o].fullscreen /\ TextureSound(o, n)
    BY <1>0, AgedTexture DEF TexInv
  <2>8. \A w \in Windows \ {o} : w \notin UnmappedAfter(Left)
    <3>1. Tail(queue) \in Seq(Events) /\ Left = Len(Tail(queue))
      BY <1>0 DEF Types, Left
    <3> HIDE DEF o
    <3> QED BY <1>0, <2>1, <2>3, <3>1, OthersStayMapped
  <2> HIDE DEF n
  <2>9. ASSUME NEW v, Has(queue, o, v), Good(o, v, win[o], client[o], pending),
               Follows(o, v, win[o], client[o], cm[o], pending)
        PROVE  \E u : Has(queue', o, u) /\ Follows(o, u, win'[o], client'[o], cm'[o], pending')
    <3> DEFINE t == Tail(v)
               u == t \o Kind(es)
               x == win[o]
               m == cm[o]
    <3>1. /\ v \in Seq(Kinds) /\ v # << >> /\ Head(v) = "Iconify" /\ Has(queue', o, u)
          /\ t \in Seq(Kinds) /\ win'[o] = y
      BY <1>0, <2>1, <2>5, <2>9 DEF Types
    <3>2. Good(o, t, x, c, pending)
      BY <1>0, <1>1, <2>9, <3>1, TailGood
    <3>3. x.mapped => u = Append(t, "Unmap") /\ u \in Seq(Kinds)
      <4>1. "Unmap" \in Kinds
        BY DEF Kinds, EventTypes
      <4>2. x.mapped => u = t \o <<"Unmap">>
        BY <2>4
      <4>3. t \o <<"Unmap">> = Append(t, "Unmap") /\ Append(t, "Unmap") \in Seq(Kinds)
        <5> HIDE DEF t
        <5> QED BY <3>1, <4>1
      <4> QED BY <4>2, <4>3, Zenon
    <3>4. ~x.mapped => u = t
      <4>1. ~x.mapped => u = t \o << >>
        BY <2>4
      <4>2. t \o << >> = t
        <5> HIDE DEF t
        <5> QED BY <3>1
      <4> QED BY <4>1, <4>2, Zenon
    <3>5. x \in XRecords /\ c \in Clients /\ c.skipUnmaps = c.skipUnmaps - 0
      BY <1>1 DEF Clients
    <3>6. Follows(o, v, x, c, m, pending)
      BY <2>9
    <3>7. n.mapped = m.mapped /\ n.fullscreen = m.fullscreen
      BY <2>7
    <3>8. /\ o \in Plain => Owed(t, x, c)
          /\ c.alive /\ o \in Overrides => c.skipUnmaps = 0
      BY <3>2 DEF Good
    <3> HIDE DEF u, x, c, m
    <3>9. Follows(o, u, y, c, n, pending)
      <4>1. CASE x.mapped
        <5>1. Follows(o, t, x, c, m, pending)
          BY <3>1, <3>5, <3>6, TailFollowed
        <5>2. y.exists = x.exists /\ y.framed = x.framed
          BY <2>3 DEF x
        <5> HIDE DEF t
        <5>3. Follows(o, Append(t, "Unmap"), y, c, n, pending)
          BY <2>3, <3>1, <3>5, <3>7, <3>8, <4>1, <5>1, <5>2, UnmappedFollowed
        <5> QED BY <3>3, <4>1, <5>3
      <4>2. CASE ~x.mapped
        <5>1. y = x
          BY <2>3, <3>5, <4>2 DEF XRecords, x
        <5>2. ~Viewable(x)
          BY <4>2 DEF Viewable
        <5>3. Follows(o, t, x, c, n, pending)
          BY <3>1, <3>5, <3>6, <3>7, <5>2, TailFollowed
        <5> QED BY <3>4, <4>2, <5>1, <5>3
      <4> QED BY <4>1, <4>2
    <3> QED BY <1>1, <2>6, <3>1, <3>9 DEF c
  <2>10. \A w \in Windows \ {o} : win'[w] = win[w] /\ client'[w] = client[w]
    BY <1>0, <1>1, <2>1 DEF Types
  <2>11. TextureSound(o, cm'[o]) /\ (pending => pending')
    BY <1>1, <2>6, <2>7
  <2> HIDE DEF o
  <2> QED BY <1>0, <2>5, <2>6, <2>8, <2>9, <2>10, <2>11, OneFollows
<1> QED BY <1>2, <1>3

\* A message that selects the only desktop.
LEMMA CmDesktopFollows ==
  ASSUME LifecycleAssumption, Desktops = {0}, IInv, CmInv, TexInv, Types', HandleDesktop,
         cm' = Aging(Left)
  PROVE  TexInv'
<1>0. Types /\ queue # << >> /\ Head(queue).type = "Desktop" /\ queue \in Seq(Events)
  BY DEF IInv, HandleDesktop, Receive, Types
<1>1. Head(queue).window = desktop
  BY <1>0, HeadIs DEF Types
<1>2. queue' = Tail(queue) \o << >> /\ queue' = Tail(queue) /\ UNCHANGED <<win, client, pending>>
  BY <1>0, <1>1, HeadIs DEF HandleDesktop, Done
<1>3. ASSUME NEW w \in Windows
      PROVE  /\ TextureSound(w, cm'[w])
             /\ \A v : /\ Has(queue, w, v)
                       /\ Good(w, v, win[w], client[w], pending)
                       /\ Follows(w, v, win[w], client[w], cm[w], pending)
                       => \E u : /\ Has(queue', w, u)
                                 /\ Follows(w, u, win'[w], client'[w], cm'[w], pending')
  <2>1. w \notin UnmappedAfter(Left)
    BY <1>0, <1>2, NoneUnmapped
  <2>2. cm'[w] = Aged(w, Left)
    BY DEF Aging
  <2>3. ~IsOf(Head(queue), w)
    BY <1>0 DEF IsOf
  <2>4. \A v : Has(queue, w, v) => Has(queue', w, v)
    BY <1>0, <1>2, <2>3, HasLess
  <2>5. (pending => pending') /\ win'[w] = win[w] /\ client'[w] = client[w]
    BY <1>2
  <2> QED BY <2>1, <2>2, <2>4, <2>5, Bystander
<1> QED BY <1>3, FollowsEach

\* A step that changes one compositor client and nothing else.
LEMMA TextureChanges ==
  ASSUME IInv, CmInv, TexInv, Types', NEW o \in Windows,
         win' = win, queue' = queue, client' = client, pending' = pending,
         NEW n, cm' = [cm EXCEPT ![o] = n], TextureSound(o, n),
         n.mapped = cm[o].mapped, n.fullscreen = cm[o].fullscreen,
         cm[o].mapped /\ Viewable(win[o]) /\ Bound(cm[o]) => Bound(n)
  PROVE  TexInv'
<1>1. cm'[o] = n /\ \A w \in Windows \ {o} : cm'[w] = cm[w]
  BY DEF CmInv
<1>2. ASSUME NEW v, Has(queue, o, v), Follows(o, v, win[o], client[o], cm[o], pending)
      PROVE  Follows(o, v, win'[o], client'[o], cm'[o], pending')
  <2> DEFINE x == win[o]
             c == client[o]
             m == cm[o]
  <2>1. v \in Seq(Kinds) /\ Count(v) \in Nat /\ c \in Clients
    BY <1>2, CountIsNat DEF Has, IInv, Types
  <2>2. Follows(o, v, x, c, m, pending) /\ Ordered(v, x.mapped)
    BY <1>2 DEF Follows
  <2>3. /\ n.mapped = m.mapped /\ n.fullscreen = m.fullscreen
        /\ m.mapped /\ Viewable(x) /\ Bound(m) => Bound(n)
    OBVIOUS
  <2> HIDE DEF x, c, m
  <2>4. Follows(o, v, x, c, n, pending)
    BY <2>1, <2>2, <2>3, StaysFollowed
  <2> QED BY <1>1, <2>4 DEF x, c
<1>3. /\ \A w \in Windows \ {o} :
           /\ win'[w] = win[w] /\ client'[w] = client[w]
           /\ \A v : Has(queue, w, v) => Has(queue', w, v)
           /\ cm'[w] = cm[w] \/ (cm'[w] = Aged(w, 0) /\ w \notin UnmappedAfter(0))
      /\ TextureSound(o, cm'[o]) /\ (pending => pending')
  BY <1>1
<1>4. \A v : /\ Has(queue, o, v)
             /\ Good(o, v, win[o], client[o], pending)
             /\ Follows(o, v, win[o], client[o], cm[o], pending)
             => \E u : /\ Has(queue', o, u)
                       /\ Follows(o, u, win'[o], client'[o], cm'[o], pending')
  BY <1>2
<1> QED BY <1>3, <1>4, OneFollows

\* A damage event.
LEMMA DamageFollows ==
  ASSUME IInv, CmInv, TexInv, Types', NEW w \in Windows, HandleDamage(w)
  PROVE  TexInv'
<1> DEFINE c == cm[w]
           d == [c EXCEPT !.reports = @ - 1]
           e == IF client[w].listed /\ c.linked THEN Repaired(d, w) ELSE d
<1>0. Types
  BY DEF IInv
<1>1. /\ c \in CmClients /\ Sound(c) /\ c.linked = client[w].alive
      /\ c.linked \in BOOLEAN /\ client[w].listed = client[w].alive
      /\ client[w].listed \in BOOLEAN /\ TextureSound(w, c)
  BY <1>0, StackedAlive DEF CmInv, CmClients, Types, Clients, TexInv
<1>2. /\ c.reports > 0 /\ cm' = [cm EXCEPT ![w] = e]
      /\ win' = win /\ queue' = queue /\ client' = client /\ pending' = pending
  BY <1>1 DEF HandleDamage, CmClients
<1>3. /\ TextureSound(w, e) /\ e.mapped = c.mapped /\ e.fullscreen = c.fullscreen
      /\ Bound(c) => Bound(e)
  BY <1>1, <1>2, RepairedTexture
<1> HIDE DEF e
<1> QED BY <1>2, <1>3, TextureChanges

\* Drawing, and what the program does to compositor clients.
LEMMA ProgramFollows ==
  ASSUME IInv, CmInv, TexInv, Types', NEW w \in Windows, NEW on \in BOOLEAN,
         Draw(w) \/ SetDontUpdate(w, on) \/ TrackDamage(w, on)
  PROVE  TexInv'
<1> DEFINE c == cm[w]
<1>1. c \in CmClients /\ Sound(c) /\ TextureSound(w, c)
  BY DEF CmInv, TexInv
<1>2. win' = win => NowViewable(w) = Viewable(win[w])
  BY DEF NowViewable
<1>3. CASE Draw(w)
  <2> DEFINE d == Reported([c EXCEPT !.texture = IF @ = "current" THEN "stale" ELSE @])
  <2>1. /\ cm' = [cm EXCEPT ![w] = d]
        /\ win' = win /\ queue' = queue /\ client' = client /\ pending' = pending
    BY <1>3 DEF Draw, Changes
  <2>2. /\ TextureSound(w, d) /\ d.mapped = c.mapped /\ d.fullscreen = c.fullscreen
        /\ Bound(c) => Bound(d)
    BY <1>1, DrawnTexture
  <2> HIDE DEF d
  <2> QED BY <2>1, <2>2, TextureChanges
<1>4. CASE SetDontUpdate(w, on)
  <2> DEFINE d == [c EXCEPT !.waits = on]
  <2>1. /\ cm' = [cm EXCEPT ![w] = d]
        /\ win' = win /\ queue' = queue /\ client' = client /\ pending' = pending
    BY <1>4 DEF SetDontUpdate, Changes
  <2>2. /\ d.mapped = c.mapped /\ d.fullscreen = c.fullscreen /\ d.texture = c.texture
        /\ d.paused = c.paused /\ d.damage = c.damage
    <3> HIDE DEF c
    <3> QED BY <1>1 DEF CmClients
  <2>3. TextureSound(w, d) /\ (Bound(c) => Bound(d))
    <3> HIDE DEF d, c
    <3> QED BY <1>1, <2>2 DEF TextureSound, Bound
  <2> HIDE DEF d
  <2> QED BY <2>1, <2>2, <2>3, TextureChanges
<1>5. CASE TrackDamage(w, on)
  <2> DEFINE d == IF on THEN Tracked(c, w) ELSE Untracked(c)
  <2>1. /\ cm' = [cm EXCEPT ![w] = d] /\ c.mapped = TRUE
        /\ win' = win /\ queue' = queue /\ client' = client /\ pending' = pending
    BY <1>1, <1>5 DEF TrackDamage, Changes, CmClients
  <2>2. LET t == Tracked(c, w)
        IN  /\ TextureSound(w, t) /\ t \in CmClients
            /\ t.mapped /\ t.fullscreen = c.fullscreen /\ t.linked = c.linked
            /\ t.damage # "none"
            /\ NowViewable(w) /\ (Bound(c) \/ c.damage = "none") => Bound(t)
    BY <1>1, <2>1, TrackedTexture
  <2>3. LET t == Untracked(c)
        IN  /\ TextureSound(w, t) /\ t \in CmClients /\ Bound(t)
            /\ t.mapped = c.mapped /\ t.fullscreen = c.fullscreen /\ t.linked = c.linked
    BY <1>1, UntrackedTexture
  <2>4. /\ TextureSound(w, d) /\ d.mapped = c.mapped /\ d.fullscreen = c.fullscreen
        /\ Viewable(win[w]) /\ Bound(c) => Bound(d)
    <3>1. CASE on
      <4> DEFINE t == Tracked(c, w)
      <4>1. d = t
        BY <3>1
      <4>2. /\ TextureSound(w, t) /\ t.mapped = TRUE /\ t.fullscreen = c.fullscreen
            /\ NowViewable(w) /\ Bound(c) => Bound(t)
        BY <2>2 DEF CmClients
      <4> HIDE DEF d, t
      <4> QED BY <1>2, <2>1, <4>1, <4>2
    <3>2. CASE ~on
      <4> DEFINE t == Untracked(c)
      <4>1. d = t
        BY <3>2
      <4> HIDE DEF d
      <4> QED BY <2>3, <4>1
    <3> QED BY <3>1, <3>2
  <2> HIDE DEF d
  <2> QED BY <2>1, <2>4, TextureChanges
<1> QED BY <1>3, <1>4, <1>5

\* A client is activated.
LEMMA CmActivateFollows ==
  ASSUME IInv, CmInv, TexInv, Types', ~pending, NEW o \in Windows, CmActivate(o)
  PROVE  TexInv'
<1> DEFINE c == client[o]
<1>0. Types /\ c \in Clients
  BY DEF IInv, Types
<1>1. /\ win' = win /\ queue' = queue /\ pending' = TRUE /\ client'[o] = Shown(c) /\ cm' = cm
      /\ \A w \in Windows \ {o} : client'[w] = client[w]
  BY <1>0 DEF CmActivate, Activate, Becomes, Types
<1>2. ASSUME NEW v, Has(queue, o, v), Good(o, v, win[o], client[o], pending),
             Follows(o, v, win[o], client[o], cm[o], pending)
      PROVE  Follows(o, v, win'[o], client'[o], cm'[o], pending')
  <2> DEFINE x == win[o]
             m == cm[o]
  <2>1. Follows(o, v, x, c, m, pending)
    BY <1>2
  <2>2. c.sync = {}
    BY <1>2 DEF Good, Whole
  <2> HIDE DEF x, m, c
  <2>3. Follows(o, v, x, Shown(c), m, TRUE)
    BY <1>0, <2>1, <2>2, ShownFollowed
  <2> QED BY <1>1, <2>3 DEF x, m
<1>3. /\ \A w \in Windows \ {o} :
           /\ win'[w] = win[w] /\ client'[w] = client[w]
           /\ \A v : Has(queue, w, v) => Has(queue', w, v)
           /\ cm'[w] = cm[w] \/ (cm'[w] = Aged(w, 0) /\ w \notin UnmappedAfter(0))
      /\ TextureSound(o, cm'[o]) /\ (pending => pending')
  BY <1>1 DEF TexInv
<1>4. \A v : /\ Has(queue, o, v)
             /\ Good(o, v, win[o], client[o], pending)
             /\ Follows(o, v, win[o], client[o], cm[o], pending)
             => \E u : /\ Has(queue', o, u)
                       /\ Follows(o, u, win'[o], client'[o], cm'[o], pending')
  BY <1>1, <1>2
<1> QED BY <1>3, <1>4, OneFollows

-----------------------------------------------------------------------------
(* What applications send.                                                  *)

\* An application acts on its window, and es are sent.
LEMMA SentFollows ==
  ASSUME IInv, CmInv, TexInv, Types', NEW o \in Windows, NEW es \in Seq(Reports), Send(o, es),
         NEW y, win' = [win EXCEPT ![o] = y], client' = client, pending' = pending,
         cm' = Aging(Len(queue)),
         \A v \in Seq(Kinds) :
           /\ Good(o, v, win[o], client[o], pending)
           /\ Follows(o, v, win[o], client[o], cm[o], pending)
           => \A n : /\ n.mapped = cm[o].mapped /\ n.fullscreen = cm[o].fullscreen
                     /\ Viewable(y) /\ Unmaps(Kind(es)) = {} => n = cm[o]
                     => Follows(o, v \o Kind(es), y, client[o], n, pending)
  PROVE  TexInv'
<1> DEFINE n == Aged(o, Len(queue))
<1>0. Types /\ queue \in Seq(Events) /\ queue' = queue \o OnWindow(o, es)
  BY DEF IInv, Types, Send
<1>1. win'[o] = y /\ \A w \in Windows \ {o} : win'[w] = win[w]
  BY <1>0 DEF Types
<1>2. /\ \A w \in Windows \ {o} : \A v : Has(queue, w, v) => Has(queue', w, v)
      /\ \A v : Has(queue, o, v) => v \in Seq(Kinds) /\ Has(queue', o, v \o Kind(es))
  BY <1>0, SentIs
<1>3. /\ \A w \in Windows \ {o} : w \notin UnmappedAfter(Len(queue))
      /\ Unmaps(Kind(es)) = {} => o \notin UnmappedAfter(Len(queue))
  BY <1>0, OthersStayMapped
<1>4. cm'[o] = n /\ \A w \in Windows \ {o} : cm'[w] = Aged(w, Len(queue))
  BY DEF Aging
<1>5. /\ n.mapped = cm[o].mapped /\ n.fullscreen = cm[o].fullscreen /\ TextureSound(o, n)
      /\ Viewable(y) /\ Unmaps(Kind(es)) = {} => n = cm[o]
  BY <1>1, <1>3, AgedTexture DEF TexInv, NowViewable
<1> HIDE DEF n
<1>6. ASSUME NEW v, Has(queue, o, v), Good(o, v, win[o], client[o], pending),
             Follows(o, v, win[o], client[o], cm[o], pending)
      PROVE  \E u : Has(queue', o, u) /\ Follows(o, u, win'[o], client'[o], cm'[o], pending')
  BY <1>1, <1>2, <1>4, <1>5, <1>6
<1>7. TextureSound(o, cm'[o]) /\ (pending => pending')
  BY <1>4, <1>5
<1> QED BY <1>1, <1>2, <1>3, <1>4, <1>6, <1>7, OneFollows

\* XMapWindow.
LEMMA AppMapFollows ==
  ASSUME IInv, CmInv, TexInv, Types', NEW o \in Windows, AppMap(o), cm' = Aging(Len(queue))
  PROVE  TexInv'
<1> DEFINE x == win[o]
           c == client[o]
           m == cm[o]
           y == [x EXCEPT !.asked = TRUE, !.mapped = x.mapped \/ o \in Overrides]
<1>0. Types /\ x \in XRecords /\ c \in Clients
  BY DEF IInv, Types
<1>1. win' = [win EXCEPT ![o] = y] /\ client' = client /\ pending' = pending
  BY <1>0 DEF AppMap, Types
<1>2. /\ y \in XRecords /\ y.asked /\ y.exists = x.exists /\ y.framed = x.framed
      /\ y.frameMapped = x.frameMapped /\ (y.mapped <=> x.mapped \/ o \in Overrides)
      /\ x.mapped \in BOOLEAN /\ y.mapped \in BOOLEAN
  BY <1>0 DEF XRecords
<1>3. x.exists
  BY DEF AppMap
<1> HIDE DEF y
<1>4. CASE x.mapped
  <2> DEFINE n == Aged(o, Len(queue))
  <2>0. << >> \in Seq(Reports) /\ Unmaps(Kind(<< >>)) = {} /\ OnWindow(o, << >>) = << >>
    BY DEF Unmaps, Kind, OnWindow
  <2>1. queue' = queue /\ queue \in Seq(Events) /\ queue' = queue \o OnWindow(o, << >>)
    BY <1>0, <1>4, <2>0 DEF AppMap, Types
  <2>2. win'[o] = y /\ \A w \in Windows \ {o} : win'[w] = win[w]
    BY <1>0, <1>1 DEF Types
  <2>3. y.mapped = x.mapped
    BY <1>2, <1>4
  <2>4. \A w \in Windows : w \notin UnmappedAfter(Len(queue))
    BY <2>0, <2>1, OthersStayMapped
  <2>5. cm'[o] = n /\ \A w \in Windows \ {o} : cm'[w] = Aged(w, Len(queue))
    BY DEF Aging
  <2>6. Viewable(y) = Viewable(x)
    BY <1>2, <2>3 DEF Viewable
  <2>7. /\ n.mapped = m.mapped /\ n.fullscreen = m.fullscreen /\ TextureSound(o, n)
        /\ Viewable(x) => n = m
    BY <2>2, <2>4, <2>6, AgedTexture DEF TexInv, NowViewable
  <2> HIDE DEF n
  <2>8. ASSUME NEW v, Has(queue, o, v), Follows(o, v, x, c, m, pending)
        PROVE  Follows(o, v, y, c, n, pending)
    <3>1. v \in Seq(Kinds) /\ Count(v) \in Nat
      BY <2>8, CountIsNat DEF Has
    <3>2. Ordered(v, y.mapped) /\ (Frameless(v, x) => Frameless(v, y))
      BY <1>2, <2>3, <2>8 DEF Follows, Frameless
    <3> HIDE DEF x, c, m
    <3> QED BY <1>0, <1>2, <2>3, <2>7, <2>8, <3>1, <3>2, StaysFollowed
  <2>9. \A v : /\ Has(queue, o, v)
               /\ Good(o, v, win[o], client[o], pending)
               /\ Follows(o, v, win[o], client[o], cm[o], pending)
               => \E u : /\ Has(queue', o, u)
                         /\ Follows(o, u, win'[o], client'[o], cm'[o], pending')
    BY <1>1, <2>1, <2>2, <2>5, <2>8
  <2>10. TextureSound(o, cm'[o]) /\ (pending => pending')
    BY <1>1, <2>5, <2>7
  <2>11. \A w \in Windows \ {o} :
           /\ win'[w] = win[w] /\ client'[w] = client[w]
           /\ \A v : Has(queue, w, v) => Has(queue', w, v)
           /\ cm'[w] = Aged(w, Len(queue)) /\ w \notin UnmappedAfter(Len(queue))
    BY <1>1, <2>1, <2>2, <2>4, <2>5
  <2> QED BY <2>9, <2>10, <2>11, OneFollows
<1>5. CASE ~x.mapped
  <2> DEFINE k == IF o \in Overrides THEN "Map" ELSE "MapRequest"
  <2>1. k \in Kinds /\ k # "MapFrame" /\ Send(o, <<Event(k, "app")>>)
    BY <1>5 DEF AppMap, Kinds, EventTypes
  <2>2. /\ k = "Map" => ~x.mapped /\ y.mapped
        /\ k = "Unmap" => x.mapped /\ ~y.mapped
        /\ k = "MapRequest" => ~x.mapped
        /\ k \notin {"Map", "Unmap"} => x.mapped = y.mapped
        /\ k # "Unmap"
    BY <1>2, <1>5
  <2>3. o \notin Overrides => y.mapped = x.mapped
    BY <1>2, <1>5
  <2>4. ASSUME NEW v \in Seq(Kinds), Good(o, v, win[o], client[o], pending),
               Follows(o, v, win[o], client[o], cm[o], pending),
               NEW n, n.mapped = cm[o].mapped, n.fullscreen = cm[o].fullscreen
        PROVE  Follows(o, v \o Kind(<<Event(k, "app")>>), y, client[o], n, pending)
    <3> DEFINE u == Append(v, k)
    <3>0. Follows(o, v, x, c, m, pending) /\ n.mapped = m.mapped /\ n.fullscreen = m.fullscreen
      BY <2>4
    <3>1. v \o Kind(<<Event(k, "app")>>) = u
      BY <2>1, SentKinds
    <3> HIDE DEF x, c, m, k
    <3>2. Ordered(v, x.mapped)
      BY <3>0 DEF Follows
    <3>3. Ordered(u, y.mapped) /\ (Fresh(v, x.mapped) => Fresh(u, y.mapped))
      BY <1>2, <2>1, <2>2, <3>2, OrderAppend
    <3>4. Count(u) = Count(v) /\ Count(v) \in Nat
      <4>1. Count(v) + 0 = Count(v) /\ Count(v) \in Nat
        BY CountIsNat
      <4> QED BY <2>1, <2>2, <4>1, CountAppend
    <3>5. Frameless(v, x) => Frameless(u, y)
      <4>1. Frameless(v, x) => Frameless(u, x)
        BY <2>1, FramelessMore
      <4> HIDE DEF u
      <4> QED BY <1>2, <4>1 DEF Frameless
    <3>6. ~Viewable(x)
      BY <1>5 DEF Viewable
    <3> HIDE DEF u
    <3>7. CASE o \notin Overrides
      <4>1. Follows(o, u, y, c, n, pending)
        BY <1>0, <1>2, <2>3, <3>0, <3>3, <3>4, <3>5, <3>6, <3>7, StaysFollowed
      <4> QED BY <3>1, <4>1 DEF c
    <3>8. CASE o \in Overrides
      <4>1. Undecorated(u, y, c, n)
        BY <1>2, <3>0, <3>4, <3>5, <3>6, <3>8 DEF Follows, Undecorated, Doomed
      <4>2. Awaits(u, y, c, n)
        BY <3>0, <3>3 DEF Follows, Awaits
      <4>3. Follows(o, u, y, c, n, pending)
        BY <3>0, <3>3, <3>8, <4>1, <4>2 DEF Follows, Plain
      <4> QED BY <3>1, <4>3 DEF c
    <3> QED BY <3>7, <3>8
  <2> HIDE DEF k
  <2>5. <<Event(k, "app")>> \in Seq(Reports)
    BY <2>1, SentKinds
  <2> QED BY <1>1, <2>1, <2>4, <2>5, SentFollows
<1> QED BY <1>4, <1>5

\* XWithdrawWindow.
LEMMA AppWithdrawFollows ==
  ASSUME Preexisting = {}, IInv, CmInv, TexInv, Types', NEW o \in Windows, AppWithdraw(o),
         cm' = Aging(Len(queue))
  PROVE  TexInv'
<1> DEFINE x == win[o]
           c == client[o]
           m == cm[o]
           y == [x EXCEPT !.asked = FALSE, !.mapped = FALSE]
<1>0. Types /\ x \in XRecords /\ c \in Clients
  BY DEF IInv, Types
<1>1. win' = [win EXCEPT ![o] = y] /\ client' = client /\ pending' = pending
  BY <1>0 DEF AppWithdraw, Types
<1>2. /\ y \in XRecords /\ y.exists = x.exists /\ y.framed = x.framed
      /\ y.frameMapped = x.frameMapped /\ ~y.mapped
  BY <1>0 DEF XRecords
<1>3. "Unmap" \in Kinds /\ Send(o, <<Event("Unmap", "app")>>) /\ x.mapped
  BY DEF AppWithdraw, Kinds, EventTypes
<1> HIDE DEF y
<1>4. ASSUME NEW v \in Seq(Kinds), Good(o, v, win[o], client[o], pending),
             Follows(o, v, win[o], client[o], cm[o], pending),
             NEW n, n.mapped = cm[o].mapped, n.fullscreen = cm[o].fullscreen
      PROVE  Follows(o, v \o Kind(<<Event("Unmap", "app")>>), y, client[o], n, pending)
  <2>0. Follows(o, v, x, c, m, pending) /\ n.mapped = m.mapped /\ n.fullscreen = m.fullscreen
    BY <1>4
  <2>1. /\ o \in Plain => Owed(v, x, c)
        /\ c.alive /\ o \in Overrides => c.skipUnmaps = 0
    BY <1>4 DEF Good
  <2> HIDE DEF x, c, m
  <2>2. Follows(o, Append(v, "Unmap"), y, c, n, pending)
    BY <1>0, <1>2, <1>3, <2>0, <2>1, UnmappedFollowed
  <2>3. v \o Kind(<<Event("Unmap", "app")>>) = Append(v, "Unmap")
    BY <1>3, SentKinds
  <2> QED BY <2>2, <2>3 DEF c
<1>5. <<Event("Unmap", "app")>> \in Seq(Reports)
  BY <1>3, SentKinds
<1> QED BY <1>1, <1>3, <1>4, <1>5, SentFollows

\* XDestroyWindow.
LEMMA AppDestroyFollows ==
  ASSUME IInv, CmInv, TexInv, Types', NEW o \in Windows, AppDestroy(o), cm' = Aging(Len(queue))
  PROVE  TexInv'
<1> DEFINE x == win[o]
           c == client[o]
           m == cm[o]
           y == [x EXCEPT !.asked = FALSE, !.exists = FALSE, !.mapped = FALSE]
           es == (IF x.mapped THEN <<Event("Unmap", "app")>> ELSE << >>)
                 \o <<Event("Destroy", "app")>>
<1>0. Types /\ x \in XRecords /\ c \in Clients
  BY DEF IInv, Types
<1>1. win' = [win EXCEPT ![o] = y] /\ client' = client /\ pending' = pending
  BY <1>0 DEF AppDestroy, Types
<1>2. y \in XRecords /\ ~y.exists /\ y.mapped = FALSE /\ y.framed = x.framed /\ x.mapped \in BOOLEAN
  BY <1>0 DEF XRecords
<1>3. Send(o, es)
  BY DEF AppDestroy
<1>4. /\ es \in Seq(Reports)
      /\ \A v \in Seq(Kinds) :
           v \o Kind(es) = Append(IF x.mapped THEN Append(v, "Unmap") ELSE v, "Destroy")
  <2>1. es = (IF x.mapped THEN <<Event("Unmap", "app")>> ELSE << >>)
             \o <<Event("Destroy", "app")>>
    OBVIOUS
  <2> HIDE DEF es
  <2> QED BY <2>1, DestroySent
<1>5. "Unmap" \in Kinds /\ "Destroy" \in Kinds
  BY DEF Kinds, EventTypes
<1> HIDE DEF y, es
<1>6. ASSUME NEW v \in Seq(Kinds), Follows(o, v, win[o], client[o], cm[o], pending),
             NEW n, n.mapped = cm[o].mapped
      PROVE  Follows(o, v \o Kind(es), y, client[o], n, pending)
  <2> DEFINE u == IF x.mapped THEN Append(v, "Unmap") ELSE v
             t == Append(u, "Destroy")
  <2>0. Follows(o, v, x, c, m, pending) /\ n.mapped = m.mapped
    BY <1>6
  <2>1. v \o Kind(es) = t
    BY <1>4
  <2> HIDE DEF x, c, m
  <2>2. Ordered(v, x.mapped) /\ (o \in Overrides => Frameless(v, x))
    BY <2>0 DEF Follows, Undecorated
  <2>3. /\ u \in Seq(Kinds)
        /\ Ordered(u, FALSE) /\ (Fresh(v, x.mapped) => Fresh(u, FALSE))
        /\ o \in Overrides => Frameless(u, x)
    <3>1. CASE x.mapped
      <4>1. Append(v, "Unmap") \in Seq(Kinds) /\ x.mapped = TRUE
        BY <1>2, <1>5, <3>1
      <4>2. Ordered(Append(v, "Unmap"), FALSE) /\ (Fresh(v, TRUE) => Fresh(Append(v, "Unmap"), FALSE))
        BY <1>5, <2>2, <4>1, OrderAppend
      <4>3. o \in Overrides => Frameless(Append(v, "Unmap"), x)
        BY <1>5, <2>2, FramelessMore
      <4> QED BY <3>1, <4>1, <4>2, <4>3
    <3>2. CASE ~x.mapped
      <4>1. u = v /\ x.mapped = FALSE
        BY <1>2, <3>2
      <4> HIDE DEF u
      <4> QED BY <2>2, <4>1
    <3> QED BY <3>1, <3>2
  <2> HIDE DEF u
  <2>4. Ordered(t, FALSE) /\ (Fresh(u, FALSE) => Fresh(t, FALSE))
    BY <1>5, <2>3, OrderAppend
  <2>5. o \in Overrides => Frameless(t, x)
    BY <1>5, <2>3, FramelessMore
  <2> HIDE DEF t
  <2>6. Awaits(t, y, c, n) /\ Ordered(t, y.mapped)
    BY <1>2, <2>0, <2>3, <2>4 DEF Follows, Awaits
  <2>7. o \in Plain => Decorated(t, y, c, n, pending)
    BY <1>2, <2>0 DEF Follows, Decorated
  <2>8. o \in Overrides => Undecorated(t, y, c, n)
    BY <1>2, <2>5 DEF Undecorated, Frameless
  <2>9. ~c.hiding
    BY <2>0 DEF Follows
  <2>10. Follows(o, t, y, c, n, pending)
    BY <2>6, <2>7, <2>8, <2>9 DEF Follows
  <2> QED BY <2>1, <2>10 DEF c
<1> QED BY <1>1, <1>3, <1>4, <1>6, SentFollows

\* A message.
LEMMA MessageFollows ==
  ASSUME LifecycleAssumption, IInv, CmInv, TexInv, Types', Message, cm' = Aging(Len(queue))
  PROVE  TexInv'
<1>0. Types /\ win' = win /\ client' = client /\ pending' = pending /\ queue \in Seq(Events)
  BY DEF IInv, Message, Types
<1>1. CASE \E w \in Windows : \E type \in Messages[w] :
             win[w].mapped /\ Send(w, <<Event(type, "app")>>)
  <2>1. PICK o \in Windows : \E type \in Messages[o] :
             win[o].mapped /\ Send(o, <<Event(type, "app")>>)
    BY <1>1
  <2>2. PICK k \in Messages[o] : win[o].mapped /\ Send(o, <<Event(k, "app")>>)
    BY <2>1
  <2>3. k \in {"SetFullscreen", "ClearFullscreen", "Iconify"}
    BY DEF LifecycleAssumption
  <2>4. k \in Kinds /\ k \notin {"Map", "Unmap", "MapRequest", "MapFrame"}
    BY <2>3 DEF Kinds, EventTypes
  <2>5. win[o] \in XRecords /\ client[o] \in Clients /\ win' = [win EXCEPT ![o] = win[o]]
    BY <1>0 DEF Types
  <2> DEFINE es == <<Event(k, "app")>>
  <2>6. es \in Seq(Reports) /\ Unmaps(Kind(es)) = {}
    <3>1. es \in Seq(Reports) /\ << >> \in Seq(Kinds)
      <4>1. es \in Seq(Reports)
        BY <2>4, SentKinds
      <4>2. << >> \in Seq(Kinds)
        OBVIOUS
      <4> HIDE DEF es
      <4> QED BY <4>1, <4>2
    <3>2. Kind(es) \in Seq(Kinds) /\ << >> \o Kind(es) = Append(<< >>, k)
      BY <2>4, <3>1, SentKinds, KindIs
    <3> HIDE DEF es
    <3>3. << >> \o Kind(es) = Kind(es)
      BY <3>2
    <3>4. Kind(es) = Append(<< >>, k)
      BY <3>2, <3>3
    <3>5. Count(Append(<< >>, k)) = Count(<< >>) + 0
      BY <2>4, <3>1, CountAppend
    <3>6. Count(Kind(es)) = 0
      BY <3>4, <3>5, CountEmpty
    <3> QED BY <3>1, <3>2, <3>6, CountIsNat
  <2>7. ASSUME NEW v \in Seq(Kinds), Follows(o, v, win[o], client[o], cm[o], pending),
               NEW n, n.mapped = cm[o].mapped, n.fullscreen = cm[o].fullscreen,
               Viewable(win[o]) /\ Unmaps(Kind(es)) = {} => n = cm[o]
        PROVE  Follows(o, v \o Kind(es), win[o], client[o], n, pending)
    <3> DEFINE x == win[o]
               c == client[o]
               m == cm[o]
               u == Append(v, k)
    <3>1. v \o Kind(es) = u
      BY <2>4, SentKinds
    <3>2. /\ Follows(o, v, x, c, m, pending) /\ n.mapped = m.mapped
          /\ n.fullscreen = m.fullscreen /\ (Viewable(x) => n = m) /\ c \in Clients
      BY <2>5, <2>6, <2>7
    <3>3. Ordered(v, x.mapped) /\ x.mapped \in BOOLEAN
      BY <2>5, <2>7 DEF Follows, XRecords
    <3>4. Ordered(u, x.mapped) /\ (Fresh(v, x.mapped) => Fresh(u, x.mapped))
      <4> HIDE DEF x
      <4> QED BY <2>4, <3>3, OrderAppend
    <3>5. Count(u) = Count(v) /\ Count(v) \in Nat
      <4>1. Count(v) + 0 = Count(v) /\ Count(v) \in Nat
        BY CountIsNat
      <4> QED BY <2>4, <4>1, CountAppend
    <3>6. Frameless(v, x) => Frameless(u, x)
      BY <2>4, FramelessMore
    <3> HIDE DEF u, x, c, m
    <3>7. Follows(o, u, x, c, n, pending)
      BY <3>2, <3>4, <3>5, <3>6, StaysFollowed
    <3> QED BY <3>1, <3>7 DEF x, c
  <2>8. Send(o, es)
    BY <2>2
  <2> HIDE DEF es
  <2> QED BY <1>0, <2>5, <2>6, <2>7, <2>8, SentFollows
<1>2. CASE \E d \in Desktops : Send(d, <<Event("Desktop", "app")>>)
  <2>1. PICK d \in Desktops : Send(d, <<Event("Desktop", "app")>>)
    BY <1>2
  <2> DEFINE n == OnWindow(d, <<Event("Desktop", "app")>>)
  <2>2. /\ n = [i \in 1..1 |-> [type |-> "Desktop", window |-> d, by |-> "app"]]
        /\ [type |-> "Desktop", window |-> d, by |-> "app"] \in Events
    BY DEF OnWindow, Event, Events, EventTypes, Causes
  <2>3. n \in Seq(Events)
    <3> DEFINE e == [type |-> "Desktop", window |-> d, by |-> "app"]
    <3>1. n = [i \in 1..1 |-> e] /\ e \in Events
      BY <2>2
    <3> HIDE DEF n, e
    <3> QED BY <3>1
  <2>4. \A i \in DOMAIN n : \A w : ~IsOf(n[i], w)
    BY <2>2 DEF IsOf
  <2>5. queue' = queue \o n
    BY <2>1 DEF Send
  <2> HIDE DEF n
  <2>6. ASSUME NEW w \in Windows
        PROVE  /\ TextureSound(w, cm'[w])
               /\ \A v : /\ Has(queue, w, v)
                         /\ Good(w, v, win[w], client[w], pending)
                         /\ Follows(w, v, win[w], client[w], cm[w], pending)
                         => \E u : /\ Has(queue', w, u)
                                   /\ Follows(w, u, win'[w], client'[w], cm'[w], pending')
    <3>1. Has(n, w, << >>) /\ Unmaps(<< >>) = {}
      BY <2>3, <2>4, HasAllOrNone DEF Unmaps
    <3>2. ASSUME NEW v, Has(queue, w, v) PROVE Has(queue', w, v)
      <4>1. Has(queue', w, v \o << >>)
        BY <1>0, <2>3, <2>5, <3>1, <3>2, HasBoth
      <4>2. v \in Seq(Kinds)
        BY <3>2 DEF Has
      <4>3. v \o << >> = v
        BY <4>2
      <4> QED BY <4>1, <4>3
    <3>3. w \notin UnmappedAfter(Len(queue))
      BY <1>0, <2>3, <2>5, <3>1, NotUnmapped
    <3>4. cm'[w] = Aged(w, Len(queue)) /\ win'[w] = win[w] /\ client'[w] = client[w]
          /\ (pending => pending')
      BY <1>0 DEF Aging
    <3> QED BY <3>2, <3>3, <3>4, Bystander
  <2> QED BY <2>6, FollowsEach
<1> QED BY <1>1, <1>2 DEF Message

-----------------------------------------------------------------------------
(* Textures: every step, and what is left when nothing is left to do. *)

\* In the beginning no window has a compositor client.
LEMMA InitFollows ==
  ASSUME Preexisting = {}, CmInit, IInv
  PROVE  TexInv
<1>1. /\ queue = << >> /\ win = [w \in Windows |-> XWindow(w \in Preexisting)]
      /\ cm = [w \in Windows |-> IF client[w].alive THEN Registered(NoCm) ELSE NoCm]
  BY DEF CmInit, Init, InitWith
<1>2. \A w \in Windows : client[w] = NoClient
  BY DEF CmInit, Init, InitWith
<1>3. \A w \in Windows : win[w] = XWindow(FALSE) /\ cm[w] = NoCm
  <2>1. \A w \in Windows : ~client[w].alive /\ (w \in Preexisting) = FALSE
    BY <1>2 DEF NoClient
  <2> QED BY <1>1, <2>1
<1>4. ASSUME NEW w \in Windows
      PROVE  /\ TextureSound(w, cm[w])
             /\ \A v : Has(queue, w, v) => Follows(w, v, win[w], client[w], cm[w], pending)
  <2>1. TextureSound(w, cm[w])
    <3>1. NoCm.texture = "none" /\ ~NoCm.mapped
      BY DEF NoCm
    <3> QED BY <1>3, <3>1 DEF TextureSound
  <2>2. ASSUME NEW v, Has(queue, w, v)
        PROVE  Follows(w, v, win[w], client[w], cm[w], pending)
    <3>1. v = << >>
      BY <1>1, <2>2, HasNothing
    <3>2. Ordered(<< >>, FALSE)
      BY DEF Ordered, Followed
    <3>3. /\ win[w].mapped = FALSE /\ win[w].framed = FALSE
      BY <1>3 DEF XWindow
    <3>4. ~client[w].alive /\ ~client[w].hiding
      BY <1>2 DEF NoClient
    <3>5. Frameless(<< >>, win[w])
      BY <3>3 DEF Frameless
    <3> QED BY <3>1, <3>2, <3>3, <3>4, <3>5, GoneFollowed
  <2> QED BY <2>1, <2>2
<1> QED BY <1>4 DEF TexInv

\* Every step keeps the invariant of textures.
LEMMA TexKeeps ==
  ASSUME LifecycleAssumption, Desktops = {0}, Preexisting = {}, ActivatesNew,
         IInv, IInv', CmInv, TexInv, [CmNext]_cmVars
  PROVE  TexInv'
<1>0. Types'
  BY DEF IInv
<1>1. CASE CmSync
  BY <1>0, <1>1, CmSyncFollows
<1>2. CASE Handle
  <2>1. ~pending
    BY <1>2 DEF Handle
  <2>2. CASE CmMapRequest
    BY <1>0, <2>1, <2>2, CmMapRequestFollows
  <2>3. CASE CmMapNotify
    BY <1>0, <2>1, <2>3, CmMapNotifyFollows
  <2>4. CASE HandleGone
    BY <1>0, <2>4, HandleGoneFollows
  <2>5. CASE HandleMessage
    BY <1>0, <2>1, <2>5, CmFullscreenFollows, CmIconifyFollows, CmDesktopFollows
       DEF HandleMessage
  <2>6. ASSUME NEW w \in Windows, HandleDamage(w) PROVE TexInv'
    BY <1>0, <2>6, DamageFollows
  <2>7. ASSUME NEW w \in Windows, CmActivate(w) PROVE TexInv'
    BY <1>0, <2>1, <2>7, CmActivateFollows
  <2> QED BY <1>2, <2>2, <2>3, <2>4, <2>5, <2>6, <2>7 DEF Handle
<1>3. CASE App
  <2>1. cm' = Aging(Len(queue))
    BY <1>3 DEF App
  <2>2. ASSUME NEW w \in Windows, AppMap(w) \/ AppWithdraw(w) \/ AppDestroy(w) PROVE TexInv'
    BY <1>0, <2>1, <2>2, AppMapFollows, AppWithdrawFollows, AppDestroyFollows
  <2>3. CASE Message
    BY <1>0, <2>1, <2>3, MessageFollows
  <2> QED BY <1>3, <2>2, <2>3 DEF App
<1>4. ASSUME NEW w \in Windows, NEW on \in BOOLEAN,
             Draw(w) \/ SetDontUpdate(w, on) \/ TrackDamage(w, on)
      PROVE  TexInv'
  BY <1>0, <1>4, ProgramFollows
<1>5. CASE UNCHANGED cmVars
  <2>1. win' = win /\ queue' = queue /\ client' = client /\ pending' = pending /\ cm' = cm
    BY <1>5 DEF cmVars
  <2> QED BY <2>1 DEF TexInv
<1> QED BY <1>1, <1>2, <1>3, <1>4, <1>5 DEF CmNext

\* With nothing left to do, a window in view was heard to be mapped, and its texture
\* is bound; a stale one has damage, of which a report would be under way.
LEMMA TexAtRest ==
  ASSUME Preexisting = {}, IInv, CmInv, TexInv
  PROVE  TexturesCurrent
<1> SUFFICES ASSUME CmAtRest, NEW w \in Windows, client[w].stacked, client[w].wanted,
                    InView(w), ~cm[w].paused
             PROVE  cm[w].texture \in Drawn(w)
  BY DEF TexturesCurrent
<1> DEFINE x == win[w]
           c == client[w]
           m == cm[w]
<1>1. AtRest /\ m.reports = 0 /\ queue = << >> /\ ~pending
  BY DEF CmAtRest, AtRest
<1>2. /\ Good(w, << >>, x, c, FALSE) /\ Count(<< >>) = 0 /\ ~MapNext(<< >>)
      /\ x \in XRecords /\ c \in Clients /\ c.sync = {} /\ (c.alive => x.exists)
  BY <1>1, AtRestIs
<1>3. c.alive /\ c.stacked = c.alive
  BY <1>2 DEF Good, Whole
<1>4. Follows(w, << >>, x, c, m, pending) /\ TextureSound(w, m)
  BY <1>1, HasNothing DEF TexInv
<1>5. m \in CmClients /\ Sound(m)
  BY DEF CmInv
<1>6. x.mapped /\ Viewable(x) /\ ~m.paused
  BY DEF InView, Viewable
<1>7. ~Doomed(<< >>, c) /\ ~Lost(<< >>, x, c)
  BY <1>2, <1>6 DEF Doomed, Lost, Clients
<1> HIDE DEF x, c, m
<1>8. m.mapped
  BY <1>2, <1>3, <1>4, <1>6 DEF Follows, Awaits, Fresh
<1>9. Bound(m)
  <2>1. CASE w \in Overrides
    BY <1>2, <1>3, <1>4, <1>7, <1>8, <2>1 DEF Follows, Undecorated
  <2>2. CASE w \notin Overrides
    <3>1. w \in Plain
      BY <2>2 DEF Plain
    <3> QED BY <1>2, <1>3, <1>4, <1>7, <1>8, <3>1 DEF Follows, Decorated, Following
  <2> QED BY <2>1, <2>2
<1>10. m.texture # "stale"
  BY <1>1, <1>4, <1>5, <1>6 DEF TextureSound, Sound
<1>11. m.texture = "current" \/ (m.texture = "skipped" /\ w \notin Ignoring)
  BY <1>4, <1>6, <1>9, <1>10 DEF Bound, TextureSound
<1> QED BY <1>11 DEF Drawn, m

(* On one desktop, if no window was mapped before the window manager started *)
(* and clients are activated as they are mapped, nothing drawn is missing on *)
(* the screen once the window manager                                        *)
(* and the server have nothing left to do: however a window was reparented,  *)
(* hidden and mapped again, its texture was bound to the last of its pixmaps *)
(* (mb_wm_comp_mgr_clutter_fetch_texture is called where the window got a    *)
(* new one), and no damage event is swallowed.                               *)
THEOREM TexturesStayCurrent ==
  ASSUME Desktops = {0}, Preexisting = {}, ActivatesNew PROVE CmSpec => []TexturesCurrent
<1> USE LifecycleAssumption
<1>1. CmInit /\ IInv => CmInv /\ TexInv
  BY CmInitKeeps, InitFollows
<1>2. CmInv /\ TexInv /\ IInv /\ IInv' /\ [CmNext]_cmVars => CmInv' /\ TexInv'
  BY CmKeeps, TexKeeps
<1>3. CmInv /\ TexInv /\ IInv => TexturesCurrent
  BY TexAtRest
<1> QED BY <1>1, <1>2, <1>3, ImplementsLifecycle, InvariantHolds, PTL DEF CmSpec

=============================================================================
