----------------------------- MODULE FocusProofs -----------------------------
(***************************************************************************)
(* Who has the keyboard (core/mb-window-manager.c), for every set of       *)
(* clients, of whatever types, that map, withdraw, die, activate and       *)
(* change to fullscreen in any order.                                      *)
(*                                                                         *)
(* What is known of the stack and of the links is taken from               *)
(* WindowStackProofs: a step of the policy here is one there.  Of the      *)
(* record that a handler works on, Sound is what holds after each of its   *)
(* steps; Good and Settled are what the steps of a window manager make     *)
(* true that syncs after every event.                                      *)
(***************************************************************************)
EXTENDS Focus, FiniteSetTheorems, TLAPS

Stack == INSTANCE WindowStackProofs

-----------------------------------------------------------------------------
(* The policy that Focus uses is the one WindowStackProofs is about.         *)

\* A sync of the stack.
LEMMA SyncIs ==
  ASSUME Policy!Sync
  PROVE  Stack!Sync
BY DEF Policy!Sync, Stack!Sync, Policy!Ensured, Stack!Ensured, Policy!LayerCount,
       Stack!LayerCount, Policy!Through, Stack!Through, Policy!LayerPushed,
       Stack!LayerPushed, Policy!StackingLayer, Stack!StackingLayer, Policy!Unknown,
       Stack!Unknown, Policy!Bottom, Stack!Bottom, Policy!Mid, Stack!Mid,
       Policy!TopMid, Stack!TopMid, Policy!HildonOr, Stack!HildonOr, Policy!Top,
       Stack!Top, Policy!SystemModal, Stack!SystemModal, Policy!LayerLoop,
       Stack!LayerLoop, Policy!Round, Stack!Round, Policy!ClientStack,
       Stack!ClientStack, Policy!Raised, Stack!Raised, Policy!MovedAbove,
       Stack!MovedAbove, Policy!Without, Stack!Without, Policy!Position,
       Stack!Position, Policy!DropAt, Stack!DropAt, Policy!PutAboveClient,
       Stack!PutAboveClient, Policy!PutAbove, Stack!PutAbove, Policy!StackedAlone,
       Stack!StackedAlone, Policy!Lowered, Stack!Lowered, Policy!MovedAboveType,
       Stack!MovedAboveType, Policy!HighestOf, Stack!HighestOf, Policy!PositionsOf,
       Stack!PositionsOf, Policy!FollowedTypes, Stack!FollowedTypes, Policy!Follows,
       Stack!Follows, Policy!Root, Stack!Root, Policy!RaisedFamily,
       Stack!RaisedFamily, Policy!Family, Stack!Family, Policy!Headed, Stack!Headed,
       Policy!OverrideCalls, Stack!OverrideCalls, Policy!NextValid, Stack!NextValid

\* A client is managed.
LEMMA MapIs ==
  ASSUME NEW c, NEW x, NEW h, Policy!Map(c, x, h)
  PROVE  Stack!Map(c, x, h)
BY DEF Policy!Map, Stack!Map, Policy!PutAbove, Stack!PutAbove, Policy!ClientStack,
       Stack!ClientStack, Policy!Raised, Stack!Raised, Policy!MovedAbove,
       Stack!MovedAbove, Policy!Without, Stack!Without, Policy!Position,
       Stack!Position, Policy!DropAt, Stack!DropAt, Policy!PutAboveClient,
       Stack!PutAboveClient, Policy!Through, Stack!Through, Policy!StackedAlone,
       Stack!StackedAlone, Policy!Lowered, Stack!Lowered, Policy!MovedAboveType,
       Stack!MovedAboveType, Policy!HighestOf, Stack!HighestOf, Policy!PositionsOf,
       Stack!PositionsOf, Policy!FollowedTypes, Stack!FollowedTypes, Policy!Follows,
       Stack!Follows, Policy!Root, Stack!Root, Policy!RaisedFamily,
       Stack!RaisedFamily, Policy!Family, Stack!Family, Policy!Headed, Stack!Headed,
       Policy!OverrideCalls, Stack!OverrideCalls, Policy!Managed, Stack!Managed,
       Policy!Stacked, Stack!Stacked, Policy!InitialLayer, Stack!InitialLayer,
       Policy!Unknown, Stack!Unknown, Policy!Bottom, Stack!Bottom, Policy!BottomMid,
       Stack!BottomMid, Policy!Mid, Stack!Mid, Policy!TopMid, Stack!TopMid,
       Policy!Top, Stack!Top, Policy!HildonOr, Stack!HildonOr, Policy!Adopts,
       Stack!Adopts, Policy!AdoptableTypes, Stack!AdoptableTypes, Policy!LinksOnMap,
       Stack!LinksOnMap, Policy!AddTransient, Stack!AddTransient,
       Policy!Detransitise, Stack!Detransitise, Policy!RemoveTransient,
       Stack!RemoveTransient, Policy!ParentOnMap, Stack!ParentOnMap

\* A client is withdrawn.
LEMMA WithdrawIs ==
  ASSUME NEW c, Policy!Withdraw(c)
  PROVE  Stack!Withdraw(c)
BY DEF Policy!ToSet, Stack!ToSet, Policy!Withdraw, Stack!Withdraw, Policy!Orphan,
       Stack!Orphan, Policy!Managed, Stack!Managed, Policy!Stacked, Stack!Stacked,
       Policy!Unmanage, Stack!Unmanage, Policy!Without, Stack!Without,
       Policy!Position, Stack!Position, Policy!DropAt, Stack!DropAt, Policy!Unknown,
       Stack!Unknown, Policy!Detransitise, Stack!Detransitise,
       Policy!RemoveTransient, Stack!RemoveTransient

\* A client is destroyed.
LEMMA DestroyIs ==
  ASSUME NEW c, Policy!Destroy(c)
  PROVE  Stack!Destroy(c)
BY DEF Policy!Destroy, Stack!Destroy, Policy!Managed, Stack!Managed, Policy!Stacked,
       Stack!Stacked, Policy!Unmanage, Stack!Unmanage, Policy!Without,
       Stack!Without, Policy!Position, Stack!Position, Policy!DropAt, Stack!DropAt,
       Policy!Unknown, Stack!Unknown, Policy!Detransitise, Stack!Detransitise,
       Policy!RemoveTransient, Stack!RemoveTransient, Policy!Orphan, Stack!Orphan

\* A client is activated.
LEMMA ActivatedIs ==
  ASSUME NEW c, NEW s, Policy!Activated(c, s)
  PROVE  Stack!Activated(c, s)
BY DEF Policy!Activated, Stack!Activated, Policy!ClientStack, Stack!ClientStack,
       Policy!Raised, Stack!Raised, Policy!MovedAbove, Stack!MovedAbove,
       Policy!Without, Stack!Without, Policy!Position, Stack!Position,
       Policy!DropAt, Stack!DropAt, Policy!PutAboveClient, Stack!PutAboveClient,
       Policy!PutAbove, Stack!PutAbove, Policy!Through, Stack!Through,
       Policy!StackedAlone, Stack!StackedAlone, Policy!Lowered, Stack!Lowered,
       Policy!MovedAboveType, Stack!MovedAboveType, Policy!HighestOf,
       Stack!HighestOf, Policy!PositionsOf, Stack!PositionsOf, Policy!FollowedTypes,
       Stack!FollowedTypes, Policy!Follows, Stack!Follows, Policy!Root, Stack!Root,
       Policy!RaisedFamily, Stack!RaisedFamily, Policy!Family, Stack!Family,
       Policy!Headed, Stack!Headed, Policy!OverrideCalls, Stack!OverrideCalls,
       Policy!ShowsDesktop, Stack!ShowsDesktop

\* The initial states.
LEMMA InitIs ==
  ASSUME Policy!Init
  PROVE  Stack!Init
BY DEF Policy!Init, Stack!Init, Policy!Unknown, Stack!Unknown, Policy!Unlinked,
       Stack!Unlinked

-----------------------------------------------------------------------------
(* A stack of the clients M with their links.                                *)

Standing(M, ord, l) ==
  /\ ord \in Seq(Clients)
  /\ \A i \in 1..Len(ord) : ord[i] \in M
  /\ M \in SUBSET Clients
  /\ IsFiniteSet(M)
  /\ Stack!Linked(l, M)

LEMMA NullIsNone == NULL \notin Clients /\ RootWindow \notin Clients /\ PointerRoot \notin Clients
BY FocusAssumption

\* Both modules have their own notion of finite sets, which is the same.
LEMMA FiniteIs == \A S : IsFiniteSet(S) <=> Stack!IsFiniteSet(S)
BY DEF IsFiniteSet, Stack!IsFiniteSet

LEMMA StandingIs ==
  ASSUME NEW M, NEW ord \in Stack!Orders(M), NEW l, Stack!Linked(l, M)
  PROVE  Standing(M, ord, l) /\ M = ToSet(ord)
<1>1. ord \in Seq(Clients) /\ M \subseteq Clients /\ \A i \in 1..Len(ord) : ord[i] \in M
  BY FocusAssumption, Stack!PlaceOf
<1>2. IsFiniteSet(M)
  BY FocusAssumption, FiniteIs, Stack!OrdersFinite
<1>3. M = Stack!Stacked(ord)
  BY FocusAssumption, Stack!ManagedIs
<1>4. M = ToSet(ord)
  BY <1>1, <1>3 DEF Stack!Stacked, ToSet
<1> QED BY <1>1, <1>2, <1>4 DEF Standing

\* The invariant of the stack, before and after a step.
LEMMA StandingNow ==
  ASSUME Stack!IInv
  PROVE  /\ Standing(Managed, order, links)
         /\ clients \in Stack!Orders(Managed)
         /\ order \in Stack!Orders(Managed)
         /\ Stack!Managed = Managed
<1>1. /\ order \in Stack!Orders(Stack!Managed) /\ clients \in Stack!Orders(Stack!Managed)
      /\ Stack!Linked(links, Stack!Managed)
  BY DEF Stack!IInv
<1>2. Standing(Stack!Managed, order, links) /\ Stack!Managed = ToSet(order)
  BY <1>1, StandingIs
<1> QED BY <1>1, <1>2 DEF Managed

LEMMA StandingNext ==
  ASSUME Stack!IInv'
  PROVE  /\ Standing(Managed', order', links')
         /\ clients' \in Stack!Orders(Managed')
<1>1. /\ order' \in Stack!Orders(Stack!Managed') /\ clients' \in Stack!Orders(Stack!Managed')
      /\ Stack!Linked(links', Stack!Managed')
  BY DEF Stack!IInv
<1>2. Standing(Stack!Managed', order', links') /\ Stack!Managed' = ToSet(order')
  BY <1>1, StandingIs
<1> QED BY <1>1, <1>2 DEF Managed

\* wm->clients has the clients of the stack, and shows who came or went.
LEMMA ManagedBecomes ==
  ASSUME Stack!IInv, Stack!IInv'
  PROVE  /\ clients' = clients => Managed' = Managed
         /\ \A c \in Clients \ Managed : clients' = Append(clients, c) => Managed' = Managed \cup {c}
         /\ \A c \in Managed : clients' = Stack!Without(clients, c) => Managed' = Managed \ {c}
<1>1. clients \in Stack!Orders(Managed)
  BY StandingNow
<1>2. clients' \in Stack!Orders(Managed')
  BY StandingNext
<1>3. \A N : clients' \in Stack!Orders(N) => Managed' = N
  BY <1>2 DEF Stack!Orders
<1>4. \A c \in Clients \ Managed : Append(clients, c) \in Stack!Orders(Managed \cup {c})
  BY <1>1, FocusAssumption, Stack!AppendIs
<1>5. \A c \in Managed : Stack!Without(clients, c) \in Stack!Orders(Managed \ {c})
  BY <1>1, FocusAssumption, Stack!WithoutIs
<1> QED BY <1>1, <1>3, <1>4, <1>5

\* Neither the stack nor the links change.
LEMMA StackSame ==
  ASSUME Stack!IInv, UNCHANGED <<order, clients, links, desktop>>
  PROVE  Stack!IInv' /\ Managed' = Managed
<1>1. Stack!IInv'
  BY FocusAssumption, Stack!SameKeeps
<1> QED BY <1>1 DEF Managed

-----------------------------------------------------------------------------
(* Transients.                                                               *)

\* Where the walk from the top of the stack meets the transients of d.
TopKids(ord, l, d) == {i \in 1..Len(ord) : l.parent[ord[i]] = d /\ ord[i] \notin Actors}

TopKid(ord, l, d) ==
  ord[CHOOSE i \in TopKids(ord, l, d) : \A j \in TopKids(ord, l, d) : j <= i]

Rising(f, ord, l) ==
  f = [d \in Clients |-> IF TopKids(ord, l, d) = {} THEN d ELSE f[TopKid(ord, l, d)]]

\* The clients a walk to the last transient may end at.
Heirs(M, l) == {k \in M : k \notin Actors /\ l.parent[k] # NULL}

LEMMA TopKidIs ==
  ASSUME NEW M, NEW ord, NEW l, Standing(M, ord, l), NEW d \in Clients, TopKids(ord, l, d) # {}
  PROVE  /\ TopKid(ord, l, d) \in Heirs(M, l)
         /\ TopKid(ord, l, d) \in Clients
         /\ l.parent[TopKid(ord, l, d)] = d
<1> DEFINE T == TopKids(ord, l, d)
           i == CHOOSE k \in T : \A j \in T : j <= k
<1>1. Len(ord) \in Nat /\ T \in SUBSET (0..Len(ord)) /\ T # {}
  BY DEF Standing, TopKids
<1>2. \E k \in T : \A j \in T : j <= k
  <2> HIDE DEF T
  <2> QED BY <1>1, FocusAssumption, Stack!GreatestNumber
<1>3. i \in T
  <2> HIDE DEF T
  <2> QED BY <1>2
<1>4. TopKid(ord, l, d) = ord[i]
  BY DEF TopKid
<1> HIDE DEF i
<1>5. i \in 1..Len(ord) /\ l.parent[ord[i]] = d /\ ord[i] \notin Actors
  BY <1>3 DEF TopKids
<1>6. ord[i] \in M /\ M \subseteq Clients
  BY <1>5 DEF Standing
<1> QED BY <1>4, <1>5, <1>6, NullIsNone DEF Heirs

\* No client waits for itself down its chain.
LEMMA Ends ==
  ASSUME NEW M, NEW ord, NEW l, Standing(M, ord, l), NEW B \in SUBSET M, B # {}
  PROVE  \E e \in B : \A c \in B : l.parent[c] # e
<1>1. M \in SUBSET Clients /\ IsFiniteSet(M) /\ Stack!Linked(l, M)
  BY DEF Standing
<1> QED BY <1>1, FocusAssumption, FiniteIs, Stack!KidsEnd

\* The walk to the last transient has an end.
LEMMA RisingExists ==
  ASSUME NEW M, NEW ord, NEW l, Standing(M, ord, l)
  PROVE  \E f : Rising(f, ord, l)
<1> DEFINE V == Clients
           Free(d) == TopKids(ord, l, d) = {}
           H(d, f) == IF Free(d) THEN d ELSE f[TopKid(ord, l, d)]
           G == [d \in Clients |-> [f \in [Clients -> V] |-> H(d, f)]]
           dep == [d \in Clients |-> IF Free(d) THEN {} ELSE {TopKid(ord, l, d)}]
<1>1. \A d \in Clients : ~Free(d) => /\ TopKid(ord, l, d) \in Clients
                                     /\ l.parent[TopKid(ord, l, d)] = d
  BY TopKidIs
<1>2. CASE Clients = {}
  <2> DEFINE f == [d \in Clients |-> d]
  <2>1. Rising(f, ord, l)
    BY <1>2 DEF Rising
  <2> QED BY <2>1
<1>3. CASE Clients # {}
  <2>1. PICK v : v \in V
    BY <1>3
  <2>2. \A d \in Clients : \A f \in [Clients -> V] : H(d, f) \in V
    BY <1>1
  <2>3. ASSUME NEW d \in Clients, NEW f, NEW g, Stack!SameOn(f, g, dep[d])
        PROVE  H(d, f) = H(d, g)
    BY <2>3 DEF Stack!SameOn
  <2>4. \A d \in Clients \ M : dep[d] = {}
    <3>1. \A k \in Clients : l.parent[k] # NULL => l.parent[k] \in M
      BY DEF Standing, Stack!Linked
    <3> QED BY <1>1, <3>1, NullIsNone
  <2>5. \A B \in SUBSET M : B # {} => \E e \in B : dep[e] \cap B = {}
    <3> SUFFICES ASSUME NEW B \in SUBSET M, B # {} PROVE \E e \in B : dep[e] \cap B = {}
      OBVIOUS
    <3>1. PICK e \in B : \A c \in B : l.parent[c] # e
      BY Ends
    <3>2. e \in Clients
      BY DEF Standing
    <3>3. dep[e] \cap B = {}
      BY <1>1, <3>1, <3>2
    <3> QED BY <3>3
  <2>6. M \in SUBSET Clients /\ IsFiniteSet(M)
    BY DEF Standing
  <2> HIDE DEF H, V
  <2>7. G \in [Clients -> [[Clients -> V] -> V]]
    BY <2>2
  <2>8. \A d \in Clients : \A f \in [Clients -> V] : G[d][f] = H(d, f)
    OBVIOUS
  <2>9. dep \in [Clients -> SUBSET Clients]
    BY <1>1
  <2> HIDE DEF G, dep, Free
  <2>10. \A d \in Clients : \A f, g \in [Clients -> V] :
           Stack!SameOn(f, g, dep[d]) => G[d][f] = G[d][g]
    BY <2>3, <2>8
  <2>11. \E f \in [Clients -> V] : Stack!Solved(f, Clients, G)
    <3>1. Stack!Respects(G, dep, Clients, V)
      BY <2>10 DEF Stack!Respects
    <3>2. Stack!Grounded(dep, Clients, M)
      BY <2>4, <2>5 DEF Stack!Grounded
    <3> QED BY <2>1, <2>6, <2>7, <2>9, <3>1, <3>2, FocusAssumption, FiniteIs, Stack!Recursion
  <2>12. PICK f \in [Clients -> V] : f = [d \in Clients |-> G[d][f]]
    BY <2>11 DEF Stack!Solved
  <2>13. \A d \in Clients : f[d] = H(d, f)
    BY <2>8, <2>12
  <2>14. f = [d \in Clients |-> H(d, f)]
    BY <2>13
  <2> QED BY <2>14 DEF Rising, H, Free
<1> QED BY <1>2, <1>3

\* mb_wm_client_get_last_focused_transient: it ends at a transient that is no actor.
LEMMA LastTransientIs ==
  ASSUME NEW M, NEW ord, NEW l, Standing(M, ord, l), NEW c \in Clients
  PROVE  LastTransient(ord, l, c) \in Heirs(M, l) \cup {NULL}
<1> DEFINE highest == CHOOSE f : Rising(f, ord, l)
           Ok(d) == highest[d] = d \/ highest[d] \in Heirs(M, l)
           B == {d \in M : ~Ok(d)}
<1>1. Rising(highest, ord, l)
  BY RisingExists
<1>2. LastTransient(ord, l, c) = IF TopKids(ord, l, c) = {} THEN NULL ELSE highest[c]
  BY DEF LastTransient, Rising, TopKids, TopKid
<1> HIDE DEF highest
<1>3. \A d \in Clients : highest[d] = IF TopKids(ord, l, d) = {} THEN d
                                      ELSE highest[TopKid(ord, l, d)]
  BY <1>1 DEF Rising
<1>4. B = {}
  <2> SUFFICES ASSUME B # {} PROVE FALSE
    OBVIOUS
  <2>1. B \in SUBSET M
    OBVIOUS
  <2>2. PICK e \in B : \A d \in B : l.parent[d] # e
    <3> HIDE DEF B
    <3> QED BY <2>1, Ends
  <2>3. e \in M /\ e \in Clients /\ ~Ok(e)
    BY DEF Standing
  <2>4. TopKids(ord, l, e) # {}
    BY <1>3, <2>3
  <2> DEFINE k == TopKid(ord, l, e)
  <2>5. k \in Heirs(M, l) /\ l.parent[k] = e
    BY <2>3, <2>4, TopKidIs
  <2>6. highest[e] = highest[k]
    BY <1>3, <2>3, <2>4
  <2> HIDE DEF k
  <2>7. k \in M /\ k \notin B
    BY <2>2, <2>5 DEF Heirs
  <2>8. Ok(k)
    BY <2>7
  <2> QED BY <2>3, <2>5, <2>6, <2>8
<1>5. CASE TopKids(ord, l, c) # {}
  <2> DEFINE k == TopKid(ord, l, c)
  <2>1. k \in Heirs(M, l)
    BY <1>5, TopKidIs
  <2>2. highest[c] = highest[k]
    BY <1>3, <1>5
  <2> HIDE DEF k
  <2>3. k \in M
    BY <2>1 DEF Heirs
  <2>4. Ok(k)
    BY <1>4, <2>3
  <2> QED BY <1>2, <1>5, <2>1, <2>2, <2>4
<1>6. CASE TopKids(ord, l, c) = {}
  BY <1>2, <1>6
<1> QED BY <1>5, <1>6

-----------------------------------------------------------------------------
(* The record a handler works on, for the managed clients M.                 *)

Foci(M) == [client : M \cup {NULL}, later : BOOLEAN, last : Clients \cup {NULL}]

Records(M, x) ==
  [fresh : SUBSET M, hidden : SUBSET M, stale : SUBSET M, focus : Foci(M),
   viewable : SUBSET exists, input : Clients \cup {RootWindow, PointerRoot}, xfor : {x}]

\* d says whether a sync of the stack is queued.
Sound(s, M, x, d) ==
  /\ s \in Records(M, x)
  /\ s.fresh \subseteq s.stale
  /\ s.fresh # {} \/ s.focus.later => d

NoOne(s) == [s EXCEPT !.focus.client = NULL]

Focused(s, c) == [ClientFocus(s, c) EXCEPT !.focus.client = c]

\* What the two records have in common.
SameButFocus(s, r) == r.fresh = s.fresh /\ r.hidden = s.hidden /\ r.stale = s.stale

\* mb_wm_client_focus, after which focused_client is set.
LEMMA FocusedDoes ==
  ASSUME NEW M \in SUBSET Clients, NEW x, NEW s \in Records(M, x), NEW c \in M,
         NEW r, r = Focused(s, c)
  PROVE  /\ r \in Records(M, x)
         /\ SameButFocus(s, r)
         /\ r.viewable = s.viewable
         /\ r.focus.client = c
         /\ r.focus.later = s.focus.later
         /\ c \notin Actors => r.focus.last = c
         /\ c \notin Actors =>
              r.input = IF c # s.focus.last /\ c \in s.viewable THEN c ELSE s.input
<1>1. s.focus \in Foci(M)
  BY DEF Records
<1>2. CASE c = s.focus.last \/ c \in Actors
  <2>1. Focused(s, c) = [s EXCEPT !.focus = [s.focus EXCEPT !.client = c]]
    BY <1>2 DEF Focused, ClientFocus, Records
  <2> DEFINE f == [s.focus EXCEPT !.client = c]
  <2>2. f \in Foci(M) /\ f.client = c /\ f.later = s.focus.later /\ f.last = s.focus.last
    BY <1>1 DEF Foci
  <2> HIDE DEF f
  <2> QED BY <1>2, <2>1, <2>2 DEF Records, SameButFocus, f
<1>3. CASE ~(c = s.focus.last \/ c \in Actors)
  <2> DEFINE i == IF c \in s.viewable THEN c ELSE s.input
             f == [[s.focus EXCEPT !.last = c] EXCEPT !.client = c]
  <2>1. Focused(s, c) = [[s EXCEPT !.input = i] EXCEPT !.focus = f]
    BY <1>1, <1>3 DEF Focused, ClientFocus, SetInput, Records, Foci
  <2>2. f \in Foci(M) /\ f.client = c /\ f.later = s.focus.later /\ f.last = c
    BY <1>1 DEF Foci
  <2>3. i \in Clients \cup {RootWindow, PointerRoot}
    BY DEF Records
  <2> HIDE DEF f, i
  <2>4. /\ Focused(s, c) \in Records(M, x) /\ Focused(s, c).focus = f /\ Focused(s, c).input = i
        /\ SameButFocus(s, Focused(s, c)) /\ Focused(s, c).viewable = s.viewable
    BY <2>1, <2>2, <2>3 DEF Records, SameButFocus
  <2> QED BY <1>3, <2>2, <2>4 DEF i
<1> QED BY <1>2, <1>3

RealizedFrom(s, r, c) ==
  /\ r.fresh = s.fresh \ {c} /\ r.stale = s.stale \ {c} /\ r.hidden = s.hidden
  /\ r.focus.client = s.focus.client /\ r.focus.last = s.focus.last
  /\ r.focus.later = TRUE
  /\ r.input = s.input
  /\ s.viewable \subseteq r.viewable
  /\ c \in exists /\ c \notin s.hidden => c \in r.viewable

\* A client is realized while it is focused.
LEMMA RealizedDoes ==
  ASSUME NEW M \in SUBSET Clients, NEW x, NEW s \in Records(M, x), NEW c \in M,
         NEW r, r = Realized(s, c)
  PROVE  r \in Records(M, x) /\ RealizedFrom(s, r, c)
<1> DEFINE f == [s.focus EXCEPT !.later = TRUE]
           v == IF c \in exists /\ c \notin s.hidden THEN s.viewable \cup {c} ELSE s.viewable
           a == s.fresh \ {c}
           b == s.stale \ {c}
<1>1. f \in Foci(M) /\ f.client = s.focus.client /\ f.last = s.focus.last /\ f.later = TRUE
  BY DEF Records, Foci
<1>2. v \in SUBSET exists /\ s.viewable \subseteq v /\ (c \in exists /\ c \notin s.hidden => c \in v)
  BY DEF Records
<1>3. a \in SUBSET M /\ b \in SUBSET M
  BY DEF Records
<1>4. Realized(s, c) = [s EXCEPT !.fresh = a, !.stale = b, !.focus = f, !.viewable = v]
  BY DEF Realized, Records
<1> HIDE DEF f, v, a, b
<1>5. /\ Realized(s, c) \in Records(M, x) /\ Realized(s, c).fresh = a /\ Realized(s, c).stale = b
      /\ Realized(s, c).focus = f /\ Realized(s, c).viewable = v
      /\ Realized(s, c).hidden = s.hidden /\ Realized(s, c).input = s.input
  BY <1>1, <1>2, <1>3, <1>4 DEF Records
<1> QED BY <1>1, <1>2, <1>5 DEF a, b, RealizedFrom

NoOneFrom(s, r) ==
  /\ SameButFocus(s, r)
  /\ r.viewable = s.viewable /\ r.input = s.input
  /\ r.focus.client = NULL
  /\ r.focus.last = s.focus.last /\ r.focus.later = s.focus.later

LEMMA NoOneDoes ==
  ASSUME NEW M, NEW N, NEW x, NEW s \in Records(N, x),
         {s.fresh, s.hidden, s.stale} \subseteq SUBSET M,
         NEW r, r = NoOne(s)
  PROVE  r \in Records(M, x) /\ NoOneFrom(s, r)
<1> DEFINE f == [s.focus EXCEPT !.client = NULL]
<1>1. f \in Foci(M) /\ f.client = NULL /\ f.last = s.focus.last /\ f.later = s.focus.later
  BY DEF Records, Foci
<1>2. NoOne(s) = [s EXCEPT !.focus = f]
  BY DEF NoOne, Records
<1> HIDE DEF f
<1> QED BY <1>1, <1>2 DEF Records, SameButFocus, NoOneFrom

\* The root takes the focus.
LEMMA FocusRootDoes ==
  ASSUME NEW M, NEW x, NEW s \in Records(M, x),
         NEW r, r = FocusRoot(s)
  PROVE  /\ r \in Records(M, x)
         /\ SameButFocus(s, r)
         /\ r.viewable = s.viewable /\ r.focus = s.focus
         /\ r.input = RootWindow
BY DEF FocusRoot, Records, SameButFocus

\* mb_wm_client_show
LEMMA ShownDoes ==
  ASSUME NEW M, NEW x, NEW s \in Records(M, x), NEW c \in M,
         NEW r, r = Shown(s, c)
  PROVE  /\ r \in Records(M, x)
         /\ r.fresh = s.fresh /\ r.hidden = s.hidden \ {c} /\ r.stale = s.stale \cup {c}
         /\ r.focus = s.focus /\ r.viewable = s.viewable /\ r.input = s.input
BY DEF Shown, Records

-----------------------------------------------------------------------------
(* How the focus is given.                                                   *)

\* c was asked to be focused in s.
Asked(s, r, c) ==
  \/ r = s /\ (s.focus.client = NULL => c \notin Typing)
  \/ c \in s.fresh /\ r = Realized(s, c)
  \/ c \notin s.fresh /\ c \in Typing /\ r = Focused(s, c)

\* mb_wm_focus_client asks the client itself or a transient.
LEMMA FocusClientIs ==
  ASSUME NEW M, NEW ord, NEW l, Standing(M, ord, l), NEW x \in M, NEW s
  PROVE  \E c \in {x} \cup Heirs(M, l) : c \in M /\ Asked(s, FocusClient(s, ord, l, x), c)
<1> DEFINE c == FocusTarget(ord, l, x)
<1>1. x \in Clients /\ M \subseteq Clients
  BY DEF Standing
<1>2. c \in {x} \cup Heirs(M, l)
  BY <1>1, LastTransientIs DEF FocusTarget
<1>3. c \in M
  BY <1>2 DEF Heirs
<1>4. FocusClient(s, ord, l, x) = IF Refuses(s, l, c) THEN s
                                  ELSE IF c \in s.fresh THEN Realized(s, c) ELSE Focused(s, c)
  BY DEF FocusClient, Focused
<1> HIDE DEF c
<1>5. Refuses(s, l, c) /\ s.focus.client = NULL => c \notin Typing
  BY <1>1, <1>3, NullIsNone DEF Refuses
<1>6. ~Refuses(s, l, c) => c \in Typing
  BY DEF Refuses
<1>7. Asked(s, FocusClient(s, ord, l, x), c)
  BY <1>4, <1>5, <1>6 DEF Asked
<1> QED BY <1>2, <1>3, <1>7

LEMMA FocusPlaceIs ==
  ASSUME NEW M, NEW ord, NEW l, Standing(M, ord, l), NEW s, NEW e, FocusPlace(s, ord, e) # 0
  PROVE  /\ FocusPlace(s, ord, e) \in 1..Len(ord)
         /\ ord[FocusPlace(s, ord, e)] \in M
         /\ Takes(s, ord[FocusPlace(s, ord, e)])
<1> DEFINE T == {i \in 1..Len(ord) : ord[i] # e /\ Takes(s, ord[i])}
           first == CHOOSE i \in T : \A j \in T : j <= i
<1>1. T # {} /\ FocusPlace(s, ord, e) = first
  BY DEF FocusPlace
<1>2. Len(ord) \in Nat /\ T \in SUBSET (0..Len(ord))
  BY DEF Standing
<1>3. \E i \in T : \A j \in T : j <= i
  <2> HIDE DEF T
  <2> QED BY <1>1, <1>2, FocusAssumption, Stack!GreatestNumber
<1>4. first \in T
  <2> HIDE DEF T
  <2> QED BY <1>3
<1> HIDE DEF first
<1>5. first \in 1..Len(ord) /\ Takes(s, ord[first])
  BY <1>4
<1>6. ord[first] \in M
  BY <1>5 DEF Standing
<1> QED BY <1>1, <1>5, <1>6

\* mb_wm_focus_client_as_stacked gives the focus to no one or to a client of the stack.
AsStackedFrom(n, r, c) ==
  \/ n.focus.later /\ r = n
  \/ c \in n.fresh /\ r = Realized(n, c)
  \/ c \notin n.fresh /\ c \in Typing /\ r = Focused(n, c)

LEMMA AsStackedIs ==
  ASSUME NEW M, NEW ord, NEW l, Standing(M, ord, l), NEW s, NEW x, NoOne(s) \in Records(M, x),
         NEW e
  PROVE  LET r == AsStacked(s, ord, l, e)
         IN  r = FocusRoot(NoOne(s)) \/ \E c \in M : AsStackedFrom(NoOne(s), r, c)
<1> DEFINE n == NoOne(s)
           p == FocusPlace(s, ord, e)
           q == FocusClient(n, ord, l, ord[p])
           r == AsStacked(s, ord, l, e)
<1>1. r = IF locked \/ p = 0 THEN FocusRoot(n)
          ELSE IF q.focus.client # NULL \/ q.focus.later THEN q ELSE FocusRoot(q)
  BY DEF AsStacked, NoOne
<1>2. n.focus.client = NULL /\ M \in SUBSET Clients
  BY DEF NoOne, Records, Foci, Standing
<1> HIDE DEF n
<1>3. CASE p # 0 /\ ~locked
  <2>1. ord[p] \in M
    BY <1>3, FocusPlaceIs
  <2> HIDE DEF p
  <2>2. PICK c \in M : Asked(n, q, c)
    BY <2>1, FocusClientIs
  <2> HIDE DEF q
  <2>3. CASE q = n
    BY <1>1, <1>2, <1>3, <2>2, <2>3 DEF AsStackedFrom, n
  <2>4. CASE c \in n.fresh /\ q = Realized(n, c)
    <3>1. q.focus.later = TRUE
      BY <1>2, <2>4, RealizedDoes DEF n, RealizedFrom
    <3>2. r = q
      BY <1>1, <1>3, <3>1
    <3> QED BY <2>4, <3>2 DEF AsStackedFrom, n
  <2>5. CASE c \notin n.fresh /\ c \in Typing /\ q = Focused(n, c)
    <3>1. q.focus.client = c
      BY <1>2, <2>5, FocusedDoes DEF n
    <3>2. r = q
      BY <1>1, <1>2, <1>3, <3>1, NullIsNone
    <3> QED BY <2>5, <3>2 DEF AsStackedFrom, n
  <2> QED BY <2>2, <2>3, <2>4, <2>5 DEF Asked
<1>4. CASE p = 0 \/ locked
  BY <1>1, <1>4 DEF n
<1> QED BY <1>3, <1>4

\* mb_wm_activate_client_real asks the client or a transient, unless it is an applet or
\* an actor.
LEMMA ActivateFocusIs ==
  ASSUME NEW M, NEW ord, NEW l, Standing(M, ord, l), NEW s, NEW c \in M
  PROVE  LET r == ActivateFocus(s, ord, l, c)
         IN  \/ c \in Actors \cup Applets /\ r = Shown(s, c)
             \/ \E k \in {c} \cup Heirs(M, l) : k \in M /\ Asked(Shown(s, c), r, k)
<1> DEFINE t == LastTransient(ord, l, c)
           x == IF t # NULL THEN t ELSE c
<1>1. c \in Clients
  BY DEF Standing
<1>2. x \in {c} \cup Heirs(M, l) /\ x \in M
  BY <1>1, LastTransientIs DEF Heirs
<1>3. ActivateFocus(s, ord, l, c) = IF c \in Actors \cup Applets THEN Shown(s, c)
                                    ELSE FocusClient(Shown(s, c), ord, l, x)
  BY DEF ActivateFocus
<1> HIDE DEF x
<1>4. \E k \in {x} \cup Heirs(M, l) :
        k \in M /\ Asked(Shown(s, c), FocusClient(Shown(s, c), ord, l, x), k)
  BY <1>2, FocusClientIs
<1> QED BY <1>2, <1>3, <1>4

-----------------------------------------------------------------------------
(* What the steps keep.                                                      *)

LEMMA AskedSound ==
  ASSUME NEW M \in SUBSET Clients, NEW x, NEW d, NEW s, Sound(s, M, x, d), NEW c \in M, NEW r,
         Asked(s, r, c)
  PROVE  Sound(r, M, x, d) /\ r.hidden = s.hidden /\ r.stale \subseteq s.stale
<1>1. /\ s \in Records(M, x) /\ s.fresh \subseteq s.stale
      /\ s.fresh # {} \/ s.focus.later => d
  BY DEF Sound
<1>2. CASE r = s
  BY <1>2
<1>3. CASE c \in s.fresh /\ r = Realized(s, c)
  <2>1. r \in Records(M, x) /\ RealizedFrom(s, r, c)
    BY <1>1, <1>3, RealizedDoes
  <2> QED BY <1>1, <1>3, <2>1 DEF Sound, RealizedFrom
<1>4. CASE r = Focused(s, c)
  <2>1. r \in Records(M, x) /\ SameButFocus(s, r) /\ r.focus.later = s.focus.later
    BY <1>1, <1>4, FocusedDoes
  <2> QED BY <1>1, <2>1 DEF Sound, SameButFocus
<1> QED BY <1>2, <1>3, <1>4 DEF Asked

LEMMA AsStackedSound ==
  ASSUME NEW M, NEW ord, NEW l, Standing(M, ord, l), NEW x, NEW d, NEW s,
         Sound(NoOne(s), M, x, d), NEW e
  PROVE  LET r == AsStacked(s, ord, l, e)
         IN  Sound(r, M, x, d) /\ r.hidden = NoOne(s).hidden /\ r.stale \subseteq NoOne(s).stale
<1> DEFINE n == NoOne(s)
           r == AsStacked(s, ord, l, e)
<1>1. n \in Records(M, x) /\ M \in SUBSET Clients
  BY DEF Sound, Standing
<1>2. r = FocusRoot(n) \/ \E c \in M : AsStackedFrom(n, r, c)
  BY <1>1, AsStackedIs
<1>3. Sound(n, M, x, d)
  OBVIOUS
<1> HIDE DEF n, r
<1>4. CASE r = FocusRoot(n)
  <2>1. r \in Records(M, x) /\ SameButFocus(n, r) /\ r.focus = n.focus
    BY <1>1, <1>4, FocusRootDoes
  <2> QED BY <1>3, <2>1 DEF Sound, SameButFocus, n, r
<1>5. ASSUME NEW c \in M, AsStackedFrom(n, r, c)
      PROVE  Sound(r, M, x, d) /\ r.hidden = n.hidden /\ r.stale \subseteq n.stale
  <2>1. CASE r = n
    BY <1>3, <2>1
  <2>2. CASE r # n
    <3>1. Asked(n, r, c)
      BY <1>5, <2>2 DEF AsStackedFrom, Asked
    <3> QED BY <1>1, <1>3, <3>1, AskedSound
  <2> QED BY <2>1, <2>2
<1> QED BY <1>2, <1>4, <1>5 DEF n, r

\* Nothing is hidden, the last client that got the focus has it, and what is realized
\* is viewable, unless it is of those that go (G).
Good(s, M, G) ==
  /\ s.hidden = {}
  /\ s.focus.last \in M => s.input = s.focus.last \/ s.focus.last \in G
  /\ \A c \in M \ s.fresh : c \in s.viewable \cup G

Settled(s) == s.focus.client = s.focus.last

LEMMA AskedGood ==
  ASSUME Typing \cap Actors = {},
         NEW M \in SUBSET Clients, NEW x, NEW s \in Records(M, x), NEW G, Good(s, M, G),
         M \subseteq exists \cup G, NEW c \in M, NEW r, Asked(s, r, c)
  PROVE  Good(r, M, G) /\ (Settled(s) => Settled(r))
<1>1. /\ s.hidden = {}
      /\ s.focus.last \in M => s.input = s.focus.last \/ s.focus.last \in G
      /\ \A k \in M \ s.fresh : k \in s.viewable \cup G
  BY DEF Good
<1>2. CASE r = s
  BY <1>2
<1>3. CASE c \in s.fresh /\ r = Realized(s, c)
  <2>1. RealizedFrom(s, r, c)
    BY <1>3, RealizedDoes
  <2> QED BY <1>1, <2>1 DEF Good, Settled, RealizedFrom
<1>4. CASE c \notin s.fresh /\ c \in Typing /\ r = Focused(s, c)
  <2>1. /\ SameButFocus(s, r) /\ r.viewable = s.viewable
        /\ r.focus.client = c /\ r.focus.last = c
        /\ r.input = IF c # s.focus.last /\ c \in s.viewable THEN c ELSE s.input
    BY <1>4, FocusedDoes
  <2>2. r.input = c \/ c \in G
    BY <1>1, <1>4, <2>1
  <2> QED BY <1>1, <2>1, <2>2 DEF Good, Settled, SameButFocus
<1> QED BY <1>2, <1>3, <1>4 DEF Asked

LEMMA AsStackedGood ==
  ASSUME Typing \cap Actors = {},
         NEW M, NEW ord, NEW l, Standing(M, ord, l), NEW x, NEW s, NoOne(s) \in Records(M, x),
         NEW G, Good(NoOne(s), M, G), M \subseteq exists \cup G,
         NoOne(s).fresh = {}, ~NoOne(s).focus.later, NEW e
  PROVE  LET r == AsStacked(s, ord, l, e)
         IN  r.input = RootWindow \/ (Good(r, M, G) /\ Settled(r))
<1> DEFINE n == NoOne(s)
           r == AsStacked(s, ord, l, e)
<1>1. M \in SUBSET Clients /\ n \in Records(M, x) /\ Good(n, M, G) /\ n.fresh = {} /\ ~n.focus.later
  BY DEF Standing
<1>2. r = FocusRoot(n) \/ \E c \in M : AsStackedFrom(n, r, c)
  BY <1>1, AsStackedIs
<1> HIDE DEF n, r
<1>3. CASE r = FocusRoot(n)
  <2>1. r.input = RootWindow
    BY <1>1, <1>3, FocusRootDoes
  <2> QED BY <2>1 DEF r
<1>4. ASSUME NEW c \in M, AsStackedFrom(n, r, c) PROVE Good(r, M, G) /\ Settled(r)
  <2>1. c \in Typing /\ c \notin n.fresh /\ r = Focused(n, c)
    BY <1>1, <1>4 DEF AsStackedFrom
  <2>2. Asked(n, r, c)
    BY <2>1 DEF Asked
  <2>3. Good(r, M, G)
    BY <1>1, <2>2, AskedGood
  <2>4. r.focus.client = c /\ r.focus.last = c
    BY <1>1, <2>1, FocusedDoes
  <2> QED BY <2>3, <2>4 DEF Settled
<1> QED BY <1>2, <1>3, <1>4 DEF r

\* Nobody has the focus, and it was not put off.
Nobody(s) == s.focus.client = NULL /\ ~s.focus.later

LEMMA AskedNobody ==
  ASSUME NEW M \in SUBSET Clients, NEW x, NEW s \in Records(M, x), NEW c \in M, NEW r,
         Asked(s, r, c), Nobody(r)
  PROVE  Nobody(s) /\ c \notin Typing
<1>1. CASE c \in s.fresh /\ r = Realized(s, c)
  <2>1. r.focus.later = TRUE
    BY <1>1, RealizedDoes DEF RealizedFrom
  <2> QED BY <2>1 DEF Nobody
<1>2. CASE r = Focused(s, c)
  <2>1. r.focus.client = c
    BY <1>2, FocusedDoes
  <2> QED BY <2>1, NullIsNone DEF Nobody
<1>3. CASE r = s /\ (s.focus.client = NULL => c \notin Typing)
  BY <1>3 DEF Nobody
<1> QED BY <1>1, <1>2, <1>3 DEF Asked

LEMMA AsStackedNobody ==
  ASSUME NEW M, NEW ord, NEW l, Standing(M, ord, l), NEW s, NEW x, NoOne(s) \in Records(M, x),
         NEW e, Nobody(AsStacked(s, ord, l, e))
  PROVE  AsStacked(s, ord, l, e).input = RootWindow
<1> DEFINE n == NoOne(s)
           r == AsStacked(s, ord, l, e)
<1>1. M \in SUBSET Clients /\ n \in Records(M, x) /\ Nobody(r)
  BY DEF Standing
<1>2. r = FocusRoot(n) \/ \E c \in M : AsStackedFrom(n, r, c)
  BY <1>1, AsStackedIs
<1> HIDE DEF n, r
<1>3. CASE r = FocusRoot(n)
  <2>1. r.input = RootWindow
    BY <1>1, <1>3, FocusRootDoes
  <2> QED BY <2>1 DEF r
<1>4. ASSUME NEW c \in M, AsStackedFrom(n, r, c) PROVE FALSE
  <2>1. CASE n.focus.later /\ r = n
    BY <1>1, <2>1 DEF Nobody
  <2>2. CASE c \in n.fresh /\ r = Realized(n, c)
    <3>1. r.focus.later = TRUE
      BY <1>1, <2>2, RealizedDoes DEF RealizedFrom
    <3> QED BY <1>1, <3>1 DEF Nobody
  <2>3. CASE r = Focused(n, c)
    <3>1. r.focus.client = c
      BY <1>1, <2>3, FocusedDoes
    <3> QED BY <1>1, <3>1, NullIsNone DEF Nobody
  <2> QED BY <1>4, <2>1, <2>2, <2>3 DEF AsStackedFrom
<1> QED BY <1>2, <1>3, <1>4 DEF r

-----------------------------------------------------------------------------
(* The queue.                                                                *)

Messages ==
  [type : {"MapRequest", "Activate", "Unmap", "Destroy", "Fullscreen"}, window : Clients]

Comes(q, c, T) == \E i \in 1..Len(q) : q[i].window = c /\ q[i].type \in T

\* The clients that q takes away if they are not hidden, and those it takes away.
Goers(q)  == {c \in Clients : Comes(q, c, {"Unmap", "Destroy"})}
Doomed(q) == {c \in Clients : Comes(q, c, {"Destroy"})}

\* An event is taken from the queue.
LEMMA TakenFrom ==
  ASSUME NEW q \in Seq(Messages), q # << >>, NEW k, NEW c, Head(q) = Event(k, c)
  PROVE  /\ Tail(q) \in Seq(Messages)
         /\ \A d \in Goers(q) : d \in Goers(Tail(q)) \/ (d = c /\ k \in {"Unmap", "Destroy"})
         /\ \A d \in Doomed(q) : d \in Doomed(Tail(q)) \/ (d = c /\ k = "Destroy")
<1>1. Len(q) \in Nat /\ Len(q) # 0
  OBVIOUS
<1>2. /\ Tail(q) \in Seq(Messages) /\ Len(Tail(q)) = Len(q) - 1
      /\ \A i \in 1..(Len(q) - 1) : Tail(q)[i] = q[i + 1]
      /\ q[1].window = c /\ q[1].type = k
  BY <1>1 DEF Event
<1>3. ASSUME NEW d, NEW T, Comes(q, d, T) PROVE Comes(Tail(q), d, T) \/ (d = c /\ k \in T)
  <2>1. PICK i \in 1..Len(q) : q[i].window = d /\ q[i].type \in T
    BY <1>3 DEF Comes
  <2>2. CASE i = 1
    BY <1>2, <2>1, <2>2
  <2>3. CASE i # 1
    <3>1. i - 1 \in 1..(Len(q) - 1) /\ (i - 1) + 1 = i
      BY <1>1, <2>1, <2>3
    <3>2. Tail(q)[i - 1] = q[i]
      BY <1>2, <3>1
    <3>3. i - 1 \in 1..Len(Tail(q))
      BY <1>2, <3>1
    <3> QED BY <2>1, <3>2, <3>3 DEF Comes
  <2> QED BY <2>2, <2>3
<1> QED BY <1>2, <1>3 DEF Goers, Doomed

\* Events are put in the queue.
LEMMA PutIn ==
  ASSUME NEW q \in Seq(Messages), NEW e \in Seq(Messages)
  PROVE  /\ q \o e \in Seq(Messages)
         /\ Goers(q) \cup Goers(e) \subseteq Goers(q \o e)
         /\ Doomed(q) \cup Doomed(e) \subseteq Doomed(q \o e)
<1>1. /\ Len(q) \in Nat /\ Len(e) \in Nat /\ q \o e \in Seq(Messages)
      /\ Len(q \o e) = Len(q) + Len(e)
      /\ \A i \in 1..Len(q) : (q \o e)[i] = q[i] /\ i \in 1..Len(q \o e)
      /\ \A i \in 1..Len(e) : (q \o e)[Len(q) + i] = e[i] /\ Len(q) + i \in 1..Len(q \o e)
  OBVIOUS
<1> DEFINE t == q \o e
<1> HIDE DEF t
<1>2. ASSUME NEW d, NEW T, Comes(q, d, T) \/ Comes(e, d, T) PROVE Comes(t, d, T)
  BY <1>1, <1>2 DEF Comes, t
<1>3. Goers(q) \cup Goers(e) \subseteq Goers(t) /\ Doomed(q) \cup Doomed(e) \subseteq Doomed(t)
  BY <1>2 DEF Goers, Doomed
<1> QED BY <1>1, <1>3 DEF t

LEMMA PutOne ==
  ASSUME NEW q \in Seq(Messages), NEW m \in Messages
  PROVE  /\ Append(q, m) \in Seq(Messages)
         /\ Goers(q) \subseteq Goers(Append(q, m))
         /\ Doomed(q) \subseteq Doomed(Append(q, m))
<1>1. <<m>> \in Seq(Messages) /\ Append(q, m) = q \o <<m>>
  OBVIOUS
<1> QED BY <1>1, PutIn

\* The events of a set of clients.
LEMMA SetIsSeq ==
  ASSUME NEW S \in SUBSET Messages, IsFiniteSet(S)
  PROVE  SetToSeq(S) \in Seq(Messages)
<1>1. Cardinality(S) \in Nat /\ ExistsBijection(1..Cardinality(S), S)
  BY FS_CardinalityType
<1>2. \E f \in [1..Cardinality(S) -> S] : IsInjective(f)
  BY <1>1 DEF ExistsBijection, Bijection, Injection, IsInjective
<1>3. SetToSeq(S) \in [1..Cardinality(S) -> S]
  BY <1>2 DEF SetToSeq
<1>4. \A n \in Nat : [1..n -> S] \subseteq Seq(Messages)
  OBVIOUS
<1> QED BY <1>1, <1>3, <1>4

-----------------------------------------------------------------------------
(* The inductive invariant.                                                  *)

\* Whoever does not exist any more will be heard to be destroyed.
FInv ==
  /\ Stack!IInv
  /\ queue \in Seq(Messages)
  /\ exists \subseteq Clients
  /\ calm \in BOOLEAN
  /\ Sound(Now, Managed, xfor, dirty)
  /\ reframe \subseteq Managed /\ (reframe # {} => dirty)
  /\ Managed \subseteq exists \cup Doomed(queue)

CalmInv == calm => Good(Now, Managed, Goers(queue)) /\ Settled(Now)

\* The window manager syncs after every event, and animation actors do not want keys.
Prompt == SyncsAtOnce /\ Typing \cap Actors = {}

LEMMA NowIs ==
  ASSUME FInv
  PROVE  /\ Standing(Managed, order, links)
         /\ Managed \in SUBSET Clients
         /\ Now \in Records(Managed, xfor)
         /\ Sound(Now, Managed, xfor, dirty)
         /\ Managed \subseteq exists \cup Goers(queue)
<1>1. Standing(Managed, order, links)
  BY StandingNow DEF FInv
<1>2. Doomed(queue) \subseteq Goers(queue)
  BY DEF Doomed, Goers, Comes
<1> QED BY <1>1, <1>2 DEF FInv, Sound, Standing

\* The record becomes s.
LEMMA BecomesIs ==
  ASSUME NEW M, NEW s \in Records(M, xfor'), Becomes(s)
  PROVE  /\ Now' = s
         /\ calm' = (calm /\ s.input # RootWindow /\ s.hidden = {})
BY DEF Becomes, Now, Records

LEMMA FInvNext ==
  ASSUME Stack!IInv', queue' \in Seq(Messages), exists' = exists, exists \subseteq Clients,
         NEW s, Becomes(s), Sound(s, Managed', xfor', dirty'),
         reframe' \subseteq Managed', reframe' # {} => dirty',
         Managed' \subseteq exists \cup Doomed(queue')
  PROVE  /\ FInv'
         /\ Now' = s
         /\ calm' => calm /\ s.input # RootWindow /\ s.hidden = {}
<1>1. s \in Records(Managed', xfor')
  BY DEF Sound
<1>2. /\ Now' = s
      /\ calm' = (calm /\ s.input # RootWindow /\ s.hidden = {})
  BY <1>1, BecomesIs
<1>3. Sound(Now, Managed, xfor, dirty)'
  BY <1>2 DEF Sound, Records, Foci
<1>4. Doomed(queue)' = Doomed(queue')
  BY DEF Doomed, Comes
<1> QED BY <1>2, <1>3, <1>4 DEF FInv

-----------------------------------------------------------------------------
(* Activation.                                                               *)

LEMMA ActivateSound ==
  ASSUME NEW M, NEW ord, NEW l, Standing(M, ord, l), NEW x, NEW d, NEW s, NEW c \in M,
         NEW h, h = Shown(s, c), Sound(h, M, x, d), NEW r, r = ActivateFocus(s, ord, l, c)
  PROVE  Sound(r, M, x, d) /\ r.hidden = h.hidden
<1>1. M \in SUBSET Clients
  BY DEF Standing
<1>2. r = h \/ \E k \in M : Asked(h, r, k)
  BY ActivateFocusIs
<1> QED BY <1>1, <1>2, AskedSound

LEMMA ActivateGood ==
  ASSUME Typing \cap Actors = {},
         NEW M, NEW ord, NEW l, Standing(M, ord, l), NEW x, NEW s, NEW c \in M,
         Shown(s, c) \in Records(M, x), NEW G, Good(Shown(s, c), M, G), M \subseteq exists \cup G,
         Settled(Shown(s, c)), NEW r, r = ActivateFocus(s, ord, l, c)
  PROVE  Good(r, M, G) /\ Settled(r)
<1> DEFINE h == Shown(s, c)
<1>1. h \in Records(M, x) /\ Good(h, M, G) /\ Settled(h) /\ M \in SUBSET Clients
  BY DEF Standing
<1>2. r = h \/ \E k \in M : Asked(h, r, k)
  BY ActivateFocusIs
<1> HIDE DEF h
<1> QED BY <1>1, <1>2, AskedGood

LEMMA ActivateNobody ==
  ASSUME NEW M, NEW ord, NEW l, Standing(M, ord, l), NEW x, NEW s, NEW c \in M,
         Shown(s, c) \in Records(M, x), NEW r, r = ActivateFocus(s, ord, l, c), Nobody(r)
  PROVE  /\ Nobody(Shown(s, c))
         /\ c \in Actors \cup Applets \/ \E k \in {c} \cup Heirs(M, l) : k \notin Typing
<1> DEFINE h == Shown(s, c)
<1>1. h \in Records(M, x) /\ M \in SUBSET Clients
  BY DEF Standing
<1>2. \/ c \in Actors \cup Applets /\ r = h
      \/ \E k \in {c} \cup Heirs(M, l) : k \in M /\ Asked(h, r, k)
  BY ActivateFocusIs
<1> HIDE DEF h
<1>3. /\ Nobody(h)
      /\ c \in Actors \cup Applets \/ \E k \in {c} \cup Heirs(M, l) : k \notin Typing
  BY <1>1, <1>2, AskedNobody
<1> QED BY <1>3 DEF h

-----------------------------------------------------------------------------
(* The handlers.                                                             *)

LEMMA HandlingIs ==
  ASSUME FInv, NEW k, NEW c, Handling(k, c)
  PROVE  /\ queue' \in Seq(Messages) /\ exists' = exists /\ exists \subseteq Clients
         /\ \A d \in Goers(queue) : d \in Goers(queue') \/ (d = c /\ k \in {"Unmap", "Destroy"})
         /\ \A d \in Doomed(queue) : d \in Doomed(queue') \/ (d = c /\ k = "Destroy")
         /\ SyncsAtOnce => ~dirty /\ stale = {} /\ Now.fresh = {} /\ ~Now.focus.later
<1>1. /\ queue \in Seq(Messages) /\ queue # << >> /\ Head(queue) = Event(k, c)
      /\ queue' = Tail(queue) /\ exists' = exists /\ exists \subseteq Clients
      /\ SyncsAtOnce => ~Pending
  BY DEF FInv, Handling
<1>2. /\ Tail(queue) \in Seq(Messages)
      /\ \A d \in Goers(queue) :
           d \in Goers(Tail(queue)) \/ (d = c /\ k \in {"Unmap", "Destroy"})
      /\ \A d \in Doomed(queue) : d \in Doomed(Tail(queue)) \/ (d = c /\ k = "Destroy")
  BY <1>1, TakenFrom
<1>3. SyncsAtOnce => ~dirty /\ stale = {} /\ Now.fresh = {} /\ ~Now.focus.later
  BY <1>1 DEF Pending, FInv, Sound
<1> QED BY <1>1, <1>2, <1>3

\* A client that is managed is activated.
LEMMA ActivatedKeeps ==
  ASSUME FInv, NEW k \in {"MapRequest", "Activate"}, NEW c \in Managed,
         Handling(k, c), Activated(c)
  PROVE  /\ FInv'
         /\ Prompt /\ CalmInv => CalmInv'
         /\ calm' => calm
         /\ Managed' = Managed
         /\ Nobody(Now') => Nobody(Now)
<1> DEFINE r == ActivateFocus(Now, order, links, c)
           M == Managed
<1>1. /\ Standing(M, order, links) /\ M \in SUBSET Clients
      /\ Now \in Records(M, xfor) /\ Sound(Now, M, xfor, dirty)
      /\ M \subseteq exists \cup Goers(queue)
  BY NowIs
<1>2. /\ queue' \in Seq(Messages) /\ exists' = exists /\ exists \subseteq Clients
      /\ Goers(queue) \subseteq Goers(queue') /\ Doomed(queue) \subseteq Doomed(queue')
  BY HandlingIs
<1>3. Policy!Activated(c, order) /\ Becomes(r) /\ reframe' = reframe
  BY DEF Activated
<1>4. Stack!Activated(c, order)
  BY <1>3, ActivatedIs
<1>5. Stack!IInv /\ reframe \subseteq M /\ M \subseteq exists \cup Doomed(queue)
  BY DEF FInv
<1>6. Stack!IInv'
  <2>1. Stack!Managed = M
    BY <1>5, StandingNow
  <2> QED BY <1>4, <1>5, <2>1, FocusAssumption, Stack!ActivatedHereKeeps
<1>7. clients' = clients /\ xfor' = xfor /\ dirty' = TRUE
  <2>1. c \in Clients
    BY <1>1
  <2> QED BY <1>4, <2>1, FocusAssumption DEF Stack!Activated
<1>8. Managed' = M
  BY <1>5, <1>6, <1>7, ManagedBecomes
<1> DEFINE h == Shown(Now, c)
<1>9. /\ h \in Records(M, xfor) /\ h.fresh = Now.fresh /\ h.hidden = Now.hidden \ {c}
      /\ h.stale = Now.stale \cup {c} /\ h.focus = Now.focus
      /\ h.viewable = Now.viewable /\ h.input = Now.input
  BY <1>1, ShownDoes
<1>10. Sound(h, M, xfor, dirty')
  BY <1>1, <1>7, <1>9 DEF Sound
<1>11. r = ActivateFocus(Now, order, links, c) /\ h = Shown(Now, c) /\ M = Managed /\ c \in M
  OBVIOUS
<1> HIDE DEF r, h, M
<1>16. Sound(r, M, xfor, dirty') /\ r.hidden = h.hidden
  BY <1>1, <1>10, <1>11, ActivateSound
<1>12. /\ FInv' /\ Now' = r
       /\ calm' => calm /\ r.input # RootWindow /\ r.hidden = {}
  <2>1. Sound(r, Managed', xfor', dirty')
    BY <1>7, <1>8, <1>16
  <2>2. reframe' \subseteq Managed' /\ (reframe' # {} => dirty')
    BY <1>3, <1>5, <1>7, <1>8
  <2>3. Managed' \subseteq exists \cup Doomed(queue')
    BY <1>2, <1>5, <1>8
  <2> QED BY <1>2, <1>3, <1>6, <2>1, <2>2, <2>3, FInvNext
<1>13. ASSUME Prompt, CalmInv, calm' PROVE Good(r, M, Goers(queue')) /\ Settled(r)
  <2> DEFINE G == Goers(queue')
  <2>1. Good(Now, M, Goers(queue)) /\ Settled(Now)
    BY <1>12, <1>13 DEF CalmInv, M
  <2>2. Good(h, M, G)
    BY <1>2, <1>9, <2>1 DEF Good
  <2>3. Settled(h)
    BY <1>9, <2>1 DEF Settled
  <2>4. M \subseteq exists \cup G
    BY <1>1, <1>2
  <2> HIDE DEF G
  <2>5. Typing \cap Actors = {} /\ c \in M
    BY <1>13 DEF Prompt, M
  <2>6. Good(r, M, G) /\ Settled(r)
    BY <1>1, <1>9, <2>2, <2>3, <2>4, <2>5, ActivateGood DEF r, h
  <2> QED BY <2>6 DEF G
<1>14. Prompt /\ CalmInv => CalmInv'
  <2>1. Goers(queue)' = Goers(queue')
    BY DEF Goers, Comes
  <2> QED BY <1>8, <1>12, <1>13, <2>1 DEF CalmInv
<1>15. Nobody(r) => Nobody(Now)
  <2> HAVE Nobody(r)
  <2>1. c \in M
    BY DEF M
  <2>2. Nobody(h)
    BY <1>1, <1>9, <2>1, ActivateNobody DEF r, h
  <2> QED BY <1>9, <2>2 DEF Nobody
<1> QED BY <1>8, <1>12, <1>14, <1>15 DEF M


\* Nothing but the queue changes: an event is not acted upon.
LEMMA IgnoredKeeps ==
  ASSUME FInv, NEW k, NEW c, Handling(k, c), Ignored,
         k = "Unmap" => c \notin Managed \ hidden,
         k = "Destroy" => c \notin Managed
  PROVE  /\ FInv'
         /\ CalmInv => CalmInv'
         /\ calm' = calm /\ Managed' = Managed /\ Now' = Now /\ UNCHANGED stacking
<1>1. /\ queue' \in Seq(Messages) /\ exists' = exists /\ exists \subseteq Clients
      /\ \A d \in Goers(queue) : d \in Goers(queue') \/ (d = c /\ k \in {"Unmap", "Destroy"})
      /\ \A d \in Doomed(queue) : d \in Doomed(queue') \/ (d = c /\ k = "Destroy")
  BY HandlingIs
<1>2. /\ Stack!IInv /\ Sound(Now, Managed, xfor, dirty) /\ reframe \subseteq Managed
      /\ reframe # {} => dirty
      /\ Managed \subseteq exists \cup Doomed(queue)
      /\ calm \in BOOLEAN
  BY DEF FInv
<1>3. UNCHANGED stacking /\ Now' = Now /\ calm' = calm /\ reframe' = reframe
  BY DEF Ignored, Now, stacking
<1>4. Stack!IInv' /\ Managed' = Managed
  BY <1>2, <1>3, StackSame DEF stacking
<1>5. Sound(Now, Managed, xfor, dirty)'
  BY <1>1, <1>2, <1>3, <1>4 DEF Sound, Records, Foci, stacking
<1>6. Doomed(queue)' = Doomed(queue') /\ Goers(queue)' = Goers(queue')
  BY DEF Doomed, Goers, Comes
<1>7. FInv'
  <2>1. Managed' \subseteq exists' \cup Doomed(queue)'
    BY <1>1, <1>2, <1>4, <1>6
  <2>2. reframe' \subseteq Managed' /\ (reframe' # {} => dirty') /\ calm' \in BOOLEAN
    BY <1>2, <1>3, <1>4 DEF stacking
  <2> QED BY <1>1, <1>4, <1>5, <2>1, <2>2 DEF FInv
<1>8. ASSUME CalmInv, calm PROVE Good(Now, Managed, Goers(queue')) /\ Settled(Now)
  <2>1. Good(Now, Managed, Goers(queue)) /\ Settled(Now)
    BY <1>8 DEF CalmInv
  <2>2. hidden = {}
    BY <2>1 DEF Good, Now
  <2>3. \A d \in Managed : d \in Goers(queue) => d \in Goers(queue')
    BY <1>1, <2>2
  <2> QED BY <2>1, <2>3 DEF Good
<1>9. CalmInv => CalmInv'
  BY <1>3, <1>4, <1>6, <1>8 DEF CalmInv, Settled
<1> QED BY <1>3, <1>4, <1>7, <1>9

\* A new client is managed and activated.
LEMMA MappedKeeps ==
  ASSUME FInv, NEW c \in Clients \ Managed, c \in exists, Handling("MapRequest", c),
         NEW y, Policy!Map(c, y, 0),
         Becomes(ActivateFocus([Now EXCEPT !.fresh = @ \cup {c}, !.xfor = xfor'],
                               order', links', c)),
         reframe' = reframe
  PROVE  /\ FInv'
         /\ Prompt /\ CalmInv => CalmInv'
         /\ calm' => calm
         /\ Managed' = Managed \cup {c}
         /\ Nobody(Now') => /\ Nobody(Now)
                            /\ c \in Actors \cup Applets \/
                               \E k \in {c} \cup Heirs(Managed', links') : k \notin Typing
<1> DEFINE s == [Now EXCEPT !.fresh = @ \cup {c}, !.xfor = xfor']
           h == Shown(s, c)
           r == ActivateFocus(s, order', links', c)
           N == Managed'
<1>1. /\ Standing(Managed, order, links) /\ Managed \in SUBSET Clients
      /\ Now \in Records(Managed, xfor) /\ Sound(Now, Managed, xfor, dirty)
      /\ Managed \subseteq exists \cup Goers(queue)
  BY NowIs
<1>2. /\ queue' \in Seq(Messages) /\ exists' = exists /\ exists \subseteq Clients
      /\ Goers(queue) \subseteq Goers(queue') /\ Doomed(queue) \subseteq Doomed(queue')
  BY HandlingIs
<1>3. Stack!Map(c, y, 0)
  BY MapIs
<1>4. /\ Stack!IInv /\ reframe \subseteq Managed /\ Managed \subseteq exists \cup Doomed(queue)
  BY DEF FInv
<1>5. Stack!IInv'
  BY <1>3, <1>4, FocusAssumption, Stack!MapKeeps
<1>6. clients' = Append(clients, c) /\ dirty' = TRUE
  BY <1>3, FocusAssumption DEF Stack!Map
<1>7. Managed' = Managed \cup {c}
  BY <1>4, <1>5, <1>6, ManagedBecomes
<1>8. Standing(N, order', links')
  BY <1>5, StandingNext
<1>9. /\ s \in Records(N, xfor') /\ s.fresh = Now.fresh \cup {c} /\ s.hidden = Now.hidden
      /\ s.stale = Now.stale /\ s.focus = Now.focus /\ s.viewable = Now.viewable
      /\ s.input = Now.input
  <2> DEFINE a == Now.fresh \cup {c}
             M == Managed
  <2>1. /\ a \in SUBSET N /\ Now.hidden \in SUBSET N /\ Now.stale \in SUBSET N
        /\ Foci(M) \subseteq Foci(N)
    BY <1>1, <1>7 DEF Records, Foci
  <2>2. s = [Now EXCEPT !.fresh = a, !.xfor = xfor']
    BY DEF Now
  <2>3. Now \in Records(M, xfor)
    BY <1>1
  <2> HIDE DEF a, s, M, N
  <2> QED BY <2>1, <2>2, <2>3 DEF Records, a
<1> HIDE DEF s
<1>10. c \in N
  BY <1>7
<1>11. r = ActivateFocus(s, order', links', c) /\ h = Shown(s, c) /\ N = Managed'
  OBVIOUS
<1> HIDE DEF h, r, N
<1>12. /\ h \in Records(N, xfor') /\ h.fresh = s.fresh /\ h.hidden = s.hidden \ {c}
       /\ h.stale = s.stale \cup {c} /\ h.focus = s.focus
       /\ h.viewable = s.viewable /\ h.input = s.input
  BY <1>9, <1>10, <1>11, ShownDoes
<1>13. Sound(h, N, xfor', dirty')
  BY <1>1, <1>6, <1>9, <1>12 DEF Sound
<1>14. Sound(r, N, xfor', dirty')
  BY <1>8, <1>10, <1>11, <1>13, ActivateSound
<1>15. Becomes(r)
  BY DEF r, s
<1>16. /\ FInv' /\ Now' = r
       /\ calm' => calm /\ r.input # RootWindow /\ r.hidden = {}
  <2>1. Sound(r, Managed', xfor', dirty')
    BY <1>11, <1>14
  <2>2. reframe' \subseteq Managed' /\ (reframe' # {} => dirty')
    BY <1>4, <1>6, <1>7
  <2>3. Managed' \subseteq exists \cup Doomed(queue')
    BY <1>2, <1>4, <1>7
  <2> QED BY <1>2, <1>5, <1>15, <2>1, <2>2, <2>3, FInvNext
<1>17. ASSUME Prompt, CalmInv, calm' PROVE Good(r, N, Goers(queue')) /\ Settled(r)
  <2> DEFINE G == Goers(queue')
  <2>1. Good(Now, Managed, Goers(queue)) /\ Settled(Now)
    BY <1>16, <1>17 DEF CalmInv
  <2>2. Now.focus.last # c
    <3>1. Now.focus.client \in Managed \cup {NULL}
      BY <1>1 DEF Records, Foci
    <3> QED BY <2>1, <3>1, NullIsNone DEF Settled
  <2>3. Good(h, N, G)
    BY <1>2, <1>7, <1>9, <1>11, <1>12, <2>1, <2>2 DEF Good
  <2>4. Settled(h)
    BY <1>9, <1>12, <2>1 DEF Settled
  <2>5. N \subseteq exists \cup G
    BY <1>1, <1>2, <1>7, <1>11
  <2> HIDE DEF G
  <2>6. Typing \cap Actors = {}
    BY <1>17 DEF Prompt
  <2>7. Good(r, N, G) /\ Settled(r)
    BY <1>8, <1>10, <1>11, <1>12, <2>3, <2>4, <2>5, <2>6, ActivateGood
  <2> QED BY <2>7 DEF G
<1>18. Prompt /\ CalmInv => CalmInv'
  <2>1. Goers(queue)' = Goers(queue')
    BY DEF Goers, Comes
  <2> QED BY <1>11, <1>16, <1>17, <2>1 DEF CalmInv
<1>19. Nobody(r) => /\ Nobody(Now)
                    /\ c \in Actors \cup Applets \/ \E k \in {c} \cup Heirs(N, links') : k \notin Typing
  <2> HAVE Nobody(r)
  <2>1. /\ Nobody(h)
        /\ c \in Actors \cup Applets \/ \E k \in {c} \cup Heirs(N, links') : k \notin Typing
    BY <1>8, <1>10, <1>11, <1>12, ActivateNobody
  <2> QED BY <1>9, <1>12, <2>1 DEF Nobody
<1> QED BY <1>7, <1>11, <1>16, <1>18, <1>19

\* The record without c.
LEMMA ForgottenDoes ==
  ASSUME NEW M, NEW x, NEW s \in Records(M, x), NEW c, NEW r, r = Forgotten(s, c)
  PROVE  /\ r \in Records(M, xfor')
         /\ r.fresh = s.fresh \ {c} /\ r.hidden = s.hidden \ {c} /\ r.stale = s.stale \ {c}
         /\ r.focus = s.focus /\ r.viewable = s.viewable /\ r.input = s.input
<1> DEFINE a == s.fresh \ {c}
           h == s.hidden \ {c}
           b == s.stale \ {c}
<1>1. a \in SUBSET M /\ h \in SUBSET M /\ b \in SUBSET M
  BY DEF Records
<1>2. r = [s EXCEPT !.fresh = a, !.hidden = h, !.stale = b, !.xfor = xfor']
  BY DEF Forgotten, Records
<1> HIDE DEF a, h, b
<1>3. /\ r \in Records(M, xfor') /\ r.fresh = a /\ r.hidden = h /\ r.stale = b
      /\ r.focus = s.focus /\ r.viewable = s.viewable /\ r.input = s.input
  BY <1>1, <1>2 DEF Records
<1> QED BY <1>3 DEF a, h, b

\* A sync of the stack is queued.
Queues == dirty' = TRUE

\* A client is unmanaged and freed: mb_wm_unfocus_client takes its focus on.
LEMMA DroppedKeeps ==
  ASSUME FInv, NEW k \in {"Unmap", "Destroy"}, NEW c \in Managed, Handling(k, c), Dropped(c),
         Stack!IInv', clients' = Stack!Without(clients, c), Queues
  PROVE  /\ FInv'
         /\ Prompt /\ CalmInv => CalmInv'
         /\ calm' => calm
         /\ Managed' = Managed \ {c}
         /\ calm' /\ Nobody(Now') => Nobody(Now)
<1> DEFINE s == Forgotten(Now, c)
           n == NoOne(s)
           r == Unfocused(s, order', links', c)
           a == AsStacked(s, order', links', c)
           N == Managed'
<1>1. /\ Standing(Managed, order, links) /\ Managed \in SUBSET Clients
      /\ Now \in Records(Managed, xfor) /\ Sound(Now, Managed, xfor, dirty)
      /\ Managed \subseteq exists \cup Goers(queue)
  BY NowIs
<1>2. /\ queue' \in Seq(Messages) /\ exists' = exists /\ exists \subseteq Clients
      /\ \A d \in Goers(queue) : d \in Goers(queue') \/ d = c
      /\ \A d \in Doomed(queue) : d \in Doomed(queue') \/ d = c
      /\ SyncsAtOnce => Now.fresh = {} /\ ~Now.focus.later
  BY HandlingIs
<1>3. Stack!IInv /\ reframe \subseteq Managed /\ Managed \subseteq exists \cup Doomed(queue)
  BY DEF FInv
<1>4. Managed' = Managed \ {c}
  BY <1>3, ManagedBecomes
<1>5. Standing(N, order', links')
  BY StandingNext
<1>6. /\ Becomes(r) /\ reframe' = reframe \ {c}
      /\ r = IF s.focus.client = c THEN a ELSE s
  BY DEF Dropped, Unfocused
<1>7. s = Forgotten(Now, c) /\ n = NoOne(s) /\ a = AsStacked(s, order', links', c) /\ N = Managed'
  OBVIOUS
<1> HIDE DEF s, n, r, a, N
<1>8. /\ s \in Records(Managed, xfor')
      /\ s.fresh = Now.fresh \ {c} /\ s.hidden = Now.hidden \ {c} /\ s.stale = Now.stale \ {c}
      /\ s.focus = Now.focus /\ s.viewable = Now.viewable /\ s.input = Now.input
  BY <1>1, <1>7, ForgottenDoes
<1>9. {s.fresh, s.hidden, s.stale} \subseteq SUBSET N
  BY <1>4, <1>7, <1>8 DEF Records
<1>10. /\ n \in Records(N, xfor') /\ n.fresh = s.fresh /\ n.hidden = s.hidden
       /\ n.stale = s.stale /\ n.viewable = s.viewable /\ n.input = s.input
       /\ n.focus.client = NULL
       /\ n.focus.last = s.focus.last /\ n.focus.later = s.focus.later
  <2>1. n \in Records(N, xfor') /\ NoOneFrom(s, n)
    BY <1>7, <1>8, <1>9, NoOneDoes
  <2> QED BY <2>1 DEF NoOneFrom, SameButFocus
<1>11. Sound(n, N, xfor', dirty')
  BY <1>1, <1>8, <1>10 DEF Sound, Queues
<1>12. Sound(a, N, xfor', dirty')
  BY <1>5, <1>7, <1>11, AsStackedSound
<1>13. ASSUME s.focus.client # c PROVE Sound(s, N, xfor', dirty')
  <2>1. s.focus \in Foci(N)
    BY <1>4, <1>7, <1>8, <1>13 DEF Records, Foci
  <2>2. s \in Records(N, xfor')
    BY <1>8, <1>9, <2>1 DEF Records
  <2> QED BY <1>1, <1>8, <2>2 DEF Sound, Queues
<1>14. Sound(r, N, xfor', dirty')
  BY <1>6, <1>12, <1>13
<1>15. /\ FInv' /\ Now' = r
       /\ calm' => calm /\ r.input # RootWindow /\ r.hidden = {}
  <2>1. Sound(r, Managed', xfor', dirty')
    BY <1>7, <1>14
  <2>2. reframe' \subseteq Managed' /\ (reframe' # {} => dirty')
    BY <1>3, <1>4, <1>6 DEF Queues
  <2>3. Managed' \subseteq exists \cup Doomed(queue')
    BY <1>2, <1>3, <1>4
  <2> QED BY <1>2, <1>6, <2>1, <2>2, <2>3, FInvNext
<1>16. ASSUME Prompt, CalmInv, calm' PROVE Good(r, N, Goers(queue')) /\ Settled(r)
  <2> DEFINE G == Goers(queue')
  <2>1. Good(Now, Managed, Goers(queue)) /\ Settled(Now)
    BY <1>15, <1>16 DEF CalmInv
  <2>2. N \subseteq exists \cup G
    BY <1>1, <1>2, <1>4, <1>7
  <2>3. Good(s, N, G)
    BY <1>2, <1>4, <1>7, <1>8, <2>1 DEF Good
  <2>4. Good(n, N, G)
    BY <1>10, <2>3 DEF Good
  <2> HIDE DEF G
  <2>5. Typing \cap Actors = {} /\ n.fresh = {} /\ ~n.focus.later
    BY <1>2, <1>8, <1>10, <1>16 DEF Prompt
  <2>6. CASE s.focus.client = c
    <3>1. NoOne(s) \in Records(N, xfor') /\ Good(NoOne(s), N, G)
      BY <1>7, <1>10, <2>4
    <3>2. NoOne(s).fresh = {} /\ ~NoOne(s).focus.later
      BY <1>7, <2>5
    <3>3. a.input = RootWindow \/ (Good(a, N, G) /\ Settled(a))
      BY <1>5, <1>7, <2>2, <2>5, <3>1, <3>2, AsStackedGood
    <3> QED BY <1>6, <1>15, <1>16, <2>6, <3>3 DEF G
  <2>7. CASE s.focus.client # c
    BY <1>6, <1>8, <2>1, <2>3, <2>7 DEF Settled, G
  <2> QED BY <2>6, <2>7
<1>17. Prompt /\ CalmInv => CalmInv'
  <2>1. Goers(queue)' = Goers(queue')
    BY DEF Goers, Comes
  <2> QED BY <1>7, <1>15, <1>16, <2>1 DEF CalmInv
<1>18. calm' /\ Nobody(r) => Nobody(Now)
  <2> SUFFICES ASSUME calm', Nobody(r) PROVE Nobody(Now)
    OBVIOUS
  <2>1. CASE s.focus.client = c
    <3>1. a.input = RootWindow
      BY <1>5, <1>6, <1>7, <1>10, <2>1, AsStackedNobody
    <3> QED BY <1>6, <1>15, <2>1, <3>1
  <2>2. CASE s.focus.client # c
    BY <1>6, <1>8, <2>2 DEF Nobody
  <2> QED BY <2>1, <2>2
<1> QED BY <1>4, <1>15, <1>17, <1>18

LEMMA HandleUnmapKeeps ==
  ASSUME FInv, NEW c, HandleUnmap(c)
  PROVE  /\ FInv'
         /\ Prompt /\ CalmInv => CalmInv'
         /\ calm' => calm
         /\ Managed' \subseteq Managed
         /\ calm' /\ Nobody(Now') => Nobody(Now)
<1>1. CASE c \in Managed \ hidden
  <2>1. Policy!Withdraw(c) /\ Dropped(c) /\ Handling("Unmap", c) /\ c \in Managed /\ c \in Clients
    BY <1>1, NowIs DEF HandleUnmap
  <2>2. Stack!Withdraw(c)
    BY <2>1, WithdrawIs
  <2>3. Stack!IInv'
    BY <2>1, <2>2, FocusAssumption, Stack!WithdrawKeeps DEF FInv
  <2>4. clients' = Stack!Without(clients, c) /\ Queues
    BY <2>2, FocusAssumption DEF Queues, Stack!Withdraw, Stack!Unmanage
  <2> QED BY <2>1, <2>3, <2>4, DroppedKeeps
<1>2. CASE ~(c \in Managed \ hidden)
  <2>1. Handling("Unmap", c) /\ Ignored
    BY <1>2 DEF HandleUnmap
  <2> QED BY <1>2, <2>1, IgnoredKeeps
<1> QED BY <1>1, <1>2

LEMMA HandleDestroyKeeps ==
  ASSUME FInv, NEW c, HandleDestroy(c)
  PROVE  /\ FInv'
         /\ Prompt /\ CalmInv => CalmInv'
         /\ calm' => calm
         /\ Managed' \subseteq Managed
         /\ calm' /\ Nobody(Now') => Nobody(Now)
<1>1. CASE c \in Managed
  <2>1. Policy!Destroy(c) /\ Dropped(c) /\ Handling("Destroy", c) /\ c \in Clients
    BY <1>1, NowIs DEF HandleDestroy
  <2>2. Stack!Destroy(c)
    BY <2>1, DestroyIs
  <2>3. Stack!IInv'
    BY <2>1, <2>2, FocusAssumption, Stack!DestroyKeeps DEF FInv
  <2>4. clients' = Stack!Without(clients, c) /\ Queues
    BY <2>2, FocusAssumption DEF Queues, Stack!Destroy, Stack!Unmanage
  <2> QED BY <1>1, <2>1, <2>3, <2>4, DroppedKeeps
<1>2. CASE c \notin Managed
  <2>1. Handling("Destroy", c) /\ Ignored
    BY <1>2 DEF HandleDestroy
  <2> QED BY <1>2, <2>1, IgnoredKeeps
<1> QED BY <1>1, <1>2

LEMMA HandleMapKeeps ==
  ASSUME FInv, NEW c \in Clients, HandleMapRequest(c)
  PROVE  /\ FInv'
         /\ Prompt /\ CalmInv => CalmInv'
         /\ calm' => calm
         /\ \/ Managed' \subseteq Managed /\ (Nobody(Now') => Nobody(Now))
            \/ /\ Managed' = Managed \cup {c}
               /\ Nobody(Now') => /\ Nobody(Now)
                                  /\ c \in Actors \cup Applets \/
                                     \E k \in {c} \cup Heirs(Managed', links') : k \notin Typing
<1>1. CASE c \in Managed
  <2>1. Handling("MapRequest", c) /\ Activated(c)
    BY <1>1 DEF HandleMapRequest
  <2> QED BY <1>1, <2>1, ActivatedKeeps
<1>2. CASE c \notin Managed /\ c \notin exists
  <2>1. Handling("MapRequest", c) /\ Ignored
    BY <1>2 DEF HandleMapRequest
  <2> QED BY <2>1, IgnoredKeeps
<1>3. CASE c \notin Managed /\ c \in exists
  <2> DEFINE r == ActivateFocus([Now EXCEPT !.fresh = @ \cup {c}, !.xfor = xfor'],
                                order', links', c)
  <2>1. /\ Handling("MapRequest", c) /\ \E y \in TransientTargets[c] : Policy!Map(c, y, 0)
        /\ Becomes(r) /\ reframe' = reframe
    BY <1>3 DEF HandleMapRequest
  <2>2. PICK y : Policy!Map(c, y, 0)
    BY <2>1
  <2> QED BY <1>3, <2>1, <2>2, MappedKeeps
<1> QED BY <1>1, <1>2, <1>3

LEMMA HandleActivateKeeps ==
  ASSUME FInv, NEW c \in Clients, HandleActivate(c)
  PROVE  /\ FInv'
         /\ Prompt /\ CalmInv => CalmInv'
         /\ calm' => calm
         /\ Managed' \subseteq Managed /\ (Nobody(Now') => Nobody(Now))
<1>1. CASE c \in Managed
  <2>1. Handling("Activate", c) /\ Activated(c)
    BY <1>1 DEF HandleActivate
  <2> QED BY <1>1, <2>1, ActivatedKeeps
<1>2. CASE c \notin Managed
  <2>1. Handling("Activate", c) /\ Ignored
    BY <1>2 DEF HandleActivate
  <2> QED BY <2>1, IgnoredKeeps
<1> QED BY <1>1, <1>2

LEMMA HandleFullscreenKeeps ==
  ASSUME FInv, NEW c \in Clients, HandleFullscreen(c)
  PROVE  /\ FInv'
         /\ CalmInv => CalmInv'
         /\ calm' => calm
         /\ Managed' \subseteq Managed /\ (Nobody(Now') => Nobody(Now))
<1>1. CASE c \notin Managed
  <2>1. Handling("Fullscreen", c) /\ Ignored
    BY <1>1 DEF HandleFullscreen
  <2> QED BY <2>1, IgnoredKeeps
<1>2. CASE c \in Managed
  <2>1. /\ Handling("Fullscreen", c) /\ reframe' = reframe \cup {c} /\ Queues
        /\ UNCHANGED <<order, clients, links, xfor, desktop>> /\ Now' = Now /\ calm' = calm
    BY <1>2 DEF HandleFullscreen, Queues, Now
  <2>2. /\ queue' \in Seq(Messages) /\ exists' = exists /\ exists \subseteq Clients
        /\ Goers(queue) \subseteq Goers(queue') /\ Doomed(queue) \subseteq Doomed(queue')
    BY <2>1, HandlingIs
  <2>3. /\ Stack!IInv /\ Sound(Now, Managed, xfor, dirty) /\ reframe \subseteq Managed
        /\ Managed \subseteq exists \cup Doomed(queue) /\ calm \in BOOLEAN
    BY DEF FInv
  <2>4. Stack!IInv' /\ Managed' = Managed
    BY <2>1, <2>3, StackSame
  <2>5. Sound(Now, Managed, xfor, dirty)'
    BY <2>1, <2>2, <2>3, <2>4 DEF Sound, Records, Foci, Queues
  <2>6. Goers(queue)' = Goers(queue') /\ Doomed(queue)' = Doomed(queue')
    BY DEF Goers, Doomed, Comes
  <2>7. FInv'
    <3>1. Managed' \subseteq exists' \cup Doomed(queue)'
      BY <2>2, <2>3, <2>4, <2>6
    <3>2. reframe' \subseteq Managed' /\ (reframe' # {} => dirty') /\ calm' \in BOOLEAN
      BY <1>2, <2>1, <2>3, <2>4 DEF Queues
    <3> QED BY <2>2, <2>4, <2>5, <3>1, <3>2 DEF FInv
  <2>8. ASSUME CalmInv, calm PROVE Good(Now, Managed, Goers(queue')) /\ Settled(Now)
    <3>1. Good(Now, Managed, Goers(queue)) /\ Settled(Now)
      BY <2>8 DEF CalmInv
    <3> QED BY <2>2, <3>1 DEF Good
  <2>9. CalmInv => CalmInv'
    BY <2>1, <2>4, <2>6, <2>8 DEF CalmInv, Settled
  <2> QED BY <2>1, <2>4, <2>7, <2>9
<1> QED BY <1>1, <1>2

-----------------------------------------------------------------------------
(* The user.                                                                 *)

LEMMA MinimizeKeeps ==
  ASSUME FInv, NEW c, Minimize(c)
  PROVE  FInv' /\ ~calm'
<1> DEFINE h == Now.hidden \cup {c}
           b == Now.stale \cup {c}
           s == [Now EXCEPT !.hidden = h, !.stale = b]
           n == NoOne(s)
           a == AsStacked(s, order, links, c)
           r == Unfocused(s, order, links, c)
           M == Managed
<1>1. /\ Standing(Managed, order, links) /\ Managed \in SUBSET Clients
      /\ Now \in Records(Managed, xfor) /\ Sound(Now, Managed, xfor, dirty)
  BY NowIs
<1>2. /\ c \in Managed /\ UNCHANGED stacking
      /\ reframe' = reframe /\ exists' = exists /\ queue' = queue
  BY DEF Minimize
<1>3. Becomes(r)
  BY DEF Minimize, Now
<1>4. /\ Stack!IInv /\ reframe \subseteq Managed /\ (reframe # {} => dirty)
      /\ queue \in Seq(Messages) /\ exists \subseteq Clients
      /\ Managed \subseteq exists \cup Doomed(queue)
  BY DEF FInv
<1>5. Stack!IInv' /\ Managed' = Managed
  BY <1>2, <1>4, StackSame DEF stacking
<1>6. M = Managed
  OBVIOUS
<1> HIDE DEF M
<1>7. h \in SUBSET M /\ b \in SUBSET M /\ c \in h
  BY <1>1, <1>2, <1>6 DEF Records
<1> HIDE DEF h, b
<1>8. /\ s \in Records(M, xfor) /\ s.fresh = Now.fresh /\ s.stale = b /\ s.hidden = h
      /\ s.focus = Now.focus
  BY <1>1, <1>6, <1>7 DEF Records
<1>9. /\ r = (IF s.focus.client = c THEN a ELSE s)
      /\ n = NoOne(s) /\ a = AsStacked(s, order, links, c)
  BY DEF Unfocused
<1> HIDE DEF s, n, a, r
<1>10. Sound(s, M, xfor, dirty)
  BY <1>1, <1>6, <1>8 DEF Sound, b
<1>11. n \in Records(M, xfor) /\ n.fresh = s.fresh /\ n.stale = s.stale /\ n.hidden = s.hidden
       /\ n.focus.later = s.focus.later
  <2>1. {s.fresh, s.hidden, s.stale} \subseteq SUBSET M
    BY <1>8 DEF Records
  <2>2. s \in Records(M, xfor) /\ n = NoOne(s)
    BY <1>8, <1>9
  <2>3. n \in Records(M, xfor) /\ NoOneFrom(s, n)
    BY <2>1, <2>2, NoOneDoes
  <2> QED BY <2>3 DEF NoOneFrom, SameButFocus
<1>12. Sound(n, M, xfor, dirty)
  BY <1>10, <1>11 DEF Sound
<1>13. Sound(a, M, xfor, dirty) /\ a.hidden = n.hidden
  BY <1>1, <1>6, <1>9, <1>12, AsStackedSound
<1>14. Sound(r, M, xfor, dirty) /\ r.hidden = h
  BY <1>8, <1>9, <1>10, <1>11, <1>13
<1>15. xfor' = xfor /\ dirty' = dirty
  BY <1>2 DEF stacking
<1>16. /\ FInv' /\ Now' = r
       /\ calm' => calm /\ r.input # RootWindow /\ r.hidden = {}
  <2>1. Sound(r, Managed', xfor', dirty')
    BY <1>5, <1>6, <1>14, <1>15
  <2> QED BY <1>2, <1>3, <1>4, <1>5, <1>15, <2>1, FInvNext
<1> QED BY <1>7, <1>14, <1>16

LEMMA LockKeeps ==
  ASSUME FInv, Lock \/ UNCHANGED vars
  PROVE  /\ FInv'
         /\ CalmInv => CalmInv'
         /\ calm' = calm /\ Managed' = Managed /\ Now' = Now /\ UNCHANGED stacking
<1>1. /\ UNCHANGED stacking /\ Now' = Now
      /\ UNCHANGED <<reframe, queue, exists, calm>>
  <2>1. UNCHANGED <<stacking, fresh, hidden, stale, reframe, focus, server, queue, calm>>
    BY DEF Lock, vars
  <2> QED BY <2>1 DEF server, Now, stacking
<1>2. Stack!IInv /\ Sound(Now, Managed, xfor, dirty)
  BY DEF FInv
<1>3. Stack!IInv' /\ Managed' = Managed
  BY <1>1, <1>2, StackSame DEF stacking
<1>4. Sound(Now, Managed, xfor, dirty)'
  BY <1>1, <1>2, <1>3 DEF Sound, Records, Foci, stacking
<1>5. Goers(queue)' = Goers(queue) /\ Doomed(queue)' = Doomed(queue)
  BY <1>1 DEF Goers, Doomed, Comes
<1>6. FInv'
  BY <1>1, <1>3, <1>4, <1>5 DEF FInv, stacking
<1>7. CalmInv => CalmInv'
  BY <1>1, <1>3, <1>5 DEF CalmInv, Good, Settled
<1> QED BY <1>1, <1>3, <1>6, <1>7

-----------------------------------------------------------------------------
(* The applications.                                                         *)

\* An application asks for something.
LEMMA AskedForKeeps ==
  ASSUME FInv, NEW m \in Messages, queue' = Append(queue, m),
         UNCHANGED <<stacking, fresh, hidden, stale, reframe, focus, locked, server, calm>>
  PROVE  /\ FInv'
         /\ CalmInv => CalmInv'
         /\ calm' = calm /\ Managed' = Managed /\ Now' = Now /\ UNCHANGED stacking
<1>1. /\ UNCHANGED stacking /\ Now' = Now
      /\ UNCHANGED <<reframe, exists, calm>>
  BY DEF server, Now, stacking
<1>2. Stack!IInv /\ Sound(Now, Managed, xfor, dirty) /\ queue \in Seq(Messages)
  BY DEF FInv
<1>3. Stack!IInv' /\ Managed' = Managed
  BY <1>1, <1>2, StackSame DEF stacking
<1>4. Sound(Now, Managed, xfor, dirty)'
  BY <1>1, <1>2, <1>3 DEF Sound, Records, Foci, stacking
<1>5. /\ queue' \in Seq(Messages)
      /\ Goers(queue) \subseteq Goers(queue)' /\ Doomed(queue) \subseteq Doomed(queue)'
  <2>1. Goers(queue)' = Goers(queue') /\ Doomed(queue)' = Doomed(queue')
    BY DEF Goers, Doomed, Comes
  <2>2. /\ Append(queue, m) \in Seq(Messages)
        /\ Goers(queue) \subseteq Goers(Append(queue, m))
        /\ Doomed(queue) \subseteq Doomed(Append(queue, m))
    BY <1>2, PutOne
  <2> QED BY <2>1, <2>2
<1>6. FInv'
  <2>1. Managed' \subseteq exists' \cup Doomed(queue)'
    BY <1>1, <1>3, <1>5 DEF FInv
  <2>2. reframe' \subseteq Managed' /\ (reframe' # {} => dirty') /\ calm' \in BOOLEAN
        /\ exists' \subseteq Clients
    BY <1>1, <1>3 DEF FInv, stacking
  <2> QED BY <1>3, <1>4, <1>5, <2>1, <2>2 DEF FInv
<1>7. ASSUME CalmInv, calm PROVE Good(Now, Managed, Goers(queue)') /\ Settled(Now)
  <2>1. Good(Now, Managed, Goers(queue)) /\ Settled(Now)
    BY <1>7 DEF CalmInv
  <2> QED BY <1>5, <2>1 DEF Good
<1>8. CalmInv => CalmInv'
  BY <1>1, <1>3, <1>7 DEF CalmInv, Settled
<1> QED BY <1>1, <1>3, <1>6, <1>8

LEMMA AppAsksKeeps ==
  ASSUME FInv, NEW c \in Clients, AppMap(c) \/ Ask(c)
  PROVE  /\ FInv'
         /\ CalmInv => CalmInv'
         /\ calm' = calm /\ Managed' = Managed /\ Now' = Now /\ UNCHANGED stacking
<1>1. /\ \/ queue' = Append(queue, Event("MapRequest", c))
         \/ queue' = Append(queue, Event("Activate", c))
         \/ queue' = Append(queue, Event("Fullscreen", c))
      /\ UNCHANGED <<stacking, fresh, hidden, stale, reframe, focus, locked, server, calm>>
  BY DEF AppMap, Ask
<1>2. \A k \in {"MapRequest", "Activate", "Fullscreen"} : Event(k, c) \in Messages
  BY DEF Event, Messages
<1>3. PICK m \in Messages : queue' = Append(queue, m)
  BY <1>1, <1>2
<1> QED BY <1>1, <1>3, AskedForKeeps

\* A window is unmapped.
LEMMA UnviewableDoes ==
  ASSUME NEW M, NEW x, NEW s \in Records(M, x), NEW D,
         NEW r, r = Unviewable(s, D)
  PROVE  /\ r.fresh = s.fresh /\ r.hidden = s.hidden /\ r.stale = s.stale
         /\ r.focus = s.focus /\ r.xfor = s.xfor
         /\ r.viewable = s.viewable \ D
         /\ r.input = IF s.input \in D THEN PointerRoot ELSE s.input
         /\ r \in Records(M, x)
<1> DEFINE v == s.viewable \ D
           i == IF s.input \in D THEN PointerRoot ELSE s.input
<1>1. r = [s EXCEPT !.viewable = v, !.input = i]
  BY DEF Unviewable, Records
<1>2. v \in SUBSET exists /\ i \in Clients \cup {RootWindow, PointerRoot}
  BY DEF Records
<1> HIDE DEF v, i
<1>3. /\ r.fresh = s.fresh /\ r.hidden = s.hidden /\ r.stale = s.stale
      /\ r.focus = s.focus /\ r.xfor = s.xfor
      /\ r.viewable = v /\ r.input = i /\ r \in Records(M, x)
  BY <1>1, <1>2 DEF Records
<1> QED BY <1>3 DEF v, i

\* A window is withdrawn or destroyed; the window manager is told.
LEMMA GoesKeeps ==
  ASSUME FInv, NEW c \in Clients, NEW e \in Seq(Messages), AppGoes(c, e), c \in Goers(e),
         exists' = exists \/ (exists' = exists \ {c} /\ c \in Doomed(e))
  PROVE  /\ FInv'
         /\ CalmInv => CalmInv'
         /\ calm' => calm
         /\ Managed' = Managed /\ (Nobody(Now') => Nobody(Now)) /\ UNCHANGED stacking
<1> DEFINE r == Unviewable(Now, {c})
<1>1. /\ UNCHANGED stacking /\ Becomes(r) /\ reframe' = reframe /\ queue' = queue \o e
  BY DEF AppGoes
<1>2. /\ Stack!IInv /\ Sound(Now, Managed, xfor, dirty) /\ queue \in Seq(Messages)
      /\ Now \in Records(Managed, xfor)
  BY DEF FInv, Sound
<1>3. Stack!IInv' /\ Managed' = Managed
  BY <1>1, <1>2, StackSame DEF stacking
<1>4. /\ r.fresh = Now.fresh /\ r.hidden = Now.hidden /\ r.stale = Now.stale
      /\ r.focus = Now.focus
      /\ r.viewable = Now.viewable \ {c}
      /\ r.input = (IF Now.input \in {c} THEN PointerRoot ELSE Now.input)
      /\ r \in Records(Managed, xfor)
  <2>1. r = Unviewable(Now, {c})
    OBVIOUS
  <2> QED BY <1>2, <2>1, UnviewableDoes
<1> HIDE DEF r
<1>5. /\ queue' \in Seq(Messages)
      /\ Goers(queue) \cup {c} \subseteq Goers(queue)'
      /\ Doomed(queue) \subseteq Doomed(queue)'
      /\ exists' = exists \/ (exists' = exists \ {c} /\ c \in Doomed(queue)')
  <2>1. Goers(queue)' = Goers(queue') /\ Doomed(queue)' = Doomed(queue')
    BY DEF Goers, Doomed, Comes
  <2>2. /\ queue \o e \in Seq(Messages)
        /\ Goers(queue) \cup Goers(e) \subseteq Goers(queue \o e)
        /\ Doomed(queue) \cup Doomed(e) \subseteq Doomed(queue \o e)
    BY <1>2, PutIn
  <2> QED BY <1>1, <2>1, <2>2
<1>6. xfor' = xfor /\ dirty' = dirty
  BY <1>1 DEF stacking
<1>7. /\ Now' = r
      /\ calm' = (calm /\ r.input # RootWindow /\ r.hidden = {})
  BY <1>4, <1>1, <1>6, BecomesIs
<1>8. Sound(Now, Managed, xfor, dirty)'
  <2>1. r.viewable \subseteq exists'
    BY <1>2, <1>4, <1>5 DEF Records
  <2>2. (Now \in Records(Managed, xfor))'
    BY <1>3, <1>4, <1>6, <1>7, <2>1 DEF Records, Foci
  <2>3. r.fresh \subseteq r.stale /\ (r.fresh # {} \/ r.focus.later => dirty)
    BY <1>2, <1>4 DEF Sound
  <2> QED BY <1>6, <1>7, <2>2, <2>3 DEF Sound
<1>9. FInv'
  <2>1. Managed' \subseteq exists' \cup Doomed(queue)'
    BY <1>3, <1>5 DEF FInv
  <2>2. reframe' \subseteq Managed' /\ (reframe' # {} => dirty') /\ calm' \in BOOLEAN
        /\ exists' \subseteq Clients
    BY <1>1, <1>3, <1>5, <1>6, <1>7 DEF FInv
  <2> QED BY <1>3, <1>5, <1>8, <2>1, <2>2 DEF FInv
<1>10. ASSUME CalmInv, calm PROVE Good(r, Managed, Goers(queue)') /\ Settled(r)
  <2>1. Good(Now, Managed, Goers(queue)) /\ Settled(Now)
    BY <1>10 DEF CalmInv
  <2> QED BY <1>4, <1>5, <2>1 DEF Good, Settled
<1>11. CalmInv => CalmInv'
  BY <1>3, <1>7, <1>10 DEF CalmInv
<1> QED BY <1>1, <1>3, <1>4, <1>7, <1>9, <1>11 DEF Nobody

LEMMA AppGoesKeeps ==
  ASSUME FInv, NEW c \in Clients, AppWithdraw(c) \/ AppDestroy(c)
  PROVE  /\ FInv'
         /\ CalmInv => CalmInv'
         /\ calm' => calm
         /\ Managed' = Managed /\ (Nobody(Now') => Nobody(Now)) /\ UNCHANGED stacking
<1> DEFINE u == Event("Unmap", c)
           d == Event("Destroy", c)
<1>1. /\ u \in Messages /\ d \in Messages
      /\ u.window = c /\ u.type = "Unmap" /\ d.window = c /\ d.type = "Destroy"
  BY DEF Event, Messages
<1> HIDE DEF u, d
<1>2. ASSUME NEW e \in {<<u>>, <<u, d>>, <<d>>} PROVE e \in Seq(Messages) /\ c \in Goers(e)
  <2>1. e \in Seq(Messages) /\ 1 \in 1..Len(e) /\ e[1] \in {u, d}
    <3>1. CASE e = <<u, d>>
      BY <1>1, <3>1
    <3>2. CASE e = <<u>>
      BY <1>1, <3>2
    <3>3. CASE e = <<d>>
      BY <1>1, <3>3
    <3> QED BY <1>2, <3>1, <3>2, <3>3
  <2> QED BY <1>1, <2>1 DEF Goers, Comes
<1>3. ASSUME NEW e \in {<<u, d>>, <<d>>} PROVE c \in Doomed(e)
  <2>1. Len(e) \in 1..Len(e) /\ e[Len(e)] = d
    BY <1>3
  <2> QED BY <1>1, <2>1 DEF Doomed, Comes
<1>4. CASE AppWithdraw(c)
  <2>1. AppGoes(c, <<u>>) /\ exists' = exists
    BY <1>4 DEF AppWithdraw, u
  <2> DEFINE e == <<u>>
  <2>2. e \in Seq(Messages) /\ c \in Goers(e)
    BY <1>2
  <2> HIDE DEF e
  <2>3. AppGoes(c, e)
    BY <2>1 DEF e
  <2> QED BY <2>1, <2>2, <2>3, GoesKeeps
<1>5. CASE AppDestroy(c)
  <2> DEFINE e == IF c \in viewable THEN <<u, d>> ELSE <<d>>
  <2>1. AppGoes(c, e) /\ exists' = exists \ {c}
    BY <1>5 DEF AppDestroy, u, d
  <2>2. e \in Seq(Messages) /\ c \in Goers(e) /\ c \in Doomed(e)
    BY <1>2, <1>3
  <2> HIDE DEF e
  <2> QED BY <2>1, <2>2, GoesKeeps
<1> QED BY <1>4, <1>5

-----------------------------------------------------------------------------
(* The sync.                                                                 *)

\* Frames are changed: the windows are viewable again and the focus is where it was.
LEMMA ReframedDoes ==
  ASSUME NEW M \in SUBSET Clients, NEW x, NEW s \in Records(M, x), exists \subseteq Clients,
         NEW r, r = Reframed(s)
  PROVE  /\ r \in Records(M, x)
         /\ SameButFocus(s, r) /\ r.focus = s.focus
         /\ s.viewable \subseteq r.viewable \cup (Clients \ exists)
         /\ s.hidden = {} /\ s.input \in M /\ s.focus.client = s.input
              => r.input = s.input \/ s.input \notin exists
<1> DEFINE D == reframe \ s.hidden
           u == Unviewable(s, D)
           v == u.viewable \cup (D \cap exists)
           t == [u EXCEPT !.viewable = v]
           f == s.focus.client
<1>1. /\ u.fresh = s.fresh /\ u.hidden = s.hidden /\ u.stale = s.stale
      /\ u.focus = s.focus
      /\ u.viewable = s.viewable \ D
      /\ u.input = (IF s.input \in D THEN PointerRoot ELSE s.input)
      /\ u \in Records(M, x)
  BY UnviewableDoes
<1>2. r = IF f \in reframe THEN SetInput(t, f) ELSE t
  BY DEF Reframed, Unviewable
<1> HIDE DEF u, D
<1>3. v \in SUBSET exists /\ s.viewable \subseteq v
  BY <1>1 DEF Records
<1> HIDE DEF v
<1>4. /\ t \in Records(M, x) /\ SameButFocus(s, t) /\ t.focus = s.focus
      /\ t.viewable = v /\ t.input = u.input
  BY <1>1, <1>3 DEF Records, SameButFocus
<1> HIDE DEF t
<1>5. f \in Clients \cup {NULL}
  BY DEF Records, Foci
<1> HIDE DEF f
<1>6. CASE r = t
  <2>1. s.hidden = {} /\ s.input \in M /\ f = s.input => r.input = s.input \/ s.input \notin exists
    <3> SUFFICES ASSUME s.hidden = {}, s.input \in M, f = s.input, s.input \in exists
                 PROVE  r.input = s.input
      OBVIOUS
    <3>1. CASE f \in reframe
      <4>1. f \in v
        BY <3>1 DEF v, D
      <4> QED BY <1>2, <1>4, <3>1, <4>1 DEF SetInput, Records
    <3>2. CASE f \notin reframe
      BY <1>1, <1>4, <1>6, <3>2 DEF D
    <3> QED BY <3>1, <3>2
  <2> QED BY <1>3, <1>4, <1>6, <2>1 DEF f
<1>7. CASE r # t
  <2>1. f \in reframe /\ f \in v /\ r = [t EXCEPT !.input = f]
    BY <1>2, <1>4, <1>7 DEF SetInput
  <2>2. f \in Clients \cup {RootWindow, PointerRoot}
    BY <1>3, <2>1
  <2>3. /\ r \in Records(M, x) /\ SameButFocus(t, r) /\ r.focus = t.focus
        /\ r.viewable = v /\ r.input = f
    BY <1>4, <2>1, <2>2 DEF Records, SameButFocus
  <2> QED BY <1>3, <1>4, <2>3 DEF f, SameButFocus
<1> QED BY <1>6, <1>7

\* The clients that need it are mapped or unmapped.
RedrawnFrom(s, r) ==
  /\ r.fresh = s.fresh /\ r.hidden = s.hidden
  /\ r.focus = s.focus
  /\ s.hidden = {} => /\ s.viewable \cup (s.stale \cap exists) \subseteq r.viewable
                      /\ r.input = s.input

LEMMA RedrawnDoes ==
  ASSUME NEW M \in SUBSET Clients, NEW x, NEW s \in Records(M, x),
         NEW r, r = Redrawn(s)
  PROVE  r \in Records(M, x) /\ RedrawnFrom(s, r)
<1> DEFINE D == s.stale \cap s.hidden
           u == Unviewable(s, D)
           v == u.viewable \cup ((s.stale \ s.hidden) \cap exists)
<1>1. /\ u.fresh = s.fresh /\ u.hidden = s.hidden /\ u.stale = s.stale
      /\ u.focus = s.focus
      /\ u.viewable = s.viewable \ D
      /\ u.input = (IF s.input \in D THEN PointerRoot ELSE s.input)
      /\ u \in Records(M, x)
  BY UnviewableDoes
<1>2. r = [u EXCEPT !.viewable = v, !.stale = {}]
  BY DEF Redrawn, Unviewable
<1> HIDE DEF u, D
<1>3. /\ v \in SUBSET exists
      /\ s.hidden = {} => s.viewable \cup (s.stale \cap exists) \subseteq v
  BY <1>1 DEF Records, D
<1> HIDE DEF v
<1>4. /\ r \in Records(M, x) /\ r.fresh = u.fresh /\ r.hidden = u.hidden /\ r.stale = {}
      /\ r.focus = u.focus /\ r.viewable = v /\ r.input = u.input
  BY <1>1, <1>2, <1>3 DEF Records
<1> QED BY <1>1, <1>3, <1>4 DEF D, RedrawnFrom

\* The focus that was put off is due.
Due(s) == [s EXCEPT !.focus.later = FALSE]

LEMMA DueDoes ==
  ASSUME NEW M, NEW x, NEW s \in Records(M, x), NEW r, r = Due(s)
  PROVE  /\ r \in Records(M, x) /\ SameButFocus(s, r)
         /\ r.viewable = s.viewable /\ r.input = s.input
         /\ r.focus.client = s.focus.client /\ r.focus.last = s.focus.last
         /\ ~r.focus.later
<1> DEFINE f == [s.focus EXCEPT !.later = FALSE]
<1>1. f \in Foci(M) /\ f.client = s.focus.client /\ f.last = s.focus.last /\ f.later = FALSE
  BY DEF Records, Foci
<1>2. r = [s EXCEPT !.focus = f]
  BY DEF Due, Records
<1> HIDE DEF f
<1> QED BY <1>1, <1>2 DEF Records, SameButFocus

\* Nobody is left to be realized.
Bare(s) == [s EXCEPT !.fresh = {}]

\* What the sync makes of the stack, and what it hears of then.
LEMMA SyncStack ==
  ASSUME FInv, Sync
  PROVE  /\ Stack!IInv' /\ Managed' = Managed /\ xfor' = xfor /\ ~dirty'
         /\ Standing(Managed, order', links')
         /\ links' = links
         /\ queue' \in Seq(Messages) /\ exists' = exists /\ reframe' = {}
         /\ Goers(queue) \subseteq Goers(queue') /\ Doomed(queue) \subseteq Doomed(queue')
         /\ Becomes(Refocused(Redrawn(Reframed(Bare(Now)))))
<1>1. Stack!IInv /\ queue \in Seq(Messages) /\ Now \in Records(Managed, xfor)
  BY DEF FInv, Sound
<1>2. /\ Stack!IInv' /\ clients' = clients /\ xfor' = xfor /\ ~dirty' /\ links' = links
  <2>1. CASE dirty
    <3>1. Stack!Sync
      BY <2>1, SyncIs DEF Sync
    <3>2. Stack!IInv'
      BY <1>1, <3>1, FocusAssumption, Stack!SyncKeeps
    <3>3. clients' = clients /\ xfor' = xfor /\ dirty' = FALSE /\ links' = links
      BY <3>1, FocusAssumption DEF Stack!Sync
    <3> QED BY <3>2, <3>3
  <2>2. CASE ~dirty
    <3>1. UNCHANGED stacking
      BY <2>2 DEF Sync
    <3>2. Stack!IInv'
      BY <1>1, <3>1, StackSame DEF stacking
    <3> QED BY <2>2, <3>1, <3>2 DEF stacking
  <2> QED BY <2>1, <2>2
<1>3. Managed' = Managed
  BY <1>1, <1>2, ManagedBecomes
<1>4. Standing(Managed', order', links')
  BY <1>2, StandingNext
<1> DEFINE C == stale \cap hidden \cap viewable
           S == {Event("Unmap", c) : c \in C}
<1>5. IsFiniteSet(C) /\ C \subseteq Managed /\ Managed \subseteq Clients
  <2>1. C \subseteq Managed
    BY <1>1 DEF Records, Now
  <2>2. IsFiniteSet(Managed) /\ Managed \subseteq Clients
    BY <1>1, StandingNow DEF Standing
  <2> QED BY <2>1, <2>2, FS_Subset
<1> HIDE DEF C
<1>6. S \in SUBSET Messages /\ IsFiniteSet(S)
  <2> DEFINE f == [c \in C |-> Event("Unmap", c)]
  <2>1. f \in Surjection(C, S)
    BY DEF Surjection
  <2>2. IsFiniteSet(S)
    <3> HIDE DEF S, f
    <3> QED BY <1>5, <2>1, FS_Surjection
  <2> QED BY <1>5, <2>2 DEF Event, Messages
<1>7. queue' = queue \o SetToSeq(S) /\ exists' = exists /\ reframe' = {}
  BY DEF Sync, C
<1> HIDE DEF S
<1>8. SetToSeq(S) \in Seq(Messages)
  BY <1>6, SetIsSeq
<1>9. /\ queue' \in Seq(Messages)
      /\ Goers(queue) \subseteq Goers(queue') /\ Doomed(queue) \subseteq Doomed(queue')
  BY <1>1, <1>7, <1>8, PutIn
<1>10. Becomes(Refocused(Redrawn(Reframed(Bare(Now)))))
  BY DEF Sync, Bare
<1> QED BY <1>2, <1>3, <1>4, <1>7, <1>9, <1>10

\* mb_wm_sync
LEMMA SyncKeeps ==
  ASSUME FInv, Sync
  PROVE  /\ FInv'
         /\ Prompt /\ CalmInv => CalmInv'
         /\ calm' => calm
         /\ Managed' = Managed /\ links' = links
         /\ calm' /\ Nobody(Now') => Nobody(Now)
<1> DEFINE s == Bare(Now)
           a == Reframed(s)
           b == Redrawn(a)
           w == Due(b)
           n == NoOne(w)
           q == AsStacked(w, order', links', NULL)
           r == Refocused(b)
           M == Managed
<1>1. /\ M \in SUBSET Clients /\ exists \subseteq Clients
      /\ Now \in Records(M, xfor) /\ Sound(Now, M, xfor, dirty)
      /\ M \subseteq exists \cup Goers(queue)
  BY NowIs DEF FInv
<1>2. /\ Stack!IInv' /\ Managed' = M /\ xfor' = xfor /\ ~dirty'
      /\ Standing(M, order', links')
      /\ links' = links
      /\ queue' \in Seq(Messages) /\ exists' = exists /\ reframe' = {}
      /\ Goers(queue) \subseteq Goers(queue') /\ Doomed(queue) \subseteq Doomed(queue')
      /\ Becomes(r)
  BY SyncStack
<1>3. r = IF b.focus.later THEN q ELSE b
  BY DEF Refocused, Due
<1>4. /\ s = Bare(Now) /\ a = Reframed(s) /\ b = Redrawn(a) /\ w = Due(b) /\ n = NoOne(w)
      /\ q = AsStacked(w, order', links', NULL) /\ M = Managed
  OBVIOUS
<1> HIDE DEF s, a, b, w, n, q, r, M
<1>5. /\ s \in Records(M, xfor) /\ s.fresh = {} /\ s.hidden = Now.hidden /\ s.stale = Now.stale
      /\ s.focus = Now.focus /\ s.viewable = Now.viewable /\ s.input = Now.input
  BY <1>1, <1>4 DEF Bare, Records
<1>20. s \in Records(M, xfor) /\ a = Reframed(s)
  BY <1>4, <1>5
<1>6. /\ a \in Records(M, xfor)
      /\ SameButFocus(s, a) /\ a.focus = s.focus
      /\ s.viewable \subseteq a.viewable \cup (Clients \ exists)
      /\ s.hidden = {} /\ s.input \in M /\ s.focus.client = s.input
           => a.input = s.input \/ s.input \notin exists
  BY <1>1, <1>20, ReframedDoes
<1>21. a \in Records(M, xfor) /\ b = Redrawn(a)
  BY <1>4, <1>6
<1>7. /\ b \in Records(M, xfor)
      /\ b.fresh = a.fresh /\ b.hidden = a.hidden
      /\ b.focus = a.focus
      /\ a.hidden = {} => /\ a.viewable \cup (a.stale \cap exists) \subseteq b.viewable
                          /\ b.input = a.input
  <2>1. b \in Records(M, xfor) /\ RedrawnFrom(a, b)
    BY <1>1, <1>21, RedrawnDoes
  <2> QED BY <2>1 DEF RedrawnFrom
<1>8. /\ b.fresh = {} /\ b.hidden = Now.hidden /\ b.focus = Now.focus
      /\ a.fresh = {} /\ a.hidden = Now.hidden /\ a.stale = Now.stale /\ a.focus = Now.focus
  BY <1>5, <1>6, <1>7 DEF SameButFocus
<1>22. b \in Records(M, xfor) /\ w = Due(b)
  BY <1>4, <1>7
<1>9. /\ w \in Records(M, xfor) /\ SameButFocus(b, w)
      /\ w.viewable = b.viewable /\ w.input = b.input
      /\ w.focus.client = b.focus.client /\ w.focus.last = b.focus.last
      /\ ~w.focus.later
  BY <1>22, DueDoes
<1>10. /\ n \in Records(M, xfor) /\ SameButFocus(w, n)
       /\ n.viewable = w.viewable /\ n.input = w.input
       /\ n.focus.client = NULL
       /\ n.focus.last = w.focus.last /\ n.focus.later = w.focus.later
  <2>1. {w.fresh, w.hidden, w.stale} \subseteq SUBSET M
    BY <1>9 DEF Records
  <2>2. w \in Records(M, xfor) /\ n = NoOne(w)
    BY <1>4, <1>9
  <2>3. n \in Records(M, xfor) /\ NoOneFrom(w, n)
    BY <2>1, <2>2, NoOneDoes
  <2> QED BY <2>3 DEF NoOneFrom
<1>11. n.fresh = {} /\ ~n.focus.later
  BY <1>8, <1>9, <1>10 DEF SameButFocus
<1>12. Sound(n, M, xfor, dirty')
  BY <1>10, <1>11 DEF Sound
<1>13. Sound(q, M, xfor, dirty')
  BY <1>2, <1>4, <1>12, AsStackedSound
<1>14. ~b.focus.later => Sound(b, M, xfor, dirty')
  BY <1>7, <1>8 DEF Sound
<1>15. Sound(r, M, xfor, dirty')
  BY <1>3, <1>13, <1>14
<1>16. /\ FInv' /\ Now' = r
       /\ calm' => calm /\ r.input # RootWindow /\ r.hidden = {}
  <2>1. Sound(r, Managed', xfor', dirty')
    BY <1>2, <1>15
  <2>2. reframe' \subseteq Managed' /\ (reframe' # {} => dirty')
    BY <1>2
  <2>3. Managed' \subseteq exists \cup Doomed(queue')
    BY <1>2, <1>4 DEF FInv
  <2> QED BY <1>1, <1>2, <2>1, <2>2, <2>3, FInvNext
<1>17. ASSUME Prompt, CalmInv, calm' PROVE Good(r, M, Goers(queue')) /\ Settled(r)
  <2> DEFINE G == Goers(queue')
  <2>1. Good(Now, M, Goers(queue)) /\ Settled(Now)
    BY <1>4, <1>16, <1>17 DEF CalmInv
  <2>2. M \subseteq exists \cup G
    BY <1>1, <1>2
  <2>3. Goers(queue) \subseteq G
    BY <1>2
  <2> HIDE DEF G
  <2>4. Now.hidden = {} /\ Settled(b)
    BY <1>8, <2>1 DEF Good, Settled
  <2>5. \A c \in M : c \in b.viewable \cup G
    <3> SUFFICES ASSUME NEW c \in M, c \in exists, c \notin G PROVE c \in b.viewable
      BY <2>2
    <3>1. CASE c \in Now.fresh
      <4>1. c \in a.stale
        BY <1>1, <1>8, <3>1 DEF Sound
      <4> QED BY <1>7, <1>8, <2>4, <4>1
    <3>2. CASE c \notin Now.fresh
      <4>1. c \in s.viewable
        BY <1>5, <2>1, <2>3, <3>2 DEF Good
      <4> QED BY <1>6, <1>7, <1>8, <2>4, <4>1
    <3> QED BY <3>1, <3>2
  <2>6. b.focus.last \in M => b.input = b.focus.last \/ b.focus.last \in G
    <3> SUFFICES ASSUME b.focus.last \in M, b.focus.last \notin G PROVE b.input = b.focus.last
      OBVIOUS
    <3> DEFINE e == b.focus.last
    <3>1. Now.input = e /\ Now.focus.client = e
      BY <1>8, <2>1, <2>3 DEF Good, Settled
    <3>2. a.input = e
      BY <1>5, <1>6, <2>2, <2>4, <3>1
    <3> QED BY <1>7, <1>8, <2>4, <3>2
  <2>7. Good(b, M, G)
    BY <1>8, <2>4, <2>5, <2>6 DEF Good
  <2>8. Good(n, M, G)
    BY <1>8, <1>9, <1>10, <2>7 DEF Good, SameButFocus
  <2>9. Typing \cap Actors = {}
    BY <1>17 DEF Prompt
  <2>10. CASE b.focus.later
    <3>1. NoOne(w) \in Records(M, xfor) /\ Good(NoOne(w), M, G)
      BY <1>4, <1>10, <2>8
    <3>2. NoOne(w).fresh = {} /\ ~NoOne(w).focus.later
      BY <1>4, <1>11
    <3>3. q.input = RootWindow \/ (Good(q, M, G) /\ Settled(q))
      BY <1>2, <1>4, <2>2, <2>9, <3>1, <3>2, AsStackedGood
    <3> QED BY <1>3, <1>16, <1>17, <2>10, <3>3 DEF G
  <2>11. CASE ~b.focus.later
    BY <1>3, <2>4, <2>7, <2>11 DEF G
  <2> QED BY <2>10, <2>11
<1>18. Prompt /\ CalmInv => CalmInv'
  <2>1. Goers(queue)' = Goers(queue')
    BY DEF Goers, Comes
  <2> QED BY <1>2, <1>16, <1>17, <2>1 DEF CalmInv
<1>19. calm' /\ Nobody(r) => Nobody(Now)
  <2> SUFFICES ASSUME calm', Nobody(r) PROVE Nobody(Now)
    OBVIOUS
  <2>1. CASE b.focus.later
    <3>1. q.input = RootWindow
      BY <1>2, <1>3, <1>4, <1>10, <2>1, AsStackedNobody
    <3> QED BY <1>3, <1>16, <2>1, <3>1
  <2>2. CASE ~b.focus.later
    BY <1>3, <1>8, <2>2 DEF Nobody
  <2> QED BY <2>1, <2>2
<1> QED BY <1>2, <1>4, <1>16, <1>18, <1>19

-----------------------------------------------------------------------------
(* All steps.                                                                *)

\* What every step keeps, and who has come if someone has.
Kept == FInv' /\ (Prompt /\ CalmInv => CalmInv') /\ (calm' => calm)

Lost == calm' => Managed' \subseteq Managed /\ (Nobody(Now') => Nobody(Now))

Came(c) ==
  /\ Managed' = Managed \cup {c}
  /\ Nobody(Now') => /\ Nobody(Now)
                     /\ c \in Actors \cup Applets \/
                        \E k \in {c} \cup Heirs(Managed', links') : k \notin Typing

LEMMA HandleKeeps ==
  ASSUME FInv, Handle
  PROVE  Kept /\ (Lost \/ \E c \in Clients : Came(c))
<1>1. PICK c \in Clients : \/ HandleMapRequest(c)
                           \/ HandleActivate(c)
                           \/ HandleUnmap(c)
                           \/ HandleDestroy(c)
                           \/ HandleFullscreen(c)
  BY DEF Handle
<1>2. CASE HandleMapRequest(c)
  BY <1>2, HandleMapKeeps DEF Kept, Lost, Came
<1>3. CASE HandleActivate(c)
  BY <1>3, HandleActivateKeeps DEF Kept, Lost
<1>4. CASE HandleUnmap(c)
  BY <1>4, HandleUnmapKeeps DEF Kept, Lost
<1>5. CASE HandleDestroy(c)
  BY <1>5, HandleDestroyKeeps DEF Kept, Lost
<1>6. CASE HandleFullscreen(c)
  BY <1>6, HandleFullscreenKeeps DEF Kept, Lost
<1> QED BY <1>1, <1>2, <1>3, <1>4, <1>5, <1>6

LEMMA NextKeeps ==
  ASSUME FInv, [Next]_vars
  PROVE  Kept /\ (Lost \/ \E c \in Clients : Came(c))
<1>1. CASE Handle
  BY <1>1, HandleKeeps
<1>2. CASE Sync
  BY <1>2, SyncKeeps DEF Kept, Lost
<1>3. CASE Lock \/ UNCHANGED vars
  BY <1>3, LockKeeps DEF Kept, Lost
<1>4. ASSUME NEW c \in Clients, Minimize(c) PROVE Kept /\ Lost
  BY <1>4, MinimizeKeeps DEF Kept, Lost, CalmInv
<1>5. ASSUME NEW c \in Clients, AppMap(c) \/ Ask(c) PROVE Kept /\ Lost
  BY <1>5, AppAsksKeeps DEF Kept, Lost
<1>6. ASSUME NEW c \in Clients, AppWithdraw(c) \/ AppDestroy(c) PROVE Kept /\ Lost
  BY <1>6, AppGoesKeeps DEF Kept, Lost
<1> QED BY <1>1, <1>2, <1>3, <1>4, <1>5, <1>6 DEF Next

\* The stack makes a step of WindowStack, or the links and names stay.
LEMMA NamedNext ==
  ASSUME FInv, Stack!Named, [Next]_vars
  PROVE  Stack!Named'
<1>1. Stack!Distinct /\ Stack!IInv
  BY FocusAssumption DEF Stack!Distinct, FInv
<1>2. ASSUME links' = links, xfor' = xfor PROVE Stack!Named'
  BY <1>2, FocusAssumption, Stack!SameNames
<1>3. ASSUME NEW c \in Clients, NEW x \in TransientTargets[c], Policy!Map(c, x, 0)
      PROVE  Stack!Named'
  <2>1. Stack!Map(c, x, 0)
    BY <1>3, MapIs
  <2> QED BY <1>1, <2>1, FocusAssumption, Stack!MapNames
<1>4. ASSUME NEW c \in Clients, Policy!Withdraw(c) \/ Policy!Destroy(c) PROVE Stack!Named'
  <2>1. Stack!Withdraw(c) \/ Stack!Destroy(c)
    BY <1>4, WithdrawIs, DestroyIs
  <2> QED BY <1>1, <2>1, FocusAssumption, Stack!GoneNames
<1>5. ASSUME Ignored PROVE Stack!Named'
  BY <1>2, <1>5 DEF Ignored, stacking
<1>6. ASSUME NEW c, Activated(c) PROVE Stack!Named'
  <2>1. Stack!Activated(c, order)
    BY <1>6, ActivatedIs DEF Activated
  <2> QED BY <1>2, <2>1, FocusAssumption DEF Stack!Activated
<1>7. CASE Handle
  <2>1. PICK c \in Clients : \/ HandleMapRequest(c)
                             \/ HandleActivate(c)
                             \/ HandleUnmap(c)
                             \/ HandleDestroy(c)
                             \/ HandleFullscreen(c)
    BY <1>7 DEF Handle
  <2>2. CASE HandleMapRequest(c)
    <3>1. Activated(c) \/ Ignored \/ \E x \in TransientTargets[c] : Policy!Map(c, x, 0)
      BY <2>2 DEF HandleMapRequest
    <3> QED BY <1>3, <1>5, <1>6, <3>1
  <2>3. CASE HandleActivate(c)
    BY <1>5, <1>6, <2>3 DEF HandleActivate
  <2>4. CASE HandleUnmap(c)
    <3>1. Policy!Withdraw(c) \/ Ignored
      BY <2>4 DEF HandleUnmap
    <3> QED BY <1>4, <1>5, <3>1
  <2>5. CASE HandleDestroy(c)
    <3>1. Policy!Destroy(c) \/ Ignored
      BY <2>5 DEF HandleDestroy
    <3> QED BY <1>4, <1>5, <3>1
  <2>6. CASE HandleFullscreen(c)
    BY <1>2, <1>5, <2>6 DEF HandleFullscreen
  <2> QED BY <2>1, <2>2, <2>3, <2>4, <2>5, <2>6
<1>8. CASE Sync
  <2>1. links' = links /\ xfor' = xfor
    BY <1>8, SyncStack
  <2> QED BY <1>2, <2>1
<1>9. CASE Lock \/ UNCHANGED vars
  <2>1. UNCHANGED stacking
    BY <1>9, LockKeeps
  <2> QED BY <1>2, <2>1 DEF stacking
<1>10. ASSUME NEW c \in Clients, AppMap(c) \/ Ask(c) PROVE Stack!Named'
  <2>1. UNCHANGED stacking
    BY <1>10, AppAsksKeeps
  <2> QED BY <1>2, <2>1 DEF stacking
<1>11. ASSUME NEW c \in Clients, AppWithdraw(c) \/ AppDestroy(c) PROVE Stack!Named'
  <2>1. UNCHANGED stacking
    BY <1>11, AppGoesKeeps
  <2> QED BY <1>2, <2>1 DEF stacking
<1>12. ASSUME NEW c, Minimize(c) PROVE Stack!Named'
  BY <1>2, <1>12 DEF Minimize, stacking
<1> QED BY <1>7, <1>8, <1>9, <1>10, <1>11, <1>12 DEF Next

-----------------------------------------------------------------------------
(* Whether someone has the focus.                                            *)

\* A window that does not want keys is transient for nobody, unless it is an animation
\* actor; those do not want keys.
Seeking ==
  /\ Typing \cap Actors = {}
  /\ \A c \in Clients \ (Typing \cup Actors) : TransientTargets[c] \cap Clients = {}

\* As long as the root did not have to take the focus, nobody having it and nobody about
\* to get it means that there is nobody to take it.
Taken == calm /\ Nobody(Now) => Managed \cap Typing \subseteq Applets

LEMMA TakenNext ==
  ASSUME FInv, Stack!Named, Seeking, Taken, [Next]_vars
  PROVE  Taken'
<1>1. FInv' /\ (calm' => calm) /\ (Lost \/ \E c \in Clients : Came(c))
  BY NextKeeps DEF Kept
<1>2. Stack!Named'
  BY NamedNext
<1>3. Nobody(Now)' = Nobody(Now')
  BY DEF Nobody
<1>4. CASE Lost
  BY <1>1, <1>3, <1>4 DEF Lost, Taken
<1>5. ASSUME NEW c \in Clients, Came(c), calm', Nobody(Now')
      PROVE  Managed' \cap Typing \subseteq Applets
  <2>1. Nobody(Now) /\ Managed' = Managed \cup {c}
    BY <1>5 DEF Came
  <2>2. ASSUME NEW k \in Heirs(Managed', links') PROVE k \in Typing
    <3>1. k \in Managed' /\ k \notin Actors /\ links'.parent[k] # NULL
      BY <2>2 DEF Heirs
    <3>2. k \in Clients
      BY <1>1, <3>1, StandingNext DEF FInv, Standing
    <3>3. links'.parent[k] \in TransientTargets[k] \cap Clients
      BY <1>2, <3>1, <3>2, FocusAssumption DEF Stack!Named, Stack!Naming
    <3> QED BY <3>1, <3>2, <3>3 DEF Seeking
  <2>3. c \in Actors \cup Applets \/ c \notin Typing
    BY <1>5, <2>2 DEF Came
  <2> QED BY <1>1, <1>5, <2>1, <2>3 DEF Taken, Seeking
<1> QED BY <1>1, <1>3, <1>4, <1>5 DEF Taken

-----------------------------------------------------------------------------
(* The invariant holds.                                                      *)

IInv == /\ FInv
        /\ Stack!Named
        /\ Prompt => CalmInv
        /\ Seeking => Taken

LEMMA InitHolds == Init => IInv
<1> SUFFICES ASSUME Init PROVE IInv
  OBVIOUS
<1>1. Stack!Init
  BY InitIs DEF Init
<1>2. Stack!IInv /\ Stack!Named
  BY <1>1, FocusAssumption, Stack!InitHolds, Stack!InitNames
<1>3. order = << >> /\ dirty = FALSE
  BY <1>1, FocusAssumption DEF Stack!Init
<1>4. Managed = {}
  BY <1>3 DEF Managed, ToSet
<1>5. /\ Now.fresh = {} /\ Now.hidden = {} /\ Now.stale = {}
      /\ Now.focus.client = NULL /\ Now.focus.last = NULL /\ ~Now.focus.later
      /\ Now \in Records({}, xfor)
  BY DEF Init, Now, Records, Foci
<1>6. FInv
  BY <1>2, <1>3, <1>4, <1>5 DEF FInv, Sound, Init
<1>7. CalmInv
  BY <1>4, <1>5 DEF CalmInv, Good, Settled
<1>8. Taken
  BY <1>4 DEF Taken
<1> QED BY <1>2, <1>6, <1>7, <1>8 DEF IInv

LEMMA StepHolds == IInv /\ [Next]_vars => IInv'
<1> SUFFICES ASSUME IInv, [Next]_vars PROVE IInv'
  OBVIOUS
<1>1. FInv /\ Stack!Named /\ (Prompt => CalmInv) /\ (Seeking => Taken)
  BY DEF IInv
<1>2. FInv' /\ (Prompt /\ CalmInv => CalmInv')
  BY <1>1, NextKeeps DEF Kept
<1>3. Stack!Named'
  BY <1>1, NamedNext
<1>4. Seeking => Taken'
  BY <1>1, TakenNext
<1>5. Prompt' = Prompt /\ Seeking' = Seeking
  BY DEF Prompt, Seeking
<1> QED BY <1>1, <1>2, <1>3, <1>4, <1>5 DEF IInv

\* The inductive invariant holds in every reachable state, from whichever loop the window
\* manager syncs.
THEOREM InvHolds == Spec => []IInv
BY InitHolds, StepHolds, PTL DEF Spec

-----------------------------------------------------------------------------
(* What it gives.                                                            *)

FocusedManaged == focus.client # NULL => focus.client \in Managed

\* wm->focused_client is NULL or a managed client: no handler, and no focus that is put
\* off to the next sync, leaves it pointing to a client that was freed.
THEOREM FocusedIsManaged == Spec => []FocusedManaged
<1>1. IInv => FocusedManaged
  BY DEF IInv, FInv, Sound, Records, Foci, Now, FocusedManaged
<1> QED BY <1>1, InvHolds, PTL

\* The client that has the focus has the keyboard whenever the window manager has caught
\* up, if it syncs after every event.
THEOREM FocusedHasInput ==
  ASSUME SyncsAtOnce, Typing \cap Actors = {}
  PROVE  Spec => []FocusedHasInputIfCalm
<1>1. IInv => FocusedHasInputIfCalm
  <2> SUFFICES ASSUME IInv, Idle, calm, focus.client # NULL PROVE input = focus.client
    BY DEF FocusedHasInputIfCalm
  <2>1. Prompt
    BY DEF Prompt
  <2>2. Good(Now, Managed, Goers(queue)) /\ Settled(Now)
    BY <2>1 DEF IInv, CalmInv
  <2>3. focus.client \in Managed
    BY DEF IInv, FInv, Sound, Records, Foci, Now
  <2>4. Goers(queue) = {}
    BY DEF Idle, Goers, Comes
  <2> QED BY <2>2, <2>3, <2>4 DEF Good, Settled, Now
<1> QED BY <1>1, InvHolds, PTL

\* When the window manager has caught up and the stack has a client that takes the focus,
\* one has it, whichever loop it runs in.
THEOREM SomeoneStaysFocused == ASSUME Seeking PROVE Spec => []SomeoneIsFocused
<1>1. IInv => SomeoneIsFocused
  <2> SUFFICES ASSUME IInv PROVE SomeoneIsFocused
    OBVIOUS
  <2>1. FInv /\ Taken
    BY DEF IInv
  <2>2. focus.client # NULL => focus.client \in Managed
    BY <2>1 DEF FInv, Sound, Records, Foci, Now
  <2>3. ASSUME Idle, calm, FocusPlace(Now, order, NULL) # 0, focus.client = NULL PROVE FALSE
    <3>1. Nobody(Now)
      BY <2>1, <2>3 DEF FInv, Sound, Idle, Pending, Nobody, Now
    <3>2. Standing(Managed, order, links)
      BY <2>1, NowIs
    <3> DEFINE c == order[FocusPlace(Now, order, NULL)]
    <3>3. c \in Managed /\ Takes(Now, c)
      BY <2>3, <3>2, FocusPlaceIs
    <3> HIDE DEF c
    <3> QED BY <2>1, <2>3, <3>1, <3>3 DEF Taken, Takes
  <2> QED BY <2>2, <2>3 DEF SomeoneIsFocused
<1> QED BY <1>1, InvHolds, PTL
=============================================================================
