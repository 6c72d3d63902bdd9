---------------------------- MODULE WindowStack ----------------------------
(***************************************************************************)
(* The stacking policy of libmatchbox2: which place the window manager     *)
(* gives a client in the order that core/mb-wm-stack.c keeps (StackList    *)
(* shows that list to be the order used here).  It is spread over the      *)
(* transiency links of core/mb-wm-client.c, the stack and stacking_layer   *)
(* methods of client-types/, the managing and activating of clients in     *)
(* core/mb-window-manager.c and mb_wm_stack_ensure, which mb_wm_sync runs  *)
(* once for all the changes made since the last sync.                      *)
(*                                                                         *)
(* A client object lives as long as it is managed; desktops other than the *)
(* first are the subject of ClientLifecycle.                               *)
(***************************************************************************)
EXTENDS StackOps, SequencesExt

CONSTANTS
  None,             \* WM_TRANSIENT_FOR is not set
  Gone,             \* WM_TRANSIENT_FOR names a window that was destroyed
  Overlapping,      \* panels whose layout hints have LayoutPrefOverlaps
  LiveBackgrounds,  \* clients whose window is a live background
  TransientTargets, \* the WM_TRANSIENT_FOR values each client may set
  HildonLayers      \* the _HILDON_STACKING_LAYER values each client may set, 0
                    \* for none

VARIABLES
  order,    \* the stack of StackOrder
  clients,  \* wm->clients, oldest first
  links,    \* transient_for and transients of every client
  xfor,     \* window->xwin_transient_for; the client itself stands for the
            \* client's own window or the root
  hildon,   \* window->hildon_stacking_layer
  layer,    \* client->stacking_layer
  showing,  \* wm->flags has MBWindowManagerFlagDesktop
  desktop,  \* wm->desktop
  dirty     \* wm->sync_type has MBWMSyncStacking

vars == <<order, clients, links, xfor, hildon, layer, showing, desktop,
          dirty>>

-----------------------------------------------------------------------------
(* MBWMStackLayerType *)
Unknown     == 0
Bottom      == 1
BottomMid   == 2
Mid         == 3
TopMid      == 4
Top         == 5
LayerCount  == 16

\* The layer of a client whose window asks for Hildon layer h, d if h is 0.
HildonOr(h, d) == IF h = 0 THEN d ELSE Top + h

FollowedTypes == {"App", "Desktop"}

\* A panel or input method that goes directly above the top application
\* whenever it is stacked, instead of to the top of the stack.
Follows(c) ==
  \/ ClientType[c] = "Input"
  \/ ClientType[c] = "Panel" /\ c \in Overlapping

\* What op makes of s, for each of cs in turn.
Through(op(_, _), s, cs) ==
  LET after[i \in 0..Len(cs)] == IF i = 0 THEN s ELSE op(after[i - 1], cs[i])
  IN  after[Len(cs)]

-----------------------------------------------------------------------------
(* Transiency links: l.parent is transient_for, l.kids the list transients. *)

Unlinked == [parent |-> [c \in Clients |-> NULL],
             kids   |-> [c \in Clients |-> << >>]]

RemoveTransient(l, p, t) ==
  [parent |-> [l.parent EXCEPT ![t] = NULL],
   kids   |-> [l.kids EXCEPT ![p] = Without(@, t)]]

Detransitise(l, t) ==
  IF l.parent[t] = NULL THEN l ELSE RemoveTransient(l, l.parent[t], t)

\* Mutant: the old parent keeps the client in its list.
AddTransient_KeepsOldParent(l, p, t) ==
  IF p = NULL THEN l
  ELSE [parent |-> [l.parent EXCEPT ![t] = p],
        kids   |-> [l.kids EXCEPT ![p] = Append(@, t)]]

AddTransient(l, p, t) ==
  IF p = NULL THEN l
  ELSE [parent |-> [l.parent EXCEPT ![t] = p],
        kids   |-> [Detransitise(l, t).kids EXCEPT ![p] = Append(@, t)]]

\* The children of p lose their parent (remove_all_transients, base_destroy).
Orphan(l, p) ==
  [parent |-> [c \in Clients |-> IF l.parent[c] = p THEN NULL ELSE l.parent[c]],
   kids   |-> [l.kids EXCEPT ![p] = << >>]]

\* The first client of the transient chain of c.
Root(l, c) ==
  LET up[d \in Clients] == IF l.parent[d] = NULL THEN d ELSE up[l.parent[d]]
  IN  up[c]

\* c, then what f has for each of cs in turn.
Headed(c, f, cs) == Through(LAMBDA s, d : s \o f[d], <<c>>, cs)

\* c and the clients transient for it, each before its own transients.
Family(l, c) ==
  LET down[d \in Clients] == Headed(d, down, l.kids[d])
  IN  down[c]

-----------------------------------------------------------------------------
(* The stack methods. *)

\* Mutant: only the client itself is moved.
RaisedFamily_Alone(s, l, c) == Raised(s, c)

\* mb_wm_client_move_to_top_recursive
RaisedFamily(s, l, c) == Through(Raised, s, Family(l, c))

\* Mutant: inputs sit on the top application, wherever the desktop is.
StackedAlone_IgnoresDesktop(s, l, c) ==
  IF Follows(c) THEN MovedAboveType(s, c, {"App"})
  ELSE RaisedFamily(s, l, Root(l, c))

\* mb_wm_client_stack on a client that is not an override window.
StackedAlone(s, l, c) ==
  CASE c \in LiveBackgrounds -> Lowered(s, c)
    [] c \notin LiveBackgrounds /\ Follows(c) ->
         MovedAboveType(s, c, FollowedTypes)
    [] c \notin LiveBackgrounds /\ ClientType[c] = "Panel" /\ ~Follows(c) ->
         Raised(s, c)
    [] OTHER -> RaisedFamily(s, l, Root(l, c))

\* The clients an override window's stack method touches, in its order: itself,
\* then each transient, with its own transients if it is an override window.
OverrideCalls(l, c) ==
  LET calls[d \in Clients] ==
        Headed(d, calls, IF ClientType[d] = "Override" /\ d \notin LiveBackgrounds
                         THEN l.kids[d] ELSE << >>)
  IN  calls[c]

\* mb_wm_client_stack
ClientStack(s, l, c) ==
  Through(LAMBDA r, d : IF ClientType[d] = "Override" /\ d \notin LiveBackgrounds
                        THEN Raised(r, d)
                        ELSE StackedAlone(r, l, d),
          s, OverrideCalls(l, c))

-----------------------------------------------------------------------------
(* mb_wm_stack_ensure *)

\* mb_wm_client_is_system_modal
SystemModal(c) == ClientType[c] = "Dialog" /\ xfor[c] \in {None, c}

\* mb_wm_client_get_stacking_layer
StackingLayer(c) ==
  CASE c \in LiveBackgrounds -> Unknown
    [] c \notin LiveBackgrounds /\ ClientType[c] = "Desktop" ->
         IF showing THEN Mid ELSE Bottom
    [] c \notin LiveBackgrounds /\ ClientType[c] = "Panel" /\ showing -> TopMid
    [] c \notin LiveBackgrounds /\ ClientType[c] = "Dialog" ->
         IF SystemModal(c) \/ links.parent[c] = NULL
         THEN HildonOr(hildon[c], TopMid) ELSE Unknown
    [] OTHER -> layer[c]

\* The client the loop looks at after c: the next above that is no transient.
NextValid(s, c) ==
  LET above == {i \in 1..Len(s) : i > Position(s, c) /\ links.parent[s[i]] = NULL}
  IN  IF above = {} THEN NULL ELSE s[CHOOSE i \in above : \A j \in above : i <= j]

\* Mutant: the next client is looked up after the client has moved.
Round_NextAfterMove(w, k) ==
  IF w.client \in {w.seen, NULL} THEN w
  ELSE LET c    == w.client
           hit  == StackingLayer(c) = k /\ links.parent[c] = NULL
           moved == IF hit THEN ClientStack(w.order, links, c) ELSE w.order
       IN  [order  |-> moved,
            client |-> NextValid(moved, c),
            seen   |-> IF hit /\ w.seen = NULL THEN c ELSE w.seen]

\* One round of the inner while loop for layer k.
Round(w, k) ==
  IF w.client \in {w.seen, NULL} THEN w
  ELSE LET c    == w.client
           hit  == StackingLayer(c) = k /\ links.parent[c] = NULL
       IN  [order  |-> IF hit THEN ClientStack(w.order, links, c) ELSE w.order,
            client |-> NextValid(w.order, c),
            seen   |-> IF hit /\ w.seen = NULL THEN c ELSE w.seen]

\* The inner loop, cut after as many rounds as there are places in the stack
\* and one more to see that it has ended.
LayerLoop(s, k) ==
  Through(LAMBDA w, i : Round(w, k),
          [order |-> s, client |-> s[1], seen |-> NULL],
          [i \in 1..(Len(s) + 1) |-> i])

\* A layer without a client of its own leaves the stack alone.
LayerPushed(s, k) ==
  IF \A i \in 1..Len(s) : StackingLayer(s[i]) # k THEN s ELSE LayerLoop(s, k).order

Ensured(s) ==
  IF s = << >> THEN s
  ELSE Through(LayerPushed, s, [k \in 1..(LayerCount - 1) |-> k])

-----------------------------------------------------------------------------
(* Creating and managing a client. *)

Managed == Stacked(order)

\* The parent the init methods link a new client to: the managed client that
\* the window names, for the types that look it up.
ParentOnMap(c, x) ==
  IF ClientType[c] \in {"Dialog", "Override", "Input"} /\ x \in Managed
  THEN x ELSE NULL

\* client->stacking_layer as the init methods leave it.
InitialLayer(c, x, h) ==
  CASE ClientType[c] = "App"      -> HildonOr(h, Mid)
    [] ClientType[c] = "Menu"     -> HildonOr(h, Top)
    [] ClientType[c] = "Override" ->
         IF x \in {None, c} THEN HildonOr(h, Top) ELSE Unknown
    [] ClientType[c] = "Input"    -> IF x \in {None, c} THEN TopMid ELSE Unknown
    [] ClientType[c] = "Panel"    -> IF Follows(c) THEN TopMid ELSE BottomMid
    [] ClientType[c] = "Desktop"  -> Bottom
    [] ClientType[c] = "Dialog"   -> HildonOr(h, Unknown)

AdoptableTypes == {"App", "Dialog", "Menu", "Override", "Input"}

\* The clients that are transient for a new application.
Adopts(c, k) ==
  ClientType[c] = "App" /\ xfor[k] = c /\ ClientType[k] \in AdoptableTypes

LinksOnMap(c, x) ==
  Through(LAMBDA l, k : IF Adopts(c, k) THEN AddTransient(l, c, k) ELSE l,
          AddTransient(links, ParentOnMap(c, x), c), clients)

\* A window asks to be mapped (mb_wm_handle_map_request), or an override
\* window was mapped (mb_wm_handle_map_notify), and no client owns it.
Map(c, x, h) ==
  /\ c \notin Managed
  /\ ClientType[c] = "Desktop" => desktop = NULL
  /\ clients' = Append(clients, c)
  /\ links' = LinksOnMap(c, x)
  /\ order' = ClientStack(PutAbove(order, Len(order), c), LinksOnMap(c, x), c)
  /\ xfor' = [xfor EXCEPT ![c] = x]
  /\ hildon' = [hildon EXCEPT ![c] = h]
  /\ layer' = [k \in Clients |->
                 IF k = c \/ (k \in Managed /\ Adopts(c, k))
                 THEN InitialLayer(c, x, h) ELSE layer[k]]
  /\ desktop' = IF ClientType[c] = "Desktop" THEN c ELSE desktop
  /\ dirty' = TRUE
  /\ UNCHANGED showing

\* mb_wm_unmanage_client with destroy, after which nothing holds the client;
\* l are the links at the call.
Unmanage(c, l) ==
  /\ clients' = Without(clients, c)
  /\ order' = Without(order, c)
  /\ links' = Orphan(Detransitise(l, c), c)
  /\ hildon' = [hildon EXCEPT ![c] = 0]
  /\ layer' = [layer EXCEPT ![c] = Unknown]
  /\ desktop' = IF desktop = c THEN NULL ELSE desktop
  /\ dirty' = TRUE
  /\ UNCHANGED showing

\* A mapped window is unmapped: its client goes, and mb_wm_handle_unmap_notify
\* makes the windows of its transients transient for nothing.  The policy never
\* looks at whether a window is mapped, so the model does not keep it.
Withdraw(c) ==
  /\ c \in Managed
  /\ xfor' = [k \in Clients |->
                IF k = c \/ k \in ToSet(links.kids[c]) THEN None ELSE xfor[k]]
  /\ Unmanage(c, Orphan(links, c))

\* A window that was never mapped is destroyed, so that no UnmapNotify precedes
\* the DestroyNotify: what named the window now names a window that is gone.
Destroy(c) ==
  /\ c \in Managed
  /\ xfor' = [k \in Clients |->
                IF k = c THEN None ELSE IF xfor[k] = c THEN Gone ELSE xfor[k]]
  /\ Unmanage(c, links)

-----------------------------------------------------------------------------
(* Property changes. *)

\* _HILDON_STACKING_LAYER changes; going back to 0 leaves the layer alone.
SetHildon(c, h) ==
  /\ c \in Managed
  /\ hildon[c] # h
  /\ hildon' = [hildon EXCEPT ![c] = h]
  /\ layer' = [layer EXCEPT ![c] = HildonOr(h, @)]
  /\ dirty' = TRUE
  /\ UNCHANGED <<order, clients, links, xfor, showing, desktop>>

\* WM_TRANSIENT_FOR changes: only the window object takes note.
SetTransientFor(c, x) ==
  /\ c \in Managed
  /\ x # None
  /\ xfor[c] # x
  /\ xfor' = [xfor EXCEPT ![c] = x]
  /\ UNCHANGED <<order, clients, links, hildon, layer, showing, desktop,
                 dirty>>

-----------------------------------------------------------------------------
(* Activation. *)

\* Whether activating c leaves the desktop showing.
ShowsDesktop(c) ==
  \/ ClientType[c] = "Desktop"
  \/ showing /\ links.parent[c] = NULL /\ ClientType[c] \in {"Dialog", "Menu"}

\* Mutant: no sync is queued.
Activated_Clean(c, s) ==
  /\ ClientType[c] # "Override"
  /\ showing' = ShowsDesktop(c)
  /\ order' = ClientStack(s, links, c)
  /\ UNCHANGED <<clients, links, xfor, hildon, layer, desktop, dirty>>

\* mb_wm_activate_client on c, with the stack s: override windows are only
\* shown.
Activated(c, s) ==
  /\ IF ClientType[c] = "Override"
     THEN /\ order' = s
          /\ UNCHANGED <<showing, dirty>>
     ELSE /\ showing' = ShowsDesktop(c)
          /\ order' = ClientStack(s, links, c)
          /\ dirty' = TRUE
  /\ UNCHANGED <<clients, links, xfor, hildon, layer, desktop>>

\* A pager, a map request of a managed window or the compositor activates c.
Activate(c) ==
  /\ c \in Managed
  /\ Activated(c, order)

\* mb_wm_handle_show_desktop with show False.
LeaveDesktop ==
  /\ desktop # NULL
  /\ HighestOf(order, {"App"}) # NULL
  /\ Activated(HighestOf(order, {"App"}), order)

\* mb_wm_toggle_desktop
ToggleDesktop ==
  \/ /\ ~showing
     /\ desktop # NULL
     /\ Activated(desktop, order)
  \/ /\ showing
     /\ LeaveDesktop

\* Mutant: in either direction, the application below the top one is taken.
Cycle_Reverse(reverse) ==
  LET top == SecondOf(order, {"App"})
  IN  /\ ~showing
      /\ top # NULL
      /\ Activated(top, CycledReverse(order, {"App"}))

\* mb_wm_cycle_apps: the cycled application is activated unless it was on top.
Cycle(reverse) ==
  LET cycled == IF reverse THEN CycledReverse(order, {"App"})
                ELSE CycledForward(order, {"App"})
      top    == IF reverse THEN SecondOf(order, {"App"})
                ELSE LowestOf(order, {"App"})
  IN  /\ ~showing
      /\ top \notin {NULL, HighestOf(order, {"App"})}
      /\ Activated(top, cycled)

CycleApps ==
  \/ showing /\ LeaveDesktop
  \/ \E reverse \in BOOLEAN : Cycle(reverse)

-----------------------------------------------------------------------------
\* mb_wm_sync, which the main loop calls when something was queued, with the
\* flag MBWMSyncStacking; the other flags leave the stack alone.
Sync ==
  /\ dirty
  /\ order' = Ensured(order)
  /\ dirty' = FALSE
  /\ UNCHANGED <<clients, links, xfor, hildon, layer, showing, desktop>>

Init ==
  /\ order = << >>
  /\ clients = << >>
  /\ links = Unlinked
  /\ xfor = [c \in Clients |-> None]
  /\ hildon = [c \in Clients |-> 0]
  /\ layer = [c \in Clients |-> Unknown]
  /\ showing = FALSE
  /\ desktop = NULL
  /\ dirty = FALSE

Next ==
  \/ \E c \in Clients :
       \/ \E x \in TransientTargets[c], h \in HildonLayers[c] : Map(c, x, h)
       \/ Withdraw(c)
       \/ Destroy(c)
       \/ \E h \in HildonLayers[c] : SetHildon(c, h)
       \/ \E x \in TransientTargets[c] : SetTransientFor(c, x)
       \/ Activate(c)
  \/ ToggleDesktop
  \/ CycleApps
  \/ Sync

Spec == Init /\ [][Next]_vars

-----------------------------------------------------------------------------
(* Properties. *)

TypeOK ==
  /\ IsOrder(order)
  /\ IsOrder(clients)
  /\ links.parent \in [Clients -> Clients \cup {NULL}]
  /\ links.kids \in [Clients -> Seq(Clients)]
  /\ xfor \in [Clients -> Clients \cup {None, Gone}]
  /\ \A c \in Clients : hildon[c] \in HildonLayers[c] \cup {0}
  /\ layer \in [Clients -> 0..(LayerCount - 1)]
  /\ showing \in BOOLEAN
  /\ desktop \in Clients \cup {NULL}
  /\ dirty \in BOOLEAN

\* The two ends of every transiency link agree, both ends are managed, no
\* client waits for itself up its chain, and the clients list holds the clients
\* of the stack: what every walk over transients, every destroy and every
\* window list sent to X relies on.
LinksAgree ==
  /\ Stacked(clients) = Managed
  /\ \A p \in Clients :
       /\ IsOrder(links.kids[p])
       /\ ToSet(links.kids[p]) = {c \in Clients : links.parent[c] = p}
  /\ \A c \in Clients : links.parent[c] # NULL => {c, links.parent[c]} \subseteq Managed
  /\ \A cs \in SUBSET Managed :
       cs # {} => \E c \in cs : links.parent[c] \notin cs

\* Clients whose own layer decides their place.
Layered(c) == links.parent[c] = NULL /\ ~Follows(c) /\ StackingLayer(c) # Unknown

\* When no stacking sync is queued, no client lies below one of a lower layer:
\* every change of a layer, of a link or of the desktop mode queues the sync
\* that puts it into effect, and mb_wm_stack_ensure achieves it ("bottom -> top
\* on layer types").
SettledByLayer ==
  ~dirty => \A i, j \in 1..Len(order) :
              /\ i < j
              /\ Layered(order[i])
              /\ Layered(order[j])
              => StackingLayer(order[i]) <= StackingLayer(order[j])

\* Stacking such a client moves it without its transients, and not to where its
\* own chain is.
MovesAlone(c) == ClientType[c] = "Panel" \/ Follows(c) \/ c \in LiveBackgrounds

\* No transient lies below its parent, whatever is raised, mapped or withdrawn
\* in between, unless one of the two moves alone ("the whole stackable window
\* stack is raised when one of the windows is raised").
TransientsAboveParents ==
  \A c \in Managed :
    LET p == links.parent[c]
    IN  p # NULL /\ ~MovesAlone(c) /\ ~MovesAlone(p)
        => Position(order, p) < Position(order, c)

\* The in-place walks of mb_wm_stack_ensure end, each within one round for every
\* place of the stack, although they move the clients they walk over.
EnsureEnds ==
  \A k \in {StackingLayer(order[i]) : i \in 1..Len(order)} \cap (1..(LayerCount - 1)) :
    LET w == LayerLoop(order, k) IN w.client \in {w.seen, NULL}

\* A sync keeps the order of the clients of a layer: what was activated last
\* stays on top of its layer.
Synced == dirty /\ ~dirty'

KeepsLayerOrder ==
  Synced => \A c, d \in Managed :
              /\ Layered(c) /\ Layered(d)
              /\ StackingLayer(c) = StackingLayer(d)
              /\ Position(order, c) < Position(order, d)
              => Position(order', c) < Position(order', d)

\* A sync leaves nothing for the next one to do: ensuring the stack once more
\* moves no window.
Settles == Synced => Ensured(order') = order'

\* When no stacking sync is queued, inputs and overlapping panels of the layer
\* of dialogs lie above every application of a lower layer and the desktop.
FollowersAboveApps ==
  ~dirty => \A i, j \in 1..Len(order) :
              /\ Follows(order[i])
              /\ links.parent[order[i]] = NULL
              /\ StackingLayer(order[i]) = TopMid
              /\ ClientType[order[j]] \in FollowedTypes
              /\ StackingLayer(order[j]) < TopMid
              => j < i

\* A live background lies below every window that is not one, even after it was
\* activated or cycled to.
LiveBackgroundsLowest ==
  \A i, j \in 1..Len(order) :
    order[i] \notin LiveBackgrounds /\ order[j] \in LiveBackgrounds => j < i

=============================================================================
