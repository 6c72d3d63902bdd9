------------------------------- MODULE Focus -------------------------------
(***************************************************************************)
(* Which client has the keyboard: wm->focused_client, the input focus of   *)
(* the X server, the deferral to the next sync and the rules of modality   *)
(* (core/mb-window-manager.c), over the stack that WindowStack keeps.      *)
(*                                                                         *)
(* The X server carries requests out in order and reports late: a window   *)
(* may be unmapped or gone when the focus is given to it, and the handler  *)
(* of the event takes the focus on.  The unmaps that reparenting causes    *)
(* are owed and skipped (ClientLifecycle) and left out.  The compositor    *)
(* activates every client it registers.                                    *)
(***************************************************************************)
EXTENDS Integers, Sequences, FiniteSets, SequencesExt, TLC

CONSTANTS
  Clients, NULL, ClientType, None, Gone, Overlapping, LiveBackgrounds,
  TransientTargets, HildonLayers,   \* see WindowStack
  RootWindow,   \* the root window as the input focus
  PointerRoot,  \* the input focus after the focused window went
  Typing,       \* the windows that want key input
  Modal,        \* the windows with _NET_WM_STATE_MODAL
  Covering,     \* the windows that cover the screen
  Applets,      \* the windows of type HOME_APPLET
  Actors,       \* the windows of type ANIMATION_ACTOR
  SystemModality, \* wm->modality_type is MBWMModalitySystem
  Minimizing,   \* the clients the user minimizes
  Lockable,     \* the touch screen may be locked
  SyncsAtOnce,  \* the main loop syncs after every event: it runs as a filter of
                \* Clutter or Gdk; the other loops sync after a batch
  Fullscreening, \* the clients that ask to change to or from fullscreen
  Withdrawing,  \* bound: the windows that are withdrawn
  Dying,        \* bound: the windows that are destroyed
  Pagers,       \* bound: the windows whose activation is asked for
  MaxQueue      \* bound: nothing goes when the queue has this length

ASSUME FocusAssumption ==
  /\ {NULL, None, Gone, RootWindow, PointerRoot} \cap Clients = {}
  /\ Typing \cup Modal \cup Covering \cup Applets \cup Actors \subseteq Clients
  /\ Minimizing \cup Fullscreening \subseteq Clients
  /\ \A c \in Clients : ClientType[c] # "Override"
  /\ \A c \in Clients : Cardinality(TransientTargets[c]) = 1
  /\ MaxQueue \in Nat

VARIABLES
  order, clients, links, xfor, hildon, layer, showing, desktop, dirty, \* WindowStack
  fresh,    \* the managed clients that are not realized
  hidden,   \* the managed clients with the state HIDDEN; the others are shown
  stale,    \* the managed clients that need a visibility sync
  reframe,  \* the managed clients that need a fullscreen sync
  focus,    \* [client: focused_client, later: focus_after_stacking, last: last_focused]
  locked,   \* hd_dbus_tklock_on
  exists,   \* X server: the windows that exist
  viewable, \* X server: the windows that are viewable
  input,    \* X server: the input focus
  queue,    \* the events and messages not handled yet
  calm      \* nothing was minimized and the root never took the focus so far

stacking == <<order, clients, links, xfor, hildon, layer, showing, desktop, dirty>>
server   == <<exists, viewable, input>>
vars     == <<stacking, fresh, hidden, stale, reframe, focus, locked, server, queue, calm>>

Policy == INSTANCE WindowStack

Managed == ToSet(order)

-----------------------------------------------------------------------------
(* The steps of a handler work on a record s of what they change.           *)

Now == [fresh |-> fresh, hidden |-> hidden, stale |-> stale, focus |-> focus,
        viewable |-> viewable, input |-> input, xfor |-> xfor]

\* The server refuses the focus to a window that is not viewable (BadMatch).
SetInput(s, c) == IF c \in s.viewable THEN [s EXCEPT !.input = c] ELSE s

Unviewable(s, cs) ==
  [s EXCEPT !.viewable = @ \ cs, !.input = IF @ \in cs THEN PointerRoot ELSE @]

\* Mutant: the test for animation actors is the wrong way round.
LastTransient_Actors(ord, l, c) ==
  LET Top(d) == {i \in 1..Len(ord) : l.parent[ord[i]] = d /\ ord[i] \in Actors}
  IN  IF Top(c) = {} THEN NULL ELSE ord[CHOOSE i \in Top(c) : \A j \in Top(c) : j <= i]

\* Of the clients in transient chains above c the one that a walk from the top
\* of the stack finds, level by level, NULL if c has none.
LastTransient(ord, l, c) ==
  LET Top(d) == {i \in 1..Len(ord) : l.parent[ord[i]] = d /\ ord[i] \notin Actors}
      highest[d \in Clients] ==
        IF Top(d) = {} THEN d
        ELSE highest[ord[CHOOSE i \in Top(d) : \A j \in Top(d) : j <= i]]
  IN  IF Top(c) = {} THEN NULL ELSE highest[c]

\* mb_wm_client_focus on a client that wants the focus.
ClientFocus(s, c) ==
  IF c = s.focus.last \/ c \in Actors THEN s
  ELSE [SetInput(s, c) EXCEPT !.focus.last = c]

\* The client mb_wm_focus_client turns to in the place of c.
FocusTarget(ord, l, c) ==
  LET t == LastTransient(ord, l, c) IN IF t # NULL /\ t \in Modal THEN t ELSE c

\* mb_wm_client_is_system_modal
SystemModal(s, c) == ClientType[c] = "Dialog" /\ s.xfor[c] \in {None, c}

\* Mutant: system-modal dialogs are like any other client.
Refuses_NoSystemModal(s, l, c) ==
  LET f == s.focus.client
  IN  \/ f = c
      \/ c \notin Typing
      \/ f # NULL /\ f \in Modal /\ l.parent[f] = c

\* The refusals of mb_wm_focus_client.
Refuses(s, l, c) ==
  LET f == s.focus.client
  IN  \/ f = c
      \/ c \notin Typing
      \/ f # NULL /\ f \in Modal /\ l.parent[f] = c
      \/ /\ SystemModality
         /\ f # NULL /\ SystemModal(s, f)
         /\ ~SystemModal(s, c)
         /\ l.parent[c] # f

\* A client is realized and shown before the sync.
Realized(s, c) ==
  [s EXCEPT !.fresh = @ \ {c}, !.stale = @ \ {c}, !.focus.later = TRUE,
            !.viewable = IF c \in exists /\ c \notin s.hidden THEN @ \cup {c} ELSE @]

\* Mutant: an unrealized client is realized, and the focus forgotten.
FocusClient_NotLater(s, ord, l, x) ==
  LET c == FocusTarget(ord, l, x)
  IN  IF Refuses(s, l, c) THEN s
      ELSE IF c \in s.fresh THEN [Realized(s, c) EXCEPT !.focus.later = FALSE]
      ELSE [ClientFocus(s, c) EXCEPT !.focus.client = c]

\* mb_wm_focus_client
FocusClient(s, ord, l, x) ==
  LET c == FocusTarget(ord, l, x)
  IN  IF Refuses(s, l, c) THEN s
      ELSE IF c \in s.fresh THEN Realized(s, c)
      ELSE [ClientFocus(s, c) EXCEPT !.focus.client = c]

\* The clients that take the focus as the stack has it.
Takes(s, c) == c \in Typing /\ c \notin s.hidden /\ c \notin Applets

\* The topmost place of ord whose client takes the focus, 0 if that is below a
\* client that covers the screen.
FocusPlace(s, ord, except) ==
  LET takers == {i \in 1..Len(ord) : ord[i] # except /\ Takes(s, ord[i])}
      first  == CHOOSE i \in takers : \A j \in takers : j <= i
  IN  IF \/ takers = {}
         \/ \E j \in 1..Len(ord) : j > first /\ ord[j] \in Covering
      THEN 0 ELSE first

FocusRoot(s) == [s EXCEPT !.input = RootWindow]

\* mb_wm_focus_client_as_stacked
AsStacked(s, ord, l, except) ==
  LET none == [s EXCEPT !.focus.client = NULL]
      p    == FocusPlace(s, ord, except)
      r    == FocusClient(none, ord, l, ord[p])
  IN  IF locked \/ p = 0 THEN FocusRoot(none)
      ELSE IF r.focus.client # NULL \/ r.focus.later THEN r ELSE FocusRoot(r)

\* mb_wm_unfocus_client
Unfocused(s, ord, l, c) == IF s.focus.client = c THEN AsStacked(s, ord, l, c) ELSE s

\* mb_wm_client_show
Shown(s, c) == [s EXCEPT !.hidden = @ \ {c}, !.stale = @ \cup {c}]

\* What mb_wm_activate_client_real does to the focus.
ActivateFocus(s, ord, l, c) ==
  LET t == LastTransient(ord, l, c)
      r == Shown(s, c)
  IN  IF c \in Actors \cup Applets THEN r
      ELSE FocusClient(r, ord, l, IF t # NULL THEN t ELSE c)

\* The records of the window manager and of the server become s.
Becomes(s) ==
  /\ fresh' = s.fresh
  /\ hidden' = s.hidden
  /\ stale' = s.stale
  /\ focus' = s.focus
  /\ viewable' = s.viewable
  /\ input' = s.input
  /\ calm' = (calm /\ s.input # RootWindow /\ s.hidden = {})

Forgotten(s, c) ==
  [s EXCEPT !.fresh = @ \ {c}, !.hidden = @ \ {c}, !.stale = @ \ {c}, !.xfor = xfor']

-----------------------------------------------------------------------------
(* The handlers. *)

\* wm->sync_type is not 0.
Pending == dirty \/ stale # {}

Event(type, c) == [type |-> type, window |-> c]

Handling(type, c) ==
  /\ SyncsAtOnce => ~Pending
  /\ queue # << >>
  /\ Head(queue) = Event(type, c)
  /\ queue' = Tail(queue)
  /\ UNCHANGED <<exists, locked>>

\* mb_wm_activate_client
Activated(c) ==
  /\ Policy!Activated(c, order)
  /\ Becomes(ActivateFocus(Now, order, links, c))
  /\ UNCHANGED reframe

Ignored ==
  UNCHANGED <<stacking, fresh, hidden, stale, reframe, focus, viewable, input, calm>>

\* mb_wm_handle_map_request; a window that is gone yields no client.
HandleMapRequest(c) ==
  /\ Handling("MapRequest", c)
  /\ IF c \in Managed THEN Activated(c)
     ELSE IF c \notin exists THEN Ignored
     ELSE /\ \E x \in TransientTargets[c] : Policy!Map(c, x, 0)
          /\ Becomes(ActivateFocus([Now EXCEPT !.fresh = @ \cup {c}, !.xfor = xfor'],
                                   order', links', c))
          /\ UNCHANGED reframe

\* _NET_ACTIVE_WINDOW, in mb_wm_root_window_handle_message.
HandleActivate(c) ==
  /\ Handling("Activate", c)
  /\ IF c \in Managed THEN Activated(c) ELSE Ignored

\* A client with window c is unmanaged and freed.
Dropped(c) ==
  /\ Becomes(Unfocused(Forgotten(Now, c), order', links', c))
  /\ reframe' = reframe \ {c}

\* mb_wm_handle_unmap_notify for an unmap that is not owed.
HandleUnmap(c) ==
  /\ Handling("Unmap", c)
  /\ IF c \in Managed \ hidden
     THEN /\ Policy!Withdraw(c)
          /\ Dropped(c)
     ELSE Ignored

\* mb_wm_handle_destroy_notify
HandleDestroy(c) ==
  /\ Handling("Destroy", c)
  /\ IF c \in Managed
     THEN /\ Policy!Destroy(c)
          /\ Dropped(c)
     ELSE Ignored

\* _NET_WM_STATE with _NET_WM_STATE_FULLSCREEN.
HandleFullscreen(c) ==
  /\ Handling("Fullscreen", c)
  /\ IF c \in Managed
     THEN /\ reframe' = reframe \cup {c}
          /\ dirty' = TRUE
          /\ UNCHANGED <<order, clients, links, xfor, hildon, layer, showing, desktop,
                         fresh, hidden, stale, focus, viewable, input, calm>>
     ELSE Ignored

\* Requests are made one at a time; what was asked for may go before it is handled.
Quiet == queue = << >> /\ (SyncsAtOnce => ~Pending)

\* The user minimizes a client with the button of its decor.  What happens to one
\* that is destroyed then is a matter of ClientLifecycle.
Minimize(c) ==
  /\ c \in (Minimizing \cap Managed \cap exists) \ (hidden \cup fresh)
  /\ Quiet
  /\ LET s == [Now EXCEPT !.hidden = @ \cup {c}, !.stale = @ \cup {c}]
     IN  Becomes(Unfocused(s, order, links, c))
  /\ UNCHANGED <<stacking, reframe, locked, exists, queue>>

\* hildon-desktop locks or unlocks the touch screen.
Lock ==
  /\ Lockable
  /\ Quiet
  /\ locked' = ~locked
  /\ UNCHANGED <<stacking, fresh, hidden, stale, reframe, focus, server, queue, calm>>

-----------------------------------------------------------------------------
(* mb_wm_sync, which the main loop calls when something is to be synced.    *)

\* Mutant: a reparented client does not get the focus back.
Reframed_Unfocused(s) ==
  LET cs == reframe \ s.hidden
  IN  [Unviewable(s, cs) EXCEPT !.viewable = @ \cup (cs \cap exists)]

\* Reparenting unmaps a window for a moment; the focus is set again.
Reframed(s) ==
  LET cs == reframe \ s.hidden
      r  == [Unviewable(s, cs) EXCEPT !.viewable = @ \cup (cs \cap exists)]
  IN  IF s.focus.client \in reframe THEN SetInput(r, s.focus.client) ELSE r

\* The clients that need it are mapped or unmapped.
Redrawn(s) ==
  [Unviewable(s, s.stale \cap s.hidden)
     EXCEPT !.viewable = @ \cup ((s.stale \ s.hidden) \cap exists), !.stale = {}]

\* The focus that was put off.
Refocused(s) ==
  IF s.focus.later
  THEN AsStacked([s EXCEPT !.focus.later = FALSE], order', links', NULL)
  ELSE s

Sync ==
  /\ Pending
  /\ IF dirty THEN Policy!Sync ELSE UNCHANGED stacking
  /\ Becomes(Refocused(Redrawn(Reframed([Now EXCEPT !.fresh = {}]))))
  /\ reframe' = {}
  /\ queue' = queue \o SetToSeq({Event("Unmap", c) : c \in stale \cap hidden \cap viewable})
  /\ UNCHANGED <<locked, exists>>

-----------------------------------------------------------------------------
(* The applications. *)

\* MapRequest: the server leaves the mapping to the window manager.
AppMap(c) ==
  /\ Quiet
  /\ c \in exists \ viewable
  /\ queue' = Append(queue, Event("MapRequest", c))
  /\ UNCHANGED <<stacking, fresh, hidden, stale, reframe, focus, locked, server, calm>>

AppGoes(c, events) ==
  /\ Len(queue) < MaxQueue
  /\ Becomes(Unviewable(Now, {c}))
  /\ queue' = queue \o events
  /\ UNCHANGED <<stacking, reframe, locked>>

AppWithdraw(c) ==
  /\ c \in Withdrawing \cap viewable
  /\ AppGoes(c, <<Event("Unmap", c)>>)
  /\ UNCHANGED exists

AppDestroy(c) ==
  /\ c \in (Dying \cap exists) \ hidden
  /\ AppGoes(c, IF c \in viewable THEN <<Event("Unmap", c), Event("Destroy", c)>>
                ELSE <<Event("Destroy", c)>>)
  /\ exists' = exists \ {c}

Ask(c) ==
  /\ Quiet
  /\ c \in viewable
  /\ \/ /\ c \in Pagers
        /\ queue' = Append(queue, Event("Activate", c))
     \/ /\ c \in Fullscreening
        /\ queue' = Append(queue, Event("Fullscreen", c))
  /\ UNCHANGED <<stacking, fresh, hidden, stale, reframe, focus, locked, server, calm>>

-----------------------------------------------------------------------------
Handle ==
  \E c \in Clients :
    \/ HandleMapRequest(c)
    \/ HandleActivate(c)
    \/ HandleUnmap(c)
    \/ HandleDestroy(c)
    \/ HandleFullscreen(c)

Init ==
  /\ Policy!Init
  /\ fresh = {}
  /\ hidden = {}
  /\ stale = {}
  /\ reframe = {}
  /\ focus = [client |-> NULL, later |-> FALSE, last |-> NULL]
  /\ locked = FALSE
  /\ exists = Clients
  /\ viewable = {}
  /\ input = PointerRoot
  /\ queue = << >>
  /\ calm = TRUE

Next ==
  \/ Handle
  \/ Sync
  \/ Lock
  \/ \E c \in Clients :
       \/ Minimize(c)
       \/ AppMap(c)
       \/ AppWithdraw(c)
       \/ AppDestroy(c)
       \/ Ask(c)

Spec == Init /\ [][Next]_vars

-----------------------------------------------------------------------------
(* Properties. *)

Idle == queue = << >> /\ ~Pending

\* As long as nothing was minimized and the root did not have to take the focus,
\* the window of the focused client has the keyboard whenever the window manager
\* has caught up, whatever withdrew, was mapped again or reparented in between.
FocusedHasInputIfCalm ==
  Idle /\ calm /\ focus.client # NULL => input = focus.client

\* focused_client is never a client that was freed, and whenever the window
\* manager has caught up and the stack has a client that takes the focus, one
\* has it.
SomeoneIsFocused ==
  /\ focus.client # NULL => focus.client \in Managed
  /\ Idle /\ calm /\ FocusPlace(Now, order, NULL) # 0 => focus.client # NULL

\* A system-modal dialog that has the focus loses it only to another one or to
\* its own transients, unless it goes ("It isn't system-modal but the current
\* focus-holder is").
SystemModalKeepsFocus ==
  [][LET c == focus.client
         d == focus'.client
     IN  /\ SystemModality /\ c # NULL /\ SystemModal(Now, c)
         /\ c \in ToSet(order') \ hidden'
         /\ d \notin {c, NULL}
         => SystemModal([xfor |-> xfor'], d) \/ links'.parent[d] = c]_vars

\* A client with a modal dialog on the screen does not have the focus.
ModalBeforeParent ==
  Idle => \A d \in Modal \cap Typing \cap Managed :
            d \notin hidden /\ links.parent[d] # NULL => focus.client # links.parent[d]

=============================================================================
