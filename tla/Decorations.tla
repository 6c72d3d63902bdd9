---------------------------- MODULE Decorations ----------------------------
(***************************************************************************)
(* The title bars of the windows and the button on each                    *)
(* (core/mb-wm-decor.c): their objects and reference counts                *)
(* (core/mb-wm-object.c), the handlers of the pointer's events, which wait *)
(* in loops of their own for the release of the pointer and run the main   *)
(* loop meanwhile, and what the main loop may do to them then: clients go, *)
(* and a change of the theme makes every client's decors anew.             *)
(*                                                                         *)
(* A client has one decor, the northern one, with one button.  The pointer *)
(* is a touch screen: a single button, pressed or not; its events go to    *)
(* the decor it was pressed on.  The X events reach the main loop one per  *)
(* iteration (GTK's or Clutter's event source).  The pictures are left     *)
(* out: painting has no effect here.                                       *)
(***************************************************************************)
EXTENDS Integers, Sequences, FiniteSets, SequencesExt, Functions

CONSTANTS
  Clients,
  Movable,        \* dialogs: their layout hints hold LayoutPrefMovable
  PressActivated, \* clients whose button the theme may make act on the press
  Minimizing,     \* clients whose button minimizes; the others' closes
  Spins,          \* how often a drag spins the main loop at most
  MaxThemes,      \* bound: changes of the theme
  MaxDepth,       \* bound: nobody presses when as many frames are open
  MaxQueue        \* bound: nobody adds to a queue of this length

ASSUME DecorationsAssumption ==
  /\ IsFiniteSet(Clients)
  /\ Movable \subseteq Clients
  /\ PressActivated \subseteq Clients
  /\ Minimizing \subseteq Clients
  /\ Spins \in Nat \ {0} /\ MaxThemes \in Nat /\ MaxDepth \in Nat \ {0} /\ MaxQueue \in Nat \ {0}

VARIABLES
  client,  \* the clients
  decor,   \* the decors made so far, in the order they were made
  release, \* the handlers installed for the release of the pointer
  themed,  \* the clients connected to the signal of the theme's change
  frames,  \* what the program is in the middle of, innermost last
  held,    \* the decor the pointer is pressed on, 0 for none
  queue,   \* the X events not handled
  themes,  \* changes of the theme so far
  misused  \* the kind of handler that used a freed decor, "none" so far

vars == <<client, decor, release, themed, frames, held, queue, themes, misused>>

None == 0

-----------------------------------------------------------------------------
(* Objects: a state s = [client, decor, release, themed] is passed through
   the functions that count references. *)

State == [client |-> client, decor |-> decor, release |-> release, themed |-> themed]

Becomes(s) ==
  /\ client' = s.client
  /\ decor' = s.decor
  /\ release' = s.release
  /\ themed' = s.themed

\* refs is the reference count, 0 once the object is freed; releaseId is
\* release_cb_id; pressed: the state of the button is Pressed; realized: the
\* decor has a window, and its handlers for presses are installed.
NewDecor(c) ==
  [client |-> c, refs |-> 1, realized |-> FALSE, releaseId |-> None, pressed |-> FALSE]

\* mb_wm_theme_create_decor, with mb_wm_decor_attach and construct_buttons.
WithDecor(s, c) ==
  [s EXCEPT !.decor = Append(@, NewDecor(c)), !.client[c].decor = Len(s.decor) + 1]

\* mb_wm_object_unref of a decor: mb_wm_decor_destroy takes its handlers away
\* and clears it.
DecorUnref(s, d) ==
  IF s.decor[d].refs > 1 THEN [s EXCEPT !.decor[d].refs = @ - 1]
  ELSE [s EXCEPT !.decor[d] = [NewDecor(s.decor[d].client) EXCEPT !.refs = 0],
                 !.release = {h \in @ : h.id # s.decor[d].releaseId}]

\* mb_wm_object_signal_disconnect of the callback of a client.
Disconnected(b, c) ==
  IF \E i \in DOMAIN b : b[i] = c THEN RemoveAt(b, CHOOSE i \in DOMAIN b : b[i] = c)
  ELSE b

\* mb_wm_object_unref of a client, with mb_wm_client_destroy, which is
\* disconnected from the window manager and drops its decors.
ClientUnref(s, c) ==
  IF s.client[c].refs > 1 THEN [s EXCEPT !.client[c].refs = @ - 1]
  ELSE LET d == s.client[c].decor
           t == [s EXCEPT !.client[c].refs = 0, !.client[c].decor = None,
                          !.themed = Disconnected(@, c)]
       IN  IF d = None THEN t ELSE DecorUnref(t, d)

\* mb_wm_client_app_theme_change, and that of dialogs.
ThemeChange(s, c) == WithDecor(DecorUnref(s, s.client[c].decor), c)

\* mb_wm_object_signal_emit: the callbacks in order.
Emitted(s) ==
  LET after[i \in 0..Len(s.themed)] ==
        IF i = 0 THEN s ELSE ThemeChange(after[i - 1], s.themed[i])
  IN  after[Len(s.themed)]

Alive(d) == d # None => decor[d].refs > 0

-----------------------------------------------------------------------------
(* The main loop. *)

Top == Last(frames)
Depth == Len(frames)

\* The frames, with the innermost as f, or without it.
Goes(f) == frames' = [frames EXCEPT ![Depth] = f]
Ends == frames' = Front(frames)

\* After the use of a freed decor anything may happen.
Defined == misused = "none"

\* The main loop runs: at the bottom, or because a handler spins it.
Running == Defined /\ (frames # << >> => Top.at = "spin")

\* The handlers in the order of their installation; that of a button looks
\* whether the press is on it, that of drags is there if the client is movable.
HandlersOf(e) ==
  CASE e.type = "Press" ->
         (IF e.on = "button" THEN <<[kind |-> "button", decor |-> e.target, id |-> None]>>
          ELSE << >>)
         \o (IF decor[e.target].client \in Movable
             THEN <<[kind |-> "drag", decor |-> e.target, id |-> None]>> ELSE << >>)
    [] e.type = "Release" ->
         SetToSeq({[kind |-> "release", decor |-> h.decor, id |-> h.id] : h \in release})
    [] OTHER -> << >>

\* A loop looks around again when the event is handled, a drag only after the
\* last of its spins.
Spun ==
  IF frames = << >> THEN << >>
  ELSE [frames EXCEPT ![Depth] =
          IF Top.spins > 1 /\ Len(queue) > 1 THEN [Top EXCEPT !.spins = @ - 1]
          ELSE [Top EXCEPT !.spins = 1, !.at = "look"]]

\* One iteration of the main loop: the next event.
Dispatch ==
  /\ Running
  /\ queue # << >>
  /\ LET e == Head(queue)
     IN  /\ frames' = Append(Spun,
               [kind |-> "dispatch", at |-> "call", decor |-> None, client |-> None,
                todo |-> HandlersOf(e), spins |-> 0])
         /\ CASE e.type = "Unmap" /\ client[e.target].managed ->
                   Becomes(ClientUnref([State EXCEPT !.client[e.target].managed = FALSE],
                                       e.target))
              [] e.type = "Theme" -> Becomes(Emitted(State))
              [] OTHER -> UNCHANGED <<client, decor, release, themed>>
  /\ queue' = Tail(queue)
  /\ UNCHANGED <<held, themes, misused>>

\* Nothing to do: a loop looks around again.
Idle ==
  /\ Defined
  /\ frames # << >> /\ Top.at = "spin"
  /\ queue = << >>
  /\ Goes([Top EXCEPT !.at = "look"])
  /\ UNCHANGED <<client, decor, release, themed, held, queue, themes, misused>>

\* The event is handled; mb_wm_sync realizes the decors that have no window.
Dispatched ==
  /\ Defined
  /\ frames # << >> /\ Top.kind = "dispatch"
  /\ Top.todo = << >>
  /\ Ends
  /\ decor' = [d \in DOMAIN decor |->
       IF decor[d].refs > 0 /\ client[decor[d].client].managed
       THEN [decor[d] EXCEPT !.realized = TRUE] ELSE decor[d]]
  /\ UNCHANGED <<client, release, themed, held, queue, themes, misused>>

-----------------------------------------------------------------------------
(* The handlers. *)

Calling == Defined /\ frames # << >> /\ Top.kind = "dispatch" /\ Top.todo # << >>
Handler == Head(Top.todo)
Called == [Top EXCEPT !.todo = Tail(@)]

\* A handler removed in the meantime is not called.
Installed(h) ==
  IF h.kind = "release" THEN [id |-> h.id, decor |-> h.decor] \in release
  ELSE decor[h.decor].realized

FreshId == CHOOSE i \in 1..(Cardinality(release) + 1) : \A h \in release : h.id # i

Loop(kind, d) ==
  [kind |-> kind, at |-> "look", decor |-> d, client |-> decor[d].client,
   todo |-> << >>, spins |-> 1]

\* The pointer is grabbed, and its release is listened to in the main loop too.
Grabbed(s, d) ==
  [s EXCEPT !.decor[d].releaseId = FreshId,
            !.release = @ \cup {[id |-> FreshId, decor |-> d]}]

\* What the button does, mb_wm_decor_button_stock_button_action: it unmaps the
\* window, or asks the application to.
Act(c, q) ==
  IF c \in Minimizing /\ ~Contains(q, [type |-> "Unmap", target |-> c, on |-> "window"])
  THEN Append(q, [type |-> "Unmap", target |-> c, on |-> "window"]) ELSE q

CallNothing ==
  /\ Calling
  /\ ~Installed(Handler)
  /\ Goes(Called)
  /\ UNCHANGED <<client, decor, release, themed, held, queue, themes, misused>>

\* Mutant: the loop does not take a reference to the client.
PressButton_NoRef ==
  /\ Calling /\ Installed(Handler)
  /\ Handler.kind = "button"
  /\ LET d == Handler.decor
         c == decor[d].client
         s == [State EXCEPT !.decor[d].pressed = TRUE]
     IN  IF client[c].onPress
         THEN Becomes(s) /\ Goes(Called) /\ queue' = Act(c, queue)
         ELSE /\ Becomes(Grabbed(s, d))
              /\ frames' = Append([frames EXCEPT ![Depth] = Called], Loop("button", d))
              /\ UNCHANGED queue
  /\ UNCHANGED <<held, themes, misused>>

\* mb_wm_decor_button_press_handler up to its loop.
PressButton ==
  /\ Calling /\ Installed(Handler)
  /\ Handler.kind = "button"
  /\ LET d == Handler.decor
         c == decor[d].client
         s == [State EXCEPT !.decor[d].pressed = TRUE]
     IN  IF client[c].onPress
         THEN Becomes(s) /\ Goes(Called) /\ queue' = Act(c, queue)
         ELSE /\ Becomes([Grabbed(s, d) EXCEPT !.client[c].refs = @ + 1])
              /\ frames' = Append([frames EXCEPT ![Depth] = Called], Loop("button", d))
              /\ UNCHANGED queue
  /\ UNCHANGED <<held, themes, misused>>

\* mb_wm_decor_press_handler up to its loop.
PressTitle ==
  /\ Calling /\ Installed(Handler)
  /\ Handler.kind = "drag"
  /\ Becomes(Grabbed(State, Handler.decor))
  /\ frames' = Append([frames EXCEPT ![Depth] = Called], Loop("drag", Handler.decor))
  /\ UNCHANGED <<held, queue, themes, misused>>

\* Mutant: the handler stays installed.
Unlistened_Stays(s, d) == [s EXCEPT !.decor[d].releaseId = None]

\* The handler for the release the decor knows of is removed.
Unlistened(s, d) ==
  [s EXCEPT !.release = {h \in @ : h.id # s.decor[d].releaseId},
            !.decor[d].releaseId = None]

\* Mutant: the decor still takes the pointer to be grabbed.
ReleaseElsewhere_KeepsId ==
  /\ Calling /\ Installed(Handler)
  /\ Handler.kind = "release"
  /\ release' = {h \in release : h.id # decor[Handler.decor].releaseId}
  /\ Goes(Called)
  /\ UNCHANGED <<client, decor, themed, held, queue, themes, misused>>

\* mb_wm_decor_release_handler
ReleaseElsewhere ==
  /\ Calling /\ Installed(Handler)
  /\ Handler.kind = "release"
  /\ Becomes(Unlistened(State, Handler.decor))
  /\ Goes(Called)
  /\ UNCHANGED <<held, queue, themes, misused>>

-----------------------------------------------------------------------------
(* The loops. *)

Looking(kind) == Defined /\ frames # << >> /\ Top.kind = kind /\ Top.at = "look"

PointerEvents == {i \in DOMAIN queue : queue[i].type \in {"Press", "Motion", "Release"}}
NextPointer == CHOOSE i \in PointerEvents : \A j \in PointerEvents : i <= j

\* A loop reads its decor when it is freed: all that can be said.
Misuse(kind) ==
  /\ Looking(kind)
  /\ ~Alive(Top.decor)
  /\ misused' = kind
  /\ UNCHANGED <<client, decor, release, themed, frames, held, queue, themes>>

\* The button's loop is over; it gives its reference to the client back.
LeaveButton(s) == Becomes(ClientUnref([s EXCEPT !.decor[Top.decor].pressed = FALSE], Top.client)) /\ Ends

\* The release was handled by the main loop: the button does not act.
ButtonReleasedElsewhere ==
  /\ Looking("button") /\ Alive(Top.decor)
  /\ decor[Top.decor].releaseId = None
  /\ LeaveButton(State)
  /\ UNCHANGED <<held, queue, themes, misused>>

\* XCheckMaskEvent takes the first event of the pointer out of the queue,
\* whatever stands before it.
ButtonLoop ==
  /\ Looking("button") /\ Alive(Top.decor)
  /\ decor[Top.decor].releaseId # None
  /\ PointerEvents # {}
  /\ LET e == queue[NextPointer]
         rest == RemoveAt(queue, NextPointer)
     IN  CASE e.type = "Release" ->
                /\ LeaveButton(Unlistened(State, Top.decor))
                /\ queue' = IF e.on = "button" THEN Act(Top.client, rest) ELSE rest
           [] OTHER ->
                /\ decor' = [decor EXCEPT ![Top.decor].pressed =
                                IF e.type = "Motion" THEN e.on = "button" ELSE @]
                /\ queue' = rest
                /\ UNCHANGED <<client, release, themed, frames>>
  /\ UNCHANGED <<held, themes, misused>>

\* There is none: the loop spins the main loop.
ButtonSpins ==
  /\ Looking("button") /\ Alive(Top.decor)
  /\ decor[Top.decor].releaseId # None
  /\ PointerEvents = {}
  /\ Goes([Top EXCEPT !.at = "spin"])
  /\ UNCHANGED <<client, decor, release, themed, held, queue, themes, misused>>

DragReleasedElsewhere ==
  /\ Looking("drag") /\ Alive(Top.decor)
  /\ decor[Top.decor].releaseId = None
  /\ Ends
  /\ UNCHANGED <<client, decor, release, themed, held, queue, themes, misused>>

\* XMaskEvent waits for an event of the pointer.  A motion moves the client and
\* spins the main loop.
DragLoop ==
  /\ Looking("drag") /\ Alive(Top.decor)
  /\ decor[Top.decor].releaseId # None
  /\ PointerEvents # {}
  /\ LET e == queue[NextPointer]
     IN  CASE e.type = "Release" -> Becomes(Unlistened(State, Top.decor)) /\ Ends
           [] e.type = "Motion" ->
                /\ Goes([Top EXCEPT !.at = "spin", !.spins = Spins])
                /\ UNCHANGED <<client, decor, release, themed>>
           [] OTHER -> UNCHANGED <<client, decor, release, themed, frames>>
  /\ queue' = RemoveAt(queue, NextPointer)
  /\ UNCHANGED <<held, themes, misused>>

-----------------------------------------------------------------------------
(* The user and the applications. *)

Room == Defined /\ Len(queue) < MaxQueue
Posted(type, target, on) ==
  queue' = Append(queue, [type |-> type, target |-> target, on |-> on])

Press(c, on) ==
  /\ held = None /\ Room /\ Depth < MaxDepth
  /\ client[c].managed
  /\ client[c].decor # None
  /\ decor[client[c].decor].realized
  /\ held' = client[c].decor
  /\ Posted("Press", held', on)
  /\ UNCHANGED <<client, decor, release, themed, frames, themes, misused>>

Move(on) ==
  /\ held # None /\ Room
  /\ Posted("Motion", held, on)
  /\ UNCHANGED <<client, decor, release, themed, frames, held, themes, misused>>

LetGo(on) ==
  /\ held # None /\ Room
  /\ held' = None
  /\ Posted("Release", held, on)
  /\ UNCHANGED <<client, decor, release, themed, frames, themes, misused>>

Withdraw(c) ==
  /\ Room
  /\ client[c].managed
  /\ ~Contains(queue, [type |-> "Unmap", target |-> c, on |-> "window"])
  /\ Posted("Unmap", c, "window")
  /\ UNCHANGED <<client, decor, release, themed, frames, held, themes, misused>>

\* _MB_THEME is set on the root window.
SetTheme ==
  /\ Room
  /\ themes < MaxThemes
  /\ themes' = themes + 1
  /\ Posted("Theme", None, "root")
  /\ UNCHANGED <<client, decor, release, themed, frames, held, misused>>

-----------------------------------------------------------------------------
Init ==
  /\ LET order == SetToSeq(Clients)
     IN  /\ \E quick \in SUBSET PressActivated : client = [c \in Clients |->
              [refs |-> 1, managed |-> TRUE, onPress |-> c \in quick,
               decor |-> CHOOSE d \in DOMAIN order : order[d] = c]]
         /\ decor = [d \in DOMAIN order |-> [NewDecor(order[d]) EXCEPT !.realized = TRUE]]
         /\ themed = order
  /\ release = {}
  /\ frames = << >>
  /\ held = None
  /\ queue = << >>
  /\ themes = 0
  /\ misused = "none"

Program ==
  \/ Dispatch \/ Idle \/ Dispatched
  \/ CallNothing \/ PressButton \/ PressTitle \/ ReleaseElsewhere
  \/ Misuse("button") \/ Misuse("drag")
  \/ ButtonReleasedElsewhere \/ ButtonLoop \/ ButtonSpins
  \/ DragReleasedElsewhere \/ DragLoop

Release == \E on \in {"button", "title"} : LetGo(on)

Environment ==
  \/ \E on \in {"button", "title"} : Move(on) \/ \E c \in Clients : Press(c, on)
  \/ \E c \in Clients : Withdraw(c)
  \/ Release \/ SetTheme

Next == Program \/ Environment

\* The program goes on, and the user lets go of the screen; the bound on the
\* queue may keep the release waiting now and then.
Fairness == WF_vars(Program) /\ SF_vars(Release)

Spec == Init /\ [][Next]_vars
FairSpec == Spec /\ Fairness

-----------------------------------------------------------------------------
(* Properties. *)

Loops(kind) == {i \in DOMAIN frames : frames[i].kind = kind}

\* While a button waits for the release, only a change of the theme can free
\* its decor: when its window goes, the reference to the client keeps it.
ButtonsKeepDecors ==
  /\ misused = "button" => themes > 0
  /\ \A i \in Loops("button") :
       Alive(frames[i].decor) \/ client[frames[i].client].decor # frames[i].decor

\* "reference the client for the loop, since it could be unreffed while we are
\* handling events there" (mb_wm_decor_button_press_handler): the loop of a
\* drag does not use a decor that is freed either.
DragsKeepDecors == misused # "drag"

\* The handlers for releases, the buttons drawn as pressed and the references
\* to clients are those of the loops that run, in whatever way loops end.
LoopsCleanUp ==
  Defined =>
    /\ \A h \in release : /\ Alive(h.decor)
                          /\ decor[h.decor].releaseId = h.id
                          /\ \E i \in Loops("button") \cup Loops("drag") : frames[i].decor = h.decor
    /\ \A d \in DOMAIN decor :
         decor[d].pressed => \/ \E i \in Loops("button") : frames[i].decor = d
                             \/ client[decor[d].client].onPress
    /\ \A c \in Clients :
         client[c].refs = Cardinality({i \in Loops("button") : frames[i].client = c})
                          + (IF client[c].managed THEN 1 ELSE 0)

\* The loop of a button comes to an end once the user lets go of it.
ButtonLoopsEnd == Loops("button") # {} ~> Loops("button") = {} \/ ~Defined
=============================================================================
