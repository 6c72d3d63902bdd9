# TLA+ models of libmatchbox2

libmatchbox2 is the library Maemo's window manager is built on.  It decides
which windows have clients, in which order they are stacked, when they are
mapped and who has the focus, in one process that reacts to X events.  There is
one thread; what makes the code hard is that the X server and the applications
act between two events, that the window manager's own requests come back to it
as events, and that most changes are only noted down and put into effect by a
later `mb_wm_sync`.

All paths below are under `src/matchbox/` unless they begin with `ChangeLog`.

## Inventory

| Component | State | Operations | Hard behaviour | What makes it correct |
|---|---|---|---|---|
| Stacking list (`core/mb-wm-stack.c`, `.h`) | `stacked_above`, `stacked_below` of each client; `stack_top`, `stack_bottom`, `stack_n_clients` | append, prepend, remove, move above a client or a type, cycle, search by type, enumerate | two link fields, two ends and a count are updated separately | one stacking order at all times, changed by each operation as its name says |
| Stacking policy (`core/mb-wm-stack.c`, `mb-wm-client.c`, `mb-wm-client-base.c`, `client-types/`) | layers, transiency links, desktop mode, "stacking sync queued" | manage, unmanage, adopt, activate, cycle, toggle the desktop, change a layer, `mb_wm_stack_ensure` | the list is rearranged while it is walked; links appear in any order; effects wait for a sync | links agree; transients above parents; a synced stack in the order of its layers |
| Client life cycle (`core/mb-window-manager.c`, `mb-wm-client-base.c`) | client list and stack membership, `priv`, `ewmh_state`, `skip_unmaps`, `skip_maps` | map request, map, unmap and destroy notify, realize, fullscreen, iconify, desktops | events arrive late; reparenting makes events that must be told from an application's | no freed client reachable; every count consumed; shown windows are seen |
| Focus and modality (`mb-window-manager.c`, `mb-wm-client-base.c`) | `focused_client`, `focus_after_stacking`, `last_focused`, last focused transients; the X input focus | focus, unfocus, focus as stacked, activate | postponed to a sync; the server reverts the focus when a window is unmapped; modal clients come and go | the focused client is managed and has the keyboard; somebody has the focus; nothing takes it from a system-modal dialog |
| Main context (`core/mb-wm-main-context.c`) | handler lists, their flags, nesting count | add, remove, dispatch, sweep | handlers change the lists that are walked and nest events | a removed handler is never called, one that is due always; no walk meets a freed one |
| Ping and shutdown (`mb-wm-client.c`, `mb-window-manager.c`) | `ping_cb_id`, timeouts of the main loop | delete, start, stop, reply, unmap, hang, shutdown | timer against reply against destruction; `client_hang` may run a main loop | no timer outlives its client; an application that answered is not taken for hung; every ping ends |
| Layout (`core/mb-wm-layout.c`, `client-types/`, `mb-wm-client-base.c`) | window and frame geometry, hints, queued geometry syncs; what the X server has | map, configure request, fullscreen, hide, show, screen change, sync | each pass takes what the one before left; a request is answered by a later sync | reserved areas disjoint, applications fill the rest, a layout is a fixed point, every request answered once |
| Object model (`core/mb-wm-object.c`) | class arrays, reference counts, callbacks | register, new, ref, unref, connect, disconnect, emit | disconnect or last unref inside an emission | every live handler called, no freed one |
| Error traps, lists (`core/mb-wm-util.c`) | sections of request serials | trap, untrap, error | errors arrive late; traps nest | an error is blamed on the section that made the request |
| Asynchronous requests (`core/xas.c`, `mb-wm-props.c`) | pending tasks by serial | request, reply, error, wait | replies out of the order of the waits | every cookie gets its own reply or error |
| Client window properties (`core/mb-wm-client-window.c`) | copies of a window's properties | one batched read; changes | the window dies, or a property changes, during the batch | the copy is that of the window once nothing is under way |
| Root window (`core/mb-wm-root-window.c`) | supported atoms | client messages | none of its own | handlers are in the models of what they call |
| Keys (`core/mb-wm-keys.c`) | bindings and grabs | add, remove, press | one grab for each set of lock modifiers; a grab fails late | every grabbed key has a binding it is for |
| Compositor (`comp-mgr/`) | compositor clients: texture, damage object, flags | register, unregister, map notify, configure, damage, tracking on and off | windows get new pixmaps unannounced; damage is reported once | no damage forgotten, textures of the present pixmaps, lifetime that of the client |
| Decorations (`core/mb-wm-decor.c`) | decors, buttons, release handlers, references | press, move, release, drag, theme change | nested event loops, in which client and decor may go | a loop uses no freed decor, gives back what it took, and ends |
| Themes (`theme-engines/`) | parsed theme | layout hints, decors, paint | none of its own | what clients ask of it is in the models of clients; parsing and drawing are left out |

The components call each other directly.  Events go from the main context to
the handlers of `mb-window-manager.c`; these change clients and queue a sync;
`mb_wm_sync` realizes clients, lets them sync, ensures the stack and sends it to
the X server.  GLib or Clutter event filters call `mb_wm_sync` after each event
(`mb-window-manager.c:205-251`), the idle handler that is used without either
after all pending ones (`mb-wm-main-context.c:104-118`): `StackList`, `WindowStack`
and `ClientLifecycle` let any number of events come before a sync, `Focus` and
`LayoutManager` have the constant `SyncsAtOnce`, and `XConnection` and
`Compositing` sync after each event.  `configure.ac:93` always selects GLib's
main loop, so that the loop, timeouts and watches the library would bring itself
(`mb-wm-main-context.c`, under `! USE_GLIB_MAINLOOP`) are not part of the program.

## Modules

One module has one component; those that compose others are marked with an arrow.

| Module | Component | Built on |
|---|---|---|
| `StackOps`, `StackOrder`, `StackList`, `StackListProofs` | stacking list | `StackList` implements `StackOrder` |
| `WindowStack`, `WindowStackProofs` | stacking policy, transiency | -> `StackOps` |
| `ClientLifecycle` (proofs in `CompositingProofs`) | client life cycle | |
| `Focus`, `FocusProofs` | focus and modality | -> `WindowStack` |
| `HandlerRegistry`, `EventDispatch`, `EventDispatchProofs` | main context | `EventDispatch` implements `HandlerRegistry` |
| `Pings`, `PingsProofs` | ping and shutdown | |
| `Geometry`, `Layout`, `LayoutManager`, `LayoutManagerProofs` | layout | each on the one before |
| `XErrorTraps`, `XasTasks`, `WindowProperties`, `KeyBindings` | error traps, asynchronous requests, client window properties, keys | |
| `XConnection` | those four at one X connection | -> all four |
| `Decorations`, `DecorationsProofs` | decorations, object references | |
| `Compositing`, `CompositingProofs` | compositor clients | -> `ClientLifecycle` |
| `MC...` | constant values and casts for TLC | the module of that name |

### StackOps, StackOrder, StackList, StackListProofs: the stacking list

`StackOps` has the operations of `mb-wm-stack.h` as functions of a sequence of
clients, bottom first.  `StackOrder` is the abstract specification: that
sequence, and one action per operation.  `StackList` is the code: `stk` is a
record of the two link functions, the end pointers and the count; `InsertAtBottom`,
`InsertAbove` and `Unlink` are the assignments of
`mb_wm_stack_insert_above_client` and `mb_wm_stack_remove`, and the rest is
composed of them as in the source.  `WalkUp` is what `mb_wm_stack_enumerate`
visits.  The callers' discipline (append only clients that are off the list,
move only those on it) is the guard of the actions.  `ImplementsOrder` says that
the list implements `StackOrder` under the refinement mapping `order <- WalkUp(stk)`.

### WindowStack, WindowStackProofs: where the policy puts a client

The stack is the sequence of `StackOrder`.  `links` are `transient_for` and the
lists `transients`, `xfor` the `WM_TRANSIENT_FOR` of the window object, `layer`
the field `stacking_layer` (the method `get_stacking_layer` is the operator
`StackingLayer`), `showing` the desktop flag, `dirty` the queued stacking sync.

| Action | Code |
|---|---|
| `Map` | `mb_wm_handle_map_request` or `_map_notify`, the init methods of the client classes, `mb_wm_manage_client` |
| `Withdraw` | `mb_wm_handle_unmap_notify` |
| `Destroy` | `mb_wm_handle_destroy_notify` |
| `SetHildon`, `SetTransientFor` | `mb_wm_handle_property_notify`, `mb_wm_client_on_property_change` |
| `Activate` | `mb_wm_activate_client_real` |
| `ToggleDesktop`, `CycleApps` | `mb_wm_toggle_desktop`, `mb_wm_cycle_apps` |
| `Sync` | `mb_wm_sync` with `MBWMSyncStacking`: `mb_wm_stack_ensure` |

`Ensured` is the in-place loop of `mb_wm_stack_ensure`, round by round, with the
`next` pointer taken before the move and the `seen` client that stops it.

### ClientLifecycle: from the map request to the destroy event

`win` is the X server's view of each window (wanted by its application, existing,
mapped, inside its frame, the frame mapped); `queue` holds the events and
messages the window manager has not handled; `client` has the fields of the
client that matter.  Requests take effect in the server at once and append the
events they cause, so that the queue mixes events of applications with those of
the window manager.  `Realize`, `FullscreenSync` and `VisibilitySync` are the
parts of `mb_wm_client_base_realize` and `_display_sync` that map, unmap or
reparent; each `Handle...` is one handler.  `skipUnmaps` and `skipMaps` are the
counters with which the window manager recognises its own events.

The X server (`XMap`, `XReparent`, ...) and the applications (`AppMap`, ...) are
external: mapping a managed window is redirected to a request, reparenting a
mapped window unmaps and maps it, destroying a window unmaps it first.

### HandlerRegistry, EventDispatch, EventDispatchProofs: handlers of X events

`HandlerRegistry` is what users of `mb-wm-main-context.h` rely on: ids are
registered and unregistered at once, registered handlers are called, calls nest.
`EventDispatch` is how the code keeps that promise.  A list is walked with a
`next` pointer read before each call; a removal only marks its handler and sets
the flag of the list; the outermost call of `mb_wm_main_context_handle_x_event`
frees what is marked.  `frames` are the calls on the C stack, one per event;
their number is the static counter `nesting`.

| Action | Code |
|---|---|
| `Dispatch`, `Leave` | begin and end of `mb_wm_main_context_handle_x_event` |
| `RootReturns` | `mb_wm_root_window_handle_message`, which sees client messages first |
| `Visit`, `Return` | a round of `call_handlers_for_event`, before and after the call |
| `Add`, `Remove` | `mb_wm_main_context_x_event_handler_add`, `_remove` |

A list is the *set* of its ids: handlers are appended with growing ids, so their
order in the list is the order of the ids.  What handlers do is left open: while
one runs it may add, remove (also itself, an id removed before, or 0, as the
buttons of a decor do) and spin the main loop, as `mb-wm-decor.c:312` and `1055`
do.  Handlers are removed with the type they were added for, as all callers do.
The refinement mapping counts a handler as registered while it is in a list and
not marked.

### Focus, FocusProofs: who has the keyboard

Adds to the state of `WindowStack` (`Policy == INSTANCE WindowStack`, whose actions
it conjoins) `focus` (`focused_client`, `focus_after_stacking`, `last_focused`), what
is left for the next sync (`fresh`, `stale`, `reframe`, `dirty`) and the X server's
side: which windows exist and are viewable, and who has the input focus.  The server
ignores a focus request for a window that is not viewable and takes the focus away
from one that is unmapped or destroyed; the window manager hears of that later, by
the events in `queue`.

| Action | Code |
|---|---|
| `AppMap`, `AppWithdraw`, `AppDestroy`, `Ask` | external: applications and pagers |
| `Handle` | the handlers of map request, unmap and destroy, of `_NET_ACTIVE_WINDOW` and of the fullscreen state, with `mb_wm_manage_client`, `mb_wm_unmanage_client`, `mb_wm_activate_client_real` |
| `Minimize` | `mb_wm_client_hide`, from the button of a decor |
| `Lock` | the touch screen lock, `hd_dbus_tklock_on` |
| `Sync` | `mb_wm_sync`: realize, `mb_wm_stack_ensure`, visibility, reparenting, focus after stacking |

`FocusPlace` is the walk of `mb_wm_focus_client_as_stacked` down the stack, `Refuses`
and `FocusClient` are the rules of `mb_wm_focus_client` in their order.

### Geometry, Layout, LayoutManager: where windows are

`Geometry` has rectangles and the two helpers that bend one to an area.  `Layout` is the layout manager as functions: the passes over
panels, inputs, free and fullscreen clients, in the order of
`mb_wm_layout_real_update`, each taking its part of the room, with the answers of
the client types to a request for geometry.  `Over` is the walk of `mb_wm_stack_enumerate`
with the body of a loop, a recursive function over the places in the stack.
`LayoutManager` is the state machine
around it: `HandleMapRequest`, `HandleConfigureRequest`, `HandleFullscreen`,
`Hide`, `Show`, `HandleUnmap` and `HandleRootConfigNotify` change records and
queue a sync; `Sync` realizes, lays out, and moves the windows of the X server
(`Moved`, which is `move_resize_client_xwin` and the reparenting).  `server`
remembers where the X server has frame and window, `asked` which requests are
still unanswered.

### XErrorTraps, XasTasks, WindowProperties, KeyBindings, XConnection

The first four are values and functions, each the data structure of its source
file.  `XConnection` puts them on one connection.  The program is a list of Xlib
calls (`todo`) that the running handler still has to make; `Step` makes the next.
Requests get numbers and wait for the server (`Serve`), replies and errors wait in
`answers` until Xlib reads them (`ReadAnswer`), which happens while the program
waits for a reply, syncs or is idle.  `Blamer` is the error handler's choice
between the asynchronous sections and the synchronous trap.  Applications
change and destroy windows between any two requests.  `heard` and `unseen` are
history variables.

### Pings: who is asked to close, and who hangs

Each application has an inbox and may hang; `queue` holds its answers and the
events of its window.  `Close` and `AskToShut` are `mb_wm_client_deliver_delete`
from the close button and from a task switcher; `Fire` is the timeout, which
calls `client_hang`.  That method belongs to the program and may run a main loop:
its calls are a stack of `frames`, in which everything else goes on until `Return`.

### Decorations: loops within handlers

`frames` holds the handlers of pointer events that spin the main loop, with the
local variables they use afterwards: a decor, a reference, the id of a release
handler.  The main loop, which runs in any of their spins, handles withdrawals,
pointer events and theme changes.  `decor` is every decor ever made with its
reference count; using one whose count is 0 sets `misused`.  `Program` are the
steps of the code, `Environment` the user and the applications.

### Compositing: are textures up to date?

Extends `ClientLifecycle`: each of its actions is conjoined with what the compositor
makes of it, under a name of its own where the name is taken (`CmSync`, `CmNext`).  `cm` has the compositor
client of each window.  The X server is external: `Aged` gives a window that
was unmapped in a step a new pixmap, after which the texture is bound to an old
one; `Reported` sends a damage event if the damage object was empty.

| Action | Code |
|---|---|
| `CmMapRequest` | registers the client (`mb_wm_manage_client`, 1314) |
| `CmMapNotify` | `mb_wm_comp_mgr_map_notify` for the client's own window |
| `HandleGone` | `mb_wm_unmanage_client`, `mb_wm_client_destroy`: unregisters |
| `HandleDamage` | `mb_wm_comp_mgr_clutter_handle_damage` and `_repair_real` |
| `CmSync` | a fullscreen change configures the compositor client |
| `SetDontUpdate`, `TrackDamage` | flags and tracking, called by the program |

Damage events are counted per window and not ordered among the other events,
which only adds behaviours.

### Modules that only give values

The `MC` modules give the constants: which windows there are, what they are like and
what their applications do.  Several of them hold more than one *cast*, of which a
behaviour takes one: that keeps each state space small and lets cases meet that a
single cast of all windows would put out of reach.  `MCWindowStack` extends
`WindowStack` for the family and has an instance of it for each of the three other casts:
`LinksAgree` and `TransientsAboveParents` are checked in all four, `DeviceSettles`
(`SettledByLayer` and `LiveBackgroundsLowest`), `InputAboveApps` (`FollowersAboveApps`)
and `NextShowsEveryFamily` in the cast that puts them to the test.  The last is about
`Cycle`, which is the whole of `mb_wm_cycle_apps`: the cycling of the list, and the
activation of the application, which stacks its whole family anew.  The variable `tour`
of `MCWindowStack` keeps whose family each press brought up, as long as only presses of
MB_CMD_NEXT and syncs happen.

## What the runs show

| Run | Cast and bounds | Properties |
|---|---|---|
| `stack_list` | 5 clients: 3 applications, desktop, panel | `TypeOK`, `WellFormed`, `ImplementsOrder` |
| `window_stack` | *family*: 2 applications, dialog, override window, of which three choose their parents; *device*: 2 applications (one a live background), desktop, panel, dialog of a device layer; *input*: application, desktop, input method and dialog, the last two for each other; *apps*: 3 applications, of which one may be for another, and its dialog | `LinksAgree`, `TransientsAboveParents`, `DeviceSettles`, `InputAboveApps`, `NextShowsEveryFamily`, `SyncIsStable` |
| `client_lifecycle` | 2 applications that go fullscreen, or a window found at startup and an override window on 2 desktops; queue of 2 | `NoDanglingOnOneDesktop`, `ViewAgrees`, `NothingOwed`, `WithdrawnIsUnmanagedInTime` |
| `focus` | home screen, application, its modal dialog, a system-modal dialog; queue of 2 | `FocusedHasInputIfCalm`, `SomeoneIsFocused`, `ModalBeforeParent`, `SystemModalKeepsFocus` |
| `event_dispatch` | 3 handlers, client messages and damage events, 2 windows, events nested twice | `TypeOK`, `NoFreedHandler`, `EveryHandlerCalled`, `SweptAtBottom`, `ImplementsRegistry` |
| `x_connection` | a window with 2 properties that change, used twice, or 4 calls that bind or unbind keys | `AnswersReachAskers`, `CopyUpToDate`, `GrabsAnswered`, `MapsAnswered` (liveness) |
| `pings` | an application that may hang, and one on another host that always does; 2 nested calls of `client_hang`, 2 unread messages | `TimeoutsMatch`, `OnlySilentArePinged`, `PingsEnd` (liveness) |
| `layout` | 9 windows in 5 casts of 3 or 4 on a screen of 8 by 6 that turns; each asks once and is mapped once | `ReservedApart`, `AppsFillTheRest`, `FullscreenClearOfInput`, `LayoutStable`, `AnsweredInPlace`, `DialogsInside` |
| `decorations` | an application with a minimizing button that may act on the press, a dialog that can be dragged; 5 spins, 1 theme change, 4 frames, queue of 2 | `ButtonsKeepDecors`, `LoopsCleanUp`, `ButtonLoopsEnd` (liveness) |
| `compositing` | one of: an application on one desktop (two kinds), an override window, an application on two desktops; queue of 3, 2 damage reports | `DamageHeard`, `TexturesCurrent` |

`client_lifecycle_freed` and `decorations_drag` expect a violation (see below).

**Why the bounds are enough.**  Five clients with three of a type give the list every
case of its code: empty, single, both ends, inner, and a type that is missing, lowest,
highest or between.  Chains of three and an application that is itself transient
give every shape of family in which a parent is mapped before or after its child;
layers only matter by their order, so one client for each kind of layer is enough.
`MaxQueue` caps what applications and users add: nobody adds to a queue of that length,
while the window manager's own events are never held back, so that two application
events meet up to six of its own.  `MaxIds` and `MaxNesting` bound the handlers ever
added and the depth of `EventDispatch`; its proofs are for all bounds.  `MaxUses`
and `MaxBindings` only cap what the program may do at any time (messages to the window,
keys bound and unbound); what it does in answer to an event is never held back, so that
every change of the title and of the live background is read again.  `MaxReports` makes applications wait while two damage
reports of a window are unhandled; a report only comes when the damage was empty, so
that more than one means that tracking was stopped and resumed in between.  The screen
of `layout` is large enough for the thickest of its panels, input methods and decors
and too small for some of what is asked for, so that clipping and overlap occur.  With
`MaxAsks` = 1, what two requests of one client do to each other between two syncs is left out.
`MaxFrames` and `MaxDepth` allow one loop within another.  No other state is cut off:
all state spaces are finite and explored completely.

The largest are `client_lifecycle` (410,309 states), `focus` (249,887), `x_connection`
(187,078), `window_stack` (158,704), `layout` (118,164) and `compositing` (48,035).

**Narrowings.**  Some properties hold only under conditions the code does not enforce,
and their definitions name them: `FocusedHasInputIfCalm` asks that nothing was
minimized and the root never took the focus, because `last_focused` is not reset
(below); `EntersOnly` leaves out windows that come back from fullscreen or were found
at startup; `ViewAgrees` in the cast with two desktops has no fullscreen windows, and
`NoDanglingOnOneDesktop` is for one desktop; `CopyUpToDate` leaves out changes between
the first reading and the selection of events; `AnsweredInPlace` leaves out the places
of windows that can be minimized; `NextShowsEveryFamily` is for applications of one
layer, none of them a live background, outside desktop mode (in it the key only leaves the
desktop); `ButtonsKeepDecors` allows for theme changes; in
`compositing`, the application on two desktops acts when everything is at rest.
`Focus` and `LayoutManager` run with `SyncsAtOnce`, as under Clutter's and GDK's event
filters.

**Fairness.**  Three runs check liveness.  `x_connection`: the server takes every
request (`WF` of `Serve`), a running handler makes its next call (`WF` of `Step`), the
main loop dispatches and syncs (`WF` of the handlers): the program is one thread
that never blocks but on the server.  `pings`: the main loop handles events (`WF` of
`Handle`), a timeout that is due fires, and a call of `client_hang` returns.  These two
are strong, because the bound on nested calls disables the first and a nested call
the second now and then; GLib dispatches every source that stays ready, and that a
program's hang handler returns is an assumption about the program.  `decorations`:
the program goes on (`WF`), and the user lets go of the screen in the end (`SF`, since
the bounded queue holds the release back now and then).  The other runs check safety
only; what eventually holds is there stated for the states in which nothing is left to
do (`AtRest`, `Settled`, `Idle`).  Deadlock is checked for the stacking list and event
dispatch; the other systems may rest when their windows and messages are used up.

## Disagreements between the code and what it says

Two have a run that expects a violation.

* `client_lifecycle_freed`: a late MapNotify clears `hiding_from_desktop`; when the
  window is destroyed, its client is freed but stays on the stack, which
  `mb-window-manager.c:415-418` means to prevent.
* `decorations_drag`: the loop of a drag takes no reference to its client, as the loop
  of a button does for the reason its comment gives (`mb-wm-decor.c:924-925`): a dialog
  that goes while it is dragged takes the decor with it that the loop goes on using.

Met on the way, without a run.

*Stacking.*
* Cycling in reverse exchanges the two topmost applications for ever
  (`mb-wm-stack.c:284-287`), although ChangeLog 5248-5249 announces "application cycling
  in reverse direction".
* MB_CMD_NEXT takes up an application but raises its family: of two applications of which
  one is transient for the other, the same one is on top after every press.
* An input method and an application of a device layer make the walk of
  `mb_wm_stack_ensure` stop early, against its comment (97-98): the walk stops at a
  client that it remembers as moved (117, 136), which a family may have taken along.
* A dialog that is transient for an input method may end up below it, against
  `mb-wm-client.h:37-38` (`TransientsAboveParents` leaves such clients out).
* The comment at `mb-window-manager.c:1995` counts clients transient for the desktop as
  showing it; the code at 2000 compares the parent with the client itself.

*Client life cycle.*
* Leaving fullscreen counts an unmap event without asking whether the window is mapped
  (`mb-wm-client-base.c:564`), against ChangeLog 2381-2382; a withdrawal just before is
  swallowed.
* With two desktops, a window set to fullscreen while hidden is mapped inside a frame
  that is not, one that leaves fullscreen while hidden is not mapped when its frame is
  (`XMapSubwindows` reaches only what is in it), and a withdrawal of a hidden window is
  ignored.  A sync may map a window
  again that was withdrawn but whose UnmapNotify is not yet handled.  A window found at
  startup and withdrawn before it is realized keeps its client.
* Nothing ever sets `iconizing`, so that the branch of `mb_wm_unmanage_client` that
  keeps the client is dead, and a minimized client is unmanaged.

*Focus.*
* `last_focused` (`mb-wm-client-base.c:847`) is never reset: after the focus went to the
  root or the window was unmapped, the same window is not given the focus again.
* A minimized window that is activated is focused before it is mapped, which the
  X server refuses.
* With the loops that sync after a batch of events, `SystemModalKeepsFocus` fails.

*Pings.*
* `mb_wm_handle_unmap_notify` stops the ping and reports the client as responding (470)
  before it looks at `skip_unmaps` (478): the unmap that the window manager's own
  reparenting causes counts as "the client closed the window" (469, ChangeLog
  2216-2219).
* With nested hang handlers, the comment "refcount is > 1" (2093) fails.  A delete
  during the hook is neither pinged nor watched.

*Layout.*
* A geometry sync of a hidden client is skipped (`mb-wm-client-base.c:622-625`) but
  counted as done (`mb-wm-client.c:535`), against "Sync all changes to display"
  (`mb-window-manager.c:1120`): shown again, its window has the old size.
* With syncs after batches `AnsweredInPlace` fails: reparenting moves the window to
  (0,0) in the server without a change of `x_geometry`.
* The available area stays shrunk for a second fullscreen client; two signs in the
  fullscreen branch for northern and eastern inputs look exchanged (`mb-wm-layout.c:631`,
  650); `mb-wm-client-input.c:170-183` compares a type with a union of two, which is
  never true; a fullscreen application that goes leaves its input where it was.
* Clipping compares with `>`: a position one past the edge gets through and the size
  becomes 0.

*X connection.*
* The warning about a failed grab (`mb-wm-keys.c:93-103`) is never issued, because the
  error has not arrived when it is asked for; the same for the window of a decor
  (`mb-wm-decor.c:362-385`), whose `xwin` stays set.
* A change of a property between the first reading and `XSelectInput` is lost, but for
  those read again when the window is realized.  Three properties are read as a byte
  (`mb-wm-client-window.c:1118`).  A geometry error returns success (against ChangeLog
  2873-2877).

*Decorations and objects.*
* A change of the theme while a button waits for its release frees the decor it uses
  (939-951).  A press on the button of a movable client also begins a drag after the
  button's loop, because every handler is called.
* Removing a damage handler does not set the flag of its list
  (`mb-wm-main-context.c:702-705`), so that it is never freed, against 384-387.
* The first signal connected gets the id 0 (`mb-wm-object.c:329-339`), which counts as
  none: the first client's property handler is never disconnected
  (`mb-wm-client.c:55-61`).

*Compositor.*
* Switching compositing off (`mb-wm-root-window.c:465-471`) unregisters every client;
  switching it on registers none again, and `restack_real` dereferences their NULL
  `cm_client` at the next stacking sync (`mb-wm-comp-mgr-clutter.c:971-973`).  A client
  freed while compositing is off leaves a dangling `wm_client`.
* A late MapNotify that clears `hiding_from_desktop` keeps the window from being
  composited anew when it is shown (1163-1184).  An override window unmapped
  while hidden and mapped again keeps its old texture.  A dialog first mapped
  while its parent's desktop is hidden never gets a texture.
* A window found at startup is reparented into a frame that is not mapped yet, so that
  the first binding fails, and the map of the frame is not passed on
  (`mb-window-manager.c:904`, against the comment at 1543-1546).
* A stray semicolon (1199) makes every texture ignore `DontUpdate` with EGLX; without
  EGLX none does, and what is drawn during an effect is not shown after it, although
  the comment at 1195-1197 says that this kind of texture needs every event.

## What is proved

Every theorem holds for all values of the constants that meet the assumption of its
module; where one needs more, it is part of the statement.

**`StackListProofs`**, for every set of clients and every assignment of types, from the
single assumption that `NULL` is no client:

* `TypeCorrect`: `Spec => []TypeOK`,
* `ListNeverTorn`: `Spec => []WellFormed`,
* `ListImplementsOrder`: `Spec => ImplementsOrder`.

The inductive invariant is `WellFormed` strengthened with types: there is a
sequence that the list `Stores`.  The weaker statement that following
`stacked_above` meets every client once would not be inductive, because removal
uses `stacked_below` and the ends.  Two lemmas carry the weight: inserting a
client above the k-th (`InsertRepresents`) and unlinking the k-th
(`UnlinkRepresents`) turn a list that stores a sequence into one that stores the
sequence with that client added or dropped.  Every action is composed of the
two.  For the refinement, `WalkUpIsOrder` and `WalkDownIsReverse` show that an
enumeration visits exactly the stored sequence, and the searches by type are
then compared with the positions of `StackOps`, by the least number principle.

**`WindowStackProofs`**, for any set of clients, whatever their types and layers and
whatever windows they are transient for:

* `LinksAlwaysAgree`: `Spec => []LinksAgree`,
* `TransientsStayAbove`: `Spec => []TransientsAboveParents`,
* `TypesHold`: `Spec => []TypeOK`, for the client types and Hildon layers there are (the
  code takes any layer a window asks for),
* `ParentsWereNamed`: `Spec => []Named`, if `None` and `Gone` are no clients: the parent of a
  client is one that the client's own window named in WM_TRANSIENT_FOR, whoever adopted
  whom,
* `PressesRaiseFamilies`: `Spec => [][PressRaisesFamily]_vars`: a press of MB_CMD_NEXT or
  MB_CMD_PREV that takes up an application other than a live background leaves its family
  above all other clients, which keep their order, and the next press of MB_CMD_NEXT
  takes up another family if there is one.

In `IInv`, `Linked` says of the links what `LinksAgree` does; that no chain closes is put as
`Rooted`: every set of clients has one whose parent is not in it.  `Fallen`, the transients that
lie below their parent though neither moves alone, are none.  A single move only makes the moved
client and its transients fall (`MovedFallen`), and the stack methods move whole families, in the
middle of which clients have fallen.  The proof goes by the order of the calls: `Family` and
`OverrideCalls` are lists in which every client is followed, later, by its own transients
(`Followed`), so that after each call the fallen are clients still to come, and none at the end
(`ClientStackIs`).  That these recursive functions have the values their definitions ask for is
`Recursion`, by the least set of places a solution has not reached, over links that are rooted and
finite.  `mb_wm_stack_ensure` keeps what every stack method keeps, whatever its rounds do;
a new client is put on top, above its parent, and its stack method lifts the transients it
adopted; a cycled application has left its dialogs behind until it is activated in
the same step.  For `PressesRaiseFamilies`, clients raised one after another end above all
others, of which no raising disturbs the order (`RaisedTogether`); the application is in the
family of the root of its chain (`RootIs`), and the lowest application then is none of the
family.  This is one press.  That as many presses as there are families show them all, with
syncs in between that put the stack in order again, is checked (`NextShowsEveryFamily`).

**`FocusProofs`**, for any set of clients of whatever types, which map, withdraw, die,
activate, are minimized and go fullscreen in any order, with any bound on the queue:

* `FocusedIsManaged`: `Spec => []FocusedManaged`: `focused_client` is `NULL` or a managed
  client;
* `FocusedHasInput`: `Spec => []FocusedHasInputIfCalm`, if the main loop syncs after every
  event (`SyncsAtOnce`) and animation actors do not want keys;
* `SomeoneStaysFocused`: `Spec => []SomeoneIsFocused`, whichever loop syncs, if animation
  actors do not want keys and no other window that does not want them is transient for a
  client (`Seeking`).

What is known of the stack and of the links is not proved again: an action of `Focus`
conjoins one of `WindowStack`, and lemmas such as `SyncIs` and `MapIs` carry it over to an
instance of `WindowStackProofs`.  `IInv` adds to the invariant there four parts.  `FInv`: the record
a handler works on is `Sound` after each of its steps, so that a client that is forgotten is
so everywhere, and a managed client that does not exist has its destruction in the queue
(`Doomed`).  `CalmInv`, for a loop that syncs after every event: nothing is hidden; the
last client that got the focus has the input, and a realized client is viewable, unless the
queue is about to take the window away (`Goers`); the focused client is the last one
that got the focus.  `Named` is that of `WindowStackProofs`.  `Taken`: as long as
the root did not have to take the focus, nobody having it, and none being put off to the next
sync, means that nobody is managed who could have it.  The focus goes where
`last_focused_transient`s lead, a recursive function over links without circles, to
which `Recursion` of `WindowStackProofs` applies.

The extra assumptions are needed.  Within a batch of events, a window that had the focus last
may be withdrawn and mapped again; `last_focused` still names it, and it is not given the
input.  An actor becomes `focused_client` without being given the input, and is passed over
when it is mapped.  A modal window that does not want keys is chosen in the place of the
client it is transient for, and refuses: then nobody has the focus, although the client
could have it.

**`EventDispatchProofs`**, for any event types and windows and any bounds, from
`DispatchAssumption` (client messages and damage events have lists, `Expose` has
none, `None` is no window):

* `TypeCorrect`, `WalksAreSafe`, `WalksAreComplete`: `TypeOK`, `NoFreedHandler`
  and `EveryHandlerCalled` are invariants,
* `BottomSweeps`: `Spec => SweptAtBottom`,
* `ListsImplementRegistry`: `Spec => ImplementsRegistry`.

Its inductive invariant adds two facts.  `CallersInCall`: every frame but the
last is in a handler, so that only the last frame walks and only its walk can
see the sweep.  `DueAhead`: a handler that is due and neither called nor removed
lies at or after the `next` pointer, in the list; `EveryHandlerCalled` is what is
left of it when `next` is `NULL`.  Both rest on one fact about the code: a list
only shrinks when the last frame is left.  `BottomSweeps` needs a third,
`FlagsCoverDeleted`, which does not hold for damage.

**`CompositingProofs`**, the part about `ClientLifecycle`, for any windows, desktops and queue
bound:

* `TypesHold`: `Spec => []TypeOK`; in particular `skip_unmaps` never goes below zero;

and with one desktop (`Desktops = {0}`), as on a device:

* `NothingDangles`: `Spec => []NoDanglingClient`,
* `WithdrawnAreUnmanaged`: `Spec => []WithdrawnIsUnmanagedInTime`;

and, if moreover no window was mapped before the window manager started:

* `NothingStaysOwed`: `Spec => []NothingOwed`,
* `ShownAreViewable`: `Spec => []ViewAgrees`, if the compositor activates the clients it
  registers as they are mapped (`ActivatesNew`).

The three properties that are claimed of a state at rest (nothing queued, no sync
pending) say nothing about the states on the way there.  The invariant (`Good`) does:
for each window it describes the sequence `v` of that window's events in the queue,
whatever stands between them.  `Owed`: the unmap events that `skip_unmaps` counts are
in `v`, and one more is if the window is not mapped now; `Coming`: unmaps and maps
alternate in `v`; `AskedFor`: a withdrawal the application made is in `v`, behind the
unmaps that are counted; `Seen`: a client is shown from the first and in view, or an event of `v` or the
next sync will change that.  What is left of these when `v` is empty are the
properties.  Each step touches the events of one window only, which `OneWindow` and
the lemmas on `Has` (what a queue holds for a window, after events are added behind
or taken from the front) turn into a step on `v`; the X requests inside realize, fullscreen
and visibility syncs are then followed one by one (`RealizeDoes`, `FullscreenSyncDoes`,
`VisibilitySyncDoes`).

The first two extra assumptions are needed, the third by the proof.  With several desktops, `NoDanglingClient` fails
(run `client_lifecycle_freed`).  A window found at startup begins with `skip_unmaps`
1 and `skip_maps` -1; a withdrawal swallowed by that count, and a fullscreen state left on
the window that is unmapped by then, leave `skip_unmaps` at 1 for good.  Whether a new
client is shown at once is up to the compositor that a program derives (the library's own
ignores `activate`); `Seen` follows clients that are shown
when they are realized, for which `mb_wm_client_base_display_sync` maps window and frame
together.  With `ActivatesNew = FALSE` in the cfg of `client_lifecycle`, TLC
finds no client out of view either.  On one
desktop no client is hidden, so that `ShownAreViewable` proves the first half of
`ViewAgrees`; the half about hidden clients is then about nobody and stays with the run's
cast of two desktops.

**`CompositingProofs`**, the part about `Compositing`, on the same assumption of one desktop:

* `DamageIsHeard`: `CmSpec => []DamageHeard`;

and, again, if no window was mapped before the window manager started and `ActivatesNew`:

* `TexturesStayCurrent`: `CmSpec => []TexturesCurrent`.

The first builds on the invariant of the part before, because every step of
`Compositing` does to the clients what one of `ClientLifecycle` does (`ImplementsLifecycle`).  `Sound` is what the
operations keep for each compositor client by themselves; that compositor clients and
clients live together needs the clients' invariant, since a client freed on the stack
gets a compositor client again when a late map event comes.

A texture shows what its application draws as long as it is bound to the pixmap the
server has for the window, and every unmapping and mapping replaces that pixmap.
`TexInv` says what a compositor client may still be missing, from the sequence `v` of the
window's events to come.  A client with more unmaps in `v` than it is owed goes
(`Doomed`), one with yet one more even if a reparenting unmaps it again (`Lost`), and its texture does
not matter.  Any other (`Following`) is in view with a bound texture, or the next sync
changes its fullscreen state or its visibility, which unbinds and binds it again.
A client the compositor has not heard to be mapped hears of it before anything
else (`Awaits`).  That drawing after the binding is not lost is `TextureSound`: what
is not in the texture is in the damage, which `DamageHeard` keeps under way.
For this the invariant of the clients' life had to say more than their own properties need:
that each mapping in `v` comes before the next unmapping (`Ordered`), that what a
client not heard to be mapped hears of first is a mapping (`Fresh`), and that the
window manager's own requests destroy nothing (`DestroySent`).

**`PingsProofs`**, for any clients and bounds:

* `TypesHold`: `Spec => []TypeOK`,
* `TimeoutsAlwaysMatch`: `Spec => []TimeoutsMatch`,
* `AnsweredAreNotHung`: `Spec => []OnlySilentArePinged`.

The inductive invariant says more than `TimeoutsMatch`: the main loop's timeouts are
exactly those that the `ping_cb_id` of the clients name, ids are not shared even with the
timeouts whose callbacks run, and a client's references are the window manager's list
and the calls of `client_hang` about it.  `GoneBeforeDestroy` relates the queue to the
applications: only a client whose application is gone is unmanaged while it is pinged.

**`DecorationsProofs`**, for any clients and bounds that meet `DecorationsAssumption`:

* `BooksAreKept`: `Spec => []IInv`,
* `LoopsClean`: `Spec => []LoopsCleanUp`,
* `ButtonsKeep`: `Spec => []ButtonsKeepDecors`.

`IInv` is in four parts.  `Objects`: a client that is not freed has exactly one decor
that is its own, and is connected to the theme's signal; a freed decor is on no list; there
is at most one release handler.  `Shape` and `Points`: in the nesting of calls, handlers and
button loops alternate, each waiting at the statement that called the next.  `Books`: each button loop
holds the references it took and no other, and until a theme is set, the decor it works
on is its client's.  `Pointed` and `Grabs`: the pointer events on their way are a press, motions
and a release in turn, and the release handler belongs to the innermost loop; a loop
that turns the main loop while it listens has its release still before it.  The last part is
what excludes a second press inside the loop of the first, and so two loops
that would share one handler.  `LoopsCleanUp` is left of `Books` and `Grabs` when nothing is
being called; `ButtonsKeepDecors` of `Books` and `Objects`.  That loops end
(`ButtonLoopsEnd`) is liveness, and that drags keep their decor is false (run
`decorations_drag`).

**`LayoutManagerProofs`**, for any clients of any types, any decors, themes, screens, wishes
and bounds that meet `LayoutAssumption` (they have the types their names say):

* `ClippedAxisInside`, `ClippedAxisSettles`: of `mb_wm_layout_clip_geometry`, what is
  clipped to an area of non-negative size lies in it, and clipping twice is clipping once,
* `TypesHold`: `Spec => []TypeOK`;

and, if the main loop syncs after each event (`SyncsAtOnce`):

* `EveryoneAnswered`: `Spec => []AnsweredInPlace`;

and, if moreover only applications go to fullscreen (`FillsApps`) and no client has two
input methods (`OneInput`):

* `FullscreenClear`: `Spec => []FullscreenClearOfInput`;

and, whenever the loop syncs, if only applications go to fullscreen, no window asks for a negative size
(`Sized`) and the theme puts a panel at one edge or lets it overlap (`PlainThemes`):

* `ReservedStayApart`: `Spec /\ []RoomEnough => []ReservedApart`;

and, if moreover the decors of dialogs and notes take no negative room (`BareDecors`; one that is not
decorated has none) and none of them opens without a size (`Seen`):

* `DialogsStayInside`: `Spec /\ []RoomEnough => DialogsInside`.

What all passes of the layout leave together is proved without computing it.  `Walk` is
the induction along the stack: if each step of a pass leads from one set of records and
areas to the next, the whole pass leads from the first to the last (`LoopLeads`).  Every step either leaves a client alone or makes one request of one client
(`StepIs`), so that a set that is closed under requests (`Closed`) is not left by any of
the eleven passes nor by the layout (`PassIs`, `UpdatedIn`).  Three such sets are
needed: the records that are of the right types and differ only in what a request
changes, geometry and what is dirty (`Layouts`, `UpdatedIs`); those in which an
application without decors has frame and window in one (`UpdatedEven`); and, within the
fullscreen pass, the records in which a fullscreen application that was already visited
lies apart from its input method (`FullscreenClears`): its place is computed from that of the input
method, which no later step moves, because the pass asks only fullscreen clients.

The invariant of `EveryoneAnswered` is per client (`Kept`): a window that was realized
is where `x_geometry` says, one that was not is dirty and not yet asked; a change of
fullscreen always has the geometry dirty with it and no answer owed; and who waits for an answer
has `Ack` queued (`Owed`).  `FullscreenClear` adds what applications and input methods look like
(`AllFormed`) and that those apart stay apart unless the geometry is queued
(`Cleared`).  With syncs after batches, an answer and a reparenting come together and
`AnsweredInPlace` fails (see the disagreements); `FullscreenClearOfInput` holds in batches
too for the run's casts, but its proof uses that a client is realized before it goes to
fullscreen.  An input method that itself went to fullscreen would cover its application,
a fullscreen menu is moved off the edge of the screen and onto its input method, and
`Fullscreen` looks at the first input method only.

`ReservedStayApart` is the theorem that follows the arithmetic of the passes.  Its hypothesis
`RoomEnough` says that whenever a layout is due, the heights of the panels and input methods at the
north and south edges, added up, are at most that of the screen, and so for the widths at the west
and east.  The code has no other defence: panels that are together larger than the
screen leave an area of negative size, in which the next ones are put all the same
(TLC finds `RoomEnough`, and the invariant of the proof, to hold for all casts of the `layout` run).
`Sized` is true of X, whose sizes are unsigned; `PlainThemes` leaves out a panel that claims
two edges, which two loops would place one after the other.

The sum is defined along the stack (`Totals`), without recursion, as a function whose values
differ by what one client takes.  `Put(cs, size, H, w, h)` is the set of accumulators in which
the clients of `H` have been placed, those that share the screen on it, apart from
each other and from the area that is left, which is still `w` wide and `h` high; all
others have the record they began with.  One turn of a loop for the edge `e`
moves its client into `H` and takes its size off `w` or `h` (`EdgeNorthTakes` and its three
siblings, `InputSouthTakes`), or leaves both (`OneStepFrom`); the whole loop takes what its
clients take together (`LoopPuts`, `TallLoop`, `LongLoop`, `StillLoop`).  `PanelsPut`,
`InputsPut`, `GrownPut`, `FreedPut` chain the loops in the order of `mb_wm_layout_real_update`, and
`UpdatedKeeps` shows that the fullscreen pass moves no panel and no input method.  The
inductive invariant has two parts: `AllPlain`, the shape of each type's record (hints,
which have a frame, no negative size, an input method that is never fullscreen), and `Separate`, the
property itself for those that share the screen while no layout is queued.  It needs to
say when the geometry is queued, because each request (`ConfigureIs`), client and turn of the screen that could break it
queues a layout.

`DialogsStayInside` goes on from there.  `mb_wm_layout_real_layout_free` comes when all others are placed:
it asks each dialog and note for the part of what it covers that lies in the
area left (`ClippedInside`, from `ClippedAxisInside`).  A request gives a dialog a window, and its frame
follows from the decors: `DialogAsked` and `DecorFits` show that frame and window, moved to the
place asked for, cover exactly that place.  So once visited a dialog lies in the area
(`FreedLed`), no later pass moves it (`LaidInside`), and since the loop of `Free` leaves the area alone,
`Put` says that this area is apart from every panel and input method and on the screen.
The invariant adds to that of `ReservedStayApart` what a dialog's record must have for this (`AllFit`): its
frame is not of negative size, nor is its window until the frame is there, and without decors the
two are one.  `Seen` is true of X, which refuses a window without a size.  The decors only add to what a window
takes, so that `BareDecors` holds of any theme that does not draw a negative border.

**Only model-checked.**  Liveness under fairness, and anything with `ENABLED`.  What
`mb_wm_stack_ensure` achieves (`SettledByLayer`, `FollowersAboveApps`, `SyncIsStable`) is
about the rounds of its loop all together, and holds for casts without clients that move
each other's place.  `ModalBeforeParent` and
`SystemModalKeepsFocus` of `Focus` speak of who is focused among several that could be.  They
hold for the cast, in which modal and system-modal windows come after what they cover
and lie above it, and not for all types, layers and orders of mapping.
`AppsFillTheRest` and `LayoutStable` of `LayoutManager` say what the passes leave
to applications, and leave alone.  `AppsFillTheRest` adds up areas over a set, and `LayoutStable` compares
two runs of all passes; like `ReservedApart`, both are false when panels are larger than the screen.
They stay with the run's screens and casts.
`XConnection` filters the calls a handler still has to make with `SelectSeq`, of which
the provers know nothing.

## What is not modelled

Beyond the components marked so in `PROJECT.json`:

* window groups (`mb_wm_client_get_transients`, `mb-wm-client.c:731-757`) and the class
  of notes in the stack; windows that are fullscreen when first mapped; the second
  reparenting of menus (`client-types/mb-wm-client-menu.c:10-36`); the window that blocks
  input for modal dialogs;
* transients in `ClientLifecycle`, and desktops in `WindowStack` and `Focus`;
* portrait orientation, override windows and window groups in the layout;
* redirection of windows, transitions and effects, and the actors of desktops: their
  state is Clutter's and the calling program's;
* class registration and signal emission of the object model: arrays filled once at
  startup, and callbacks none of which changes the lists it is called from;
* themes: parsing and drawing; the test programs.

## Plan

What a next step would take up, in this order.

1. An abstract specification of what a client promises its application (managed,
   shown, withdrawn), implemented by `ClientLifecycle`; liveness under weak fairness of
   the handlers.
2. Switching compositing off and on, which the code does not survive as it is.
3. Window groups in `WindowStack`, and menus with their second reparenting.
