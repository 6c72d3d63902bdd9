---------------------------- MODULE EventDispatch ----------------------------
(***************************************************************************)
(* core/mb-wm-main-context.c: X event handlers that add and remove         *)
(* handlers and handle further events while a list of handlers is walked.  *)
(*                                                                         *)
(*   handlers[t]  the list ctx->event_funcs.<t>; handlers are appended     *)
(*                with growing ids, so that the list is its set of ids in  *)
(*                ascending order                                          *)
(*   xwindow[i]   the window handler i was added for, or None              *)
(*   deleted      handlers with info->deleted, not yet freed               *)
(*   flags        types t with ctx->event_funcs.deleted_<t>                *)
(*   ids          the static counter of mb_wm_main_context_x_event_handler_add *)
(*   frames       the calls of mb_wm_main_context_handle_x_event on the C  *)
(*                stack; their number is the static counter nesting        *)
(*                                                                         *)
(* A frame has the handler it is in (at) and the pointer to the next one   *)
(* that was read before the call; due and called record, for the           *)
(* properties, the handlers that were there when the walk began and those  *)
(* called so far.  What a handler does with other components is not        *)
(* modelled: it may add, remove, and spin the main loop as it likes.       *)
(***************************************************************************)
EXTENDS Integers, Sequences

CONSTANTS
  Types,          \* event types that have a list of handlers
  ClientMessage,  \* the type mb_wm_root_window_handle_message sees first
  DamageNotify,   \* damage_event_base + XDamageNotify
  Expose,         \* a type without handlers
  Windows, None,
  MaxIds,         \* bound: handlers ever added
  MaxNesting      \* bound: events handled inside handlers

ASSUME DispatchAssumption ==
  /\ {ClientMessage, DamageNotify} \subseteq Types
  /\ Expose \notin Types
  /\ None \notin Windows
  /\ MaxIds \in Nat
  /\ MaxNesting \in Nat

VARIABLES handlers, xwindow, deleted, flags, ids, frames

vars == <<handlers, xwindow, deleted, flags, ids, frames>>

NULL == 0
RootWindow == -1

Ids == 1..MaxIds

Linked == UNION {handlers[t] : t \in Types}

Frames ==
  [type : Types \cup {Expose}, xwin : Windows,
   at : Ids \cup {NULL, RootWindow}, next : Ids \cup {NULL},
   due : SUBSET Ids, called : SUBSET Ids]

-----------------------------------------------------------------------------
(* Walking a list *)

\* The head of a list, and the next pointer of a handler's link.
FirstOf(S) ==
  IF S = {} THEN NULL ELSE CHOOSE i \in S : \A j \in S : i <= j

NextOf(S, i) == FirstOf({j \in S : j > i})

\* Mutant: a handler is called although it was removed.
Answers_Deleted(i, w) == xwindow[i] \in {None, w}

\* The condition of call_handlers_for_event.
Answers(i, w) == i \notin deleted /\ xwindow[i] \in {None, w}

Top == frames[Len(frames)]

SetTop(f) == frames' = [frames EXCEPT ![Len(frames)] = f]

\* Handlers, or the main loop outside of any event, are in control.
Running == frames # << >> => Top.at # NULL

\* A walk over the list of the event's type from its head.
Walk(t, w) ==
  [type |-> t, xwin |-> w, at |-> NULL,
   next |-> IF t \in Types THEN FirstOf(handlers[t]) ELSE NULL,
   due |-> IF t \in Types THEN {i \in handlers[t] : Answers(i, w)} ELSE {},
   called |-> {}]

\* mb_wm_root_window_handle_message has the message first.
RootCall(w) ==
  [type |-> ClientMessage, xwin |-> w, at |-> RootWindow, next |-> NULL,
   due |-> {}, called |-> {}]

-----------------------------------------------------------------------------
Init ==
  /\ handlers = [t \in Types |-> {}]
  /\ xwindow = [i \in Ids |-> None]
  /\ deleted = {}
  /\ flags = {}
  /\ ids = 0
  /\ frames = << >>

\* mb_wm_main_context_handle_x_event begins, for an event of the main loop
\* or of a handler that spins it.
Dispatch(t, w) ==
  /\ Running
  /\ Len(frames) < MaxNesting
  /\ frames' = Append(frames, IF t = ClientMessage THEN RootCall(w)
                              ELSE Walk(t, w))
  /\ UNCHANGED <<handlers, xwindow, deleted, flags, ids>>

\* The root window handler returns; the list is walked if it returned False.
RootReturns(handled) ==
  /\ frames # << >>
  /\ Top.at = RootWindow
  /\ SetTop(IF handled THEN [Top EXCEPT !.at = NULL]
            ELSE Walk(ClientMessage, Top.xwin))
  /\ UNCHANGED <<handlers, xwindow, deleted, flags, ids>>

\* One round of the loop of call_handlers_for_event, up to the call.
Visit ==
  /\ frames # << >>
  /\ Top.at = NULL
  /\ Top.next # NULL
  /\ LET i == Top.next
         n == NextOf(handlers[Top.type], i)
     IN  SetTop(IF Answers(i, Top.xwin)
                THEN [Top EXCEPT !.at = i, !.next = n, !.called = @ \cup {i}]
                ELSE [Top EXCEPT !.next = n])
  /\ UNCHANGED <<handlers, xwindow, deleted, flags, ids>>

\* Mutant: a handler that returns False ends the walk.
Return_Stops ==
  /\ frames # << >>
  /\ Top.at \in Ids
  /\ \E goOn \in BOOLEAN :
       SetTop([Top EXCEPT !.at = NULL, !.next = IF goOn THEN @ ELSE NULL])
  /\ UNCHANGED <<handlers, xwindow, deleted, flags, ids>>

\* A handler returns; the walk goes on whatever it returned.
Return ==
  /\ frames # << >>
  /\ Top.at \in Ids
  /\ SetTop([Top EXCEPT !.at = NULL])
  /\ UNCHANGED <<handlers, xwindow, deleted, flags, ids>>

\* mb_wm_main_context_remove_deleted_handlers.
Sweep ==
  /\ handlers' = [t \in Types |-> IF t \in flags THEN handlers[t] \ deleted
                                  ELSE handlers[t]]
  /\ deleted' = deleted \ UNION {handlers[t] : t \in flags}
  /\ flags' = {}

\* Mutant: the handlers are freed whenever an event is done.
Leave_SweepsNested ==
  /\ frames # << >>
  /\ Top.at = NULL
  /\ Top.next = NULL
  /\ frames' = SubSeq(frames, 1, Len(frames) - 1)
  /\ Sweep
  /\ UNCHANGED <<xwindow, ids>>

\* mb_wm_main_context_handle_x_event ends; the outermost call sweeps.
Leave ==
  /\ frames # << >>
  /\ Top.at = NULL
  /\ Top.next = NULL
  /\ frames' = SubSeq(frames, 1, Len(frames) - 1)
  /\ IF Len(frames) = 1 THEN Sweep ELSE UNCHANGED <<handlers, deleted, flags>>
  /\ UNCHANGED <<xwindow, ids>>

\* mb_wm_main_context_x_event_handler_add.
Add(t, w) ==
  /\ Running
  /\ ids < MaxIds
  /\ ids' = ids + 1
  /\ handlers' = [u \in Types |-> IF u = t THEN handlers[u] \cup {ids + 1}
                                  ELSE handlers[u]]
  /\ xwindow' = IF t \in Types THEN [xwindow EXCEPT ![ids + 1] = w] ELSE xwindow
  /\ UNCHANGED <<deleted, flags, frames>>

\* Mutant: the flag of client messages is forgotten.
Remove_NoFlag(t, i) ==
  /\ Running
  /\ \A u \in Types \ {t} : i \notin handlers[u]
  /\ flags' = IF t \in Types \ {DamageNotify, ClientMessage}
              THEN flags \cup {t} ELSE flags
  /\ deleted' = IF t \in Types /\ i \in handlers[t] THEN deleted \cup {i}
                ELSE deleted
  /\ UNCHANGED <<handlers, xwindow, ids, frames>>

\* Mutant: ids that are not in the list are marked as well.
Remove_Unlinked(t, i) ==
  /\ Running
  /\ \A u \in Types \ {t} : i \notin handlers[u]
  /\ flags' = IF t \in Types \ {DamageNotify} THEN flags \cup {t} ELSE flags
  /\ deleted' = deleted \cup {i}
  /\ UNCHANGED <<handlers, xwindow, ids, frames>>

\* mb_wm_main_context_x_event_handler_remove, by a caller that names the
\* type it added the handler for.  The id may be 0 or that of a handler
\* removed before, which the buttons of a decor do.
Remove(t, i) ==
  /\ Running
  /\ \A u \in Types \ {t} : i \notin handlers[u]
  /\ flags' = IF t \in Types \ {DamageNotify} THEN flags \cup {t} ELSE flags
  /\ deleted' = IF t \in Types /\ i \in handlers[t] THEN deleted \cup {i}
                ELSE deleted
  /\ UNCHANGED <<handlers, xwindow, ids, frames>>

Next ==
  \/ \E t \in Types \cup {Expose}, w \in Windows : Dispatch(t, w)
  \/ \E handled \in BOOLEAN : RootReturns(handled)
  \/ Visit
  \/ Return
  \/ Leave
  \/ \E t \in Types \cup {Expose}, w \in Windows \cup {None} : Add(t, w)
  \/ \E t \in Types \cup {Expose}, i \in 0..ids : Remove(t, i)

Spec == Init /\ [][Next]_vars

-----------------------------------------------------------------------------
(* Every list holds handlers that were added, no handler is in two lists,  *)
(* and only handlers in a list are marked as deleted.                      *)
TypeOK ==
  /\ handlers \in [Types -> SUBSET (1..ids)]
  /\ \A t, u \in Types : t # u => handlers[t] \cap handlers[u] = {}
  /\ xwindow \in [Ids -> Windows \cup {None}]
  /\ deleted \subseteq Linked
  /\ flags \subseteq Types
  /\ ids \in 0..MaxIds
  /\ frames \in Seq(Frames)

\* What a frame points at is in the list of its event's type.
HoldsLinked(f) ==
  /\ f.at \in Ids => f.type \in Types /\ f.at \in handlers[f.type]
  /\ f.next # NULL => f.type \in Types /\ f.next \in handlers[f.type]

(* No walk holds a pointer to a freed handler: neither the handler a frame *)
(* is in (call_handlers_for_event reads i->func after the call) nor the    *)
(* next one it saved before the call, whatever was removed and however     *)
(* deep events were nested in between.                                     *)
NoFreedHandler == \A k \in 1..Len(frames) : HoldsLinked(frames[k])

(* An event reaches every handler that was there and answered to its       *)
(* window when the walk began, unless it was removed before its turn: call *)
(* backs that return False, nested events and removals hide none.          *)
EveryHandlerCalled ==
  \A k \in 1..Len(frames) :
    frames[k].at = NULL /\ frames[k].next = NULL
      => frames[k].due \subseteq frames[k].called \cup deleted

(* When the outermost event is done, no removed handler is left in the     *)
(* lists whose flag a removal sets, that is, in all but that for damage.   *)
SweptAtBottom ==
  [][Len(frames) = 1 /\ frames' = << >>
       => \A t \in Types \ {DamageNotify} : handlers'[t] \cap deleted' = {}]_vars

\* The handlers in control of the frames; a frame between calls has none.
Calls ==
  [k \in 1..(IF Running THEN Len(frames) ELSE Len(frames) - 1) |-> frames[k].at]

Registry == INSTANCE HandlerRegistry WITH
  issued <- 1..ids,
  registered <- Linked \ deleted,
  running <- Calls

(* Deferred deletion is invisible: a removal takes effect at once, a       *)
(* handler is only called while it is registered, calls nest.              *)
ImplementsRegistry == Registry!Spec
=============================================================================
