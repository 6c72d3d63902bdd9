------------------------------- MODULE Pings -------------------------------
(***************************************************************************)
(* How the window manager closes a window and finds out that an            *)
(* application hangs: mb_wm_client_deliver_delete and the ping functions   *)
(* of core/mb-wm-client.c, mb_wm_handle_ping_reply and                     *)
(* mb_wm_handle_hang_client of core/mb-window-manager.c, and the timeouts  *)
(* of the main loop, which are GLib's (the only main loop the build        *)
(* offers).                                                                *)
(*                                                                         *)
(* A client whose window is asked to close is pinged; it has ping_timeout  *)
(* to answer.  The timeout calls client_hang, a method of the program that *)
(* uses the library.  The method may take its time in a main loop of its   *)
(* own, in which events are handled and other timeouts fire: its calls are *)
(* the frames of a stack.                                                  *)
(*                                                                         *)
(* Windows are mapped and managed from the start, and an unmanaged one     *)
(* does not come back.  Time is left out: a timeout may fire as soon as it *)
(* is added.                                                               *)
(***************************************************************************)
EXTENDS Integers, Sequences, FiniteSets, SequencesExt

CONSTANTS
  Clients,
  Deleting,    \* clients that take part in WM_DELETE_WINDOW
  Own,         \* clients of the window manager's own process
  Remote,      \* clients on another host, or with no _NET_WM_PID
  Reparenting, \* clients whose fullscreen state changes
  Hanging,     \* clients whose application may hang for a while
  Stuck,       \* clients whose application hangs from the start
  Switched,    \* clients that a task switcher closes
  MaxFrames,   \* bound: calls of client_hang in one another
  MaxInbox,    \* bound: messages an application has not read
  MaxQueue     \* bound: nobody adds events of a client to as many unhandled ones

ASSUME PingsAssumption ==
  /\ IsFiniteSet(Clients)
  /\ Deleting \subseteq Clients /\ Own \subseteq Clients /\ Remote \subseteq Clients
  /\ Reparenting \subseteq Clients /\ Hanging \subseteq Clients
  /\ Stuck \subseteq Clients /\ Switched \subseteq Clients
  /\ MaxFrames \in Nat \ {0} /\ MaxInbox \in Nat \ {0} /\ MaxQueue \in [Clients -> Nat \ {0}]

VARIABLES
  app,     \* the application of each window: "up", "hung", "killed" or "gone"
  inbox,   \* the messages it has not read
  queue,   \* the events the window manager has not handled
  client,  \* the client of each window
  sources, \* the timeouts of the main loop
  frames   \* the calls of client_hang that have not returned, innermost last

vars == <<app, inbox, queue, client, sources, frames>>

-----------------------------------------------------------------------------
(* The main loop's timeouts. *)

\* Ids are used again here only when nothing refers to them: GLib counts up.
Ids == 1..(Cardinality(Clients) + MaxFrames)
Source(id, c) == [id |-> id, client |-> c]
Firing == {frames[i].source : i \in DOMAIN frames}
IdsInUse == {s.id : s \in sources \cup Firing} \cup {client[c].pingId : c \in Clients}

FreshId == CHOOSE id \in Ids : id \notin IdsInUse

Without(id) == {s \in sources : s.id # id}

-----------------------------------------------------------------------------
(* Clients.  listed: in wm->clients; refs: the reference count, 0 once it is
   freed; pingId: ping_cb_id, 0 for none; skips: skip_unmaps. *)

NewClient == [listed |-> TRUE, refs |-> 1, pingId |-> 0, skips |-> 0]

Pinged(c) == client[c].pingId # 0

Room(c) == Len(SelectSeq(queue, LAMBDA e : e.client = c)) < MaxQueue[c]

Event(type, c, by) == [type |-> type, client |-> c, by |-> by]

\* Its connection breaks: the X server destroys its window.
Closing(c) == <<Event("Unmap", c, "app"), Event("Destroy", c, "app")>>

\* mb_wm_client_ping_start, after the delete message.
PingStart(c) ==
  IF Pinged(c)
  THEN /\ inbox' = [inbox EXCEPT ![c] = Append(@, "delete")]
       /\ UNCHANGED <<client, sources>>
  ELSE /\ client' = [client EXCEPT ![c].pingId = FreshId]
       /\ sources' = sources \cup {Source(FreshId, c)}
       /\ inbox' = [inbox EXCEPT ![c] = @ \o <<"delete", "ping">>]

\* mb_wm_client_shutdown: kill, or XKillClient.  The window manager does not
\* kill itself.
Shutdown(c) ==
  IF c \in Own \/ app[c] = "gone" THEN UNCHANGED <<app, queue>>
  ELSE IF c \in Remote
       THEN /\ app' = [app EXCEPT ![c] = "gone"]
            /\ queue' = queue \o Closing(c)
       ELSE /\ app' = [app EXCEPT ![c] = "killed"]
            /\ UNCHANGED queue

\* mb_wm_client_deliver_delete, from the close button of a managed client.
Close(c) ==
  /\ client[c].listed
  /\ Len(inbox[c]) < MaxInbox
  /\ Room(c)
  /\ IF c \in Deleting
     THEN PingStart(c) /\ UNCHANGED <<app, queue>>
     ELSE Shutdown(c) /\ UNCHANGED <<client, sources, inbox>>
  /\ UNCHANGED frames

\* mb_wm_sync makes a window fullscreen, or not: it is reparented.
Reparent(c) ==
  /\ c \in Reparenting
  /\ client[c].listed /\ app[c] # "gone"
  /\ Room(c)
  /\ queue' = Append(queue, Event("Unmap", c, "reparent"))
  /\ client' = [client EXCEPT ![c].skips = @ + 1]
  /\ UNCHANGED <<app, inbox, sources, frames>>

-----------------------------------------------------------------------------
(* Applications. *)

Message(c) == Head(inbox[c])

\* It answers a ping by sending it to the root window; asked to close, it
\* withdraws or destroys its window, or does nothing.
Read(c) ==
  /\ app[c] = "up"
  /\ inbox[c] # << >>
  /\ Room(c)
  /\ inbox' = [inbox EXCEPT ![c] = Tail(@)]
  /\ queue' \in IF Message(c) = "ping"
                THEN {Append(queue, Event("Reply", c, "app"))}
                ELSE {queue, Append(queue, Event("Unmap", c, "app")), queue \o Closing(c)}
  /\ app' = IF queue' = queue \o Closing(c) THEN [app EXCEPT ![c] = "gone"] ELSE app
  /\ UNCHANGED <<client, sources, frames>>

Hang(c) ==
  /\ c \in Hanging
  /\ app[c] = "up"
  /\ app' = [app EXCEPT ![c] = "hung"]
  /\ UNCHANGED <<inbox, queue, client, sources, frames>>

Recover(c) ==
  /\ c \in Hanging
  /\ app[c] = "hung"
  /\ app' = [app EXCEPT ![c] = "up"]
  /\ UNCHANGED <<inbox, queue, client, sources, frames>>

\* The X server finds the connection of a killed process broken.
Disconnect(c) ==
  /\ app[c] = "killed"
  /\ app' = [app EXCEPT ![c] = "gone"]
  /\ inbox' = [inbox EXCEPT ![c] = << >>]
  /\ queue' = queue \o Closing(c)
  /\ UNCHANGED <<client, sources, frames>>

\* _NET_CLOSE_WINDOW from a task switcher.
AskToShut(c) ==
  /\ c \in Switched
  /\ app[c] # "gone"
  /\ Room(c)
  /\ queue' = Append(queue, Event("NetClose", c, "pager"))
  /\ UNCHANGED <<app, inbox, client, sources, frames>>

-----------------------------------------------------------------------------
(* The window manager's handlers. *)

Receive(type) == queue # << >> /\ Head(queue).type = type
Done == queue' = Tail(queue)

\* Mutant: the timeout outlives the client.
Unref_KeepsTimeout(c, k) ==
  /\ client' = [client EXCEPT ![c] = IF k.refs > 1 THEN [k EXCEPT !.refs = @ - 1]
                                     ELSE [k EXCEPT !.refs = 0, !.pingId = 0]]
  /\ UNCHANGED sources

\* mb_wm_object_unref, with k the client as it stands; mb_wm_client_destroy
\* takes the timeout away.
Unref(c, k) ==
  IF k.refs > 1
  THEN /\ client' = [client EXCEPT ![c] = [k EXCEPT !.refs = @ - 1]]
       /\ sources' = IF k.pingId = client[c].pingId THEN sources
                     ELSE Without(client[c].pingId)
  ELSE /\ client' = [client EXCEPT ![c] = [k EXCEPT !.refs = 0, !.pingId = 0]]
       /\ sources' = Without(client[c].pingId)

\* mb_wm_client_ping_stop
PingStop(c) ==
  /\ client' = [client EXCEPT ![c].pingId = 0]
  /\ sources' = Without(client[c].pingId)

\* Mutant: the program is told that the client responds, but it stays watched.
HandleReply_KeepsWatching ==
  /\ Receive("Reply")
  /\ Done
  /\ UNCHANGED <<app, inbox, client, sources, frames>>

HandleReply ==
  /\ Receive("Reply")
  /\ LET c == Head(queue).client
     IN  IF client[c].listed THEN PingStop(c) ELSE UNCHANGED <<client, sources>>
  /\ Done
  /\ UNCHANGED <<app, inbox, frames>>

\* An unmap stops the ping before it is known whether the unmap is to be
\* skipped.  One that is not skipped unmanages the client.
HandleUnmap ==
  /\ Receive("Unmap")
  /\ LET c == Head(queue).client
         k == [client[c] EXCEPT !.pingId = 0]
     IN  CASE ~client[c].listed -> UNCHANGED <<client, sources>>
           [] client[c].listed /\ k.skips > 0 ->
                /\ client' = [client EXCEPT ![c] = [k EXCEPT !.skips = @ - 1]]
                /\ sources' = Without(client[c].pingId)
           [] OTHER -> Unref(c, [k EXCEPT !.listed = FALSE])
  /\ Done
  /\ UNCHANGED <<app, inbox, frames>>

HandleDestroy ==
  /\ Receive("Destroy")
  /\ LET c == Head(queue).client
     IN  IF client[c].listed THEN Unref(c, [client[c] EXCEPT !.listed = FALSE])
         ELSE UNCHANGED <<client, sources>>
  /\ Done
  /\ UNCHANGED <<app, inbox, frames>>

\* _NET_CLOSE_WINDOW, without the bit that spares a client below another.
HandleNetClose ==
  /\ Receive("NetClose")
  /\ LET c == Head(queue).client
     IN  /\ app' = IF client[c].listed /\ c \notin Own /\ app[c] # "gone"
                   THEN [app EXCEPT ![c] = IF c \in Remote THEN "gone" ELSE "killed"]
                   ELSE app
         /\ queue' = IF app'[c] = "gone" /\ app[c] # "gone" THEN Tail(queue) \o Closing(c)
                     ELSE Tail(queue)
  /\ UNCHANGED <<inbox, client, sources, frames>>

\* mb_wm_client_ping_timeout_cb up to the call of client_hang.  GLib does not
\* dispatch a source from within itself.
Fire(c) ==
  /\ Len(frames) < MaxFrames
  /\ \E s \in sources \ Firing :
       /\ s.client = c
       /\ frames' = Append(frames, [client |-> c, source |-> s])
  /\ client' = [client EXCEPT ![c].refs = @ + 1]
  /\ UNCHANGED <<app, inbox, queue, sources>>

\* Mutant: the client is still pinged when the program has handled its hang.
HangHandled_KeepsPing(handled) ==
  /\ frames # << >>
  /\ LET c == Last(frames).client
     IN  /\ IF ~handled /\ client[c].refs > 1 THEN Shutdown(c) ELSE UNCHANGED <<app, queue>>
         /\ client' = [client EXCEPT ![c].refs = @ - 1]
  /\ sources' = sources \ {Last(frames).source}
  /\ frames' = Front(frames)
  /\ UNCHANGED inbox

\* The rest of mb_wm_handle_hang_client, and the end of the timeout: the
\* client is shut down unless the program says that it has handled the hang,
\* or dropped the client meanwhile.
HangHandled(handled) ==
  /\ frames # << >>
  /\ LET c == Last(frames).client
         k == [client[c] EXCEPT !.pingId = 0]
     IN  /\ IF ~handled /\ k.refs > 1 THEN Shutdown(c) ELSE UNCHANGED <<app, queue>>
         /\ client' = [client EXCEPT ![c] = [k EXCEPT !.refs = @ - 1]]
         /\ sources' = Without(client[c].pingId) \ {Last(frames).source}
  /\ frames' = Front(frames)
  /\ UNCHANGED inbox

\* A call of client_hang returns, and so does the timeout.
Return(depth) ==
  /\ Len(frames) = depth
  /\ \E handled \in BOOLEAN : HangHandled(handled)

-----------------------------------------------------------------------------
Init ==
  /\ app = [c \in Clients |-> IF c \in Stuck THEN "hung" ELSE "up"]
  /\ inbox = [c \in Clients |-> << >>]
  /\ queue = << >>
  /\ client = [c \in Clients |-> NewClient]
  /\ sources = {}
  /\ frames = << >>

Handle ==
  \/ HandleReply \/ HandleUnmap \/ HandleDestroy \/ HandleNetClose

Next ==
  \/ \E c \in Clients :
       \/ Close(c) \/ Reparent(c) \/ AskToShut(c)
       \/ Read(c) \/ Hang(c) \/ Recover(c) \/ Disconnect(c)
       \/ Fire(c)
  \/ \E depth \in 1..MaxFrames : Return(depth)
  \/ Handle

\* The main loop goes on: it handles the events and dispatches the timeouts.
\* A timeout stays due while MaxFrames keeps it from firing.  client_hang
\* ends the loop it runs sooner or later, even when other timeouts fire in it
\* again and again.
Fairness ==
  /\ WF_vars(Handle)
  /\ \A c \in Clients : SF_vars(Fire(c))
  /\ \A depth \in 1..MaxFrames : SF_vars(Return(depth))

Spec == Init /\ [][Next]_vars
FairSpec == Spec /\ Fairness

-----------------------------------------------------------------------------
(* Properties. *)

\* A client's ping_cb_id and the main loop's timeouts agree, whatever the
\* handlers do while client_hang runs: no timeout can fire for a freed client,
\* none is lost track of, and no client waits for one that is gone.
TimeoutsMatch ==
  /\ \A s \in sources : /\ client[s.client].refs > 0
                        /\ s \in Firing \/ client[s.client].pingId = s.id
  /\ \A c \in Clients : Pinged(c) => Source(client[c].pingId, c) \in sources
  /\ \A i \in DOMAIN frames : client[frames[i].client].refs > 0

Replies(c) ==
  {i \in DOMAIN queue : queue[i].client = c /\ queue[i].type \in {"Reply", "Unmap", "Destroy"}}

\* A client that is pinged, and whose hang is not being handled, has a ping
\* to answer, or the window manager has not got to its answer: an application
\* that has answered is not taken for hung.
OnlySilentArePinged ==
  \A c \in Clients :
    Pinged(c) /\ app[c] \in {"up", "hung"} /\ Source(client[c].pingId, c) \notin Firing
      => Contains(inbox[c], "ping") \/ Replies(c) # {}

\* Every ping comes to an end: an answer, the end of the window, or the hang
\* handled.
PingsEnd == \A c \in Clients : Pinged(c) ~> ~Pinged(c)
=============================================================================
