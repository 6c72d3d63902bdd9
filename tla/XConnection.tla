---------------------------- MODULE XConnection -----------------------------
(***************************************************************************)
(* The window manager at its end of the X connection: the windows whose    *)
(* properties it reads (WindowProperties), the requests it makes without   *)
(* waiting (XasTasks), the errors they may cause later (XErrorTraps) and   *)
(* the keys it grabs (KeyBindings).                                        *)
(*                                                                         *)
(* Requests are numbered.  The X server takes them one by one, in between  *)
(* the applications change and destroy their windows; its answers wait     *)
(* unread until the program waits for one of them or is idle.  todo is     *)
(* what the handler that runs has still to do, a list of Xlib calls.       *)
(***************************************************************************)
EXTENDS WindowProperties, XErrorTraps, XasTasks, KeyBindings, TLC

CONSTANTS
  Windows,      \* windows of applications
  Initially,    \* the properties of a window when it is created
  Settable,      \* the values an application may give to some properties
  MaxUses,      \* bound on the times windows are used
  MaxBindings   \* bound on the times keys are bound and unbound

VARIABLES
  request,    \* dpy->request, the number of the last request
  queue,      \* the requests the server has not taken yet
  answers,    \* its answers that Xlib has not read yet
  lastRead,   \* LastKnownRequestProcessed
  events,     \* what Xlib has read for the handlers
  sections,   \* code_section_list
  trapped,    \* "off", or the TrappedErrorCode of a synchronous trap
  tasks,      \* the XasContext
  cookies,    \* the cookies of the properties being read
  todo,       \* what is left to do of the running handler
  server,     \* windows that exist and that are to come, their properties,
              \* those selected for property events, and who grabbed what
  client,     \* what the program has of each window
  copy,       \* the MBWMClientWindow of each
  bindings,   \* keys->bindings
  exited,     \* mb_wm_util_fatal_error was called
  heard,      \* the last error handled: its request's section and who took it
  unseen,     \* properties changed after they were read and before events
              \* were selected (history)
  left        \* how often windows may still be used, or keys bound (bound)

connection == <<request, queue, answers, lastRead, events>>
program == <<sections, trapped, tasks, cookies, todo, client, copy, bindings, exited>>
vars == <<connection, program, server, heard, unseen, left>>

-----------------------------------------------------------------------------
(* The calls handlers are made of. *)

Sync == [do |-> "sync"]
Await(serial) == [do |-> "await", serial |-> serial]
Send(kind, subject) == [do |-> "send", kind |-> kind, subject |-> subject]
Ask(k, w) == [do |-> "ask", kind |-> k, subject |-> w]
Trap == [do |-> "trap"]
Untrap(failure) == [do |-> "untrap", failure |-> failure]
Open(silent) == [do |-> "open", silent |-> silent]
Close == [do |-> "close"]
Look(k, w) == [do |-> "look", kind |-> k, subject |-> w]
Return(w, ok) == [do |-> "return", subject |-> w, ok |-> ok]
Bind(key) == [do |-> "bind", key |-> key]

\* mb_wm_root_window_init_attributes
SelectRoot == << Sync, Trap, Send("selectroot", None), Sync, Untrap("exit") >>

Asks(w, flags) == SelectSeq([i \in DOMAIN Asked |-> Ask(Asked[i], w)],
                            LAMBDA c : FlagOf(c.kind) \in flags)
Looks(w, flags) == SelectSeq([i \in DOMAIN Looked |-> Look(Looked[i], w)],
                             LAMBDA c : FlagOf(c.kind) \in flags)

\* mb_wm_client_window_sync_properties
Fetch(w, flags) ==
  Asks(w, flags) \o << Sync >> \o Looks(w, flags) \o << Return(w, TRUE) >>

\* A section of code around one request.
InSection(silent, kind, w) == << Open(silent), Send(kind, w), Close >>

\* Mutant: the properties are read before events are selected.
Realizing_ReadsFirst(w) ==
  << Send("reparent", w) >> \o Fetch(w, {"TRANSIENCY", "LIVE_BACKGROUND"})
  \o << Send("select", w), Send("saveset", w) >>

\* mb_wm_client_base_realize, the requests about the window itself.
Realizing(w) ==
  << Send("reparent", w), Send("select", w) >>
  \o Fetch(w, {"TRANSIENCY", "LIVE_BACKGROUND"}) \o << Send("saveset", w) >>

\* key_binding_set_grab: the trap is removed before the grab was answered.
Grabbing(key) ==
  FoldLeft(LAMBDA script, c :
             script \o << Sync, Trap, Send("grab", c), Untrap("fail") >>,
           << >>, Combinations(key))
  \o << Bind(key) >>

Ungrabbing(key) ==
  [i \in DOMAIN Combinations(key) |-> Send("ungrab", Combinations(key)[i])]

-----------------------------------------------------------------------------
(* The program does the next call of its handler. *)

Next_(do) == todo # << >> /\ Head(todo).do = do
Rest == Tail(todo)

\* The section of the code a request is made in, for heard only.
HereSection == IF trapped # "off" THEN "trap"
               ELSE IF sections # << >> /\ sections[1].end = 0
                    THEN IF sections[1].silent THEN "silent" ELSE "warn"
                    ELSE "none"

Put(kind, subject) ==
  /\ request' = request + 1
  /\ queue' = Append(queue, [serial |-> request + 1, kind |-> kind,
                             subject |-> subject, section |-> HereSection])
  /\ UNCHANGED <<answers, lastRead, events>>

DoSend ==
  /\ Next_("send")
  /\ Put(Head(todo).kind, Head(todo).subject)
  /\ todo' = Rest
  /\ UNCHANGED <<sections, trapped, tasks, cookies, client, copy, bindings, exited,
                 server, heard, unseen, left>>

DoAsk ==
  /\ Next_("ask")
  /\ LET k == Head(todo).kind  w == Head(todo).subject
     IN  /\ Put(k, w)
         /\ tasks' = Requested(tasks, request', k, w)
         /\ cookies' = cookies @@ (k :> request')
  /\ todo' = Rest
  /\ UNCHANGED <<sections, trapped, client, copy, bindings, exited, server, heard,
                 unseen, left>>

\* XSync
DoSync ==
  /\ Next_("sync")
  /\ Put("sync", None)
  /\ todo' = << Await(request + 1) >> \o Rest
  /\ UNCHANGED <<sections, trapped, tasks, cookies, client, copy, bindings, exited,
                 server, heard, unseen, left>>

DoAwait ==
  /\ Next_("await")
  /\ lastRead >= Head(todo).serial
  /\ todo' = Rest
  /\ UNCHANGED <<connection, sections, trapped, tasks, cookies, client, copy,
                 bindings, exited, server, heard, unseen, left>>

\* mb_wm_util_trap_x_errors and mb_wm_util_untrap_x_errors; an error makes the
\* window manager exit, or gives the binding up.
DoTrap ==
  \/ /\ Next_("trap")
     /\ trapped' = "none"
     /\ todo' = Rest
     /\ UNCHANGED <<connection, sections, tasks, cookies, client, copy, bindings,
                    exited, server, heard, unseen, left>>
  \/ /\ Next_("untrap")
     /\ trapped' = "off"
     /\ todo' = IF trapped = "none" THEN Rest ELSE << >>
     /\ exited' = (trapped # "none" /\ Head(todo).failure = "exit")
     /\ UNCHANGED <<connection, sections, tasks, cookies, client, copy, bindings,
                    server, heard, unseen, left>>

\* The section of the code of an asynchronous trap begins and ends.
DoSection ==
  /\ \/ Next_("open") /\ sections' = Trapped(sections, request + 1, Head(todo).silent)
     \/ Next_("close") /\ sections' = Untrapped(sections, request + 1, lastRead)
  /\ todo' = Rest
  /\ UNCHANGED <<connection, trapped, tasks, cookies, client, copy, bindings, exited,
                 server, heard, unseen, left>>

DoBind ==
  /\ Next_("bind")
  /\ bindings' = Append(bindings, Head(todo).key)
  /\ todo' = Rest
  /\ UNCHANGED <<connection, sections, trapped, tasks, cookies, client, copy, exited,
                 server, heard, unseen, left>>

\* The answer to one request is looked at, a missing one being taken for an
\* absent property.  An error ends the reading; unless it is that of the
\* geometry, the function then returns False.
DoLook ==
  /\ Next_("look")
  /\ LET w == Head(todo).subject
         k == Head(todo).kind
         error == HaveReply(tasks, cookies[k])
                  /\ Found(tasks.completed, cookies[k]).error # "none"
         value == IF HaveReply(tasks, cookies[k])
                  THEN Found(tasks.completed, cookies[k]).value ELSE None
     IN  /\ tasks' = Collected(tasks, cookies[k])
         /\ cookies' = [l \in DOMAIN cookies \ {k} |-> cookies[l]]
         /\ IF error
            THEN /\ copy' = [copy EXCEPT ![w] = Failed(k, @)]
                 /\ todo' = << Return(w, k = "GEOMETRY") >>
                            \o SelectSeq(Rest, LAMBDA c : c.do \notin {"look", "return"})
            ELSE /\ copy' = [copy EXCEPT ![w] = Read(k, @, value)]
                 /\ todo' = Rest
  /\ UNCHANGED <<connection, sections, trapped, client, bindings, exited, server, heard,
                 unseen, left>>

\* handle skipped replies to avoid memory leaks
Drained(ctx) == FoldSet(LAMBDA k, c : Collected(c, cookies[k]), ctx, DOMAIN cookies)

\* Mutant: a window whose properties could be read is given up.
DoReturn_Inverted ==
  /\ Next_("return")
  /\ LET w == Head(todo).subject
     IN  IF client[w] # "new" THEN UNCHANGED <<client, copy>>
         ELSE /\ client' = [client EXCEPT ![w] = IF Head(todo).ok THEN "none" ELSE "managed"]
              /\ copy' = IF Head(todo).ok THEN [copy EXCEPT ![w] = FreshWindow] ELSE copy
  /\ tasks' = Drained(tasks)
  /\ cookies' = << >>
  /\ todo' = Rest
  /\ UNCHANGED <<connection, sections, trapped, bindings, exited, server, heard, unseen, left>>

\* The end of mb_wm_client_window_sync_properties, whose result only
\* mb_wm_client_window_init heeds.
DoReturn ==
  /\ Next_("return")
  /\ LET w == Head(todo).subject
     IN  IF client[w] # "new" THEN UNCHANGED <<client, copy>>
         ELSE /\ client' = [client EXCEPT ![w] = IF Head(todo).ok THEN "managed" ELSE "none"]
              /\ copy' = IF Head(todo).ok THEN copy ELSE [copy EXCEPT ![w] = FreshWindow]
  /\ tasks' = Drained(tasks)
  /\ cookies' = << >>
  /\ todo' = Rest
  /\ UNCHANGED <<connection, sections, trapped, bindings, exited, server, heard, unseen, left>>

-----------------------------------------------------------------------------
(* Xlib reads an answer while the program waits or is idle.  Errors go to  *)
(* the handler of tasks first, then to that of a synchronous trap, then to *)
(* async_error_handler.                                                    *)

\* What the server does before the program waits for it cannot be told from
\* what it does then, because it only ever answers requests in their order; nor
\* can answers that are read at once from those read when the last has come.
Listening == todo = << >> \/ Next_("await")

Blamer(answer) ==
  IF trapped # "off" THEN "trap"
  ELSE LET s == Blamed(sections, answer.serial)
       IN  IF s = NoSection THEN "none" ELSE IF s.silent THEN "silent" ELSE "warn"

ReadAnswer ==
  /\ answers # << >>
  /\ ~exited
  /\ \/ todo = << >>
     \/ Next_("await") /\ Last(answers).serial >= Head(todo).serial
  /\ LET a == Head(answers)
         claimed == a.is # "event" /\ Claims(tasks, a.serial)
         error == a.is = "error" /\ ~claimed
     IN  /\ answers' = Tail(answers)
         /\ lastRead' = a.serial
         /\ events' = IF a.is = "event" THEN Append(events, a) ELSE events
         /\ tasks' = IF claimed THEN Answered(tasks, a) ELSE tasks
         /\ trapped' = IF error /\ trapped # "off" THEN a.error ELSE trapped
         /\ heard' = IF error THEN [kind |-> a.kind, from |-> a.section, by |-> Blamer(a)]
                     ELSE heard
  /\ UNCHANGED <<request, queue, sections, cookies, todo, client, copy, bindings, exited,
                 server, unseen, left>>

-----------------------------------------------------------------------------
(* The X server and the applications. *)

Processed == request - Len(queue)

Reply(r, value) == << [is |-> "reply", serial |-> r.serial, kind |-> r.kind,
                       error |-> "none", value |-> value] >>
Error(r, code) == << [is |-> "error", serial |-> r.serial, kind |-> r.kind,
                      section |-> r.section, error |-> code, value |-> None] >>
Event(kind, w, k) == << [is |-> "event", serial |-> Processed, kind |-> kind,
                         window |-> w, property |-> k] >>

AnswerTo(r) ==
  CASE r.kind = "sync" -> Reply(r, None)
    [] r.kind = "selectroot" -> IF server.rival THEN Error(r, "BadAccess") ELSE << >>
    [] r.kind = "grab" -> IF r.subject \in server.taken THEN Error(r, "BadAccess") ELSE << >>
    [] r.kind = "ungrab" -> << >>
    [] OTHER -> IF r.subject \notin server.alive THEN Error(r, "BadWindow")
                ELSE IF r.kind \in DOMAIN Initially
                     THEN Reply(r, server.props[r.subject][r.kind]) ELSE << >>

\* The server takes a request.
Serve ==
  /\ queue # << >> /\ Listening
  /\ LET r == Head(queue)
     IN  /\ queue' = Tail(queue)
         /\ answers' = answers \o AnswerTo(r)
         /\ server' = [server EXCEPT
              !.root     = @ \/ (r.kind = "selectroot" /\ ~server.rival),
              !.selected = @ \cup IF r.kind = "select" /\ r.subject \in server.alive
                                  THEN {r.subject} ELSE {},
              !.grabs    = IF r.kind = "ungrab" THEN @ \ {r.subject}
                           ELSE IF r.kind = "grab" /\ r.subject \notin server.taken
                                THEN @ \cup {r.subject} ELSE @]
  /\ UNCHANGED <<request, lastRead, events, program, heard, unseen, left>>

Happens(event) ==
  /\ Listening
  /\ answers' = answers \o event
  /\ UNCHANGED <<request, queue, lastRead, events, program, heard>>

\* An application creates a window and asks for it to be mapped.
AppMap(w) ==
  /\ server.root /\ ~server.windowless
  /\ w \in server.coming
  /\ server' = [server EXCEPT !.alive = @ \cup {w}, !.coming = @ \ {w}]
  /\ Happens(Event("maprequest", w, None))
  /\ UNCHANGED <<unseen, left>>

AppSet(w, k, v) ==
  /\ w \in server.alive /\ server.props[w][k] # v
  /\ server' = [server EXCEPT !.props[w][k] = v]
  /\ Happens(IF w \in server.selected THEN Event("property", w, k) ELSE << >>)
  /\ unseen' = [unseen EXCEPT ![w] = IF w \in server.selected \/ client[w] = "none"
                                     THEN @ ELSE @ \cup {k}]
  /\ UNCHANGED left

AppDestroy(w) ==
  /\ w \in server.alive
  /\ server' = [server EXCEPT !.alive = @ \ {w}, !.selected = @ \ {w}]
  /\ Happens(Event("destroy", w, None))
  /\ UNCHANGED <<unseen, left>>

-----------------------------------------------------------------------------
(* The handlers of the window manager. *)

Idle == todo = << >> /\ ~exited

Run(script) ==
  /\ Idle
  /\ todo' = script
  /\ UNCHANGED <<request, queue, answers, lastRead, sections, trapped, tasks, cookies,
                 bindings, exited, server, heard>>

NextEvent(kind, w) ==
  /\ events # << >>
  /\ Head(events).kind = kind
  /\ Head(events).window = w
  /\ events' = Tail(events)

\* mb_wm_handle_map_request; a window that is managed is only activated.
HandleMapRequest(w) ==
  /\ NextEvent("maprequest", w)
  /\ Run(IF client[w] = "none" THEN Fetch(w, All) ELSE << >>)
  /\ client' = [client EXCEPT ![w] = IF @ = "none" THEN "new" ELSE @]
  /\ UNCHANGED <<copy, unseen, left>>

\* Mutant: a change of the title goes unnoticed.
Notified_NoName(w, k) ==
  IF client[w] \in {"managed", "realized"} THEN NotifiedFlags(k) \ {"NAME"} ELSE {}

\* What mb_wm_handle_property_notify reads again.
Notified(w, k) ==
  IF client[w] \in {"managed", "realized"} THEN NotifiedFlags(k) ELSE {}

HandlePropertyNotify(w) ==
  /\ NextEvent("property", w)
  /\ LET flags == Notified(w, Head(events).property)
     IN  Run(IF flags = {} THEN << >> ELSE Fetch(w, flags))
  /\ UNCHANGED <<client, copy, unseen, left>>

\* mb_wm_handle_destroy_notify and mb_wm_client_base_destroy
HandleDestroyNotify(w) ==
  /\ NextEvent("destroy", w)
  /\ Run(IF client[w] = "realized" THEN InSection(TRUE, "reparent", w) ELSE << >>)
  /\ client' = [client EXCEPT ![w] = "none"]
  /\ copy' = [copy EXCEPT ![w] = FreshWindow]
  /\ UNCHANGED <<unseen, left>>

\* mb_wm_sync realizes a new client.
Realize(w) ==
  /\ client[w] = "managed"
  /\ Run(Realizing(w))
  /\ client' = [client EXCEPT ![w] = "realized"]
  /\ UNCHANGED <<events, copy, unseen, left>>

\* The bound: what the program may do again and again is done so often only.
Counted == left > 0 /\ left' = left - 1

\* mb_wm_sync lets it sync its geometry; mb_wm_client_deliver_message.
UseWindow(w) ==
  /\ client[w] = "realized"
  /\ Counted
  /\ \/ Run(InSection(TRUE, "configure", w))
     \/ Run(InSection(FALSE, "sendevent", w))
  /\ UNCHANGED <<events, client, copy, unseen>>

\* mb_wm_keys_binding_add_with_spec, mb_wm_keys_binding_remove: a binding stays listed.
AddBinding(spec) ==
  /\ server.windowless /\ Counted
  /\ Accepts(spec)
  /\ Run(Grabbing(Key(spec)))
  /\ UNCHANGED <<events, client, copy, unseen>>

RemoveBinding(key) ==
  /\ server.windowless /\ Counted
  /\ key \in ToSet(bindings)
  /\ Run(Ungrabbing(key))
  /\ UNCHANGED <<events, client, copy, unseen>>

-----------------------------------------------------------------------------
Init ==
  /\ request = 0
  /\ queue = << >> /\ answers = << >> /\ lastRead = 0 /\ events = << >>
  /\ sections = << >> /\ trapped = "off"
  /\ tasks = NoTasks /\ cookies = << >>
  /\ todo = SelectRoot
  /\ server \in [alive : {{}}, coming : {Windows}, windowless : BOOLEAN,
                 props : {[w \in Windows |-> Initially]}, selected : {{}},
                 root : {FALSE}, rival : BOOLEAN, grabs : {{}},
                 taken : {{}} \cup {{Key(spec)} : spec \in Specs}]
  /\ server.windowless \/ server.taken = {}
  /\ client = [w \in Windows |-> "none"]
  /\ copy = [w \in Windows |-> FreshWindow]
  /\ bindings = << >>
  /\ exited = FALSE
  /\ heard = [kind |-> "none", from |-> "none", by |-> "none"]
  /\ unseen = [w \in Windows |-> {}]
  /\ left = IF server.windowless THEN MaxBindings ELSE MaxUses

\* The program goes on with the handler it is in.
Step == DoSend \/ DoAsk \/ DoSync \/ DoAwait \/ DoTrap \/ DoSection \/ DoBind
        \/ DoLook \/ DoReturn \/ ReadAnswer

Handle ==
  \/ \E w \in Windows :
       \/ HandleMapRequest(w) \/ HandlePropertyNotify(w) \/ HandleDestroyNotify(w)
       \/ Realize(w) \/ UseWindow(w)
  \/ \E spec \in Specs : AddBinding(spec) \/ RemoveBinding(Key(spec))

Applications ==
  \E w \in Windows :
    \/ AppMap(w) \/ AppDestroy(w)
    \/ \E k \in DOMAIN Settable : \E v \in Settable[k] : AppSet(w, k, v)

Next == Step \/ Serve \/ Handle \/ Applications

\* The server takes every request; the program, which does nothing else while a
\* handler runs, makes its next call; the main loop dispatches every event and
\* calls mb_wm_sync after it.
Fairness ==
  /\ WF_vars(Step) /\ WF_vars(Serve)
  /\ WF_vars(\E w \in Windows : \/ HandleMapRequest(w) \/ HandlePropertyNotify(w)
                                \/ HandleDestroyNotify(w) \/ Realize(w))

Spec == Init /\ [][Next]_vars /\ Fairness

-----------------------------------------------------------------------------
(* Properties *)

\* Errors and replies reach the code that asked, however late they arrive and
\* whatever runs by then.  A synchronous trap gets the errors of its own requests
\* only, and a section of code gets those made in it; the grab of a key is the
\* exception: its trap is gone by the time the error is read.  No reply is left
\* in the lists of xas.c between two handlers, also when a window vanishes at
\* any point of the reading of its properties.
AnswersReachAskers ==
  /\ heard.kind # "grab" => heard.by = heard.from
  /\ todo = << >> => tasks = NoTasks

\* Nothing about a window is under way between the server and the handlers.
Settled(w) ==
  /\ Idle /\ queue = << >>
  /\ client[w] = "realized" /\ w \in server.alive
  /\ \A i \in DOMAIN answers : answers[i].is # "event"
  /\ events = << >>

\* The properties whose changes are notified are known as they are, however
\* changes, requests and answers overlapped, unless the change came between the
\* first reading and the selection of events and is not read again by then.
CopyUpToDate ==
  \A w \in Windows : Settled(w) =>
    \A k \in DOMAIN Settable :
      \A flag \in NotifiedFlags(k) :
        ({l \in unseen[w] : FlagOf(l) = flag} = {}
           \/ flag \in {"TRANSIENCY", "LIVE_BACKGROUND"})
        => Refreshed(copy[w], {flag}, server.props[w]) = copy[w]

\* A grabbed combination has a binding that mb_wm_keys_press calls for it.
GrabsAnswered ==
  todo = << >> =>
    \A g \in server.grabs : \E i \in DOMAIN bindings : Matches(bindings[i], g)

\* A window that asks to be mapped is realized in the end unless it is
\* destroyed: no answer, error or wait on the way is lost.
MapsAnswered ==
  \A w \in Windows :
    w \in server.alive ~> client[w] = "realized" \/ w \notin server.alive
=============================================================================
