------------------------------ MODULE XasTasks ------------------------------
(***************************************************************************)
(* The asynchronous requests of core/xas.c.  A request leaves a task in    *)
(* the list of pending tasks and returns its serial as a cookie; Xlib      *)
(* calls a handler for every reply and error it reads, which moves the     *)
(* task of that serial to the completed ones, where the caller finds it    *)
(* by its cookie.  Allocation failures are left out.                       *)
(***************************************************************************)
EXTENDS Naturals, Sequences, SequencesExt

NoTasks == [pending |-> << >>, completed |-> << >>]

\* XasTask: kind and subject (window and property) stand for the request.
Task(serial, kind, subject) ==
  [serial |-> serial, kind |-> kind, subject |-> subject, error |-> "none",
   value |-> << >>]

\* xas_get_property, _window_attributes and _geometry, after the request was
\* put out as request number request.
Requested(ctx, request, kind, subject) ==
  [ctx EXCEPT !.pending = Append(@, Task(request, kind, subject))]

Of(tasks, serial) == {i \in DOMAIN tasks : tasks[i].serial = serial}
Found(tasks, serial) == tasks[CHOOSE i \in Of(tasks, serial) :
                                 \A j \in Of(tasks, serial) : i <= j]

\* xas_async_handler claims the answers to pending tasks, errors included.
Claims(ctx, serial) == Of(ctx.pending, serial) # {}

\* The handlers of the three kinds keep the error or the data of the answer;
\* a property that is absent is data that is NULL.
Answered(ctx, answer) ==
  LET t == Found(ctx.pending, answer.serial)
  IN  [pending   |-> SelectSeq(ctx.pending, LAMBDA u : u # t),
       completed |-> Append(ctx.completed,
                            [t EXCEPT !.error = answer.error, !.value = answer.value])]

\* xas_have_reply
HaveReply(ctx, cookie) == Of(ctx.completed, cookie) # {}

\* xas_get_property_reply, _window_attributes_reply and _geometry_reply: the
\* task is given to the caller and freed.
Collected(ctx, cookie) ==
  [ctx EXCEPT !.completed = SelectSeq(@, LAMBDA u : u.serial # cookie)]
=============================================================================
