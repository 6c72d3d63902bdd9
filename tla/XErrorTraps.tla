---------------------------- MODULE XErrorTraps ----------------------------
(***************************************************************************)
(* The error traps of core/mb-wm-util.c.  An X error arrives long after    *)
(* the call that caused it returned; an asynchronous trap therefore leaves *)
(* behind a section, the range of request serials made under it, and an    *)
(* error is blamed on the section its serial falls in.  A section without  *)
(* a message keeps its errors quiet.                                       *)
(*                                                                         *)
(* Sections are a list, newest first; end is 0 while the trap is open.     *)
(***************************************************************************)
EXTENDS Naturals, Sequences, SequencesExt

Section(start, silent) == [start |-> start, end |-> 0, silent |-> silent]

NoSection == [start |-> 0, end |-> 0, silent |-> FALSE]

\* mb_wm_util_async_trap_x_errors_full, serial being NextRequest: a trap that
\* was left open ends here.
Trapped(secs, serial, silent) ==
  <<Section(serial, silent)>> \o
  [i \in DOMAIN secs |-> IF i = 1 /\ secs[1].end = 0
                         THEN [secs[1] EXCEPT !.end = serial]
                         ELSE secs[i]]

\* Mutant: the comparison the other way round.
Recent_Inverted(secs, last) == SelectSeq(secs, LAMBDA s : s.end < last)

\* mb_wm_util_async_x_error_free_old: the sections that may still be blamed
\* when the server was last heard of at request last.
Recent(secs, last) == SelectSeq(secs, LAMBDA s : s.end >= last)

\* mb_wm_util_async_untrap_x_errors_full: the newest section ends, whichever
\* trap it is of.
Untrapped(secs, serial, last) ==
  IF secs = << >> THEN secs
  ELSE Recent([secs EXCEPT ![1].end = serial], last)

\* async_error_handler: the newest section that covers the request.
Blamed(secs, serial) ==
  LET hit == {i \in DOMAIN secs : /\ secs[i].start <= serial
                                  /\ secs[i].end = 0 \/ secs[i].end > serial}
  IN  IF hit = {} THEN NoSection
      ELSE secs[CHOOSE i \in hit : \A j \in hit : i <= j]
=============================================================================
