------------------------- MODULE EventDispatchProofs -------------------------
(***************************************************************************)
(* Proofs about EventDispatch, for any set of event types and windows and  *)
(* any bounds on handlers and nesting.                                     *)
(*                                                                         *)
(* The invariants follow from one fact: a list only shrinks when the last  *)
(* frame is left, so that whatever a walk points at or has yet to reach    *)
(* stays in the list until the walk is done.                               *)
(***************************************************************************)
EXTENDS EventDispatch, WellFoundedInduction, TLAPS

(* Every frame but the last is in a handler, which made the next frame.    *)
CallersInCall == \A k \in 1..(Len(frames) - 1) : frames[k].at # NULL

\* The due handlers neither called nor removed lie ahead of the walk.
DueLiesAhead(f) ==
  \A i \in f.due \ (f.called \cup deleted) :
    /\ f.type \in Types
    /\ i \in handlers[f.type]
    /\ xwindow[i] \in {None, f.xwin}
    /\ f.next # NULL
    /\ f.next <= i

DueAhead == \A k \in 1..Len(frames) : DueLiesAhead(frames[k])

IInv == TypeOK /\ NoFreedHandler /\ CallersInCall /\ DueAhead

-----------------------------------------------------------------------------
(* Lists *)

(* A set of ids that is not empty has a least element, the list's head.    *)
LEMMA LeastId ==
  ASSUME NEW S \in SUBSET Nat, S # {}
  PROVE  \E x \in S : \A y \in S : x <= y
<1> DEFINE Less == {ss \in Nat \X Nat : ss[1] < ss[2]}
<1>1. IsWellFoundedOn(Less, Nat)
  BY NatLessThanWellFounded DEF OpToRel
<1>2. \A x, y \in Nat : x < y => <<x, y>> \in Less
  OBVIOUS
<1> HIDE DEF Less
<1>3. PICK x \in S : \A y \in S : ~ (<<y, x>> \in Less)
  BY <1>1, WFMin
<1>4. \A y \in S : ~ (y < x)
  BY <1>2, <1>3
<1> QED BY <1>4

(* FirstOf finds the first link of a list that has one.                    *)
LEMMA FirstOfIsLeast ==
  ASSUME NEW S \in SUBSET Ids
  PROVE  /\ FirstOf(S) \in S \cup {NULL}
         /\ \A i \in S : FirstOf(S) # NULL /\ FirstOf(S) <= i
<1>1. CASE S = {}
  BY <1>1 DEF FirstOf
<1>2. CASE S # {}
  <2>1. S \in SUBSET Nat
    BY DispatchAssumption DEF Ids
  <2>2. \E x \in S : \A y \in S : x <= y
    BY <1>2, <2>1, LeastId
  <2>3. FirstOf(S) \in S /\ \A y \in S : FirstOf(S) <= y
    BY <1>2, <2>2 DEF FirstOf
  <2> QED BY <2>3 DEF Ids, NULL
<1> QED BY <1>1, <1>2

(* NextOf finds the link after one of the list, if there is any.           *)
LEMMA NextOfIsNext ==
  ASSUME NEW S \in SUBSET Ids, NEW i \in Ids
  PROVE  /\ NextOf(S, i) \in S \cup {NULL}
         /\ \A j \in S : j > i => NextOf(S, i) # NULL /\ NextOf(S, i) <= j
<1> DEFINE T == {j \in S : j > i}
<1>1. T \in SUBSET Ids
  OBVIOUS
<1> HIDE DEF T
<1>2. /\ FirstOf(T) \in T \cup {NULL}
      /\ \A j \in T : FirstOf(T) # NULL /\ FirstOf(T) <= j
  BY <1>1, FirstOfIsLeast
<1> QED BY <1>2 DEF T, NextOf

-----------------------------------------------------------------------------
(* Frames *)

(* Changing the innermost frame leaves the others as they are.             *)
LEMMA TopChangeKeepsIInv ==
  ASSUME IInv, frames # << >>, NEW f \in Frames, SetTop(f),
         HoldsLinked(f), DueLiesAhead(f),
         UNCHANGED <<handlers, xwindow, deleted, flags, ids>>
  PROVE  IInv'
<1>1. frames \in Seq(Frames)
  BY DEF IInv, TypeOK
<1>2. /\ frames' \in Seq(Frames)
      /\ Len(frames') = Len(frames)
      /\ \A k \in 1..Len(frames) :
           frames'[k] = IF k = Len(frames) THEN f ELSE frames[k]
  BY <1>1 DEF SetTop
<1>3. TypeOK'
  BY <1>2 DEF IInv, TypeOK, Linked
<1>4. NoFreedHandler'
  BY <1>2 DEF IInv, NoFreedHandler, HoldsLinked
<1>5. CallersInCall'
  BY <1>1, <1>2 DEF IInv, CallersInCall
<1>6. DueAhead'
  BY <1>2 DEF IInv, DueAhead, DueLiesAhead
<1> QED BY <1>3, <1>4, <1>5, <1>6 DEF IInv

(* A new frame is made by a handler of the innermost one.                  *)
LEMMA NewFrameKeepsIInv ==
  ASSUME IInv, Running, NEW f \in Frames, frames' = Append(frames, f),
         HoldsLinked(f), DueLiesAhead(f),
         UNCHANGED <<handlers, xwindow, deleted, flags, ids>>
  PROVE  IInv'
<1>1. frames \in Seq(Frames)
  BY DEF IInv, TypeOK
<1>2. /\ frames' \in Seq(Frames)
      /\ Len(frames') = Len(frames) + 1
      /\ \A k \in 1..Len(frames) : frames'[k] = frames[k]
      /\ frames'[Len(frames) + 1] = f
  BY <1>1
<1>3. TypeOK'
  BY <1>2 DEF IInv, TypeOK, Linked
<1>4. NoFreedHandler'
  BY <1>1, <1>2 DEF IInv, NoFreedHandler, HoldsLinked
<1>5. CallersInCall'
  BY <1>1, <1>2 DEF IInv, CallersInCall, Running, Top
<1>6. DueAhead'
  BY <1>1, <1>2 DEF IInv, DueAhead, DueLiesAhead
<1> QED BY <1>3, <1>4, <1>5, <1>6 DEF IInv

(* A walk begins at the head of its list, with all that is due ahead.      *)
LEMMA WalkBegins ==
  ASSUME TypeOK, NEW t \in Types \cup {Expose}, NEW w \in Windows
  PROVE  /\ Walk(t, w) \in Frames
         /\ HoldsLinked(Walk(t, w))
         /\ DueLiesAhead(Walk(t, w))
<1>1. CASE t \in Types
  <2>1. handlers[t] \in SUBSET Ids
    BY <1>1, DispatchAssumption DEF TypeOK, Ids
  <2>2. /\ FirstOf(handlers[t]) \in handlers[t] \cup {NULL}
        /\ \A i \in handlers[t] :
             FirstOf(handlers[t]) # NULL /\ FirstOf(handlers[t]) <= i
    BY <2>1, FirstOfIsLeast
  <2>3. NULL \notin Ids
    BY DEF NULL, Ids
  <2> QED BY <1>1, <2>1, <2>2, <2>3
          DEF Walk, Frames, HoldsLinked, DueLiesAhead, Answers
<1>2. CASE t = Expose
  BY <1>2, DispatchAssumption
     DEF Walk, Frames, HoldsLinked, DueLiesAhead, NULL, Ids
<1> QED BY <1>1, <1>2

-----------------------------------------------------------------------------
(* The inductive invariant *)

LEMMA InitIInv == Init => IInv
  BY DispatchAssumption
     DEF Init, IInv, TypeOK, NoFreedHandler, CallersInCall, DueAhead, Linked, Ids

LEMMA DispatchKeepsIInv ==
  ASSUME IInv, NEW t \in Types \cup {Expose}, NEW w \in Windows, Dispatch(t, w)
  PROVE  IInv'
<1>1. TypeOK
  BY DEF IInv
<1>2. CASE t = ClientMessage
  <2>1. /\ RootCall(w) \in Frames
        /\ HoldsLinked(RootCall(w))
        /\ DueLiesAhead(RootCall(w))
    BY <1>2 DEF RootCall, Frames, HoldsLinked, DueLiesAhead, NULL, RootWindow, Ids
  <2> QED BY <1>2, <2>1, NewFrameKeepsIInv DEF Dispatch
<1>3. CASE t # ClientMessage
  BY <1>1, <1>3, WalkBegins, NewFrameKeepsIInv DEF Dispatch
<1> QED BY <1>2, <1>3

LEMMA RootReturnsKeepsIInv ==
  ASSUME IInv, NEW handled \in BOOLEAN, RootReturns(handled)
  PROVE  IInv'
<1>1. TypeOK /\ frames # << >> /\ Top \in Frames /\ Top.at = RootWindow
  BY DEF IInv, TypeOK, RootReturns, Top
<1>2. HoldsLinked(Top) /\ DueLiesAhead(Top)
  BY <1>1 DEF IInv, NoFreedHandler, DueAhead, TypeOK, Top
<1>3. CASE handled
  <2> DEFINE f == [Top EXCEPT !.at = NULL]
  <2>1. f \in Frames /\ HoldsLinked(f) /\ DueLiesAhead(f)
    BY <1>1, <1>2 DEF Frames, HoldsLinked, DueLiesAhead, NULL, Ids
  <2>2. SetTop(f)
    BY <1>3 DEF RootReturns
  <2> QED BY <1>1, <2>1, <2>2, TopChangeKeepsIInv DEF RootReturns
<1>4. CASE ~ handled
  <2> DEFINE f == Walk(ClientMessage, Top.xwin)
  <2>1. ClientMessage \in Types /\ Top.xwin \in Windows
    BY <1>1, DispatchAssumption DEF Frames
  <2>2. f \in Frames /\ HoldsLinked(f) /\ DueLiesAhead(f)
    BY <1>1, <2>1, WalkBegins
  <2>3. SetTop(f)
    BY <1>4 DEF RootReturns
  <2> HIDE DEF f
  <2> QED BY <1>1, <2>2, <2>3, TopChangeKeepsIInv DEF RootReturns
<1> QED BY <1>3, <1>4

LEMMA VisitKeepsIInv ==
  ASSUME IInv, Visit
  PROVE  IInv'
<1> DEFINE i == Top.next
           n == NextOf(handlers[Top.type], i)
           f == IF Answers(i, Top.xwin)
                THEN [Top EXCEPT !.at = i, !.next = n, !.called = @ \cup {i}]
                ELSE [Top EXCEPT !.next = n]
<1>1. /\ TypeOK /\ frames # << >> /\ Top \in Frames
      /\ Top.at = NULL /\ Top.next # NULL
  BY DEF IInv, TypeOK, Visit, Top
<1>2. HoldsLinked(Top) /\ DueLiesAhead(Top)
  BY <1>1 DEF IInv, NoFreedHandler, DueAhead, TypeOK, Top
<1>3. Top.type \in Types /\ i \in handlers[Top.type] /\ i \in Ids
  BY <1>1, <1>2 DEF HoldsLinked, Frames
<1>4. handlers[Top.type] \in SUBSET Ids
  BY <1>1, <1>3, DispatchAssumption DEF TypeOK, Ids
<1>5. /\ n \in handlers[Top.type] \cup {NULL}
      /\ \A j \in handlers[Top.type] : j > i => n # NULL /\ n <= j
  BY <1>3, <1>4, NextOfIsNext
<1>6. SetTop(f)
  BY DEF Visit
<1> HIDE DEF n
<1>7. f \in Frames /\ HoldsLinked(f)
  BY <1>1, <1>2, <1>3, <1>4, <1>5 DEF Frames, HoldsLinked
<1>8. DueLiesAhead(f)
  <2> SUFFICES ASSUME NEW j \in f.due \ (f.called \cup deleted)
               PROVE  /\ f.type \in Types
                      /\ j \in handlers[f.type]
                      /\ xwindow[j] \in {None, f.xwin}
                      /\ f.next # NULL
                      /\ f.next <= j
    BY DEF DueLiesAhead
  <2>1. f.type = Top.type /\ f.xwin = Top.xwin /\ f.next = n /\ f.due = Top.due
    BY <1>1 DEF Frames
  <2>2. j \in Top.due \ (Top.called \cup deleted)
    BY <1>1, <2>1 DEF Frames
  <2>3. /\ j \in handlers[Top.type]
        /\ xwindow[j] \in {None, Top.xwin}
        /\ i <= j
    BY <1>2, <2>2 DEF DueLiesAhead
  <2>4. j # i
    <3> SUFFICES ASSUME j = i PROVE FALSE
      OBVIOUS
    <3>1. Answers(i, Top.xwin)
      BY <2>2, <2>3 DEF Answers
    <3>2. i \in f.called
      BY <1>1, <3>1 DEF Frames
    <3> QED BY <3>2
  <2>5. j \in Ids /\ j > i
    BY <1>3, <1>4, <2>3, <2>4, DispatchAssumption DEF Ids
  <2> QED BY <1>3, <1>5, <2>1, <2>3, <2>5
<1> QED BY <1>1, <1>6, <1>7, <1>8, TopChangeKeepsIInv DEF Visit

LEMMA ReturnKeepsIInv ==
  ASSUME IInv, Return
  PROVE  IInv'
<1> DEFINE f == [Top EXCEPT !.at = NULL]
<1>1. frames # << >> /\ Top \in Frames
  BY DEF IInv, TypeOK, Return, Top
<1>2. HoldsLinked(Top) /\ DueLiesAhead(Top)
  BY <1>1 DEF IInv, NoFreedHandler, DueAhead, TypeOK, Top
<1>3. f \in Frames /\ HoldsLinked(f) /\ DueLiesAhead(f)
  BY <1>1, <1>2 DEF Frames, HoldsLinked, DueLiesAhead, NULL, Ids
<1> QED BY <1>1, <1>3, TopChangeKeepsIInv DEF Return

(* When the last frame goes, the deleted handlers of the flagged lists are *)
(* freed and nothing points at them; otherwise the lists stay.             *)
LEMMA LeaveKeepsIInv ==
  ASSUME IInv, Leave
  PROVE  IInv'
<1>1. TypeOK /\ frames \in Seq(Frames) /\ frames # << >>
  BY DEF IInv, TypeOK, Leave
<1>2. /\ frames' \in Seq(Frames)
      /\ Len(frames') = Len(frames) - 1
      /\ \A k \in 1..(Len(frames) - 1) : frames'[k] = frames[k]
  <2>1. Len(frames) \in Nat \ {0} /\ frames \in [1..Len(frames) -> Frames]
    BY <1>1
  <2>2. frames' = SubSeq(frames, 1, Len(frames) - 1)
    BY DEF Leave
  <2>3. 1 <= Len(frames) - 1 + 1 /\ Len(frames) - 1 <= Len(frames)
    BY <2>1
  <2> QED BY <1>1, <2>1, <2>2, <2>3
<1>3. CASE Len(frames) = 1
  <2>1. Sweep
    BY <1>3 DEF Leave
  <2>2. /\ handlers' \in [Types -> SUBSET (1..ids)]
        /\ \A t \in Types : handlers'[t] \subseteq handlers[t]
    BY <1>1, <2>1 DEF Sweep, TypeOK
  <2>3. deleted' \subseteq Linked'
    <3> SUFFICES ASSUME NEW i \in deleted' PROVE \E t \in Types : i \in handlers'[t]
      BY DEF Linked
    <3>1. i \in deleted /\ \A t \in flags : i \notin handlers[t]
      BY <2>1 DEF Sweep
    <3>2. PICK t \in Types : i \in handlers[t]
      BY <1>1, <3>1 DEF TypeOK, Linked
    <3> QED BY <2>1, <3>1, <3>2 DEF Sweep
  <2>4. TypeOK'
    BY <1>1, <1>2, <2>1, <2>2, <2>3 DEF TypeOK, Sweep, Leave
  <2>5. NoFreedHandler' /\ CallersInCall' /\ DueAhead'
    BY <1>2, <1>3 DEF NoFreedHandler, CallersInCall, DueAhead
  <2> QED BY <2>4, <2>5 DEF IInv
<1>4. CASE Len(frames) # 1
  <2>1. UNCHANGED <<handlers, xwindow, deleted, flags, ids>>
    BY <1>4 DEF Leave
  <2>2. TypeOK'
    BY <1>1, <1>2, <2>1 DEF TypeOK, Linked
  <2>3. NoFreedHandler'
    BY <1>1, <1>2, <2>1 DEF IInv, NoFreedHandler, HoldsLinked
  <2>4. CallersInCall'
    BY <1>1, <1>2 DEF IInv, CallersInCall
  <2>5. DueAhead'
    BY <1>1, <1>2, <2>1 DEF IInv, DueAhead, DueLiesAhead
  <2> QED BY <2>2, <2>3, <2>4, <2>5 DEF IInv
<1> QED BY <1>3, <1>4

LEMMA AddKeepsIInv ==
  ASSUME IInv, NEW t \in Types \cup {Expose}, NEW w \in Windows \cup {None},
         Add(t, w)
  PROVE  IInv'
<1>1. TypeOK /\ ids \in Nat /\ ids + 1 \in Ids
  BY DispatchAssumption DEF IInv, TypeOK, Add, Ids
<1>2. /\ handlers' \in [Types -> SUBSET (1..(ids + 1))]
      /\ \A u \in Types : handlers[u] \subseteq handlers'[u]
      /\ \A u \in Types : handlers'[u] \ {ids + 1} \subseteq handlers[u]
      /\ \A u \in Types \ {t} : ids + 1 \notin handlers'[u]
      /\ \A u \in Types : ids + 1 \notin handlers[u]
  BY <1>1 DEF TypeOK, Add
<1>3. TypeOK'
  <2>1. \A u, v \in Types : u # v => handlers'[u] \cap handlers'[v] = {}
    BY <1>1, <1>2 DEF TypeOK
  <2>2. deleted' \subseteq Linked'
    BY <1>1, <1>2 DEF TypeOK, Linked, Add
  <2>3. xwindow' \in [Ids -> Windows \cup {None}]
    BY <1>1 DEF TypeOK, Add
  <2>4. ids' \in 0..MaxIds
    BY <1>1, DispatchAssumption DEF Add, Ids
  <2> QED BY <1>1, <1>2, <2>1, <2>2, <2>3, <2>4 DEF TypeOK, Add
<1>4. NoFreedHandler'
  BY <1>2 DEF IInv, NoFreedHandler, HoldsLinked, Add
<1>5. CallersInCall'
  BY DEF IInv, CallersInCall, Add
<1>6. DueAhead'
  <2> SUFFICES ASSUME NEW k \in 1..Len(frames) PROVE DueLiesAhead(frames[k])'
    BY DEF DueAhead, Add
  <2>1. DueLiesAhead(frames[k])
    BY DEF IInv, DueAhead
  <2>2. \A i \in Ids \ {ids + 1} : xwindow'[i] = xwindow[i]
    BY <1>1 DEF TypeOK, Add
  <2>3. \A u \in Types : handlers[u] \subseteq Ids \ {ids + 1}
    BY <1>1, <1>2, DispatchAssumption DEF TypeOK, Ids
  <2> QED BY <1>2, <2>1, <2>2, <2>3 DEF DueLiesAhead, Add
<1> QED BY <1>3, <1>4, <1>5, <1>6 DEF IInv

LEMMA RemoveKeepsIInv ==
  ASSUME IInv, NEW t \in Types \cup {Expose}, NEW i \in 0..ids, Remove(t, i)
  PROVE  IInv'
<1>1. deleted \subseteq deleted' /\ UNCHANGED <<handlers, xwindow, ids, frames>>
  BY DEF Remove
<1>2. TypeOK'
  BY DispatchAssumption DEF IInv, TypeOK, Linked, Remove
<1>3. NoFreedHandler' /\ CallersInCall'
  BY <1>1 DEF IInv, NoFreedHandler, HoldsLinked, CallersInCall
<1>4. DueAhead'
  BY <1>1 DEF IInv, DueAhead, DueLiesAhead
<1> QED BY <1>2, <1>3, <1>4 DEF IInv

LEMMA StepKeepsIInv == IInv /\ [Next]_vars => IInv'
<1> SUFFICES ASSUME IInv, [Next]_vars PROVE IInv'
  OBVIOUS
<1>1. CASE Next
  BY <1>1, DispatchKeepsIInv, RootReturnsKeepsIInv, VisitKeepsIInv,
     ReturnKeepsIInv, LeaveKeepsIInv, AddKeepsIInv, RemoveKeepsIInv DEF Next
<1>2. CASE UNCHANGED vars
  BY <1>2 DEF vars, IInv, TypeOK, Linked, NoFreedHandler, HoldsLinked,
              CallersInCall, DueAhead, DueLiesAhead
<1> QED BY <1>1, <1>2

THEOREM IInvHolds == Spec => []IInv
  BY InitIInv, StepKeepsIInv, PTL DEF Spec

-----------------------------------------------------------------------------
(* What follows *)

(* The lists, marks and frames have their types in every state.            *)
THEOREM TypeCorrect == Spec => []TypeOK
<1>1. IInv => TypeOK
  BY DEF IInv
<1> QED BY <1>1, IInvHolds, PTL

(* No walk ever points at a freed handler, however deep events nest.       *)
THEOREM WalksAreSafe == Spec => []NoFreedHandler
<1>1. IInv => NoFreedHandler
  BY DEF IInv
<1> QED BY <1>1, IInvHolds, PTL

(* A walk that is done has called every handler that was due and has not   *)
(* been removed.                                                           *)
THEOREM WalksAreComplete == Spec => []EveryHandlerCalled
<1>1. IInv => EveryHandlerCalled
  BY DEF IInv, DueAhead, DueLiesAhead, EveryHandlerCalled
<1> QED BY <1>1, IInvHolds, PTL

(* The outermost event frees the removed handlers of all lists but that    *)
(* for damage: their flags are set as long as one of them is in the list.  *)
FlagsCoverDeleted ==
  \A t \in Types \ {DamageNotify} : handlers[t] \cap deleted # {} => t \in flags

LEMMA StepKeepsFlags ==
  TypeOK /\ FlagsCoverDeleted /\ [Next]_vars => FlagsCoverDeleted'
<1> SUFFICES ASSUME TypeOK, FlagsCoverDeleted, [Next]_vars
             PROVE  FlagsCoverDeleted'
  OBVIOUS
<1>1. CASE UNCHANGED <<handlers, deleted, flags>>
  BY <1>1 DEF FlagsCoverDeleted
<1>2. ASSUME NEW t \in Types \cup {Expose}, NEW w \in Windows \cup {None}, Add(t, w)
      PROVE  FlagsCoverDeleted'
  <2>1. /\ \A u \in Types : handlers'[u] \subseteq handlers[u] \cup {ids + 1}
        /\ deleted' = deleted /\ flags' = flags
    BY <1>2 DEF Add
  <2>2. ids + 1 \notin deleted
    BY DispatchAssumption DEF TypeOK, Linked
  <2> QED BY <2>1, <2>2 DEF FlagsCoverDeleted
<1>3. ASSUME NEW t \in Types \cup {Expose}, NEW i \in 0..ids, Remove(t, i)
      PROVE  FlagsCoverDeleted'
  BY <1>3 DEF Remove, FlagsCoverDeleted
<1>4. CASE Leave /\ Len(frames) = 1
  <2>1. Sweep
    BY <1>4 DEF Leave
  <2> QED BY <2>1 DEF Sweep, FlagsCoverDeleted
<1> QED BY <1>1, <1>2, <1>3, <1>4
        DEF Next, vars, Dispatch, RootReturns, Visit, Return, Leave

THEOREM BottomSweeps == Spec => SweptAtBottom
<1>1. Init => FlagsCoverDeleted
  BY DEF Init, FlagsCoverDeleted
<1>2. TypeOK /\ FlagsCoverDeleted /\ [Next]_vars
        => [Len(frames) = 1 /\ frames' = << >>
              => \A t \in Types \ {DamageNotify} :
                   handlers'[t] \cap deleted' = {}]_vars
  <2> SUFFICES ASSUME TypeOK, FlagsCoverDeleted, Next,
                      Len(frames) = 1, frames' = << >>,
                      NEW t \in Types \ {DamageNotify}
               PROVE  handlers'[t] \cap deleted' = {}
    BY DEF vars
  <2>1. Leave
    <3>1. frames \in Seq(Frames) /\ Len(frames') = 0
      BY DEF TypeOK
    <3>2. \A f : ~ SetTop(f)
      BY <3>1 DEF SetTop
    <3>3. frames' # frames
      BY <3>1
    <3>4. ASSUME NEW t1 \in Types \cup {Expose}, NEW w \in Windows
          PROVE  ~ Dispatch(t1, w)
      BY <3>1 DEF Dispatch
    <3> QED BY <3>2, <3>3, <3>4 DEF Next, RootReturns, Visit, Return, Add, Remove
  <2>2. Sweep
    BY <2>1 DEF Leave
  <2> QED BY <2>2 DEF Sweep, FlagsCoverDeleted
<1> QED BY <1>1, <1>2, StepKeepsFlags, TypeCorrect, PTL DEF Spec, SweptAtBottom

-----------------------------------------------------------------------------
(* Refinement of HandlerRegistry *)

(* Every frame has a call, but the last between two calls has none.        *)
LEMMA CallsOfFrames ==
  ASSUME frames \in Seq(Frames)
  PROVE  /\ Len(frames) \in Nat
         /\ Running => Calls = [k \in 1..Len(frames) |-> frames[k].at]
         /\ ~ Running => Calls = [k \in 1..(Len(frames) - 1) |-> frames[k].at]
  BY DEF Calls

LEMMA DispatchRefines ==
  ASSUME IInv, NEW t \in Types \cup {Expose}, NEW w \in Windows, Dispatch(t, w)
  PROVE  [Registry!Next]_(Registry!vars)
<1>1. frames \in Seq(Frames) /\ Running
  BY DEF IInv, TypeOK, Dispatch
<1>2. UNCHANGED <<ids, Linked, deleted>>
  BY DEF Dispatch, Linked
<1>3. Calls = [k \in 1..Len(frames) |-> frames[k].at]
  BY <1>1, CallsOfFrames
<1>4. CASE t = ClientMessage
  <2>1. frames' = Append(frames, RootCall(w))
    BY <1>4 DEF Dispatch
  <2>2. Running' /\ Len(frames') = Len(frames) + 1
    BY <1>1, <2>1 DEF Running, Top, RootCall, RootWindow, NULL
  <2>3. Calls' = [k \in 1..(Len(frames) + 1) |-> frames'[k].at]
    BY <2>2 DEF Calls
  <2>4. Calls' = Append(Calls, RootWindow)
    BY <1>1, <1>3, <2>1, <2>3 DEF RootCall
  <2>5. Registry!Call(RootWindow)
    BY <1>2, <2>4 DEF Registry!Call
  <2> QED BY <2>5 DEF Registry!Next
<1>5. CASE t # ClientMessage
  <2>1. frames' = Append(frames, Walk(t, w))
    BY <1>5 DEF Dispatch
  <2>2. ~ Running' /\ Len(frames') = Len(frames) + 1
    BY <1>1, <2>1 DEF Running, Top, Walk
  <2>3. Calls' = [k \in 1..Len(frames) |-> frames'[k].at]
    BY <1>1, <2>2 DEF Calls
  <2>4. Calls' = Calls
    BY <1>1, <1>3, <2>1, <2>3
  <2> QED BY <1>2, <2>4 DEF Registry!vars
<1> QED BY <1>4, <1>5

(* The innermost handler returns: the frame keeps no call.                 *)
LEMMA ReturningRefines ==
  ASSUME IInv, frames # << >>, Top.at # NULL, NEW f, SetTop(f), f.at = NULL,
         UNCHANGED <<handlers, deleted, ids>>
  PROVE  Registry!Return
<1>1. /\ frames \in Seq(Frames) /\ Running
      /\ Len(frames) \in Nat \ {0}
  BY DEF IInv, TypeOK, Running
<1>2. Calls = [k \in 1..Len(frames) |-> frames[k].at]
  BY <1>1, CallsOfFrames
<1>3. /\ Len(frames') = Len(frames)
      /\ frames' # << >>
      /\ frames'[Len(frames)] = f
      /\ \A k \in 1..(Len(frames) - 1) : frames'[k] = frames[k]
  BY <1>1 DEF SetTop
<1>4. ~ Running'
  BY <1>3 DEF Running, Top
<1>5. Calls' = [k \in 1..(Len(frames) - 1) |-> frames[k].at]
  BY <1>1, <1>3, <1>4 DEF Calls
<1>6. Len(Calls) = Len(frames) /\ Calls # << >>
  BY <1>1, <1>2
<1>7. Calls' = SubSeq(Calls, 1, Len(Calls) - 1)
  BY <1>1, <1>2, <1>5, <1>6
<1> QED BY <1>6, <1>7 DEF Registry!Return, Linked

LEMMA VisitRefines ==
  ASSUME IInv, Visit
  PROVE  [Registry!Next]_(Registry!vars)
<1> DEFINE i == Top.next
           n == NextOf(handlers[Top.type], i)
<1>1. /\ frames \in Seq(Frames) /\ frames # << >>
      /\ Len(frames) \in Nat \ {0}
      /\ Top \in Frames /\ Top.at = NULL /\ i # NULL /\ ~ Running
  BY DEF IInv, TypeOK, Visit, Top, Running
<1>2. UNCHANGED <<ids, Linked, deleted>>
  BY DEF Visit, Linked
<1>3. Calls = [k \in 1..(Len(frames) - 1) |-> frames[k].at]
  BY <1>1, CallsOfFrames
<1>4. i \in Linked /\ i \in Ids
  BY <1>1 DEF IInv, NoFreedHandler, HoldsLinked, TypeOK, Top, Linked, Frames
<1> HIDE DEF n
<1>5. CASE Answers(i, Top.xwin)
  <2> DEFINE f == [Top EXCEPT !.at = i, !.next = n, !.called = @ \cup {i}]
  <2>1. SetTop(f)
    BY <1>5 DEF Visit, n
  <2>2. f.at = i
    BY <1>1 DEF Frames
  <2> HIDE DEF f
  <2>3. /\ Len(frames') = Len(frames) /\ frames' # << >>
        /\ frames'[Len(frames)] = f
        /\ \A k \in 1..(Len(frames) - 1) : frames'[k] = frames[k]
    BY <1>1, <2>1 DEF SetTop
  <2>4. Running'
    BY <1>1, <2>2, <2>3 DEF Running, Top
  <2>5. Calls' = [k \in 1..Len(frames) |-> frames'[k].at]
    BY <2>3, <2>4 DEF Calls
  <2>6. Calls' = Append(Calls, i)
    BY <1>1, <1>3, <2>2, <2>3, <2>5
  <2>7. i \in Linked \ deleted
    BY <1>4, <1>5 DEF Answers
  <2>8. Registry!Call(i)
    BY <1>2, <2>6, <2>7 DEF Registry!Call
  <2> QED BY <2>7, <2>8 DEF Registry!Next
<1>6. CASE ~ Answers(i, Top.xwin)
  <2> DEFINE f == [Top EXCEPT !.next = n]
  <2>1. SetTop(f)
    BY <1>6 DEF Visit, n
  <2>2. f.at = NULL
    BY <1>1 DEF Frames
  <2> HIDE DEF f
  <2>3. /\ Len(frames') = Len(frames) /\ frames' # << >>
        /\ frames'[Len(frames)] = f
        /\ \A k \in 1..(Len(frames) - 1) : frames'[k] = frames[k]
    BY <1>1, <2>1 DEF SetTop
  <2>4. ~ Running'
    BY <2>2, <2>3 DEF Running, Top
  <2>5. Calls' = Calls
    BY <1>1, <1>3, <2>3, <2>4 DEF Calls
  <2> QED BY <1>2, <2>5 DEF Registry!vars
<1> QED BY <1>5, <1>6

(* Leaving a frame drops no call, and the sweep no registered handler.     *)
LEMMA LeaveRefines ==
  ASSUME IInv, Leave
  PROVE  UNCHANGED Registry!vars
<1>1. /\ TypeOK /\ frames \in Seq(Frames) /\ frames # << >>
      /\ Len(frames) \in Nat \ {0} /\ ~ Running
  BY DEF IInv, TypeOK, Leave, Running
<1>2. /\ Len(frames') = Len(frames) - 1
      /\ \A k \in 1..(Len(frames) - 1) : frames'[k] = frames[k]
  <2>1. frames \in [1..Len(frames) -> Frames]
    BY <1>1
  <2>2. frames' = SubSeq(frames, 1, Len(frames) - 1)
    BY DEF Leave
  <2> QED BY <1>1, <2>1, <2>2
<1>3. Running'
  BY <1>1, <1>2 DEF IInv, CallersInCall, Running, Top
<1>4. Calls' = Calls
  BY <1>1, <1>2, <1>3 DEF Calls
<1>5. (Linked \ deleted)' = Linked \ deleted
  <2>1. CASE Sweep
    BY <1>1, <2>1 DEF Sweep, TypeOK, Linked
  <2>2. CASE UNCHANGED <<handlers, deleted>>
    BY <2>2 DEF Linked
  <2> QED BY <2>1, <2>2 DEF Leave
<1> QED BY <1>4, <1>5 DEF Registry!vars, Leave

LEMMA AddRefines ==
  ASSUME IInv, NEW t \in Types \cup {Expose}, NEW w \in Windows \cup {None},
         Add(t, w)
  PROVE  Registry!Next
<1>1. TypeOK /\ ids \in Nat /\ UNCHANGED <<frames, deleted>>
  BY DEF IInv, TypeOK, Add
<1>2. 1..ids' = (1..ids) \cup {ids + 1} /\ ids + 1 \in Nat \ (1..ids)
  BY <1>1 DEF Add
<1>3. Calls' = Calls
  BY <1>1 DEF Calls, Running, Top
<1>4. ids + 1 \notin deleted
  BY <1>1 DEF TypeOK, Linked
<1>5. CASE t \in Types
  <2>1. Linked' = Linked \cup {ids + 1}
    BY <1>5 DEF Linked, Add
  <2>2. Registry!Register(ids + 1)
    BY <1>1, <1>2, <1>3, <1>4, <2>1 DEF Registry!Register
  <2> QED BY <1>2, <2>2 DEF Registry!Next
<1>6. CASE t \notin Types
  <2>1. Linked' = Linked
    BY <1>6 DEF Linked, Add
  <2>2. Registry!Refuse(ids + 1)
    BY <1>1, <1>2, <1>3, <2>1 DEF Registry!Refuse
  <2> QED BY <1>2, <2>2 DEF Registry!Next
<1> QED BY <1>5, <1>6

LEMMA RemoveRefines ==
  ASSUME IInv, NEW t \in Types \cup {Expose}, NEW i \in 0..ids, Remove(t, i)
  PROVE  [Registry!Next]_(Registry!vars)
<1>1. UNCHANGED <<ids, frames, Linked>> /\ UNCHANGED Calls
  BY DEF Remove, Linked, Calls, Running, Top
<1>2. CASE deleted' = deleted
  BY <1>1, <1>2 DEF Registry!vars
<1>3. CASE i \in Linked /\ i \notin deleted /\ deleted' = deleted \cup {i}
  <2>1. Registry!Unregister(i) /\ i \in Linked \ deleted
    BY <1>1, <1>3 DEF Registry!Unregister
  <2> QED BY <2>1 DEF Registry!Next
<1> QED BY <1>2, <1>3 DEF Remove, Linked

LEMMA StepRefines == IInv /\ [Next]_vars => [Registry!Next]_(Registry!vars)
<1> SUFFICES ASSUME IInv, [Next]_vars PROVE [Registry!Next]_(Registry!vars)
  OBVIOUS
<1>1. ASSUME NEW handled \in BOOLEAN, RootReturns(handled)
      PROVE  Registry!Return
  <2> DEFINE f == IF handled THEN [Top EXCEPT !.at = NULL]
                  ELSE Walk(ClientMessage, Top.xwin)
  <2>1. Top \in Frames
    BY <1>1 DEF IInv, TypeOK, RootReturns, Top
  <2>2. SetTop(f) /\ f.at = NULL
    BY <1>1, <2>1 DEF RootReturns, Walk, Frames
  <2>3. Top.at # NULL
    BY <1>1 DEF RootReturns, RootWindow, NULL
  <2> HIDE DEF f
  <2> QED BY <1>1, <2>2, <2>3, ReturningRefines DEF RootReturns
<1>2. ASSUME Return PROVE Registry!Return
  <2> DEFINE f == [Top EXCEPT !.at = NULL]
  <2>1. Top \in Frames
    BY <1>2 DEF IInv, TypeOK, Return, Top
  <2>2. SetTop(f) /\ f.at = NULL
    BY <1>2, <2>1 DEF Return, Frames
  <2>3. Top.at # NULL
    BY <1>2 DEF Return, Ids, NULL
  <2> HIDE DEF f
  <2> QED BY <1>2, <2>2, <2>3, ReturningRefines DEF Return
<1>3. CASE UNCHANGED vars
  BY <1>3 DEF vars, Registry!vars, Linked, Calls, Running, Top
<1> QED BY <1>1, <1>2, <1>3, DispatchRefines, VisitRefines, LeaveRefines,
           AddRefines, RemoveRefines DEF Next, Registry!Next

(* The lists with their deferred deletion implement the registry.          *)
THEOREM ListsImplementRegistry == Spec => ImplementsRegistry
<1>1. Init => Registry!Init
  BY DEF Init, Registry!Init, Linked, Calls, Running
<1> QED BY <1>1, IInvHolds, StepRefines, PTL
        DEF Spec, ImplementsRegistry, Registry!Spec

=============================================================================
