------------------------------ MODULE StackList ------------------------------
(***************************************************************************)
(* core/mb-wm-stack.c: the stacking order as the code keeps it, a doubly   *)
(* linked list threaded through the clients.                               *)
(*                                                                         *)
(*   stk.above[c], stk.below[c]  client->stacked_above, ->stacked_below    *)
(*   stk.top, stk.bottom         wm->stack_top, wm->stack_bottom           *)
(*   stk.n                       wm->stack_n_clients                       *)
(*                                                                         *)
(* The primitives assume, as the code does, that their callers append only *)
(* clients that are off the list and move or remove only clients on it:    *)
(* mb_wm_manage_client (append), mb_wm_unmanage_client (remove), the stack *)
(* methods of the client classes and mb_wm_client_stack (the moves),       *)
(* mb_wm_cycle_apps (the cycles).                                          *)
(***************************************************************************)
EXTENDS Integers, Sequences, FiniteSets

CONSTANTS Clients, NULL, ClientType, CycledTypes, FollowedTypes

ASSUME NullIsNoClient == NULL \notin Clients

VARIABLE stk

Pointers == Clients \cup {NULL}

Stacks ==
  [above : [Clients -> Pointers], below : [Clients -> Pointers],
   top : Pointers, bottom : Pointers, n : Nat]

EmptyStack ==
  [above |-> [c \in Clients |-> NULL], below |-> [c \in Clients |-> NULL],
   top |-> NULL, bottom |-> NULL, n |-> 0]

\* mb_wm_stack_insert_above_client with client_below = NULL.
InsertAtBottom(L, c) ==
  [above  |-> IF L.bottom # NULL THEN [L.above EXCEPT ![c] = L.bottom]
              ELSE L.above,
   below  |-> IF L.bottom # NULL
              THEN [L.below EXCEPT ![c] = NULL, ![L.bottom] = c]
              ELSE L.below,
   top    |-> IF L.top = NULL THEN c ELSE L.top,
   bottom |-> c,
   n      |-> L.n + 1]

\* Mutant: wm->stack_top stays.
InsertAbove_KeepsTop(L, c, b) ==
  [above  |-> [L.above EXCEPT ![c] = L.above[b], ![b] = c],
   below  |-> IF L.above[b] # NULL
              THEN [L.below EXCEPT ![c] = b, ![L.above[b]] = c]
              ELSE [L.below EXCEPT ![c] = b],
   top    |-> L.top,
   bottom |-> L.bottom,
   n      |-> L.n + 1]

\* mb_wm_stack_insert_above_client with a client below.
InsertAbove(L, c, b) ==
  [above  |-> [L.above EXCEPT ![c] = L.above[b], ![b] = c],
   below  |-> IF L.above[b] # NULL
              THEN [L.below EXCEPT ![c] = b, ![L.above[b]] = c]
              ELSE [L.below EXCEPT ![c] = b],
   top    |-> IF b = L.top THEN c ELSE L.top,
   bottom |-> L.bottom,
   n      |-> L.n + 1]

Insert(L, c, b) ==
  IF b = NULL THEN InsertAtBottom(L, c) ELSE InsertAbove(L, c, b)

\* mb_wm_stack_remove.  The list of one client is recognised by top = bottom,
\* and the links of the removed client are cleared in every case.
Unlink(L, c) ==
  LET up   == L.above[c]
      down == L.below[c]
      a    == IF L.top # L.bottom /\ down # NULL
              THEN [L.above EXCEPT ![down] = up] ELSE L.above
      b    == IF L.top # L.bottom /\ up # NULL
              THEN [L.below EXCEPT ![up] = down] ELSE L.below
  IN  [above  |-> [a EXCEPT ![c] = NULL],
       below  |-> [b EXCEPT ![c] = NULL],
       top    |-> IF L.top # c THEN L.top
                  ELSE IF L.top = L.bottom THEN NULL ELSE down,
       bottom |-> IF L.bottom # c THEN L.bottom
                  ELSE IF L.top = L.bottom THEN NULL ELSE up,
       n      |-> L.n - 1]

\* mb_wm_stack_move_above_client.
MoveAbove(L, c, b) == IF c = b THEN L ELSE Insert(Unlink(L, c), c, b)

\* The n clients mb_wm_stack_enumerate visits, from stack_bottom along
\* stacked_above to NULL, and those mb_wm_stack_enumerate_reverse visits,
\* from stack_top along stacked_below to NULL.
IsWalk(w, n, start, link) ==
  IF n = 0 THEN start = NULL
  ELSE /\ w[1] = start
       /\ \A i \in 1..(n - 1) : w[i + 1] = link[w[i]]
       /\ link[w[n]] = NULL

WalkUp(L) ==
  CHOOSE w \in [1..L.n -> Clients] : IsWalk(w, L.n, L.bottom, L.above)

WalkDown(L) ==
  CHOOSE w \in [1..L.n -> Clients] : IsWalk(w, L.n, L.top, L.below)

\* The first client of a walk whose type is in T, NULL if none is met.
Hits(w, T) == {i \in DOMAIN w : ClientType[w[i]] \in T}

IsFirst(w, T, i) == i \in Hits(w, T) /\ \A j \in Hits(w, T) : i <= j

FirstOf(w, T) ==
  IF Hits(w, T) = {} THEN NULL ELSE w[CHOOSE i \in Hits(w, T) : IsFirst(w, T, i)]

\* The second one: the search down from highest->stacked_below.
IsSecond(w, T, i) ==
  /\ i \in Hits(w, T)
  /\ ~IsFirst(w, T, i)
  /\ \A j \in Hits(w, T) : j < i => IsFirst(w, T, j)

NextOf(w, T) ==
  IF \E i \in Hits(w, T) : IsSecond(w, T, i)
  THEN w[CHOOSE i \in Hits(w, T) : IsSecond(w, T, i)] ELSE NULL

\* Mutant: the search starts at the bottom.
HighestByType_FromBottom(L, T) == FirstOf(WalkUp(L), T)

HighestByType(L, T) == FirstOf(WalkDown(L), T)
LowestByType(L, T)  == FirstOf(WalkUp(L), T)

\* mb_wm_stack_cycle_by_type, forward: the lowest goes above the highest.
CycleUp(L, T) ==
  IF LowestByType(L, T) = NULL THEN L
  ELSE MoveAbove(L, LowestByType(L, T), HighestByType(L, T))

\* mb_wm_stack_cycle_by_type, reverse: the next one down goes above it.
CycleDown(L, T) ==
  IF NextOf(WalkDown(L), T) = NULL THEN L
  ELSE MoveAbove(L, NextOf(WalkDown(L), T), HighestByType(L, T))

OnStack(L, c) == L.top = c \/ L.above[c] # NULL

-----------------------------------------------------------------------------
Init == stk = EmptyStack

\* mb_wm_stack_append_top, from mb_wm_manage_client.
AppendTop(c) ==
  /\ ~OnStack(stk, c)
  /\ stk' = Insert(stk, c, stk.top)

\* Mutant: a client that is off the list is removed once more.
Remove_Unguarded(c) == stk' = Unlink(stk, c)

\* From mb_wm_unmanage_client.
Remove(c) ==
  /\ OnStack(stk, c)
  /\ stk' = Unlink(stk, c)

\* mb_wm_stack_remove then mb_wm_stack_prepend_bottom, from
\* mb_wm_client_stack for a live background.
Lower(c) ==
  /\ OnStack(stk, c)
  /\ stk' = InsertAtBottom(Unlink(stk, c), c)

\* mb_wm_stack_move_top, from the stack methods of most client classes.
Raise(c) ==
  /\ OnStack(stk, c)
  /\ stk' = MoveAbove(stk, c, stk.top)

\* mb_wm_stack_move_client_above_type, from the stack methods of inputs and
\* of overlapping panels.
MoveAboveType(c) ==
  LET highest == HighestByType(stk, FollowedTypes)
  IN  /\ OnStack(stk, c)
      /\ stk' = IF highest = NULL THEN stk ELSE MoveAbove(stk, c, highest)

\* mb_wm_stack_cycle_by_type, from mb_wm_cycle_apps.
CycleForward == stk' = CycleUp(stk, CycledTypes)
CycleReverse == stk' = CycleDown(stk, CycledTypes)

Next ==
  \/ \E c \in Clients :
       \/ AppendTop(c)
       \/ Remove(c)
       \/ Lower(c)
       \/ Raise(c)
       \/ MoveAboveType(c)
  \/ CycleForward
  \/ CycleReverse

Spec == Init /\ [][Next]_stk

-----------------------------------------------------------------------------
\* The list L stores the sequence s, bottom first: the two link fields agree
\* with each other, with the end pointers and with the count, and a client
\* off the list keeps no link into it.
Represents(L, s) ==
  /\ \A i, j \in 1..L.n : s[i] = s[j] => i = j
  /\ L.n = 0 => L.top = NULL /\ L.bottom = NULL
  /\ L.n > 0 => L.top = s[L.n] /\ L.bottom = s[1]
  /\ \A i \in 1..L.n :
       /\ L.above[s[i]] = IF i < L.n THEN s[i + 1] ELSE NULL
       /\ L.below[s[i]] = IF i > 1 THEN s[i - 1] ELSE NULL
  /\ \A c \in Clients :
       (\A i \in 1..L.n : s[i] # c) => L.above[c] = NULL /\ L.below[c] = NULL

\* Every pointer of the list is a client or NULL, and the count never goes
\* below zero.
TypeOK == stk \in Stacks

\* The list is never torn: whatever the sequence of appends, removals, moves
\* and cycles, the links of the clients and the end pointers of the window
\* manager describe one and the same stacking order, and stack_n_clients
\* counts it (stack_sync_to_display sizes its buffer with it).
WellFormed == \E s \in [1..stk.n -> Clients] : Represents(stk, s)

\* The list implements the sequence of StackOrder.
Order == INSTANCE StackOrder WITH order <- WalkUp(stk)

\* Every operation on the list does to the stacking order what StackOrder
\* says, the searches by type finding the client they are meant to find.
ImplementsOrder == Order!Spec
=============================================================================
