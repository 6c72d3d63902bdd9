------------------------------ MODULE StackOps ------------------------------
(***************************************************************************)
(* The operations of core/mb-wm-stack.h as functions of the stacking order *)
(* they act on: a sequence without repetition whose first client is the    *)
(* bottom of the stack.  StackOrder makes a specification of them, which   *)
(* the linked list of StackList implements; WindowStack and                *)
(* ClientLifecycle build the stacking policy and the window life cycle on  *)
(* top of them.                                                            *)
(***************************************************************************)
EXTENDS Integers, Sequences, FiniteSets

CONSTANTS
  Clients,      \* the client objects (MBWindowManagerClient)
  NULL,         \* the null pointer
  ClientType    \* the type every client was created with

ASSUME NullAssumption == NULL \notin Clients

\* The stacking orders: injective sequences of clients.
IsOrder(s) ==
  /\ DOMAIN s = 1..Len(s)
  /\ \A i \in 1..Len(s) : s[i] \in Clients
  /\ \A i, j \in 1..Len(s) : s[i] = s[j] => i = j

Stacked(s) == {s[i] : i \in 1..Len(s)}

Position(s, c) == CHOOSE i \in 1..Len(s) : s[i] = c

\* s without its k-th client.
DropAt(s, k) == [i \in 1..(Len(s) - 1) |-> IF i < k THEN s[i] ELSE s[i + 1]]

\* s with c put directly above its k-th client (k = 0: at the bottom).
PutAbove(s, k, c) ==
  [i \in 1..(Len(s) + 1) |->
     IF i <= k THEN s[i] ELSE IF i = k + 1 THEN c ELSE s[i - 1]]

Without(s, c) == DropAt(s, Position(s, c))

PutAboveClient(s, c, below) == PutAbove(s, Position(s, below), c)

\* mb_wm_stack_move_above_client; c = below leaves the order alone.
MovedAbove(s, c, below) ==
  IF c = below THEN s ELSE PutAboveClient(Without(s, c), c, below)

Lowered(s, c) == PutAbove(Without(s, c), 0, c)

Raised(s, c) == MovedAbove(s, c, s[Len(s)])

\* Positions in s of the clients whose type is in T.
PositionsOf(s, T) == {i \in 1..Len(s) : ClientType[s[i]] \in T}

\* The highest (lowest) client of s with a type in T, NULL if there is none.
HighestOf(s, T) ==
  IF PositionsOf(s, T) = {} THEN NULL
  ELSE s[CHOOSE i \in PositionsOf(s, T) : \A j \in PositionsOf(s, T) : j <= i]

LowestOf(s, T) ==
  IF PositionsOf(s, T) = {} THEN NULL
  ELSE s[CHOOSE i \in PositionsOf(s, T) : \A j \in PositionsOf(s, T) : i <= j]

\* The client of a type in T below the highest one.
SecondOf(s, T) ==
  IF HighestOf(s, T) = NULL THEN NULL
  ELSE HighestOf([i \in 1..(Position(s, HighestOf(s, T)) - 1) |-> s[i]], T)

MovedAboveType(s, c, T) ==
  IF HighestOf(s, T) = NULL THEN s ELSE MovedAbove(s, c, HighestOf(s, T))

CycledForward(s, T) ==
  IF LowestOf(s, T) = NULL THEN s
  ELSE MovedAbove(s, LowestOf(s, T), HighestOf(s, T))

CycledReverse(s, T) ==
  IF SecondOf(s, T) = NULL THEN s
  ELSE MovedAbove(s, SecondOf(s, T), HighestOf(s, T))
=============================================================================
