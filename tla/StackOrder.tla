----------------------------- MODULE StackOrder -----------------------------
(***************************************************************************)
(* What core/mb-wm-stack.c promises: the managed clients form one stacking *)
(* order, which each operation changes as StackOps says.                   *)
(***************************************************************************)
EXTENDS StackOps

CONSTANTS
  CycledTypes,  \* types given to mb_wm_stack_cycle_by_type (App in the code)
  FollowedTypes \* types inputs and overlapping panels sit on (App, Desktop)

VARIABLE order

-----------------------------------------------------------------------------
TypeOK == IsOrder(order)

Init == order = << >>

AppendTop(c) ==
  /\ c \notin Stacked(order)
  /\ order' = PutAbove(order, Len(order), c)

Remove(c) ==
  /\ c \in Stacked(order)
  /\ order' = Without(order, c)

Lower(c) ==
  /\ c \in Stacked(order)
  /\ order' = Lowered(order, c)

Raise(c) ==
  /\ c \in Stacked(order)
  /\ order' = Raised(order, c)

MoveAboveType(c) ==
  /\ c \in Stacked(order)
  /\ order' = MovedAboveType(order, c, FollowedTypes)

CycleForward == order' = CycledForward(order, CycledTypes)

CycleReverse == order' = CycledReverse(order, CycledTypes)

Next ==
  \/ \E c \in Clients :
       \/ AppendTop(c)
       \/ Remove(c)
       \/ Lower(c)
       \/ Raise(c)
       \/ MoveAboveType(c)
  \/ CycleForward
  \/ CycleReverse

Spec == Init /\ [][Next]_order
=============================================================================
