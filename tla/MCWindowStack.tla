--------------------------- MODULE MCWindowStack ---------------------------
(***************************************************************************)
(* Four casts of clients for TLC, in each of which other parts of the     *)
(* policy meet: the family is the cast the constants give, the others are  *)
(* instances with other types and windows to be transient for.  A behaviour*)
(* keeps the cast it begins with.  The tour follows the cycling through    *)
(* the applications of the third cast.                                     *)
(***************************************************************************)
EXTENDS WindowStack

CONSTANTS
  a1, a2,  \* applications
  d1,      \* a dialog, or an application
  w1,      \* an override window, the desktop or a dialog
  w2       \* a panel, or an input method

VARIABLES
  cast,
  tour     \* the roots of the top applications since something else than
           \* cycling forward and syncs happened


Types(t1, t2) ==
  (a1 :> "App") @@ (a2 :> "App") @@ (d1 :> "Dialog") @@ (w1 :> t1) @@ (w2 :> t2)

NoLayers == [c \in Clients |-> {0}]

\* Two applications, a dialog for either and an override window for the dialog;
\* what has no targets is never mapped.
FamilyTypes == Types("Override", "Panel")
FamilyTargets ==
  (a1 :> {None}) @@ (a2 :> {None, a1}) @@ (d1 :> {a1, a2}) @@ (w1 :> {None, d1}) @@ (w2 :> {})

\* The desktop, a panel, a dialog that may ask for a Hildon layer, and two
\* applications, one of which is a live background.
DeviceTypes == Types("Desktop", "Panel")
DeviceTargets ==
  (a1 :> {None}) @@ (a2 :> {None}) @@ (d1 :> {None, a1}) @@ (w1 :> {None}) @@ (w2 :> {None})
DeviceLayers == [c \in Clients |-> IF c = d1 THEN {0, 2} ELSE {0}]
Device == INSTANCE WindowStack WITH
  ClientType <- DeviceTypes, TransientTargets <- DeviceTargets,
  HildonLayers <- DeviceLayers, LiveBackgrounds <- {a2}

\* Three applications, of which one may be for another, and its dialog.
AppsTypes == [Types("Dialog", "Panel") EXCEPT ![d1] = "App"]
AppsTargets ==
  (a1 :> {None}) @@ (a2 :> {None, a1}) @@ (d1 :> {None}) @@ (w1 :> {a2}) @@ (w2 :> {})
Apps == INSTANCE WindowStack WITH
  ClientType <- AppsTypes, TransientTargets <- AppsTargets

\* The applications on the stack, and the root of the top one.
Running == {c \in Managed : AppsTypes[c] = "App"}
Families == {Root(links, c) : c \in Running}
OnTop == IF Running = {} THEN NULL ELSE Root(links, Apps!HighestOf(order, {"App"}))

\* Once every family had its turn, the tour begins anew.
Toured ==
  tour' = IF Apps!Sync THEN tour
          ELSE IF Apps!Cycle(FALSE) /\ Len(tour) < Cardinality(Families)
               THEN Append(tour, OnTop')
               ELSE <<OnTop'>>

\* An input method, for nothing or for a dialog that may be for it.
InputTypes == Types("Desktop", "Input")
InputTargets ==
  (a1 :> {None}) @@ (a2 :> {}) @@ (d1 :> {None, w2}) @@ (w1 :> {None}) @@ (w2 :> {None, d1})
Input == INSTANCE WindowStack WITH
  ClientType <- InputTypes, TransientTargets <- InputTargets

MCInit ==
  /\ Init
  /\ cast \in {"family", "device", "apps", "input"}
  /\ tour = << >>

MCNext ==
  /\ \/ cast = "family" /\ Next /\ UNCHANGED tour
     \/ cast = "device" /\ Device!Next /\ UNCHANGED tour
     \/ cast = "apps" /\ Apps!Next /\ Toured
     \/ cast = "input" /\ Input!Next /\ UNCHANGED tour
  /\ UNCHANGED cast

MCSpec == MCInit /\ [][MCNext]_<<vars, cast, tour>>

\* LinksAgree and TransientsAboveParents are checked in all casts: they ask of the
\* types only who moves alone, which w2 does in each and w1 in none, and the live
\* background of the device has neither parent nor transients.  The other properties
\* of WindowStack are for the cast that puts them to the test.

\* A synced stack is in the order of the layers, the live background below all
\* (mb_wm_stack_ensure), with every layer one of those there are.
DeviceSettles ==
  cast = "device" =>
    Device!TypeOK /\ Device!SettledByLayer /\ Device!LiveBackgroundsLowest

\* MB_CMD_NEXT, pressed as often as there are families of applications (an application
\* with those that are transient for it), shows an application of every one: the press
\* raises the lowest application, and with it its family (mb_wm_cycle_apps), so that no
\* family comes up twice before another one has, whatever syncs come in between.
NextShowsEveryFamily ==
  cast = "apps" /\ Running # {} /\ Len(tour) = Cardinality(Families) =>
    ToSet(tour) = Families

\* In a synced stack an input method lies above the applications and the desktop.
InputAboveApps == cast = "input" => Input!TypeOK /\ Input!FollowersAboveApps

\* The walks of a sync end although they move what they walk over, the sync keeps the
\* order within a layer, and a second one would change nothing (mb_wm_stack_ensure).
SyncIsStable ==
  [][/\ cast = "device" /\ Device!Synced => Device!EnsureEnds
     /\ cast = "family" => KeepsLayerOrder /\ Settles]_<<vars, cast, tour>>
=============================================================================
