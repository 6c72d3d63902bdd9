-------------------------- MODULE WindowProperties --------------------------
(***************************************************************************)
(* What core/mb-wm-client-window.c makes of the properties of a window.    *)
(* mb_wm_client_window_sync_properties asks for all it wants at once,      *)
(* waits for the answers together and then goes through them in an order   *)
(* of its own, because some are understood by the help of others: what a   *)
(* window without a type is depends on its transiency and attributes.      *)
(*                                                                         *)
(* The value of a property is None if it is absent or not of the type and  *)
(* size asked for.  The members of the window that other modules never     *)
(* look at (visual, colormap, icons, group) are left out, and so is the    *)
(* signal emitted at the end.                                              *)
(***************************************************************************)
EXTENDS Naturals, Sequences, SequencesExt

CONSTANTS
  None,     \* no value
  Screen    \* a geometry that covers the screen

\* The requests in the order they are made.
Asked == << "WIN_TYPE", "HILDON_TYPE", "NET_STATE", "ATTR", "GEOMETRY",
            "NAME", "NAME_UTF8", "NAME_XML", "WM_HINTS", "MWM_HINTS",
            "TRANSIENCY", "PROTOS", "MACHINE", "LIVE_BACKGROUND", "PID",
            "NO_TRANSITIONS", "USER_TIME", "TRANSLUCENCY", "STACKING",
            "PORTRAIT_SUPPORT", "PORTRAIT_REQUEST" >>

\* The answers in the order they are looked at.
Looked == << "TRANSIENCY", "ATTR", "WIN_TYPE", "HILDON_TYPE", "NET_STATE",
             "GEOMETRY", "NAME_XML", "NAME_UTF8", "NAME", "WM_HINTS",
             "MWM_HINTS", "PROTOS", "MACHINE", "LIVE_BACKGROUND", "PID",
             "TRANSLUCENCY", "NO_TRANSITIONS", "USER_TIME", "STACKING",
             "PORTRAIT_SUPPORT", "PORTRAIT_REQUEST" >>

\* The MBWM_WINDOW_PROP_ flag a request belongs to.
FlagOf(k) == IF k \in {"NAME", "NAME_UTF8", "NAME_XML"} THEN "NAME"
             ELSE IF k \in {"PORTRAIT_SUPPORT", "PORTRAIT_REQUEST"} THEN "PORTRAIT"
             ELSE k

All == {FlagOf(Asked[i]) : i \in DOMAIN Asked}

\* The flag that is read again when an atom is notified; no flag for the
\* types, states and hints that are only read when the window is new.
NotifiedFlags(k) ==
  IF FlagOf(k) \in {"USER_TIME", "NAME", "WM_HINTS", "PROTOS", "TRANSIENCY",
                    "WIN_TYPE", "MACHINE", "PID", "STACKING", "PORTRAIT",
                    "LIVE_BACKGROUND"}
  THEN {FlagOf(k)} ELSE {}

\* mb_wm_client_window_init
FreshWindow ==
  [transientFor |-> None, override |-> FALSE, type |-> None, hildonType |-> None,
   state |-> {}, geometry |-> None, name |-> None, wantInput |-> FALSE,
   undecorated |-> FALSE, protos |-> {}, machine |-> None, liveBackground |-> 0,
   pid |-> None, translucency |-> 0, noTransitions |-> FALSE, userTime |-> 0,
   stackingLayer |-> 0, portraitSupport |-> None, portraitRequest |-> None]

-----------------------------------------------------------------------------
(* One operator per property.  v is what the X server answered. *)

OrElse(v, default) == IF v = None THEN default ELSE v

\* The pointer to a cardinal is read through a pointer to a byte.
LowByte(v) == v % 256

TransiencyRead(win, v) == [win EXCEPT !.transientFor = OrElse(v, @)]

AttrRead(win, v) == [win EXCEPT !.override = v]

\* A window without a type is normal unless it is managed and transient, which
\* leaves what it was; drag and drop icons are normal windows.
TypeRead(win, v) ==
  IF v = None /\ ~win.override /\ win.transientFor # None THEN win
  ELSE [win EXCEPT !.type = IF v \in {None, "DND"} THEN "NORMAL" ELSE v]

HildonTypeRead(win, v) == [win EXCEPT !.hildonType = OrElse(v, @)]

StateRead(win, v) == [win EXCEPT !.state = OrElse(v, @)]

\* An override window that covers the screen passes for a fullscreen one.
GeometryRead(win, v) ==
  [win EXCEPT !.geometry = v,
              !.state    = @ \cup IF win.override /\ v = Screen
                                  THEN {"Fullscreen", "Above", "Modal"} ELSE {}]

\* The three names, best first; the old name goes before the first is read.
NameXmlRead(win, v) == [win EXCEPT !.name = v]
NameUtf8Read(win, v) == [win EXCEPT !.name = OrElse(@, v)]
NameRead(win, v) == [win EXCEPT !.name = OrElse(OrElse(@, v), "unknown")]

\* v says whether the window wants key input, TRUE if the hint is not set.
WmHintsRead(win, v) == [win EXCEPT !.wantInput = OrElse(v, TRUE)]

\* v says whether the window asks for no decoration.
MwmHintsRead(win, v) ==
  [win EXCEPT !.undecorated = @ \/ (v = TRUE /\ win.type # "NORMAL")]

\* Protocols are added and never dropped.
ProtosRead(win, v) == [win EXCEPT !.protos = @ \cup OrElse(v, {})]

MachineRead(win, v) == [win EXCEPT !.machine = v]

LiveBackgroundRead(win, v) == [win EXCEPT !.liveBackground = OrElse(v, 0)]

PidRead(win, v) == [win EXCEPT !.pid = OrElse(v, @)]

\* None stands for -1.
TranslucencyRead(win, v) ==
  [win EXCEPT !.translucency = IF v = None THEN None ELSE LowByte(v)]

NoTransitionsRead(win, v) == [win EXCEPT !.noTransitions = @ \/ v # None]

UserTimeRead(win, v) == [win EXCEPT !.userTime = IF v = None THEN @ ELSE LowByte(v)]

StackingRead(win, v) ==
  [win EXCEPT !.stackingLayer = IF v = None THEN 0 ELSE LowByte(v)]

PortraitSupportRead(win, v) == [win EXCEPT !.portraitSupport = v]
PortraitRequestRead(win, v) == [win EXCEPT !.portraitRequest = v]

Read(k, win, v) ==
  CASE k = "TRANSIENCY"       -> TransiencyRead(win, v)
    [] k = "ATTR"             -> AttrRead(win, v)
    [] k = "WIN_TYPE"         -> TypeRead(win, v)
    [] k = "HILDON_TYPE"      -> HildonTypeRead(win, v)
    [] k = "NET_STATE"        -> StateRead(win, v)
    [] k = "GEOMETRY"         -> GeometryRead(win, v)
    [] k = "NAME_XML"         -> NameXmlRead(win, v)
    [] k = "NAME_UTF8"        -> NameUtf8Read(win, v)
    [] k = "NAME"             -> NameRead(win, v)
    [] k = "WM_HINTS"         -> WmHintsRead(win, v)
    [] k = "MWM_HINTS"        -> MwmHintsRead(win, v)
    [] k = "PROTOS"           -> ProtosRead(win, v)
    [] k = "MACHINE"          -> MachineRead(win, v)
    [] k = "LIVE_BACKGROUND"  -> LiveBackgroundRead(win, v)
    [] k = "PID"              -> PidRead(win, v)
    [] k = "TRANSLUCENCY"     -> TranslucencyRead(win, v)
    [] k = "NO_TRANSITIONS"   -> NoTransitionsRead(win, v)
    [] k = "USER_TIME"        -> UserTimeRead(win, v)
    [] k = "STACKING"         -> StackingRead(win, v)
    [] k = "PORTRAIT_SUPPORT" -> PortraitSupportRead(win, v)
    [] k = "PORTRAIT_REQUEST" -> PortraitRequestRead(win, v)

\* Some members are reset before the error of the answer is looked at.
ResetFirst == {"NAME_XML", "MACHINE", "LIVE_BACKGROUND", "TRANSLUCENCY",
               "STACKING", "PORTRAIT_SUPPORT", "PORTRAIT_REQUEST"}
Failed(k, win) == IF k \in ResetFirst THEN Read(k, win, None) ELSE win

\* What a window becomes whose properties, all at the same time, are vals.
Refreshed(win, flags, vals) ==
  FoldLeft(LAMBDA w, k : IF FlagOf(k) \in flags THEN Read(k, w, vals[k]) ELSE w,
           win, Looked)
=============================================================================
