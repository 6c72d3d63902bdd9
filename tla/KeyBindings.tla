---------------------------- MODULE KeyBindings -----------------------------
(***************************************************************************)
(* The key bindings of core/mb-wm-keys.c.  A key is a keysym with a set of *)
(* modifiers.  It has to be grabbed for every set of lock modifiers that   *)
(* may be on besides, and a key press is looked up by leaving those out.   *)
(***************************************************************************)
EXTENDS FiniteSets, SequencesExt

CONSTANTS
  Specs,         \* the keys asked for: the names of modifiers and of a keysym
  Keysyms,       \* the names that are keysyms
  Keycodes,      \* those the keyboard has a key for
  ModifierMap    \* the modifiers the keyboard has set up for some keysyms

\* mb_wm_keys_init: either of alt and meta stands in for the other.
AltMask  == IF ModifierMap.Alt = {} THEN ModifierMap.Meta ELSE ModifierMap.Alt
MetaMask == IF ModifierMap.Meta = {} THEN ModifierMap.Alt ELSE ModifierMap.Meta
LockMask == {"Lock"} \cup ModifierMap.NumLock \cup ModifierMap.ScrollLock

\* The modifiers of a name in a specification like "<ctrl><alt>F1".
Mask(name) ==
  CASE name = "ctrl"  -> {"Control"}
    [] name = "shift" -> {"Shift"}
    [] name = "mod2"  -> {"Mod2"}
    [] name = "alt"   -> AltMask
    [] name = "meta"  -> MetaMask
    [] OTHER -> {}

Key(spec) == [keysym |-> spec.keysym, modifiers |-> UNION {Mask(n) : n \in spec.names}]

\* mb_wm_keys_binding_add_with_spec gives up unless every name stands for a
\* modifier and the keysym is known, and never grabs every key there is.
Accepts(spec) ==
  /\ \A n \in spec.names : Mask(n) # {}
  /\ spec.keysym \in Keysyms
  /\ spec.keysym \in Keycodes \/ Key(spec).modifiers # {}

\* Mutant: the comment's "all Locked combo's".
Ignored_All == SetToSeq(SUBSET LockMask)

\* The lock modifiers that are ignored: key_binding_set_grab and
\* mb_wm_keys_press count up to lock_mask, but not lock_mask itself.
Ignored == SetToSeq({m \in SUBSET LockMask : m # LockMask})

\* key_binding_set_grab: one grab for each, in the order of the masks.
Combinations(key) ==
  [i \in DOMAIN Ignored |-> [key EXCEPT !.modifiers = @ \cup Ignored[i]]]

\* mb_wm_keys_press calls the binding of key for this combination.
Matches(key, combination) ==
  /\ combination.keysym = key.keysym
  /\ \E m \in SUBSET LockMask : /\ m # LockMask
                                /\ combination.modifiers \ m = key.modifiers
=============================================================================
