\* One window, or keys.
CONSTANTS
  None = None
  Screen = Screen
  w1 = w1
  Windows = {w1}
  Specs <- Wanted
  Keysyms = {"F1", "F9"}
  Keycodes = {"F1"}
  ModifierMap <- Keyboard
  Initially <- Plain
  Settable <- Changes
  MaxUses = 2
  MaxBindings = 4
SPECIFICATION Spec
INVARIANTS AnswersReachAskers CopyUpToDate GrabsAnswered
PROPERTIES MapsAnswered
CHECK_DEADLOCK FALSE
