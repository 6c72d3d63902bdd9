\* A turning screen with panels, an application and what belongs to it.
SPECIFICATION Spec
CONSTANTS
  NULL = NULL
  bar = bar
  side = side
  app = app
  other = other
  keyboard = keyboard
  dialog = dialog
  note = note
  menu = menu
  home = home
  Clients = {bar, side, app, other, keyboard, dialog, note, menu, home}
  Casts <- MCCasts
  Kind <- MCKind
  Decor <- MCDecor
  Decorated <- MCDecorated
  Opening <- MCOpening
  Wanted <- MCWanted
  For <- MCFor
  Prescribed <- MCPrescribed
  Gravity <- MCGravity
  CanFill = {app, other}
  CanHide = {other}
  Screens <- MCScreens
  SyncsAtOnce = TRUE
  MaxAsks = 1
  MaxMaps = 1
INVARIANTS ReservedApart AppsFillTheRest FullscreenClearOfInput LayoutStable AnsweredInPlace
PROPERTY DialogsInside
CHECK_DEADLOCK FALSE
