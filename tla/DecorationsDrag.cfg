\* An application, whose button minimizes, and a dialog.
CONSTANTS
  app = app
  dialog = dialog
  Clients = {app, dialog}
  Movable = {dialog}
  PressActivated = {app}
  Minimizing = {app}
  Spins = 5
  MaxThemes = 1
  MaxDepth = 4
  MaxQueue = 2
SPECIFICATION Spec
INVARIANTS DragsKeepDecors
CHECK_DEADLOCK FALSE
