\* The home screen, an application, its modal dialog and a system-modal dialog.
CONSTANTS
  home = home
  app = app
  sub = sub
  sys = sys
  NULL = NULL
  None = None
  Gone = Gone
  RootWindow = RootWindow
  PointerRoot = PointerRoot
  Clients = {home, app, sub, sys}
  ClientType <- Types
  TransientTargets <- Targets
  HildonLayers <- Layers
  Overlapping = {}
  LiveBackgrounds = {}
  Typing = {home, app, sub, sys}
  Modal = {sub}
  Covering = {home, app}
  Applets = {}
  Actors = {}
  SystemModality = TRUE
  Minimizing = {app}
  Lockable = TRUE
  SyncsAtOnce = TRUE
  Fullscreening = {app}
  Withdrawing = {app, sub}
  Dying = {sys}
  Pagers = {home, app, sys}
  MaxQueue = 2
SPECIFICATION Spec
INVARIANTS FocusedHasInputIfCalm SomeoneIsFocused ModalBeforeParent
PROPERTIES SystemModalKeepsFocus
CHECK_DEADLOCK FALSE
