\* Two applications that go fullscreen, or two desktops.
CONSTANTS
  a = a
  b = b
  p = p
  o = o
  Windows = {a, b, p, o}
  Overrides = {o}
  Preexisting = {p}
  Messages <- MCMessages
  Desktops = {0, 1}
  ActivatesNew = TRUE
  MaxQueue = 2
SPECIFICATION MCSpec
INVARIANTS NoDanglingOnOneDesktop ViewAgrees NothingOwed WithdrawnIsUnmanagedInTime
CHECK_DEADLOCK FALSE
