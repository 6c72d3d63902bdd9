\* Two desktops and an application: which clients are freed.
CONSTANTS
  a = a
  b = b
  p = p
  o = o
  Windows = {a}
  Overrides = {}
  Preexisting = {}
  Messages <- NoMessages
  Desktops = {0, 1}
  ActivatesNew = TRUE
  MaxQueue = 2
SPECIFICATION AllSpec
INVARIANT NoDanglingClient
CHECK_DEADLOCK FALSE
