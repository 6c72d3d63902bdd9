\* One client at a time: an application with either kind of texture, an override window,
\* or an application and two desktops.
CONSTANTS
  a = a
  b = b
  p = p
  o = o
  Windows = {a, b, p, o}
  Overrides = {o}
  Preexisting = {}
  Messages <- MCMessages
  Desktops = {0, 1}
  ActivatesNew = TRUE
  MaxQueue = 3
  Ignoring = {a, p}
  Animated = {a, b, o}
  Pausing = {a, p}
  MaxReports = 2
SPECIFICATION MCSpec
INVARIANTS DamageHeard TexturesCurrent
CHECK_DEADLOCK FALSE
