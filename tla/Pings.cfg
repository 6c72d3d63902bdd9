\* An application that may hang and change its fullscreen state, and one that
\* hangs for good, on another host.
CONSTANTS
  a = a
  b = b
  Clients = {a, b}
  Deleting = {a, b}
  Own = {}
  Remote = {b}
  Reparenting = {a}
  Hanging = {a}
  Stuck = {b}
  Switched = {a}
  MaxFrames = 2
  MaxInbox = 2
  MaxQueue <- Queues
SPECIFICATION FairSpec
INVARIANTS TimeoutsMatch OnlySilentArePinged
PROPERTIES PingsEnd
CHECK_DEADLOCK FALSE
