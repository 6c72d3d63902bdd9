\* The stacking list with five clients: every order of every subset.
SPECIFICATION Spec
CONSTANTS
  NULL = NULL
  a1 = a1
  a2 = a2
  a3 = a3
  d = d
  p = p
  Clients <- MCClients
  ClientType <- MCClientType
  CycledTypes <- MCCycled
  FollowedTypes <- MCFollowed
INVARIANTS
  TypeOK
  WellFormed
PROPERTY
  ImplementsOrder
