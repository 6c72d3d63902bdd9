\* Each of four casts of clients.
CONSTANTS
  a1 = a1
  a2 = a2
  d1 = d1
  w1 = w1
  w2 = w2
  NULL = NULL
  None = None
  Gone = Gone
  Clients = {a1, a2, d1, w1, w2}
  ClientType <- FamilyTypes
  TransientTargets <- FamilyTargets
  HildonLayers <- NoLayers
  Overlapping = {}
  LiveBackgrounds = {}
SPECIFICATION MCSpec
INVARIANTS LinksAgree TransientsAboveParents DeviceSettles NextShowsEveryFamily InputAboveApps
PROPERTY SyncIsStable
CHECK_DEADLOCK FALSE
