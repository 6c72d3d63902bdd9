\* Three handlers for client messages and damage, and two windows.
SPECIFICATION Spec
CONSTANTS
  ClientMessage = ClientMessage
  DamageNotify = DamageNotify
  Expose = Expose
  Types <- MCTypes
  w1 = w1
  w2 = w2
  None = None
  Windows <- MCWindows
  MaxIds = 3
  MaxNesting = 2
INVARIANTS
  TypeOK
  NoFreedHandler
  EveryHandlerCalled
PROPERTIES
  SweptAtBottom
  ImplementsRegistry
