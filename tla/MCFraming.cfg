SPECIFICATION Spec
CONSTANTS
  Payload <- MCPayload
  MaxReconnects = 2
INVARIANTS
  DeliveriesWhole
PROPERTIES
  NeverBackwards
CHECK_DEADLOCK FALSE
