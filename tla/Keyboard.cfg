SPECIFICATION Spec
CONSTANTS
  Typed <- MCTyped
  MaxTyped = 3
  MaxTries = 13
  MaxDataCnt = 3
INVARIANTS
  KeysExact
  LedsTrue
PROPERTIES
  QueueKept
  KeysArrive
