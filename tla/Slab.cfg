SPECIFICATION Spec
CONSTANTS
  Pages = 4
  PageSize = 8
  HeaderSize = 6
  MinObjs = 2
  MaxOrder = 2
  MaxCache = 2
  MaxShift = 0
  Requests <- MCRequests
  Sizes <- MCSizes
INVARIANTS
  BlocksApart
  SlabsExact
  OwnersFound
