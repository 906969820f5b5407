SPECIFICATION Spec
CONSTANTS
  x1 = x1
  x2 = x2
  Clients = {c1, c2}
  Contents = {x1, x2}
  Size <- TwoSizes
  Quota = 3
  MaxCached = 1
  MaxCalls = 2
  MaxFaults = 1
  Missing = Missing
  Torn = Torn
SYMMETRY Symmetry
INVARIANTS StoreIsConsistent CreatedAreKept UploadsRecorded PagesMatchSearch
CHECK_DEADLOCK FALSE
