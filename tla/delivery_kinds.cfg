SPECIFICATION FairSpec
CONSTANTS
  n1 = n1
  n2 = n2
  r1 = r1
  r2 = r2
  Notes = {n1, n2}
  Runs = {r1}
  Oversized = {n1}
  Rejected = {n2}
  MaxRetries = 1
  MaxPendingRetries = 2
  TornWrites = FALSE
  MaxExits = 2
INVARIANT DeliveryIsConsistent
PROPERTY ImplementsDelivery
CHECK_DEADLOCK FALSE
