SPECIFICATION FairSpec
CONSTANTS
  n1 = n1
  n2 = n2
  r1 = r1
  r2 = r2
  Notes = {n1}
  Runs = {r1, r2}
  Oversized = {}
  Rejected = {}
  MaxRetries = 1
  MaxPendingRetries = 2
  TornWrites = FALSE
  MaxExits = 1
INVARIANT AttemptsBounded
PROPERTIES Durable ImplementsDelivery
CHECK_DEADLOCK FALSE
