SPECIFICATION Spec
CONSTANTS
  t1 = t1
  t2 = t2
  t3 = t3
  k1 = k1
  k2 = k2
  d1 = d1
  d2 = d2
  Tasks <- ThreeTasks
  Keys <- TwoKeys
  KeyOf <- ThreeOnOneKey
  NoDoc = NoDoc
  Docs = {d1,d2}
  DocOf <- ThreeDocs
  MaxAttempts = 1
  TotalMax = 3
  MinPerKey = 1
  MaxPerKey = 2
  ScaleUpThreshold = 1
  MaxRetries = 0
  Cpus = 1
  MaxSpawning = 1
  MaxSpawns = 3
INVARIANTS PoolIsConsistent NoLostWakeup
PROPERTY ServedInOrder
CHECK_DEADLOCK FALSE
