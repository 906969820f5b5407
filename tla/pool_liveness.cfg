SPECIFICATION FairSpec
CONSTANTS
  t1 = t1
  t2 = t2
  t3 = t3
  k1 = k1
  k2 = k2
  d1 = d1
  d2 = d2
  Tasks <- TwoTasks
  Keys <- OneKey
  KeyOf <- TwoOnOneKey
  NoDoc = NoDoc
  Docs = {d1}
  DocOf <- SameDoc
  MaxAttempts = 1
  TotalMax = 2
  MinPerKey = 1
  MaxPerKey = 2
  ScaleUpThreshold = 1
  MaxRetries = 1
  Cpus = 1
  MaxSpawning = 1
  MaxSpawns = 3
INVARIANT ErrorIsReplaced
PROPERTIES EveryWorkerFreed ImplementsTaskService
CHECK_DEADLOCK FALSE
