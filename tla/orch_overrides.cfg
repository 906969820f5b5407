SPECIFICATION Spec
CONSTANTS
  s1 = s1
  s2 = s2
  k1 = k1
  d1 = d1
  Subs <- TwoSubs
  Keys <- OneKey
  KeyOf <- TwoOnOneKey
  Docs = {d1}
  DocOf <- OneDoc
  Overridden = {s1}
  Forced = {}
  EnableCache = TRUE
  MaxConcurrent = 2
  MaxAttempts = 1
  NoJob = NoJob
INVARIANT OverridesAreUnique
CHECK_DEADLOCK FALSE
