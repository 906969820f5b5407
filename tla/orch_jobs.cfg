SPECIFICATION FairSpec
CONSTANTS
  s1 = s1
  s2 = s2
  k1 = k1
  d1 = d1
  Subs <- TwoSubs
  Keys <- OneKey
  KeyOf <- TwoOnOneKey
  Docs = {d1}
  DocOf <- OneDoc
  Overridden = {s2}
  Forced = {}
  EnableCache = TRUE
  MaxConcurrent = 1
  MaxAttempts = 2
  NoJob = NoJob
INVARIANTS JobsAreConsistent ActiveIsCounted HitIsFinished GivesUpLast
PROPERTIES UsesPoolAsAgreed ImplementsJobService
CHECK_DEADLOCK FALSE
