SPECIFICATION Spec
CONSTANTS
    Jobs = {j1, j2, j3}
    Keys = {k1, k2}
    Docs = {d1}
    Rulesets = {r1, r2}
    Statuses = {failed, completed}
    KeyOf <- TwoOfOneKey
    DocOf <- OneDocument
    RulesetOf <- TwoRulesets
    TimeOf <- OutOfOrder
    Invalidations = {v1, v2}
    UseTTL = TRUE
    NoJob = NoJob
    j1 = j1
    j2 = j2
    j3 = j3
    k1 = k1
    k2 = k2
    d1 = d1
    r1 = r1
    r2 = r2
    failed = failed
    completed = completed
INVARIANT StorageIsConsistent
PROPERTIES InvalidateIsComplete ImplementsLintCache
CHECK_DEADLOCK FALSE
