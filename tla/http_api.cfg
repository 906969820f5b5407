SPECIFICATION ApiSpec
CONSTANTS
    Jobs = {j1, j2, j3}
    Keys = {k1, k2}
    Docs = {d1}
    Rulesets = {r1, r2}
    Statuses = {timeout, completed}
    KeyOf <- TwoOfOneKey
    DocOf <- OneDocument
    RulesetOf <- TwoRulesets
    TimeOf <- OutOfOrder
    Invalidations = {v1}
    UseTTL = FALSE
    NoJob = NoJob
    Clients = {c1}
    MaxConcurrent = 2
    Rules = {a, b, c}
    Paths = {p, pp}
    StartsWith <- TextOf
    Found <- Diagnostics
    Overrides <- Changed
    Filters <- Asked
    PageSizes = {1, 2}
    Completed = completed
    TimedOut = timeout
    Failed = failed
    a = a
    b = b
    c = c
    p = p
    pp = pp
    j1 = j1
    j2 = j2
    j3 = j3
    k1 = k1
    k2 = k2
    d1 = d1
    r1 = r1
    r2 = r2
    timeout = timeout
    completed = completed
INVARIANTS ToldIsSo PagesMatchStats ReportMatchesStats StatsAgree ListMissesNothing
CHECK_DEADLOCK FALSE
