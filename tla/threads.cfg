SPECIFICATION StartSpec
CONSTANTS
    Calls = {c1, c2}
    Rulesets = {embedded, broken}
    Embedded = {embedded}
    Broken = {broken}
    EnableCache = TRUE
    MaxClears = 1
    NoCall = NoCall
    Tasks = {t1, t2}
    Documents = {d1, d2}
    Fitting = {d1}
    CacheEnabled = TRUE
    MayExpire = TRUE
    MaxEvictions = 1
    NoDocument = NoDocument
INVARIANTS ThreadIsConsistent LoaderIsConsistent
PROPERTY TasksAreAnswered
CHECK_DEADLOCK FALSE
