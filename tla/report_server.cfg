SPECIFICATION Spec
CONSTANTS
    j1 = j1
    j2 = j2
    j3 = j3
    d = d
    e = e
    r = r
    c = c
    None = None
    Jobs = {j1, j2, j3}
    DocOf <- Document
    StatusOf <- Status
    At <- Times
    Results <- Rulesets
    Readers = {r}
    Limit = 1
    Cleaners = {c}
    Options <- SomeOptions
    MaxNow = 4
    MaxPosts = 3
INVARIANTS TablesAreConsistent ReadersSeeAll
PROPERTIES OnlyOldAreDeleted Stops
CHECK_DEADLOCK FALSE
