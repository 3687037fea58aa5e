SPECIFICATION FairSpec
CONSTANTS
    c1 = c1
    c2 = c2
    c3 = c3
    t1 = t1
    t2 = t2
    k1 = k1
    k2 = k2
    r1 = r1
    r2 = r2
    Conns = {c1, c2, c3}
    Tags = {t1, t2}
    NoTag = NoTag
    Targets = {}
    NoTarget = NoTarget
    Requests = {r1, r2}
    Calls = {k1, k2}
    NoCall = NoCall
    TagOf <- TwoAndOne
    CallTag <- OneEach
    Stable = {c1, c2}
    Faults = {"churn", "silent", "writeFails", "loss"}
    MaxLost = 1
INVARIANTS
    WgCountsAnswers
    AggregatesAll
    Isolated
PROPERTIES
    RequestReturns
CHECK_DEADLOCK FALSE
