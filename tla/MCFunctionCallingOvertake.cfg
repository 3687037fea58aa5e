SPECIFICATION FairSpec
CONSTANTS
    c1 = c1
    c2 = c2
    c3 = c3
    t1 = t1
    t2 = t2
    k1 = k1
    k2 = k2
    r1 = r1
    r2 = r2
    Conns = {c1}
    Tags = {t1}
    NoTag = NoTag
    Targets = {}
    NoTarget = NoTarget
    Requests = {r1}
    Calls = {k1}
    NoCall = NoCall
    TagOf <- Single
    CallTag <- OneCall
    Stable = {c1}
    Faults = {"overtake"}
    MaxLost = 1
PROPERTIES
    AllWrittenMeansDone
CHECK_DEADLOCK FALSE
