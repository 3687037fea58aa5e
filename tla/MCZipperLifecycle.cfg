SPECIFICATION FairSpec
CONSTANTS
    c1 = c1
    c2 = c2
    c3 = c3
    t1 = t1
    t2 = t2
    ta = ta
    tb = tb
    d1 = d1
    d2 = d2
    Conns = {c1, c2}
    NoConn = NoConn
    Tags = {t1}
    NoTag = NoTag
    Targets = {ta}
    NoTarget = NoTarget
    HandshakeFrames <- LifecycleHandshakes
    NoHandshake = NoHandshake
    Downstreams = {d1}
    MaxFrames = 1
    MayStop = TRUE
INVARIANTS
    HandlerOwnsEntries
    Layered
    GoneLeavesNothing
PROPERTIES
    ImplementsPubSub
    DeadIsForgotten
    CloseStops
CHECK_DEADLOCK FALSE
