SPECIFICATION Spec
CONSTANTS
    c1 = c1
    c2 = c2
    c3 = c3
    t1 = t1
    t2 = t2
    ta = ta
    tb = tb
    d1 = d1
    d2 = d2
    Conns = {c1, c2}
    NoConn = NoConn
    Tags = {t1}
    NoTag = NoTag
    Targets = {}
    NoTarget = NoTarget
    HandshakeFrames <- OneFunction
    NoHandshake = NoHandshake
    Downstreams = {}
    MaxFrames = 1
    MayStop = FALSE
INVARIANTS
    AckFirst
SYMMETRY Symmetry
CHECK_DEADLOCK FALSE
