SPECIFICATION Spec
CONSTANTS
    w1 = w1
    w2 = w2
    Writers = {w1, w2}
    MaxConns = 3
    MaxBreaks = 1
    MaxReads = 1
    Reconnect = TRUE
    NonBlockWrite = FALSE
    Faults = {"lost", "close"}
INVARIANTS
    DoneMeansClosed
CHECK_DEADLOCK FALSE
