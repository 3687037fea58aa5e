SPECIFICATION FairSpec
CONSTANTS
    w1 = w1
    w2 = w2
    Writers = {w1, w2}
    MaxConns = 3
    MaxBreaks = 2
    MaxReads = 1
    Reconnect = FALSE
    NonBlockWrite = TRUE
    Faults = {"dialFails", "rejected", "connectTo", "lost", "remote", "goaway", "close", "closeEarly", "signal",
        "undecodable", "badDefinition"}
INVARIANTS
    WriteOutcome
    LossBounded
    AbandonedOnlyAfterError
    PanicOnlyInShutdown
PROPERTIES
    CloseReturns
    Reconnects
CHECK_DEADLOCK FALSE
