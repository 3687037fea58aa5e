SPECIFICATION FairSpec
CONSTANTS
    w1 = w1
    w2 = w2
    Writers = {w1, w2}
    Outgoing <- OutgoingFrames
    MaxWrites = 2
INVARIANTS
    ReadsWhatWasWritten
    ErrorsAgree
PROPERTIES
    ReaderLearns
CHECK_DEADLOCK FALSE
