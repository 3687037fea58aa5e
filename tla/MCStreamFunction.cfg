SPECIFICATION FairSpec
CONSTANTS
    ta = ta
    tb = tb
    Targets = {ta}
    NoTarget = NoTarget
    Configurations <- SfnConfigurations
    MaxFrames = 4
    MaxCalls = 2
    MaxOps = 2
INVARIANTS
    MetadataFollows
    PipeInOrder
PROPERTIES
    PipeTakes
    CloseReturns
CHECK_DEADLOCK FALSE
