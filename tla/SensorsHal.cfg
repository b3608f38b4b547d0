CONSTANTS
    Sessions = {s1, s2}
    FdMax = 3
    Samples <- MCSamples
    Foreign <- MCForeign
SPECIFICATION FairSensors
CHECK_DEADLOCK FALSE
INVARIANTS
    NoDescriptorLeak
    VectorIsSample
PROPERTIES
    ClosesOnlyOwn
    PollReturns
