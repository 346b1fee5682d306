SPECIFICATION FairSpec
CONSTANTS
    RawCap = 1
    OutCap = 1
    GateEvery = 2
    GateLast = 4
    MaxTokens = 5
CHECK_DEADLOCK FALSE
INVARIANTS
    WellFormedStream
    CompleteAnswer
    RefusalStopped
PROPERTIES
    EveryoneLeaves
