SPECIFICATION Spec
CONSTANTS
    Requests = {r1}
    Kinds = {"interactive"}
    Slots = 1
    RecoverySamples = 2
    MaxTurns = 1
    MayCancel = FALSE
CHECK_DEADLOCK FALSE
INVARIANT NoFlaggedText
