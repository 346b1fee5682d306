SPECIFICATION BoundedSpec
CONSTANTS
    Requests = {r1, r2}
    Kinds = {"interactive", "batch", "react"}
    Slots = 1
    RecoverySamples = 2
    MaxTurns = 2
    MayCancel = TRUE
CHECK_DEADLOCK FALSE
INVARIANTS
    FlaggedOnlyIfSlipped
    TierCountsInSync
    TraceTellsTheStory
PROPERTIES
    AnswersEveryone
