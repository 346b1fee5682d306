SPECIFICATION TranscriptSpec
CHECK_DEADLOCK FALSE
CONSTANTS
    Threshold = 80
    Iterations = 6
    SystemLines = 19
    ObservationLines = {1, 15}
    LineWords = {10, 28}
    WordBytes = {5}
    CharLimit = 100
    MaxAbbrev = 10240
    MinTarget = 64
INVARIANT SummaryShrinks
