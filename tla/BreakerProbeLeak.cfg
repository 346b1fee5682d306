SPECIFICATION FairSpec
CONSTANTS
    Threads = {t1, t2}
    Scores = {20, 50, 90}
    WindowSize = 3
    MinSamples = 2
    DegradedThreshold0 = 65
    FailingThreshold0 = 45
    OpenTimeout = 1
    RecoverySamples = 2
    CalibN = 0
    DriftSamples = 1
    MaxLongTerm = 0
    MayAbandon = TRUE
PROPERTIES
    RecoversWhenQualityReturns
