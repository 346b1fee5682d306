SPECIFICATION FairSpec
CONSTANTS
    Threads = {t1, t2, t3}
    Scores = {20, 50, 95}
    WindowSize = 3
    MinSamples = 2
    DegradedThreshold0 = 65
    FailingThreshold0 = 45
    OpenTimeout = 1
    RecoverySamples = 2
    CalibN = 2
    DriftSamples = 2
    MaxLongTerm = 4
    MayAbandon = TRUE
INVARIANTS
    ProbeDiscipline
    ThresholdBand
PROPERTIES
    ImplementsGate
    CooldownRespected
    RecoveryEarned
    RecoversOrProbeLost
