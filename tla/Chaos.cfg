SPECIFICATION FairSpec
CONSTANTS
    Operators = {o1, o2}
    Slots = {"primary", "fallback"}
    Timeout = 2
    Exclusive = TRUE
    MaxGen = 2
INVARIANTS
    OneLiveTimer
    ScenarioExclusive
    KillBounded
PROPERTIES
    KillSelfHeals
