SPECIFICATION FairSpec
CONSTANTS
    c1 = c1
    C1 = C1
    c2 = c2
    c3 = c3
    Requests = {r1, r2}
    Sessions = {s1}
    MaxHistory = 3
    TTL = 1
    MaxRun = 1
    MaxTurns = 3
    Calls = {c1, C1, c2, c3}
    Known = {c1, c2, c3}
    KeyOf <- MCKeyOf
    CacheMax = 2
    CacheEnabled = TRUE
CHECK_DEADLOCK FALSE
INVARIANTS
    ExchangeStored
    CacheIsLRU
    HitIsGenuine
PROPERTIES
    CleanupSparesActive
    RemembersFinished
    EverythingExpires
