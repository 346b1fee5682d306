SPECIFICATION CacheSpec
CONSTANTS
    p1 = p1
    p2 = p2
    p3 = p3
    Threads = {t1}
    Prompts = {p1, p2, p3}
    Responses = {r1}
    Sim <- MCSim
    CacheThreshold = 92
    TTL = 2
    MaxEntries = 3
    HasEmbedder = FALSE
    MaxTime = 2
    MaxEmbeds = 1
    MaxSearches = 1
SYMMETRY CacheSymmetry
PROPERTIES
    EvictsOldest
