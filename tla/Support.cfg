SPECIFICATION Spec
CHECK_DEADLOCK FALSE
SYMMETRY Symmetry
CONSTANTS
    \* Api
    a1 = a1
    a2 = a2
    Addresses = {a1, a2}
    Trusted = {a1}
    Empty = Empty
    Told <- MCTold
    IPLimit = 2
    CompareLimit = 1
    Window = 2
    MaxTracked = 3
    MaxPerTick = 1
    \* SemanticCache
    p1 = p1
    p2 = p2
    p3 = p3
    Threads = {t1, t2}
    Prompts = {p1, p2, p3}
    Responses = {r1}
    Sim <- MCSim
    CacheThreshold = 92
    TTL = 0
    MaxEntries = 2
    HasEmbedder = TRUE
    MaxTime = 1
    MaxEmbeds = 1
    MaxSearches = 1
    \* Webhook
    Models = {"primary", "fallback"}
    MaxInFlight = 2
    AllowHTTP = FALSE
    AllowPrivate = FALSE
    None = None
    MaxChanges = 3
    \* Telemetry
    Latencies = {1200, 6000}
    LatencyWindow = 2
    HistorySize = 2
    CacheSize = 3
    PrimaryPrice = 10
    FallbackPrice = 1
    MaxWrites = 3
    MaxMixed = 2
    \* Transcript
    Threshold = 10
    Iterations = 4
    SystemLines = 8
    ObservationLines = {1, 12}
    LineWords = {0, 1, 9}
    WordBytes = {1, 30}
    CharLimit = 12
    MaxAbbrev = 24
    MinTarget = 20
    \* Evaluator
    Callers = {c1, c2}
    LengthWindow = 2
    Similarities = {0, 30, 60}
    MaxEvaluations = 3
    \* Calculator
    MaxTokens = 5
INVARIANTS
    OnlyACrowdOverflows
    RefusedAtOwnLimit
    SizeBounded
    VectorMatchesPrompt
    HitIsRelevant
    StateReconstructible
    PlacesMatchPosts
    NothingAfterClear
    TornCountsAreSafe
    RingsTellTheLatest
    SummaryBounded
    VerdictIsFair
    CalculatorFollowsGrammar
    ScenarioNeedsNoAudience
PROPERTIES
    LossBounded
