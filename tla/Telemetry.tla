------------------------------ MODULE Telemetry ------------------------------
(***************************************************************************)
(* What the dashboard is told: the latency windows, the request counters,  *)
(* the composite score (telemetry/latency.go, costs.go, score.go) and      *)
(* Agent.Status, which collects them (agent/agent.go).                     *)
(*                                                                         *)
(* Status takes no lock.  It loads one value after another while requests, *)
(* breakers and operators change them, so what it reports may never have   *)
(* been true at any one moment.  Looks is the order of its loads; each is  *)
(* a step of its own.  Latencies are in milliseconds, the score in points. *)
(***************************************************************************)
EXTENDS Rings, Functions

CONSTANTS
    Latencies,      \* latencies a call may take
    LatencyWindow,  \* latencyWindowSize
    HistorySize,    \* cfg.Score.HistorySize
    CacheSize,      \* entries in the response cache
    PrimaryPrice, FallbackPrice,    \* price of a request's tokens
    MaxWrites,      \* bound: all changes made by anyone but Status
    MaxMixed        \* bound: the same, if breakers or switches are among the changes

ASSUME TelemetryAssumption ==
    /\ Latencies \subseteq Nat
    /\ {LatencyWindow, HistorySize} \subseteq Nat \ {0}
    /\ {CacheSize, MaxMixed, MaxWrites, FallbackPrice} \subseteq Nat
    /\ PrimaryPrice \in Nat \ 0..FallbackPrice

VARIABLES
    transport,      \* transport breaker of each model
    down,           \* the chaos flag of each model
    semantic,       \* semantic breaker of each model
    degrade,        \* degrade mode
    counts,         \* requests by the tier that answered (CostTracker)
    total,          \* totalRequests
    window,         \* latency window of the primary: slots, next index, filled?
    points,         \* the score history's ring
    seen,           \* what the running Status has loaded so far
    report,         \* the counters of the report just made
    recent,         \* history: the last LatencyWindow latencies, oldest first
    scores,         \* history: the last HistorySize scores recorded, oldest first
    turns,          \* history: ReAct turns, which are not counted in total
    truth,          \* history: counters when Status loaded the denials, turns when the total
    writes

telemetryVars == <<transport, down, semantic, degrade, counts, total, window, points, seen,
                   report, recent, scores, turns, truth, writes>>

LLMs == {"primary", "fallback"}
Tiers == {"primary", "fallback", "cache", "denied"}
Marks == [healthy |-> 2, degraded |-> 1, failing |-> 0]

-----------------------------------------------------------------------------
(* Latency percentiles.                                                     *)

\* sort.Slice: the element that comes k-th has k - 1 before it.
Before(s, i) == {j \in DOMAIN s : s[j] < s[i] \/ (s[j] = s[i] /\ j < i)}
Sorted(s) == [k \in DOMAIN s |-> s[CHOOSE i \in DOMAIN s : Cardinality(Before(s, i)) = k - 1]]

Samples(ring) == [i \in 1..RingLen(ring) |-> ring.slots[i - 1]]

\* percentile: the rank-th smallest of the samples in the window, 0 without samples.
Percentile(ring, p) ==
    LET n    == RingLen(ring)
        rank == (n * p) \div 100
    IN  IF n = 0 THEN 0 ELSE Sorted(Samples(ring))[1 + IF rank >= n THEN n - 1 ELSE rank]

-----------------------------------------------------------------------------
(* ComputeScore, on what Status has loaded.                                 *)

Penalty(killedFlag, breaker) ==
    CASE killedFlag \/ breaker = "open" -> 8
      [] ~killedFlag /\ breaker = "half-open" -> 3
      [] OTHER -> 0

TransportHealth(s) == 20 - Penalty(s.primaryKilled, s.primaryBreaker)
                         - Penalty(s.fallbackKilled, s.fallbackBreaker)

SemanticQuality(s) == (IF s.degrade THEN 0 ELSE 6 * Marks[s.primarySemantic])
                      + 4 * Marks[s.fallbackSemantic]

Answered(c) == c.primary + c.fallback + c.cache
Availability(c) == IF Answered(c) + c.denied = 0 THEN 20
                   ELSE (20 * Answered(c)) \div (Answered(c) + c.denied)

\* CostTracker.Snapshot: what cache and fallback save of n, against the primary's prices.
SavingsOf(n, c) ==
    LET saved == c.cache * PrimaryPrice + c.fallback * (PrimaryPrice - FallbackPrice)
        would == Answered(c) * PrimaryPrice
    IN  IF would = 0 THEN 0 ELSE (n * saved) \div would

CacheEfficiency(s) ==
    LET size == IF s.cacheSize > 40 THEN 40 ELSE s.cacheSize
        eff  == (size + 1) \div 2 + SavingsOf(4, s.costs)
    IN  IF Answered(s.counts) + s.counts.denied = 0 \/ eff > 20 THEN 20 ELSE eff

LatencyMarks(p95) == CASE p95 < 1000 -> 20 [] p95 \in 1000..2999 -> 16
                       [] p95 \in 3000..4999 -> 12 [] p95 \in 5000..9999 -> 6
                       [] OTHER -> 2

ComputeScore(s) == TransportHealth(s) + SemanticQuality(s) + CacheEfficiency(s)
                   + Availability(s.counts) + LatencyMarks(s.p95)

-----------------------------------------------------------------------------
(* Everyone else.                                                           *)

TelemetryInit ==
    /\ transport = [m \in LLMs |-> "closed"]
    /\ down = [m \in LLMs |-> FALSE]
    /\ semantic = [m \in LLMs |-> "healthy"]
    /\ degrade = FALSE
    /\ counts = [t \in Tiers |-> 0]
    /\ total = 0 /\ turns = 0 /\ writes = [health |-> 0, requests |-> 0]
    /\ window = EmptyRing(LatencyWindow) /\ recent = <<>>
    /\ points = EmptyRing(HistorySize) /\ scores = <<>>
    /\ seen = <<>> /\ report = <<>> /\ truth = <<>>

reader == <<seen, report, points, scores, truth>>

\* The breakers and switches Status looks at change: transport breakers trip and
\* recover, semantic breakers move, operators kill, restore and degrade.
Health ==
    \/ \E m \in LLMs : \E b \in {"closed", "half-open", "open"} \ {transport[m]} :
          /\ transport' = [transport EXCEPT ![m] = b]
          /\ UNCHANGED <<down, semantic, degrade>>
    \/ \E m \in LLMs : down' = [down EXCEPT ![m] = ~@] /\ UNCHANGED <<transport, semantic, degrade>>
    \/ \E m \in LLMs : \E q \in DOMAIN Marks \ {semantic[m]} :
          /\ semantic' = [semantic EXCEPT ![m] = q]
          /\ UNCHANGED <<transport, down, degrade>>
    \/ degrade' = ~degrade /\ UNCHANGED <<transport, down, semantic>>

\* ask counts a request on arrival, the chain times the primary's answer and counts the
\* tier that answered in the end.  A ReAct turn takes the same chain without having been
\* counted as a request.
Arrive == total' = total + 1 /\ UNCHANGED <<counts, turns, window, recent>>

Time(d) ==
    /\ window' = RingPut(window, d)
    /\ recent' = LastOf(LatencyWindow, recent, d)
    /\ UNCHANGED <<counts, total, turns>>

Record(t) ==
    /\ \/ Answered(counts) + counts.denied < total + turns /\ UNCHANGED turns
       \/ turns' = turns + 1
    /\ counts' = [counts EXCEPT ![t] = @ + 1]
    /\ UNCHANGED <<total, window, recent>>

Write ==
    /\ writes.health + writes.requests < IF writes.health > 0 THEN MaxMixed ELSE MaxWrites
    /\ \/ /\ writes.health + writes.requests < MaxMixed /\ Health
          /\ writes' = [writes EXCEPT !.health = @ + 1]
          /\ UNCHANGED <<counts, total, turns, window, recent>>
       \/ /\ Arrive \/ (\E d \in Latencies : Time(d)) \/ (\E t \in Tiers : Record(t))
          /\ writes' = [writes EXCEPT !.requests = @ + 1]
          /\ UNCHANGED <<transport, down, semantic, degrade>>
    /\ UNCHANGED reader

-----------------------------------------------------------------------------
(* Status.                                                                  *)

\* Mutant: the denied requests are counted first.
Looks_DeniedFirst ==
    << "denied", "primaryBreaker", "fallbackBreaker", "primarySemantic", "fallbackSemantic",
       "primary", "fallback", "cache", "costs", "p95", "primaryKilled",
       "fallbackKilled", "cacheSize", "total", "degrade" >>

\* The loads of Status in their order.  A breaker is loaded together with its model's
\* kill flag, which is loaded a second time later.
Looks ==
    << "primaryBreaker", "fallbackBreaker", "primarySemantic", "fallbackSemantic",
       "primary", "fallback", "cache", "denied", "costs", "p95", "primaryKilled",
       "fallbackKilled", "cacheSize", "total", "degrade" >>

BreakerShown(m) == IF down[m] THEN "killed" ELSE transport[m]

Look(name) ==
    CASE name = "primaryBreaker"   -> BreakerShown("primary")
      [] name = "fallbackBreaker"  -> BreakerShown("fallback")
      [] name = "primarySemantic"  -> semantic.primary
      [] name = "fallbackSemantic" -> semantic.fallback
      [] name \in Tiers            -> counts[name]
      [] name = "costs"            -> counts
      [] name = "p95"              -> Percentile(window, 95)
      [] name = "primaryKilled"    -> down.primary
      [] name = "fallbackKilled"   -> down.fallback
      [] name = "cacheSize"        -> CacheSize
      [] name = "total"            -> total
      [] name = "degrade"          -> degrade

Load ==
    /\ Len(seen) < Len(Looks)
    /\ LET name == Looks[Len(seen) + 1]
       IN  /\ seen' = Append(seen, Look(name))
           /\ truth' = CASE name = "denied" -> <<counts>>
                         [] name = "total"  -> Append(truth, turns)
                         [] OTHER           -> truth
    /\ report' = <<>> /\ UNCHANGED <<points, scores>>

Loaded(name) == seen[CHOOSE i \in DOMAIN seen : Looks[i] = name]

Inputs == [name \in Range(Looks) \cup {"counts"} |->
             IF name = "counts" THEN [t \in Tiers |-> Loaded(t)] ELSE Loaded(name)]

\* The end of Status: the score is computed, reported and offered to the history, which
\* ignores it within a second of the last one.
Report ==
    /\ Len(seen) = Len(Looks)
    /\ report' = [counts |-> Inputs.counts, total |-> Inputs.total,
                  trueCounts |-> truth[1], turns |-> truth[2]]
    /\ \/ scores # <<>> /\ UNCHANGED <<points, scores>>
       \/ /\ points' = RingPut(points, ComputeScore(Inputs))
          /\ scores' = LastOf(HistorySize, scores, ComputeScore(Inputs))
    /\ seen' = <<>> /\ truth' = <<>>

Status ==
    /\ Load \/ Report
    /\ UNCHANGED <<transport, down, semantic, degrade, counts, total, window, recent, turns,
                   writes>>

TelemetryNext == Write \/ Status

TelemetrySpec == TelemetryInit /\ [][TelemetryNext]_telemetryVars

-----------------------------------------------------------------------------
(* Properties.                                                              *)

\* Status loads the counters one by one while requests are counted, yet errs on the safe
\* side: the availability it reports is never above the true one at the moment it loaded
\* the denials, and it never shows more answers than requests and ReAct turns (the order
\* of its loads, and of ask's counting).
TornCountsAreSafe ==
    report # <<>> => /\ Availability(report.counts) <= Availability(report.trueCounts)
                     /\ Answered(report.counts) + report.counts.denied
                          <= report.total + report.turns

\* The dashboard's numbers are about the last calls, also while a ring is part full and
\* after it has wrapped round: of the calls in the latency window at least p% were no slower
\* than the percentile shown and at most p% faster, P50, P95 and P99 are in order, and the
\* score history is the last scores recorded, oldest first.
RingsTellTheLatest ==
    LET n == Len(recent)
        P(p) == Percentile(window, p)
        NoSlower(v) == {i \in 1..n : recent[i] <= v}
        Faster(v) == {i \in 1..n : recent[i] < v}
    IN  /\ n > 0 => /\ \A p \in {50, 95, 99} : /\ P(p) \in Range(recent)
                                               /\ 100 * Cardinality(NoSlower(P(p))) >= p * n
                                               /\ 100 * Cardinality(Faster(P(p))) <= p * n
                    /\ P(50) <= P(95) /\ P(95) <= P(99)
        /\ RingInOrder(points) = scores
=============================================================================
