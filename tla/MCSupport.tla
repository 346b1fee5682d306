------------------------------ MODULE MCSupport ------------------------------
(***************************************************************************)
(* The parts around the degradation chain share no state with each other,  *)
(* so interleaving them would show nothing new: a behaviour picks one part *)
(* and leaves the others where they start.                                 *)
(***************************************************************************)
EXTENDS Api, MCSemanticCache, Webhook, Telemetry, Transcript, Evaluator, Calculator, ChaosStream

CONSTANTS a1, a2

\* Somebody before the last hop may have written a list that starts with a1.
MCTold == {<<>>, <<a1, a2>>}

\* Sorted is the library's sort (of short sequences, here).
ASSUME SortedIsSortSeq ==
    \A n \in 0..4 : \A s \in [1..n -> 1..3] : Sorted(s) = SortSeq(s, <)

VARIABLE part

\* Callers of the evaluator are interchangeable, and the cache has its own symmetries.
Symmetry == Permutations(Callers) \cup CacheSymmetry

Init ==
    /\ part \in {"api", "cache", "webhook", "telemetry", "transcript",
                 "evaluator", "calculator", "chaosStream"}
    /\ ApiInit /\ CacheInit /\ WebhookInit /\ TelemetryInit /\ TranscriptInit
    /\ EvaluatorInit /\ CalculatorInit /\ ChaosStreamInit

Next ==
    /\ UNCHANGED part
    /\ \/ part = "api" /\ ApiNext
       \/ part # "api" /\ UNCHANGED apiVars
    /\ \/ part = "cache" /\ CacheNext
       \/ part # "cache" /\ UNCHANGED cacheVars
    /\ \/ part = "webhook" /\ WebhookNext
       \/ part # "webhook" /\ UNCHANGED webhookVars
    /\ \/ part = "telemetry" /\ TelemetryNext
       \/ part # "telemetry" /\ UNCHANGED telemetryVars
    /\ \/ part = "transcript" /\ TranscriptNext
       \/ part # "transcript" /\ UNCHANGED transcriptVars
    /\ \/ part = "evaluator" /\ EvaluatorNext
       \/ part # "evaluator" /\ UNCHANGED evaluatorVars
    /\ \/ part = "calculator" /\ CalculatorNext
       \/ part # "calculator" /\ UNCHANGED expression
    /\ \/ part = "chaosStream" /\ ChaosStreamNext
       \/ part # "chaosStream" /\ UNCHANGED chaosStreamVars

Spec == Init /\ [][Next]_<<part, apiVars, cacheVars, webhookVars, telemetryVars, transcriptVars,
                           evaluatorVars, expression, chaosStreamVars>>
=============================================================================
