------------------------------ MODULE Evaluator ------------------------------
(***************************************************************************)
(* The quality evaluator (quality/evaluator.go): five penalties on a reply *)
(* and a rolling baseline of reply lengths that all requests share.        *)
(* Evaluate reads the baseline, then adds to it, under two separate locks, *)
(* then waits for the embedder, so evaluations interleave.  Compare        *)
(* (agent/agent.go) evaluates two replies, one after the other, with an    *)
(* evaluator of its own.                                                   *)
(*                                                                         *)
(* Scores are in thousandths.  A reply is its words (numbers stand for     *)
(* words; only equality matters), its length in bytes, the refusal phrases *)
(* it contains and its alphabet.  Floating point is rounded down.          *)
(***************************************************************************)
EXTENDS Rings, Sums

CONSTANTS
    Callers,        \* requests evaluating at the same time
    LengthWindow,   \* lenWindow
    Similarities,   \* cosine similarities to the prompt, in percent
    MaxEvaluations  \* bound

ASSUME EvaluatorAssumption ==
    /\ LengthWindow \in Nat \ {0}
    /\ MaxEvaluations \in Nat
    /\ Similarities \subseteq 0..100

VARIABLES
    lengths,        \* the rings of reply lengths: the shared one, and each Compare's
    evaluating,     \* per caller: step, evaluator, reply, score so far and replies to come
    evaluations

evaluatorVars == <<lengths, evaluating, evaluations>>

QualityAcceptable == 450

-----------------------------------------------------------------------------
(* Replies.                                                                 *)

Reply(kind, words, bytes, hits, foreign) ==
    [kind |-> kind, words |-> words, bytes |-> bytes, hits |-> hits, foreign |-> foreign]

\* A sentence of n different words, said k times.
Sentence(n, k) == [i \in 1..n * k |-> (i - 1) % n]

\* degradedText: a refusal said four or five times, chosen by the prompt's length.
degradedText(promptLength) ==
    CASE promptLength % 3 = 0 -> Reply("degraded", Sentence(11, 5), 290, 1, FALSE)
      [] promptLength % 3 = 1 -> Reply("degraded", Sentence(13, 4), 244, 2, FALSE)
      [] OTHER                -> Reply("degraded", Sentence(15, 4), 268, 2, FALSE)

\* What the model may say: an answer, long or short, a loop, a refusal, another language;
\* or, in degrade mode, what degradedText makes of the prompt.
Replies == {Reply("answer", Sentence(w, 1), 5 * w, 0, FALSE) : w \in {1, 10, 60}}
           \cup {Reply("loop", Sentence(4, 5), 100, 0, FALSE),
                 Reply("refusal", Sentence(20, 1), 110, 1, FALSE),
                 Reply("foreign", Sentence(12, 1), 120, 0, TRUE)}
           \cup {degradedText(n) : n \in 0..2}

-----------------------------------------------------------------------------
(* The signals, as penalties.                                               *)

Trigrams(words) == {SubSeq(words, i, i + 2) : i \in 1..Len(words) - 2}

\* repetitionScore: the share of repeated trigrams, from 15% on; full weight above 60%.
Repetition(words) ==
    LET total == Len(words) - 2
        dups  == total - Cardinality(Trigrams(words))
    IN  CASE Len(words) < 6 \/ 100 * dups < 15 * total -> 0
          [] Len(words) >= 6 /\ 100 * dups > 60 * total -> 450
          [] OTHER -> (1000 * dups) \div total - 150

\* lengthScore against the average of the window, and the absolute minimum.
LengthAnomaly(bytes, ring) ==
    LET n   == RingLen(ring)
        sum == SumTo(n, [i \in 1..n |-> ring.slots[i - 1]])
        ratio == (1000 * bytes * n) \div sum
    IN  CASE bytes \in 1..9 -> 250
          [] bytes = 0 \/ (bytes >= 10 /\ n = 0) -> 0
          [] OTHER -> IF ratio >= 350 THEN 0 ELSE IF ratio < 100 THEN 250 ELSE 350 - ratio

\* Mutant: the refusal phrases weigh half as much.
RefusalMarkers_Light(hits) == 70 * hits

RefusalMarkers(hits) == IF 140 * hits > 400 THEN 400 ELSE 140 * hits

\* coherenceScore, given the reply's similarity and whether it opens off topic.
Coherence(sim, offTopicStart) ==
    LET score == IF sim < 55 THEN (1000 * (sim - 20)) \div 35 ELSE 1000
    IN  IF sim < 20 THEN 200
        ELSE 200 - (IF offTopicStart THEN (17 * score) \div 100 ELSE score \div 5)

\* languageMismatchScore, for an English prompt or a foreign one.
LanguageMismatch(reply, foreignPrompt) ==
    CASE reply.bytes < 20 \/ reply.foreign = foreignPrompt -> 0
      [] reply.bytes >= 20 /\ reply.foreign /\ ~foreignPrompt -> 300
      [] OTHER -> 150

-----------------------------------------------------------------------------
(* Evaluate.                                                                *)

Idle == [step |-> "idle", with |-> "shared", rest |-> 0]

EvaluatorInit ==
    /\ lengths = [e \in {"shared"} \cup Callers |-> EmptyRing(LengthWindow)]
    /\ evaluating = [c \in Callers |-> Idle]
    /\ evaluations = 0

Free(c) == evaluating[c].step \in {"idle", "verdict"} /\ evaluating[c].rest = 0

\* Compare has both results, the chain's and then the bare model's; a side that failed is
\* not evaluated.
Compare(c) ==
    /\ Free(c) /\ evaluations < MaxEvaluations
    /\ \E sides \in 1..2 :
         evaluating' = [evaluating EXCEPT ![c] = [step |-> "idle", with |-> c, rest |-> sides]]
    /\ lengths' = [lengths EXCEPT ![c] = EmptyRing(LengthWindow)]
    /\ UNCHANGED evaluations

\* Repetition and length, the baseline read under its lock.
Examine(c, e, reply, rest) ==
    evaluating' = [evaluating EXCEPT ![c] =
        [step |-> "record", with |-> e, reply |-> reply, rest |-> rest,
         score |-> 1000 - Repetition(reply.words) - LengthAnomaly(reply.bytes, lengths[e])]]

Evaluate(c) ==
    /\ evaluating[c].step \in {"idle", "verdict"} /\ evaluations < MaxEvaluations
    /\ \E reply \in Replies :
         \/ evaluating[c].rest = 0 /\ Examine(c, "shared", reply, 0)
         \/ evaluating[c].rest > 0 /\ Examine(c, c, reply, evaluating[c].rest - 1)
    /\ evaluations' = evaluations + 1
    /\ UNCHANGED lengths

RecordLength(c) ==
    /\ evaluating[c].step = "record"
    /\ lengths' = [lengths EXCEPT ![evaluating[c].with] =
                     IF evaluating[c].reply.bytes > 0
                     THEN RingPut(@, evaluating[c].reply.bytes) ELSE @]
    /\ evaluating' = [evaluating EXCEPT ![c].step = "embed"]
    /\ UNCHANGED evaluations

\* What the embedder's answer (or its failure, or an empty prompt: no penalty) may cost.
Coherences == {Coherence(sim, off) : sim \in Similarities, off \in BOOLEAN} \cup {0}

\* Refusals, coherence and the languages.  What callers make of the score is kept: a negative
\* one counts as 0.
Conclude(x, coherence, foreignPrompt) ==
    LET language == LanguageMismatch(x.reply, foreignPrompt)
        score    == x.score - RefusalMarkers(x.reply.hits) - coherence - language
    IN  [step |-> "verdict", with |-> x.with, rest |-> x.rest, kind |-> x.reply.kind,
         acceptable |-> score >= QualityAcceptable, mismatch |-> language > 0]

Verdict(c) ==
    /\ evaluating[c].step = "embed"
    /\ \E coherence \in Coherences, foreignPrompt \in BOOLEAN :
         evaluating' = [evaluating EXCEPT ![c] = Conclude(@, coherence, foreignPrompt)]
    /\ UNCHANGED <<lengths, evaluations>>

EvaluatorNext == \E c \in Callers : Compare(c) \/ Evaluate(c) \/ RecordLength(c) \/ Verdict(c)

EvaluatorSpec == EvaluatorInit /\ [][EvaluatorNext]_evaluatorVars

-----------------------------------------------------------------------------
(* Properties.                                                              *)

\* Whatever the replies before it did to the length baseline, whoever evaluates at the same
\* time and whatever the embedder says: a reply of degrade mode is a semantic failure
\* ("reliably scores below QualityAcceptable", degradedText), and an answer that neither
\* loops nor refuses, in the prompt's language, is not one.
VerdictIsFair ==
    \A c \in Callers : evaluating[c].step = "verdict" =>
        /\ evaluating[c].kind = "degraded" => ~evaluating[c].acceptable
        /\ evaluating[c].kind = "answer" /\ ~evaluating[c].mismatch
             => evaluating[c].acceptable
=============================================================================
