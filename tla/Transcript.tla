----------------------------- MODULE Transcript -----------------------------
(***************************************************************************)
(* The prompt a ReAct run sends (agent/react.go) and its summarization     *)
(* (agent/summarize.go).  Every turn adds lines; once the estimated tokens *)
(* reach the threshold the older half of the LINES is replaced by a        *)
(* summary before the model is asked again.                                *)
(*                                                                         *)
(* A line is its number of words and of bytes, spread evenly over it, the  *)
(* turn that wrote it (0: the prompt, or a summary) and whether it starts  *)
(* with "Observation:".                                                    *)
(***************************************************************************)
EXTENDS Sums, Sequences, SequencesExt

CONSTANTS
    Threshold,          \* cfg.ReAct.MaxTranscriptTokens
    Iterations,         \* maxReactIterations
    SystemLines,        \* lines of the tools' system prompt, three words each
    ObservationLines,   \* how many lines a tool may return
    LineWords,          \* how many words a line of a tool or of a summary may have
    WordBytes,          \* how long a tool's words may be
    CharLimit,          \* bytes of an observation that abbreviate keeps
    MaxAbbrev,          \* maxAbbrevBytes
    MinTarget           \* the least number of bytes a hard cut leaves

ASSUME TranscriptAssumption ==
    /\ {Threshold, Iterations, SystemLines, CharLimit, MaxAbbrev, MinTarget} \subseteq Nat \ {0}
    /\ ObservationLines \cup WordBytes \subseteq Nat \ {0}
    /\ LineWords \subseteq Nat

VARIABLES
    prompt,     \* conversationCtx, a sequence of lines
    iteration,  \* turns taken
    stage,      \* "check" the size | "ask" the model | "done"
    summarized  \* history: the last summarization, its input and its result

transcriptVars == <<prompt, iteration, stage, summarized>>

-----------------------------------------------------------------------------
(* Lines and their sizes.                                                   *)

\* Words are four bytes long, those of the code's own brackets seven, a tool's as it likes.
Text(w, t) == [words |-> w, bytes |-> 4 * w, turn |-> t, obs |-> FALSE]
Bracket(w) == [words |-> w, bytes |-> 7 * w, turn |-> 0, obs |-> FALSE]

SumOf(field, lines) == SumTo(Len(lines), [i \in 1..Len(lines) |-> lines[i][field]])

estimateTokens(lines) == (SumOf("words", lines) * 4) \div 3

\* The part of a line that b of its bytes hold; a word cut in two still counts.
Cut(line, b) ==
    IF line.bytes <= b THEN line
    ELSE [line EXCEPT !.words = (line.words * b + line.bytes - 1) \div line.bytes, !.bytes = b]

-----------------------------------------------------------------------------
(* Summarization.                                                           *)

\* The observations that fit, each cut to CharLimit; the first that does not fit ends it.
Excerpts(older) ==
    LET cut == [i \in 1..Len(older) |-> Cut(older[i], CharLimit)]
        Of(S, field) == [i \in 1..Len(older) |-> IF i \in S THEN cut[i][field] ELSE 0]
        obs  == {i \in 1..Len(older) : older[i].obs}
        fits == {i \in obs : SumTo(i, Of(obs, "bytes")) <= MaxAbbrev}
    IN  [n |-> Cardinality(fits), words |-> SumTo(Len(older), Of(fits, "words")),
         bytes |-> SumTo(Len(older), Of(fits, "bytes"))]

\* "[Prior observations]: ..." or "[n prior lines abbreviated]", one line either way.
abbreviate(older) ==
    LET e == Excerpts(older)
    IN  IF e.n = 0 THEN Bracket(4)
        ELSE [Bracket(2) EXCEPT !.words = @ + e.words, !.bytes = @ + e.bytes]

\* callSummarizeLLM: the fallback model's text (no bound on its length is enforced), or
\* the abbreviation when it fails or answers with blanks.
callSummarizeLLM(older) ==
    {<<[Bracket(4) EXCEPT !.words = @ + w, !.bytes = @ + 4 * w]>> : w \in LineWords \ {0}}
        \cup {<<abbreviate(older)>>}

\* The last n bytes of the lines: those with fewer than n bytes after them, the first cut.
LastBytes(lines, n) ==
    LET After(k) == SubSeq(lines, k + 1, Len(lines))
        Left(k)  == n - SumOf("bytes", After(k))
        kept     == {k \in 1..Len(lines) : Left(k) > 0}
        first    == Min(kept)
        head     == IF lines[first].bytes <= Left(first) THEN lines[first]
                    ELSE [Cut(lines[first], Left(first)) EXCEPT !.obs = FALSE]
    IN  IF kept = {} THEN <<>> ELSE <<head>> \o After(first)

\* Mutant: no final cut.
HardCut_Never(result, original) == result

\* The final cut to half of the original's bytes, the newest ones.
HardCut(result, original) ==
    LET half   == SumOf("bytes", original) \div 2
        target == IF half < MinTarget THEN MinTarget ELSE half
    IN  IF SumOf("bytes", result) > target
        THEN <<Bracket(1)>> \o LastBytes(result, target) ELSE result

Pivot(lines) == Len(lines) \div 2

\* summarizeTranscript: its possible results.
summarizeTranscript(lines) ==
    LET older   == SubSeq(lines, 1, Pivot(lines))
        recent  == SubSeq(lines, Pivot(lines) + 1, Len(lines))
        Grew(s) == estimateTokens(s \o recent) >= estimateTokens(lines)
        Short(s) == IF Grew(s) THEN <<abbreviate(older)>> ELSE s
        Result(s) == IF Grew(Short(s)) THEN HardCut(Short(s) \o recent, lines)
                     ELSE Short(s) \o recent
    IN  IF estimateTokens(lines) < Threshold \/ Len(lines) <= 4 THEN {lines}
        ELSE {Result(s) : s \in callSummarizeLLM(older)}

-----------------------------------------------------------------------------
(* The loop of React.                                                       *)

\* SystemPrompt, a blank line, the question and "Assistant:", which waits for its text.
\* (A history of the session only adds lines before the question.)
TranscriptInit ==
    /\ prompt = [i \in 1..SystemLines |-> Text(3, 0)] \o <<Text(0, 0), Text(6, 0), Text(1, 0)>>
    /\ iteration = 0 /\ stage = "check" /\ summarized = <<>>

Check ==
    /\ stage = "check"
    /\ prompt' \in summarizeTranscript(prompt)
    /\ summarized' = IF estimateTokens(prompt) < Threshold \/ Len(prompt) <= 4 THEN <<>>
                     ELSE <<prompt, prompt'>>
    /\ stage' = "ask" /\ UNCHANGED iteration

Labels == {"thought", "action", "input", "answer", "blank"}

\* parseReactStep on the labels of the reply's lines: everything from the first answer line
\* on is the answer, and so is a reply without an action.
parseReactStep(raw) ==
    IF "answer" \in Range(raw) \/ "action" \notin Range(raw) THEN "answer" ELSE "action"

\* A turn that names a tool adds its thought to the last line, and its action, input and
\* observation after it.
Act(w, b, n) ==
    LET t   == iteration + 1
        obs == <<[words |-> w + 1, bytes |-> b * w + 4, turn |-> t, obs |-> TRUE]>>
               \o [i \in 1..n - 1 |-> [Text(w, t) EXCEPT !.bytes = b * w]]
    IN  prompt' = Front(prompt)
                  \o <<[Text(Last(prompt).words + 2, t) EXCEPT !.bytes = Last(prompt).bytes + 8],
                       Text(2, t), Text(2, t)>> \o obs \o <<Text(0, t)>>

Ask ==
    /\ stage = "ask"
    /\ iteration' = iteration + 1
    /\ \E raw \in UNION {[1..n -> Labels] : n \in 1..2} :
         \/ parseReactStep(raw) = "answer" /\ stage' = "done" /\ UNCHANGED prompt
         \/ /\ parseReactStep(raw) = "action"
            /\ \E w \in LineWords, b \in WordBytes, n \in ObservationLines : Act(w, b, n)
            /\ stage' = IF iteration' = Iterations THEN "done" ELSE "check"
    /\ UNCHANGED summarized

TranscriptNext == Check \/ Ask

TranscriptSpec == TranscriptInit /\ [][TranscriptNext]_transcriptVars

-----------------------------------------------------------------------------
(* Properties.                                                              *)

\* summarize.go:85-88: "Final hard guarantee: keep the tail (most-recent content) and drop
\* the head so both token-count AND byte-length shrink strictly."  It does not hold: see
\* SummaryBounded.
SummaryShrinks ==
    summarized # <<>> =>
        /\ estimateTokens(summarized[2]) < estimateTokens(summarized[1])
        /\ SumOf("bytes", summarized[2]) < SumOf("bytes", summarized[1])

\* What the checks and the cut do guarantee, whatever the fallback model wrote, turn after
\* turn, also when the older half is itself a summary: the estimated tokens go down; where
\* even the abbreviation does not bring them down, what is left is the marker of the cut
\* and half of the bytes, or MinTarget bytes of a short prompt (summarizeTranscript).
SummaryBounded ==
    summarized # <<>> =>
        \/ estimateTokens(summarized[2]) < estimateTokens(summarized[1])
        \/ SumOf("bytes", summarized[2]) <=
              Bracket(1).bytes + SumOf("bytes", summarized[1]) \div 2
        \/ SumOf("bytes", summarized[2]) <= Bracket(1).bytes + MinTarget

\* "Keep the most-recent iteration intact" (summarizeTranscript): every line of the newest
\* turn is still in the prompt the model is asked with next.
NewestTurnKept ==
    LET newest(lines) == SelectSeq(lines, LAMBDA line : line.turn = iteration)
    IN  summarized # <<>> /\ iteration > 0 => newest(summarized[2]) = newest(summarized[1])
=============================================================================
