--------------------------- MODULE SemanticBreaker ---------------------------
(***************************************************************************)
(* The semantic circuit breaker of quality/breaker.go together with the    *)
(* goroutines that use it.  A goroutine asks ShouldBlock, calls the model  *)
(* if it is let through, and then either reports the quality of the answer *)
(* with Record or, when the call failed below the quality layer, returns   *)
(* without reporting (Abandon).  ShouldBlock and Record each run under     *)
(* sb.mu, so each is one action; everything between them interleaves.      *)
(*                                                                         *)
(* Scores are integers in hundredths (0.45 is 45).  The rolling average is *)
(* never divided out: avg < th is written sum < th * samples.  Time is the *)
(* age of openAt in ticks, saturating at OpenTimeout, the only bound it is *)
(* ever compared with.                                                     *)
(***************************************************************************)
EXTENDS Integers, FiniteSets, Functions

CONSTANTS
    Threads,            \* request goroutines
    Scores,             \* scores the evaluator may return
    WindowSize,         \* cfg.WindowSize
    MinSamples,         \* cfg.MinSamples
    DegradedThreshold0, \* cfg.DegradedThreshold before calibration
    FailingThreshold0,  \* cfg.FailingThreshold before calibration
    OpenTimeout,        \* cfg.OpenTimeout, in ticks
    RecoverySamples,    \* cfg.RecoverySamples
    CalibN,             \* sb.calibN; 0 disables calibration
    DriftSamples,       \* post-calibration samples before drift is judged (30)
    MaxLongTerm,        \* bound: the long-term mean stands still after this many samples
    MayAbandon          \* may a call that was let through end without Record?

QualityAcceptable == 45

ASSUME ThreadsAssumption == IsFiniteSet(Threads)
ASSUME ScoresAssumption == Scores \subseteq 0..100
ASSUME WindowAssumption ==
    /\ WindowSize \in Nat \ {0}
    /\ MinSamples \in Nat
    /\ RecoverySamples \in Nat \ {0}
    /\ OpenTimeout \in Nat
ASSUME ThresholdAssumption ==
    /\ DegradedThreshold0 \in 0..100
    /\ FailingThreshold0 \in 0..100
    /\ FailingThreshold0 + 10 <= DegradedThreshold0
ASSUME CalibrationAssumption ==
    /\ CalibN \in Nat
    /\ DriftSamples \in Nat \ {0}
    /\ MaxLongTerm \in Nat
ASSUME MayAbandonAssumption == MayAbandon \in BOOLEAN

VARIABLES
    scores, idx, filled,        \* the circular window
    state,                      \* "healthy", "degraded" or "failing"
    sinceOpen,                  \* time.Since(openAt), saturating
    consecutiveGood,
    probeInFlight,
    calibCount, calibSum, calibSqSum,   \* calibSamples: number, sum, sum of squares
    calibrated, baselineMean,
    degradedThreshold, failingThreshold,
    longTermCount, longTermSum, drift,  \* LongTermMean = longTermSum / longTermCount
    calling,                    \* goroutines let through and not yet back
    probes,                     \* those let through as probes of this failing episode
    staleRecords,               \* history: Records of this episode by other goroutines
    sinceBad,                   \* history: age of the last score below the failing threshold
    goodRun                     \* history: good scores of this episode since the last bad one

window == <<scores, idx, filled>>
calibration == <<calibCount, calibSum, calibSqSum, calibrated, baselineMean,
                 degradedThreshold, failingThreshold, longTermCount, longTermSum, drift>>
circuit == <<state, sinceOpen, consecutiveGood, probeInFlight>>
callers == <<calling, probes, staleRecords, sinceBad, goodRun>>
vars == <<window, calibration, circuit, callers>>

Max2(a, b) == IF a >= b THEN a ELSE b
Min2(a, b) == IF a <= b THEN a ELSE b

TypeOK ==
    /\ scores \in [0..WindowSize-1 -> 0..100]
    /\ idx \in 0..WindowSize-1
    /\ filled \in BOOLEAN
    /\ state \in {"healthy", "degraded", "failing"}
    /\ sinceOpen \in 0..OpenTimeout
    /\ consecutiveGood \in Nat
    /\ probeInFlight \in BOOLEAN
    /\ calibCount \in Nat /\ calibSum \in Nat /\ calibSqSum \in Nat
    /\ calibrated \in BOOLEAN
    /\ baselineMean \in Int
    /\ degradedThreshold \in 0..100 /\ failingThreshold \in 0..100
    /\ longTermCount \in Nat /\ longTermSum \in Nat
    /\ drift \in BOOLEAN
    /\ calling \subseteq Threads /\ probes \subseteq calling
    /\ staleRecords \in Nat
    /\ sinceBad \in 0..OpenTimeout
    /\ goodRun \in Nat

Init ==
    /\ scores = [i \in 0..WindowSize-1 |-> 0] /\ idx = 0 /\ filled = FALSE
    /\ state = "healthy" /\ sinceOpen = OpenTimeout
    /\ consecutiveGood = 0 /\ probeInFlight = FALSE
    /\ calibCount = 0 /\ calibSum = 0 /\ calibSqSum = 0
    /\ calibrated = FALSE /\ baselineMean = 0
    /\ degradedThreshold = DegradedThreshold0
    /\ failingThreshold = FailingThreshold0
    /\ longTermCount = 0 /\ longTermSum = 0 /\ drift = FALSE
    /\ calling = {} /\ probes = {} /\ staleRecords = 0
    /\ sinceBad = OpenTimeout /\ goodRun = 0

-----------------------------------------------------------------------------
(* Calibration: mean and standard deviation, and the thresholds learned     *)
(* from them.                                                               *)

\* Standard deviation in hundredths, rounded down: the number of k >= 1 whose
\* square does not exceed the variance.
StdDev(variance) == Cardinality({k \in 1..100 : k * k <= variance})

StdFloor(std) == Max2(5, std)

LearnedDegraded(mean, std) == Min2(80, Max2(40, mean - std))

LearnedFailing_NoGap(mean, std) == Min2(60, Max2(20, mean - 2 * std))

LearnedFailing(mean, std) ==
    LET degraded == LearnedDegraded(mean, std)
        failing  == Min2(60, Max2(20, mean - 2 * std))
    IN  IF degraded - failing < 10 THEN Max2(10, degraded - 15) ELSE failing

\* calibrate(), run when the CalibN-th acceptable score has been appended.
Calibrate ==
    LET mean == calibSum' \div calibCount'
        std  == StdFloor(StdDev((calibSqSum' \div calibCount') - mean * mean))
    IN  /\ calibrated' = TRUE
        /\ baselineMean' = mean
        /\ degradedThreshold' = LearnedDegraded(mean, std)
        /\ failingThreshold' = LearnedFailing(mean, std)
        /\ UNCHANGED <<longTermCount, longTermSum, drift>>

\* An acceptable score joins the calibration samples.
AddSample(s) ==
    /\ calibCount' = calibCount + 1
    /\ calibSum' = calibSum + s
    /\ calibSqSum' = calibSqSum + s * s

CollectSample(s) ==
    /\ ~calibrated /\ CalibN > 0 /\ s >= QualityAcceptable
    /\ AddSample(s)
    /\ \/ calibCount' >= CalibN /\ Calibrate
       \/ /\ calibCount' < CalibN
          /\ UNCHANGED <<calibrated, baselineMean, degradedThreshold, failingThreshold,
                         longTermCount, longTermSum, drift>>

\* Once calibrated, every score moves the long-term mean.  |mean - baseline| is
\* compared with 0.20 without dividing.
TrackDrift(s) ==
    /\ calibrated /\ longTermCount < MaxLongTerm
    /\ longTermCount' = longTermCount + 1
    /\ longTermSum' = longTermSum + s
    /\ LET diff == longTermSum' - baselineMean * longTermCount'
       IN  drift' = IF longTermCount' >= DriftSamples
                    THEN Max2(diff, -diff) > 20 * longTermCount'
                    ELSE drift
    /\ UNCHANGED <<calibCount, calibSum, calibSqSum, calibrated, baselineMean,
                   degradedThreshold, failingThreshold>>

\* The first half of Record: the score is offered to calibration or drift tracking.
Learn(s) ==
    \/ CollectSample(s)
    \/ TrackDrift(s)
    \/ /\ IF calibrated THEN longTermCount = MaxLongTerm
                         ELSE CalibN = 0 \/ s < QualityAcceptable
       /\ UNCHANGED calibration

-----------------------------------------------------------------------------
(* The window and the circuit.                                              *)

Samples == IF filled THEN WindowSize ELSE idx

\* rollingAvg(samples) < th
AvgBelow(th) == SumFunctionOnSet(scores, 0..Samples-1) < th * Samples

\* Mutant: once full, the window keeps its oldest score.
Push_KeepsOldest(s) ==
    /\ scores' = [scores EXCEPT ![IF filled /\ idx = 0 THEN 1 ELSE idx] = s]
    /\ idx' = (idx + 1) % WindowSize
    /\ filled' = (filled \/ idx' = 0)

\* Record: the score goes into the circular window.
Push(s) ==
    /\ scores' = [scores EXCEPT ![idx] = s]
    /\ idx' = (idx + 1) % WindowSize
    /\ filled' = (filled \/ idx' = 0)

TooFewSamples == Samples' < MinSamples

\* Healthy or Degraded, average below the failing threshold: the circuit opens.
Trip ==
    /\ state \in {"healthy", "degraded"} /\ AvgBelow(failingThreshold)'
    /\ state' = "failing" /\ sinceOpen' = 0 /\ consecutiveGood' = 0
    /\ UNCHANGED probeInFlight

\* Healthy <-> Degraded as the average crosses the degraded threshold.
Settle ==
    /\ state \in {"healthy", "degraded"} /\ ~AvgBelow(failingThreshold)'
    /\ state' = IF AvgBelow(degradedThreshold)' THEN "degraded" ELSE "healthy"
    /\ UNCHANGED <<sinceOpen, consecutiveGood, probeInFlight>>

\* Failing, RecoverySamples-th good score: the circuit closes.
Recover(s) ==
    /\ state = "failing" /\ s >= degradedThreshold'
    /\ consecutiveGood + 1 >= RecoverySamples
    /\ state' = "healthy" /\ consecutiveGood' = 0 /\ probeInFlight' = FALSE
    /\ UNCHANGED sinceOpen

\* Failing, a good score short of recovery.
CountGood(s) ==
    /\ state = "failing" /\ s >= degradedThreshold'
    /\ consecutiveGood + 1 < RecoverySamples
    /\ consecutiveGood' = consecutiveGood + 1 /\ probeInFlight' = FALSE
    /\ UNCHANGED <<state, sinceOpen>>

\* Failing, a mediocre score: neither counted nor punished.
Mediocre(s) ==
    /\ state = "failing" /\ failingThreshold' <= s /\ s < degradedThreshold'
    /\ probeInFlight' = FALSE
    /\ UNCHANGED <<state, sinceOpen, consecutiveGood>>

\* Mutant: a bad score does not restart the cooldown.
RejectBad_NoCooldown(s) ==
    /\ state = "failing" /\ s < failingThreshold' /\ s < degradedThreshold'
    /\ consecutiveGood' = 0 /\ probeInFlight' = FALSE
    /\ UNCHANGED <<state, sinceOpen>>

\* Mutant: a bad score leaves the probe slot taken.
RejectBad_KeepProbe(s) ==
    /\ state = "failing" /\ s < failingThreshold' /\ s < degradedThreshold'
    /\ consecutiveGood' = 0 /\ sinceOpen' = 0
    /\ UNCHANGED <<state, probeInFlight>>

\* Mutant: a bad score does not interrupt the run of good ones.
RejectBad_KeepCount(s) ==
    /\ state = "failing" /\ s < failingThreshold' /\ s < degradedThreshold'
    /\ sinceOpen' = 0 /\ probeInFlight' = FALSE
    /\ UNCHANGED <<state, consecutiveGood>>

\* Failing, a bad score: the count and the cooldown start again.
RejectBad(s) ==
    /\ state = "failing" /\ s < failingThreshold' /\ s < degradedThreshold'
    /\ consecutiveGood' = 0 /\ sinceOpen' = 0 /\ probeInFlight' = FALSE
    /\ UNCHANGED state

\* With too few samples updateState returns at once; Record has already released
\* the probe slot if the circuit was open.
NotYet ==
    /\ TooFewSamples
    /\ probeInFlight' = (probeInFlight /\ state # "failing")
    /\ UNCHANGED <<state, sinceOpen, consecutiveGood>>

\* clearProbe() and updateState(score).
UpdateState(s) ==
    \/ NotYet
    \/ /\ ~TooFewSamples
       /\ Trip \/ Settle \/ Recover(s) \/ CountGood(s) \/ Mediocre(s) \/ RejectBad(s)

-----------------------------------------------------------------------------
(* The goroutines.                                                          *)

\* Mutant: past the cooldown everyone is let through.
ShouldBlock_NoCAS(t) ==
    /\ t \notin calling
    /\ \/ /\ state # "failing"
          /\ calling' = calling \cup {t}
          /\ UNCHANGED <<probes, probeInFlight>>
       \/ /\ state = "failing" /\ sinceOpen >= OpenTimeout
          /\ probeInFlight' = TRUE
          /\ calling' = calling \cup {t} /\ probes' = probes \cup {t}
    /\ UNCHANGED <<window, calibration, state, sinceOpen, consecutiveGood,
                   staleRecords, sinceBad, goodRun>>

\* ShouldBlock() by goroutine t.  A blocked caller changes nothing here and goes
\* on to the next tier.
ShouldBlock(t) ==
    /\ t \notin calling
    /\ \/ /\ state # "failing"
          /\ calling' = calling \cup {t}
          /\ UNCHANGED <<probes, probeInFlight>>
       \/ /\ state = "failing" /\ sinceOpen >= OpenTimeout /\ ~probeInFlight
          /\ probeInFlight' = TRUE
          /\ calling' = calling \cup {t} /\ probes' = probes \cup {t}
       \/ /\ state = "failing" /\ (sinceOpen < OpenTimeout \/ probeInFlight)
          /\ UNCHANGED <<calling, probes, probeInFlight>>
    /\ UNCHANGED <<window, calibration, state, sinceOpen, consecutiveGood,
                   staleRecords, sinceBad, goodRun>>

\* History of an episode: it starts at a trip and ends at recovery, when calls
\* let through as probes become ordinary calls.
Bookkeep(t, s) ==
    /\ calling' = calling \ {t}
    /\ probes' = IF state' = "failing" THEN probes \ {t} ELSE {}
    /\ staleRecords' = IF state' # "failing" THEN 0
                       ELSE IF state = "failing" /\ t \notin probes THEN staleRecords + 1
                       ELSE staleRecords
    /\ sinceBad' = IF s < failingThreshold' THEN 0 ELSE sinceBad
    /\ goodRun' = IF state # "failing" \/ s < failingThreshold' THEN 0
                  ELSE IF s >= degradedThreshold' THEN Min2(goodRun + 1, RecoverySamples)
                  ELSE goodRun

\* Record(score, result) by goroutine t, whose call came back with score s.
Record(t, s) ==
    /\ t \in calling
    /\ Learn(s)
    /\ Push(s)
    /\ UpdateState(s)
    /\ Bookkeep(t, s)

\* The call of t ended without an answer to score: transport error, open
\* transport breaker, or a streamed answer.  Record is not called.
Abandon(t) ==
    /\ MayAbandon /\ t \in calling
    /\ calling' = calling \ {t} /\ probes' = probes \ {t}
    /\ UNCHANGED <<window, calibration, circuit, staleRecords, sinceBad, goodRun>>

\* Time passes.
Tick ==
    /\ sinceOpen < OpenTimeout \/ sinceBad < OpenTimeout
    /\ sinceOpen' = Min2(sinceOpen + 1, OpenTimeout)
    /\ sinceBad' = Min2(sinceBad + 1, OpenTimeout)
    /\ UNCHANGED <<window, calibration, state, consecutiveGood, probeInFlight,
                   calling, probes, staleRecords, goodRun>>

Next ==
    \/ \E t \in Threads : ShouldBlock(t) \/ Abandon(t)
    \/ \E t \in Threads, s \in Scores : Record(t, s)
    \/ Tick

Spec == Init /\ [][Next]_vars

\* Requests keep arriving, a call that was let through comes back, and time
\* passes.  Nothing forces a call to be abandoned.
Fairness ==
    /\ \A t \in Threads : WF_vars(ShouldBlock(t))
    /\ \A t \in Threads : WF_vars(\E s \in Scores : Record(t, s))
    /\ WF_vars(Tick)

FairSpec == Spec /\ Fairness

-----------------------------------------------------------------------------
(* Properties.                                                              *)

\* Probe discipline (ShouldBlock's compare-and-swap against Record's release of
\* the slot): in an open episode at most one probe is out, plus one for each
\* answer recorded by a call let through before the circuit opened, because such
\* an answer frees a slot it does not own.
ProbeDiscipline ==
    Cardinality(probes) <= staleRecords + (IF probeInFlight THEN 1 ELSE 0)

\* Those extra answers are limited by the calls that were out when the circuit
\* opened: nobody is let through as an ordinary call while it is open.
StaleRecordsBounded ==
    staleRecords + Cardinality(calling \ probes) <= Cardinality(Threads)

\* The probe slot is only ever taken while the circuit is open, and recovery
\* leaves no count behind: the next episode starts from zero.
ClosedIsClean ==
    state # "failing" => ~probeInFlight /\ consecutiveGood = 0

\* If every call let through reports back, a taken slot belongs to a probe that
\* is still out (ShouldBlock against Record).
ProbeSlotOwned == ~MayAbandon /\ probeInFlight => probes # {}

\* The circuit closes only after RecoverySamples good answers with no bad answer
\* among them (the resets of consecutiveGood in updateState).
RecoveryEarned ==
    [][state = "failing" /\ state' = "healthy" => goodRun' >= RecoverySamples]_vars

\* A probe is only let through OpenTimeout after the last bad answer, whoever
\* recorded it (the restart of openAt in updateState).
CooldownRespected == [][probes' \ probes # {} => sinceBad >= OpenTimeout]_vars

\* Thresholds keep a usable band, before and after calibration: the degraded
\* threshold is at least 10 points above the failing one.
ThresholdBand == failingThreshold + 10 <= degradedThreshold

\* Calibration cannot be poisoned either way: a learned baseline is acceptable
\* quality and the learned thresholds stay inside the documented clamps.
CalibrationNotPoisoned ==
    calibrated => /\ baselineMean >= QualityAcceptable
                  /\ degradedThreshold \in 40..80
                  /\ failingThreshold \in 20..60

\* Calibration happens once: learned thresholds and baseline never move again.
CalibratesOnce ==
    [][calibrated => UNCHANGED <<calibrated, baselineMean, degradedThreshold,
                                 failingThreshold>>]_vars

\* breaker.go:322 takes recovery for granted: once every answer is good, the breaker
\* ends up healthy for ever, even though the window still holds the old scores and may
\* open the circuit again.  It does not hold when calls may be abandoned.
GoodAnswersOnly == \A t \in Threads, s \in Scores :
    s < degradedThreshold => ~Record(t, s)
RecoversWhenQualityReturns ==
    <>[][GoodAnswersOnly]_vars => <>[](state = "healthy")

\* What does hold: once every call comes back with a good answer, the breaker ends up
\* healthy for ever, unless a probe was lost before and its slot stays taken for ever.
\* Calls lost by anyone but the last probe (tryPrimary's error returns) do no harm.
ProbeLost == probeInFlight /\ probes = {}
RecoversOrProbeLost ==
    <>[][GoodAnswersOnly /\ \A t \in Threads : ~Abandon(t)]_vars =>
        <>[](state = "healthy") \/ <>[]ProbeLost

\* What an episode has in common at every step, the strengthening that makes the
\* properties above inductive: between episodes nothing is left over; inside one the
\* window is past MinSamples, openAt is no older than the last bad answer, and the
\* counter is the history's run of good answers.
EpisodeInv ==
    /\ state # "failing" => /\ ~probeInFlight /\ consecutiveGood = 0
                            /\ probes = {} /\ staleRecords = 0
    /\ state = "failing" => /\ Samples >= MinSamples
                            /\ sinceOpen <= sinceBad
                            /\ goodRun = consecutiveGood
    /\ consecutiveGood < RecoverySamples

\* The breaker keeps the contract its callers rely on (BreakerGate), whatever scores
\* come in, in whatever order goroutines report them.
Gate == INSTANCE BreakerGate WITH
    gate <- [open |-> state = "failing", probing |-> probeInFlight, streak |-> consecutiveGood]
ImplementsGate == Gate!Spec

\* The samples collected so far are all acceptable, so their mean will be.
SamplesAcceptable == calibSum >= QualityAcceptable * calibCount
=============================================================================
