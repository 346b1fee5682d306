------------------------ MODULE SemanticBreakerProofs ------------------------
(***************************************************************************)
(* Proofs about the semantic breaker, for any number of goroutines, any    *)
(* window, thresholds, cooldown and calibration length.                    *)
(***************************************************************************)
EXTENDS SemanticBreaker, FiniteSetTheorems, TLAPS

-----------------------------------------------------------------------------
(* Operators.                                                               *)

\* The rounded standard deviation is a natural number.
LEMMA StdDevType == \A v : StdDev(v) \in Nat
<1>1. IsFiniteSet(1..100)
  BY FS_Interval, 1 \in Int, 100 \in Int
<1> SUFFICES ASSUME NEW v PROVE StdDev(v) \in Nat
  OBVIOUS
<1>2. {k \in 1..100 : k * k <= v} \in SUBSET (1..100)
  OBVIOUS
<1>3. IsFiniteSet({k \in 1..100 : k * k <= v})
  BY <1>1, <1>2, FS_Subset
<1> QED
  BY <1>3, FS_CardinalityType DEF StdDev

\* calibrate(): whatever the baseline, the learned thresholds stay inside the clamps
\* and at least 10 points apart.
LEMMA LearnedThresholds ==
  ASSUME NEW mean \in Int, NEW std \in Nat
  PROVE  LET d == LearnedDegraded(mean, StdFloor(std))
             f == LearnedFailing(mean, StdFloor(std))
         IN  d \in 40..80 /\ f \in 20..60 /\ f + 10 <= d
  BY DEF LearnedDegraded, LearnedFailing, StdFloor, Max2, Min2

\* A score that is good is not bad: the thresholds are apart.
LEMMA AboveBand ==
  ASSUME NEW s \in 0..100, NEW d \in 0..100, NEW f \in 0..100, f + 10 <= d, s >= d
  PROVE  s >= f /\ ~(s < f) /\ ~(s < d)
  OBVIOUS

\* A mean of n samples with sum at least c * n is at least c.
LEMMA MeanBound ==
  ASSUME NEW sum \in Nat, NEW n \in Nat \ {0}, NEW c \in Nat, sum >= c * n
  PROVE  sum \div n \in Int /\ sum \div n >= c
  OBVIOUS

\* Pushing a score keeps the window well formed and never loses samples.
LEMMA PushStep ==
  ASSUME TypeOK, NEW s \in 0..100, Push(s)
  PROVE  /\ scores' \in [0..WindowSize-1 -> 0..100]
         /\ idx' \in 0..WindowSize-1
         /\ filled' \in BOOLEAN
         /\ Samples' >= Samples
<1>1. WindowSize \in Nat /\ WindowSize > 0
  BY WindowAssumption
<1>2. idx \in 0..WindowSize-1 /\ filled \in BOOLEAN
  BY DEF TypeOK
<1>3. idx' = IF idx + 1 = WindowSize THEN 0 ELSE idx + 1
  BY <1>1, <1>2 DEF Push
<1>4. scores' \in [0..WindowSize-1 -> 0..100]
  BY <1>2 DEF TypeOK, Push
<1>5. idx' \in 0..WindowSize-1
  BY <1>1, <1>2, <1>3
<1>6. filled' \in BOOLEAN
  BY DEF Push
<1>7. Samples' >= Samples
  <2>1. CASE filled
    <3>1. filled'
      BY <2>1 DEF Push
    <3> QED
      BY <1>1, <2>1, <3>1 DEF Samples
  <2>2. CASE ~filled /\ idx + 1 = WindowSize
    <3>1. filled'
      BY <1>3, <2>2 DEF Push
    <3> QED
      BY <1>1, <1>2, <2>2, <3>1 DEF Samples
  <2>3. CASE ~filled /\ idx + 1 # WindowSize
    <3>1. idx' # 0 /\ idx' = idx + 1
      BY <1>2, <1>3, <2>3
    <3>2. ~filled'
      BY <2>3, <3>1 DEF Push
    <3> QED
      BY <1>2, <2>3, <3>1, <3>2 DEF Samples
  <2> QED
    BY <2>1, <2>2, <2>3
<1> QED
  BY <1>4, <1>5, <1>6, <1>7

-----------------------------------------------------------------------------
(* The inductive invariant.                                                 *)

IInv ==
    /\ TypeOK
    /\ ProbeDiscipline
    /\ StaleRecordsBounded
    /\ ProbeSlotOwned
    /\ EpisodeInv
    /\ ThresholdBand
    /\ CalibrationNotPoisoned
    /\ SamplesAcceptable

\* The first half of Record keeps everything calibration is responsible for.
LEMMA LearnStep ==
  ASSUME IInv, NEW s \in 0..100, Learn(s)
  PROVE  /\ calibCount' \in Nat /\ calibSum' \in Nat /\ calibSqSum' \in Nat
         /\ calibrated' \in BOOLEAN /\ baselineMean' \in Int
         /\ degradedThreshold' \in 0..100 /\ failingThreshold' \in 0..100
         /\ longTermCount' \in Nat /\ longTermSum' \in Nat /\ drift' \in BOOLEAN
         /\ ThresholdBand' /\ CalibrationNotPoisoned' /\ SamplesAcceptable'
         /\ calibrated => UNCHANGED <<calibrated, baselineMean, degradedThreshold,
                                      failingThreshold>>
<1> USE DEF QualityAcceptable
<1>0. /\ calibCount \in Nat /\ calibSum \in Nat /\ calibSqSum \in Nat
      /\ calibrated \in BOOLEAN /\ baselineMean \in Int
      /\ degradedThreshold \in 0..100 /\ failingThreshold \in 0..100
      /\ longTermCount \in Nat /\ longTermSum \in Nat /\ drift \in BOOLEAN
      /\ ThresholdBand /\ CalibrationNotPoisoned /\ SamplesAcceptable
  BY DEF IInv, TypeOK
<1>1. CASE CollectSample(s)
  <2>1. ~calibrated /\ CalibN > 0 /\ s >= 45
    BY <1>1 DEF CollectSample
  <2>2. calibCount' = calibCount + 1 /\ calibSum' = calibSum + s
        /\ calibSqSum' = calibSqSum + s * s
    BY <1>1 DEF CollectSample, AddSample
  <2>3. s * s \in Nat
    OBVIOUS
  <2>4. /\ calibCount' \in Nat \ {0} /\ calibSum' \in Nat /\ calibSqSum' \in Nat
    BY <1>0, <2>2, <2>3
  <2>5. calibSum' >= 45 * calibCount'
    BY <1>0, <2>1, <2>2 DEF SamplesAcceptable
  <2>6. CASE calibCount' >= CalibN /\ Calibrate
    <3> DEFINE mean == calibSum' \div calibCount'
               dev  == StdDev((calibSqSum' \div calibCount') - mean * mean)
    <3>1. mean \in Int /\ mean >= 45
      BY <2>4, <2>5, MeanBound
    <3>2. dev \in Nat
      BY StdDevType
    <3>3. /\ calibrated' = TRUE /\ baselineMean' = mean
          /\ degradedThreshold' = LearnedDegraded(mean, StdFloor(dev))
          /\ failingThreshold' = LearnedFailing(mean, StdFloor(dev))
          /\ UNCHANGED <<longTermCount, longTermSum, drift>>
      BY <2>6 DEF Calibrate
    <3> HIDE DEF mean, dev
    <3>4. /\ degradedThreshold' \in 40..80 /\ failingThreshold' \in 20..60
          /\ failingThreshold' + 10 <= degradedThreshold'
      BY <3>1, <3>2, <3>3, LearnedThresholds
    <3> QED
      <4>1. ThresholdBand' /\ CalibrationNotPoisoned' /\ SamplesAcceptable'
        BY <2>5, <3>1, <3>3, <3>4
        DEF ThresholdBand, CalibrationNotPoisoned, SamplesAcceptable
      <4>2. baselineMean' \in Int /\ degradedThreshold' \in 0..100
            /\ failingThreshold' \in 0..100
        BY <3>1, <3>3, <3>4
      <4> QED
        BY <1>0, <2>1, <2>4, <3>3, <4>1, <4>2
  <2>7. CASE /\ calibCount' < CalibN
             /\ UNCHANGED <<calibrated, baselineMean, degradedThreshold, failingThreshold,
                            longTermCount, longTermSum, drift>>
    BY <1>0, <2>1, <2>4, <2>5, <2>7
    DEF ThresholdBand, CalibrationNotPoisoned, SamplesAcceptable
  <2> QED
    BY <1>1, <2>6, <2>7 DEF CollectSample
<1>2. CASE TrackDrift(s)
  <2>1. UNCHANGED <<calibCount, calibSum, calibSqSum, calibrated, baselineMean,
                    degradedThreshold, failingThreshold>>
    BY <1>2 DEF TrackDrift
  <2>2. longTermCount' \in Nat /\ longTermSum' \in Nat
    BY <1>0, <1>2 DEF TrackDrift
  <2>3. drift' \in BOOLEAN
    <3> DEFINE diff == longTermSum' - baselineMean * longTermCount'
               far  == Max2(diff, -diff) > 20 * longTermCount'
    <3>1. drift' = IF longTermCount' >= DriftSamples THEN far ELSE drift
      BY <1>2 DEF TrackDrift
    <3>2. far \in BOOLEAN
      OBVIOUS
    <3> HIDE DEF far
    <3> QED
      BY <1>0, <3>1, <3>2
  <2> QED
    BY <1>0, <2>1, <2>2, <2>3
    DEF ThresholdBand, CalibrationNotPoisoned, SamplesAcceptable
<1>3. CASE UNCHANGED calibration
  BY <1>0, <1>3 DEF calibration, ThresholdBand, CalibrationNotPoisoned, SamplesAcceptable
<1> QED
  BY <1>1, <1>2, <1>3 DEF Learn

\* What one updateState, whichever way it goes, does to the circuit: the probe slot is
\* always free afterwards, a trip starts from zero, and inside an episode a good score
\* counts, a bad one restarts count and cooldown, a mediocre one changes neither.
LEMMA UpdateStep ==
  ASSUME IInv, NEW s \in 0..100, Push(s), UpdateState(s), ThresholdBand',
         degradedThreshold' \in 0..100, failingThreshold' \in 0..100
  PROVE  /\ state' \in {"healthy", "degraded", "failing"}
         /\ sinceOpen' \in 0..OpenTimeout /\ consecutiveGood' \in Nat
         /\ consecutiveGood' < RecoverySamples
         /\ probeInFlight' = FALSE
         /\ state' # "failing" => consecutiveGood' = 0
         /\ state' = "failing" => Samples' >= MinSamples
         /\ state # "failing" /\ state' = "failing" => sinceOpen' = 0 /\ consecutiveGood' = 0
         /\ state = "failing" /\ state' = "failing" =>
              /\ s < failingThreshold' => sinceOpen' = 0 /\ consecutiveGood' = 0
              /\ s >= failingThreshold' => sinceOpen' = sinceOpen
              /\ s >= failingThreshold' /\ s < degradedThreshold' =>
                    consecutiveGood' = consecutiveGood
              /\ s >= degradedThreshold' => consecutiveGood' = consecutiveGood + 1
         /\ state = "failing" /\ state' # "failing" =>
              /\ state' = "healthy" /\ s >= degradedThreshold'
              /\ consecutiveGood + 1 = RecoverySamples
<1>0. /\ state \in {"healthy", "degraded", "failing"}
      /\ sinceOpen \in 0..OpenTimeout /\ consecutiveGood \in Nat
      /\ probeInFlight \in BOOLEAN /\ EpisodeInv
  BY DEF IInv, TypeOK
<1>1. /\ consecutiveGood < RecoverySamples
      /\ state # "failing" => probeInFlight = FALSE /\ consecutiveGood = 0
      /\ state = "failing" => Samples >= MinSamples
  BY <1>0 DEF EpisodeInv
<1>2. RecoverySamples \in Nat \ {0} /\ OpenTimeout \in Nat /\ MinSamples \in Nat
  BY WindowAssumption
<1>3. failingThreshold' + 10 <= degradedThreshold'
  BY DEF ThresholdBand
<1>4. Samples' >= Samples /\ Samples \in Int /\ Samples' \in Int
  <2>1. Samples' >= Samples /\ idx' \in 0..WindowSize-1
    BY PushStep DEF IInv
  <2> QED
    BY <2>1, WindowAssumption DEF Samples, IInv, TypeOK
<1>5. CASE NotYet
  <2>1. state # "failing"
    BY <1>1, <1>2, <1>4, <1>5 DEF NotYet, TooFewSamples
  <2>2. probeInFlight' = FALSE
    BY <1>1, <1>5, <2>1 DEF NotYet
  <2> QED
    BY <1>0, <1>1, <1>5, <2>1, <2>2 DEF NotYet
<1>6. CASE ~TooFewSamples /\ Trip
  <2>1. Samples' >= MinSamples
    BY <1>2, <1>4, <1>6 DEF TooFewSamples
  <2> QED
    BY <1>0, <1>1, <1>2, <1>6, <2>1 DEF Trip
<1>7. CASE ~TooFewSamples /\ Settle
  BY <1>0, <1>1, <1>7 DEF Settle
<1>8. CASE ~TooFewSamples /\ Recover(s)
  BY <1>0, <1>1, <1>2, <1>8 DEF Recover
<1>9. CASE ~TooFewSamples /\ CountGood(s)
  <2>1. Samples' >= MinSamples
    BY <1>2, <1>4, <1>9 DEF TooFewSamples
  <2>2. /\ state = "failing" /\ state' = "failing" /\ probeInFlight' = FALSE
        /\ sinceOpen' = sinceOpen /\ consecutiveGood' = consecutiveGood + 1
        /\ s >= degradedThreshold' /\ consecutiveGood + 1 < RecoverySamples
    BY <1>9 DEF CountGood
  <2>3. s >= failingThreshold' /\ ~(s < failingThreshold') /\ ~(s < degradedThreshold')
    BY <1>3, <2>2, AboveBand
  <2> QED
    BY <1>0, <1>2, <2>1, <2>2, <2>3
<1>10. CASE ~TooFewSamples /\ Mediocre(s)
  <2>1. Samples' >= MinSamples
    BY <1>2, <1>4, <1>10 DEF TooFewSamples
  <2> QED
    BY <1>0, <1>1, <1>2, <1>3, <1>10, <2>1 DEF Mediocre
<1>11. CASE ~TooFewSamples /\ RejectBad(s)
  <2>1. Samples' >= MinSamples
    BY <1>2, <1>4, <1>11 DEF TooFewSamples
  <2> QED
    BY <1>0, <1>1, <1>2, <1>3, <1>11, <2>1 DEF RejectBad
<1> QED
  BY <1>5, <1>6, <1>7, <1>8, <1>9, <1>10, <1>11 DEF UpdateState

\* Record by t removes t from the calls that are out; both cardinality bounds survive.
LEMMA BookkeepStep ==
  ASSUME IInv, NEW t \in calling, NEW s \in 0..100, Bookkeep(t, s),
         probeInFlight' = FALSE
  PROVE  /\ calling' \subseteq Threads /\ probes' \subseteq calling'
         /\ staleRecords' \in Nat
         /\ ProbeDiscipline' /\ StaleRecordsBounded'
         /\ state' # "failing" => probes' = {} /\ staleRecords' = 0
<1>0. /\ calling \subseteq Threads /\ probes \subseteq calling /\ staleRecords \in Nat
      /\ probeInFlight \in BOOLEAN
      /\ ProbeDiscipline /\ StaleRecordsBounded
      /\ state # "failing" => probes = {} /\ staleRecords = 0
  BY DEF IInv, TypeOK, EpisodeInv
<1>1. /\ calling' = calling \ {t}
      /\ probes' = IF state' = "failing" THEN probes \ {t} ELSE {}
      /\ staleRecords' = IF state' # "failing" THEN 0
                         ELSE IF state = "failing" /\ t \notin probes THEN staleRecords + 1
                         ELSE staleRecords
  BY DEF Bookkeep
<1>2. IsFiniteSet(Threads) /\ IsFiniteSet(probes) /\ IsFiniteSet(calling \ probes)
  <2>1. probes \in SUBSET Threads /\ calling \ probes \in SUBSET Threads
    BY <1>0
  <2> QED
    BY <2>1, ThreadsAssumption, FS_Subset
<1>3. /\ Cardinality(probes) \in Nat /\ Cardinality(calling \ probes) \in Nat
      /\ Cardinality(Threads) \in Nat
  BY <1>2, FS_CardinalityType
<1>4. calling' \subseteq Threads /\ probes' \subseteq calling' /\ staleRecords' \in Nat
  BY <1>0, <1>1
<1>5. state' # "failing" => probes' = {} /\ staleRecords' = 0
  BY <1>1
<1>6. CASE state' # "failing"
  <2>1. Cardinality(probes') = 0
    BY <1>1, <1>6, FS_EmptySet
  <2>2. ProbeDiscipline'
    BY <1>5, <1>6, <2>1 DEF ProbeDiscipline
  <2>3. calling' \ probes' \in SUBSET Threads
    BY <1>4
  <2>4. /\ Cardinality(calling' \ probes') <= Cardinality(Threads)
        /\ Cardinality(calling' \ probes') \in Nat
    BY <1>2, <2>3, FS_Subset, FS_CardinalityType
  <2>5. StaleRecordsBounded'
    BY <1>3, <1>5, <1>6, <2>4 DEF StaleRecordsBounded
  <2> QED
    BY <1>4, <1>5, <2>2, <2>5
<1>7. CASE state' = "failing" /\ t \in probes
  <2>1. probes' = probes \ {t} /\ staleRecords' = staleRecords
    BY <1>1, <1>7
  <2>2. Cardinality(probes') = Cardinality(probes) - 1
    BY <1>2, <1>7, <2>1, FS_RemoveElement
  <2>3. calling' \ probes' = calling \ probes
    BY <1>1, <1>7, <2>1
  <2>4. ProbeDiscipline'
    BY <1>0, <1>3, <2>1, <2>2 DEF ProbeDiscipline
  <2>5. StaleRecordsBounded'
    BY <1>0, <2>1, <2>3 DEF StaleRecordsBounded
  <2> QED
    BY <1>4, <1>5, <2>4, <2>5
<1>8. CASE state' = "failing" /\ t \notin probes
  <2>1. probes' = probes
    BY <1>1, <1>8
  <2>2. calling' \ probes' = (calling \ probes) \ {t}
    BY <1>1, <2>1
  <2>3. Cardinality(calling' \ probes') = Cardinality(calling \ probes) - 1
    BY <1>2, <1>8, <2>2, FS_RemoveElement
  <2>4. CASE state = "failing"
    <3>1. staleRecords' = staleRecords + 1
      BY <1>1, <1>8, <2>4
    <3>2. ProbeDiscipline'
      BY <1>0, <1>3, <2>1, <3>1 DEF ProbeDiscipline
    <3>3. StaleRecordsBounded'
      BY <1>0, <1>3, <2>3, <3>1 DEF StaleRecordsBounded
    <3> QED
      BY <1>4, <1>5, <3>2, <3>3
  <2>5. CASE state # "failing"
    <3>1. staleRecords' = 0 /\ probes' = {} /\ staleRecords = 0
      BY <1>0, <1>1, <1>8, <2>1, <2>5
    <3>2. ProbeDiscipline'
      BY <3>1, FS_EmptySet DEF ProbeDiscipline
    <3>3. StaleRecordsBounded'
      BY <1>0, <1>3, <2>3, <3>1 DEF StaleRecordsBounded
    <3> QED
      BY <1>4, <1>5, <3>2, <3>3
  <2> QED
    BY <2>4, <2>5
<1> QED
  BY <1>6, <1>7, <1>8

\* Record keeps the invariant.
LEMMA RecordStep ==
  ASSUME IInv, NEW t \in Threads, NEW s \in Scores, Record(t, s)
  PROVE  IInv'
<1>0. s \in 0..100 /\ t \in calling /\ Learn(s) /\ Push(s) /\ UpdateState(s) /\ Bookkeep(t, s)
  BY ScoresAssumption DEF Record
<1>1. /\ calibCount' \in Nat /\ calibSum' \in Nat /\ calibSqSum' \in Nat
      /\ calibrated' \in BOOLEAN /\ baselineMean' \in Int
      /\ degradedThreshold' \in 0..100 /\ failingThreshold' \in 0..100
      /\ longTermCount' \in Nat /\ longTermSum' \in Nat /\ drift' \in BOOLEAN
      /\ ThresholdBand' /\ CalibrationNotPoisoned' /\ SamplesAcceptable'
  BY <1>0, LearnStep
<1>2. /\ scores' \in [0..WindowSize-1 -> 0..100]
      /\ idx' \in 0..WindowSize-1 /\ filled' \in BOOLEAN
  BY <1>0, PushStep DEF IInv
<1>3. /\ state' \in {"healthy", "degraded", "failing"}
      /\ sinceOpen' \in 0..OpenTimeout /\ consecutiveGood' \in Nat
      /\ consecutiveGood' < RecoverySamples
      /\ probeInFlight' = FALSE
      /\ state' # "failing" => consecutiveGood' = 0
      /\ state' = "failing" => Samples' >= MinSamples
      /\ state # "failing" /\ state' = "failing" => sinceOpen' = 0 /\ consecutiveGood' = 0
      /\ state = "failing" /\ state' = "failing" =>
           /\ s < failingThreshold' => sinceOpen' = 0 /\ consecutiveGood' = 0
           /\ s >= failingThreshold' => sinceOpen' = sinceOpen
           /\ s >= failingThreshold' /\ s < degradedThreshold' =>
                 consecutiveGood' = consecutiveGood
           /\ s >= degradedThreshold' => consecutiveGood' = consecutiveGood + 1
  BY <1>0, <1>1, UpdateStep
<1>4. /\ calling' \subseteq Threads /\ probes' \subseteq calling'
      /\ staleRecords' \in Nat
      /\ ProbeDiscipline' /\ StaleRecordsBounded'
      /\ state' # "failing" => probes' = {} /\ staleRecords' = 0
  BY <1>0, <1>3, BookkeepStep
<1>5. /\ sinceBad' = IF s < failingThreshold' THEN 0 ELSE sinceBad
      /\ goodRun' = IF state # "failing" \/ s < failingThreshold' THEN 0
                    ELSE IF s >= degradedThreshold' THEN Min2(goodRun + 1, RecoverySamples)
                    ELSE goodRun
  BY <1>0 DEF Bookkeep
<1>6. /\ sinceBad \in 0..OpenTimeout /\ goodRun \in Nat /\ sinceOpen \in 0..OpenTimeout
      /\ consecutiveGood \in Nat /\ OpenTimeout \in Nat /\ RecoverySamples \in Nat
      /\ state = "failing" => sinceOpen <= sinceBad /\ goodRun = consecutiveGood
      /\ consecutiveGood < RecoverySamples
  BY WindowAssumption DEF IInv, TypeOK, EpisodeInv
<1>7. sinceBad' \in 0..OpenTimeout
  BY <1>5, <1>6
<1>8. Min2(goodRun + 1, RecoverySamples) \in Nat
  BY <1>6 DEF Min2
<1>9. goodRun' \in Nat
  BY <1>5, <1>6, <1>8
<1>10. TypeOK'
  BY <1>1, <1>2, <1>3, <1>4, <1>7, <1>9 DEF TypeOK
<1>11. state' = "failing" => sinceOpen' <= sinceBad'
  <2> SUFFICES ASSUME state' = "failing" PROVE sinceOpen' <= sinceBad'
    OBVIOUS
  <2>1. CASE sinceOpen' = 0
    BY <1>7, <2>1
  <2>2. CASE sinceOpen' # 0
    <3>1. state = "failing" /\ ~(s < failingThreshold')
      BY <1>3, <2>2
    <3>2. s >= failingThreshold'
      BY <1>0, <1>1, <3>1
    <3>3. sinceOpen' = sinceOpen /\ sinceBad' = sinceBad
      BY <1>3, <1>5, <3>1, <3>2
    <3> QED
      BY <1>6, <3>1, <3>3
  <2> QED
    BY <2>1, <2>2
<1>12. state' = "failing" => goodRun' = consecutiveGood'
  <2> SUFFICES ASSUME state' = "failing" PROVE goodRun' = consecutiveGood'
    OBVIOUS
  <2>1. CASE state # "failing"
    BY <1>3, <1>5, <2>1
  <2>2. CASE state = "failing" /\ s < failingThreshold'
    BY <1>3, <1>5, <2>2
  <2>3. CASE state = "failing" /\ ~(s < failingThreshold') /\ s >= degradedThreshold'
    <3>1. goodRun' = Min2(goodRun + 1, RecoverySamples)
      BY <1>5, <2>3
    <3>2. Min2(goodRun + 1, RecoverySamples) = consecutiveGood + 1
      BY <1>6, <2>3 DEF Min2
    <3> QED
      BY <1>3, <2>3, <3>1, <3>2
  <2>4. CASE state = "failing" /\ ~(s < failingThreshold') /\ ~(s >= degradedThreshold')
    <3>1. s >= failingThreshold' /\ s < degradedThreshold'
      BY <1>0, <1>1, <2>4
    <3>2. goodRun' = goodRun /\ consecutiveGood' = consecutiveGood
      BY <1>3, <1>5, <2>4, <3>1
    <3> QED
      BY <1>6, <2>4, <3>2
  <2> QED
    BY <2>1, <2>2, <2>3, <2>4
<1>13. EpisodeInv'
  BY <1>3, <1>4, <1>11, <1>12 DEF EpisodeInv
<1>14. ProbeSlotOwned'
  BY <1>3 DEF ProbeSlotOwned
<1> QED
  BY <1>1, <1>4, <1>10, <1>13, <1>14 DEF IInv

\* ShouldBlock keeps the invariant: a probe takes the slot it was given.
LEMMA ShouldBlockStep ==
  ASSUME IInv, NEW t \in Threads, ShouldBlock(t)
  PROVE  IInv'
<1> USE DEF IInv
<1>0. UNCHANGED <<window, calibration, state, sinceOpen, consecutiveGood,
                  staleRecords, sinceBad, goodRun>> /\ t \notin calling
  BY DEF ShouldBlock
<1>1. /\ IsFiniteSet(Threads) /\ IsFiniteSet(probes) /\ IsFiniteSet(calling \ probes)
      /\ calling \subseteq Threads /\ probes \subseteq calling /\ staleRecords \in Nat
  <2>1. calling \subseteq Threads /\ probes \subseteq calling /\ staleRecords \in Nat
    BY DEF TypeOK
  <2>2. probes \in SUBSET Threads /\ calling \ probes \in SUBSET Threads
    BY <2>1
  <2> QED
    BY <2>1, <2>2, ThreadsAssumption, FS_Subset
<1>2. /\ Cardinality(probes) \in Nat /\ Cardinality(calling \ probes) \in Nat
      /\ Cardinality(Threads) \in Nat
  BY <1>1, FS_CardinalityType
<1>3. ThresholdBand' /\ CalibrationNotPoisoned' /\ SamplesAcceptable' /\ Samples' = Samples
  BY <1>0 DEF window, calibration, ThresholdBand, CalibrationNotPoisoned,
              SamplesAcceptable, Samples
<1>4. CASE /\ state # "failing" /\ calling' = calling \cup {t}
           /\ UNCHANGED <<probes, probeInFlight>>
  <2>1. TypeOK'
    BY <1>0, <1>4 DEF TypeOK, window, calibration
  <2>2. probes' = {} /\ staleRecords' = 0 /\ EpisodeInv' /\ ProbeSlotOwned'
    BY <1>0, <1>3, <1>4 DEF EpisodeInv, ProbeSlotOwned
  <2>3. ProbeDiscipline'
    BY <1>0, <1>4 DEF ProbeDiscipline
  <2>4. calling' \ probes' \in SUBSET Threads
    BY <1>1, <1>4
  <2>5. Cardinality(calling' \ probes') <= Cardinality(Threads)
        /\ Cardinality(calling' \ probes') \in Nat
    BY <1>1, <2>4, FS_Subset, FS_CardinalityType
  <2>6. StaleRecordsBounded'
    BY <1>2, <2>2, <2>5 DEF StaleRecordsBounded
  <2> QED
    BY <1>3, <2>1, <2>2, <2>3, <2>6
<1>5. CASE /\ state = "failing" /\ sinceOpen >= OpenTimeout /\ ~probeInFlight
           /\ probeInFlight' = TRUE
           /\ calling' = calling \cup {t} /\ probes' = probes \cup {t}
  <2>1. TypeOK'
    BY <1>0, <1>5 DEF TypeOK, window, calibration
  <2>2. EpisodeInv' /\ ProbeSlotOwned'
    BY <1>0, <1>3, <1>5 DEF EpisodeInv, ProbeSlotOwned
  <2>3. Cardinality(probes') = Cardinality(probes) + 1
    BY <1>0, <1>1, <1>5, FS_AddElement
  <2>4. ProbeDiscipline'
    BY <1>0, <1>1, <1>2, <1>5, <2>3 DEF ProbeDiscipline
  <2>5. calling' \ probes' = calling \ probes
    BY <1>0, <1>5
  <2>6. StaleRecordsBounded'
    BY <1>0, <2>5 DEF StaleRecordsBounded
  <2> QED
    BY <1>3, <2>1, <2>2, <2>4, <2>6
<1>6. CASE UNCHANGED <<calling, probes, probeInFlight>>
  BY <1>0, <1>3, <1>6
  DEF TypeOK, window, calibration, EpisodeInv, ProbeSlotOwned, ProbeDiscipline,
      StaleRecordsBounded
<1> QED
  BY <1>4, <1>5, <1>6 DEF ShouldBlock

\* A call that ends without Record keeps the invariant (and the slot, if it held it).
LEMMA AbandonStep ==
  ASSUME IInv, NEW t \in Threads, Abandon(t)
  PROVE  IInv'
<1> USE DEF IInv
<1>0. /\ MayAbandon /\ t \in calling
      /\ calling' = calling \ {t} /\ probes' = probes \ {t}
      /\ UNCHANGED <<window, calibration, circuit, staleRecords, sinceBad, goodRun>>
  BY DEF Abandon
<1>1. /\ IsFiniteSet(probes) /\ IsFiniteSet(calling \ probes)
      /\ calling \subseteq Threads /\ probes \subseteq calling /\ staleRecords \in Nat
  <2>1. calling \subseteq Threads /\ probes \subseteq calling /\ staleRecords \in Nat
    BY DEF TypeOK
  <2>2. probes \in SUBSET Threads /\ calling \ probes \in SUBSET Threads
    BY <2>1
  <2> QED
    BY <2>1, <2>2, ThreadsAssumption, FS_Subset
<1>2. /\ Cardinality(probes) \in Nat /\ Cardinality(calling \ probes) \in Nat
      /\ Cardinality(Threads) \in Nat
  BY <1>1, ThreadsAssumption, FS_CardinalityType
<1>3. /\ ThresholdBand' /\ CalibrationNotPoisoned' /\ SamplesAcceptable' /\ Samples' = Samples
  BY <1>0 DEF window, calibration, ThresholdBand, CalibrationNotPoisoned,
              SamplesAcceptable, Samples
<1>4. TypeOK'
  BY <1>0 DEF TypeOK, window, calibration, circuit
<1>5. EpisodeInv' /\ ProbeSlotOwned'
  BY <1>0, <1>3 DEF EpisodeInv, ProbeSlotOwned, circuit
<1>6. /\ Cardinality(probes') <= Cardinality(probes) /\ Cardinality(probes') \in Nat
  <2>1. probes' \in SUBSET probes
    BY <1>0
  <2> QED
    BY <1>1, <2>1, FS_Subset, FS_CardinalityType
<1>7. /\ Cardinality(calling' \ probes') <= Cardinality(calling \ probes)
      /\ Cardinality(calling' \ probes') \in Nat
  <2>1. calling' \ probes' \in SUBSET (calling \ probes)
    BY <1>0
  <2> QED
    BY <1>1, <2>1, FS_Subset, FS_CardinalityType
<1>8. ProbeDiscipline'
  BY <1>0, <1>1, <1>2, <1>6 DEF ProbeDiscipline, circuit
<1>9. StaleRecordsBounded'
  BY <1>0, <1>1, <1>2, <1>7 DEF StaleRecordsBounded
<1> QED
  BY <1>3, <1>4, <1>5, <1>8, <1>9

\* Time passing keeps the invariant.
LEMMA TickStep ==
  ASSUME IInv, Tick
  PROVE  IInv'
<1> USE DEF IInv
<1>0. /\ UNCHANGED <<window, calibration, state, consecutiveGood, probeInFlight,
                     calling, probes, staleRecords, goodRun>>
      /\ sinceOpen' = Min2(sinceOpen + 1, OpenTimeout)
      /\ sinceBad' = Min2(sinceBad + 1, OpenTimeout)
  BY DEF Tick
<1>1. sinceOpen \in 0..OpenTimeout /\ sinceBad \in 0..OpenTimeout /\ OpenTimeout \in Nat
  BY WindowAssumption DEF TypeOK
<1>2. /\ sinceOpen' \in 0..OpenTimeout /\ sinceBad' \in 0..OpenTimeout
      /\ sinceOpen <= sinceBad => sinceOpen' <= sinceBad'
  BY <1>0, <1>1 DEF Min2
<1>3. TypeOK'
  BY <1>0, <1>2 DEF TypeOK, window, calibration
<1>4. Samples' = Samples
  BY <1>0 DEF Samples, window
<1>5. EpisodeInv'
  BY <1>0, <1>2, <1>4 DEF EpisodeInv
<1> QED
  BY <1>0, <1>3, <1>5
  DEF window, calibration, ProbeDiscipline, StaleRecordsBounded, ProbeSlotOwned,
      ThresholdBand, CalibrationNotPoisoned, SamplesAcceptable

-----------------------------------------------------------------------------
(* Theorems.                                                                *)

\* The invariant is inductive: whatever goroutines do, in any order, every part of it
\* holds at every step of quality/breaker.go's state machine.
THEOREM BreakerInvariant == Spec => []IInv
<1>1. Init => IInv
  <2> SUFFICES ASSUME Init PROVE IInv
    OBVIOUS
  <2>0. /\ scores \in [0..WindowSize-1 -> 0..100] /\ idx \in 0..WindowSize-1
        /\ sinceOpen \in 0..OpenTimeout /\ sinceBad \in 0..OpenTimeout
    <3>1. WindowSize \in Nat /\ WindowSize > 0 /\ OpenTimeout \in Nat
      BY WindowAssumption
    <3>2. scores = [i \in 0..WindowSize-1 |-> 0] /\ idx = 0
          /\ sinceOpen = OpenTimeout /\ sinceBad = OpenTimeout
      BY DEF Init
    <3> QED
      BY <3>1, <3>2
  <2>1. TypeOK
    <3>1. degradedThreshold \in 0..100 /\ failingThreshold \in 0..100
      BY ThresholdAssumption DEF Init
    <3>2. calling \subseteq Threads /\ probes \subseteq calling
      BY DEF Init
    <3>3. /\ filled \in BOOLEAN /\ state \in {"healthy", "degraded", "failing"}
          /\ probeInFlight \in BOOLEAN /\ calibrated \in BOOLEAN /\ drift \in BOOLEAN
      BY DEF Init
    <3>4. /\ consecutiveGood \in Nat /\ calibCount \in Nat /\ calibSum \in Nat
          /\ calibSqSum \in Nat /\ baselineMean \in Int /\ longTermCount \in Nat
          /\ longTermSum \in Nat /\ staleRecords \in Nat /\ goodRun \in Nat
      BY DEF Init
    <3> QED
      BY <2>0, <3>1, <3>2, <3>3, <3>4 DEF TypeOK
  <2>2. Cardinality({}) = 0 /\ {} \ {} = {} /\ Cardinality(Threads) \in Nat
    BY FS_EmptySet, ThreadsAssumption, FS_CardinalityType
  <2>3. ProbeDiscipline /\ StaleRecordsBounded /\ ProbeSlotOwned
    BY <2>2 DEF Init, ProbeDiscipline, StaleRecordsBounded, ProbeSlotOwned
  <2>4. EpisodeInv
    BY WindowAssumption DEF Init, EpisodeInv
  <2>5. ThresholdBand /\ CalibrationNotPoisoned /\ SamplesAcceptable
    BY ThresholdAssumption
    DEF Init, ThresholdBand, CalibrationNotPoisoned, SamplesAcceptable, QualityAcceptable
  <2> QED
    BY <2>1, <2>3, <2>4, <2>5 DEF IInv
<1>2. IInv /\ [Next]_vars => IInv'
  <2> SUFFICES ASSUME IInv, [Next]_vars PROVE IInv'
    OBVIOUS
  <2>1. ASSUME NEW t \in Threads, ShouldBlock(t) PROVE IInv'
    BY <2>1, ShouldBlockStep
  <2>2. ASSUME NEW t \in Threads, Abandon(t) PROVE IInv'
    BY <2>2, AbandonStep
  <2>3. ASSUME NEW t \in Threads, NEW s \in Scores, Record(t, s) PROVE IInv'
    BY <2>3, RecordStep
  <2>4. CASE Tick
    BY <2>4, TickStep
  <2>5. CASE UNCHANGED vars
    BY <2>5
    DEF IInv, vars, window, calibration, circuit, callers, TypeOK, ProbeDiscipline,
        StaleRecordsBounded, ProbeSlotOwned, EpisodeInv, ThresholdBand,
        CalibrationNotPoisoned, SamplesAcceptable, Samples
  <2> QED
    BY <2>1, <2>2, <2>3, <2>4, <2>5 DEF Next
<1> QED
  BY <1>1, <1>2, PTL DEF Spec

\* Type correctness of the breaker.
THEOREM BreakerTypeOK == Spec => []TypeOK
<1>1. IInv => TypeOK
  BY DEF IInv
<1> QED
  BY <1>1, BreakerInvariant, PTL

\* ShouldBlock's compare-and-swap and Record's release of the slot bound the probes of
\* an episode: one, plus one for each answer of a call from before the circuit opened.
THEOREM BreakerProbeDiscipline == Spec => [](ProbeDiscipline /\ StaleRecordsBounded)
<1>1. IInv => ProbeDiscipline /\ StaleRecordsBounded
  BY DEF IInv
<1> QED
  BY <1>1, BreakerInvariant, PTL

\* Between episodes the slot is free and the counter is zero, and as long as every call
\* reports back a taken slot has a probe that will free it.
THEOREM BreakerSlot == Spec => [](ClosedIsClean /\ ProbeSlotOwned)
<1>1. IInv => ClosedIsClean /\ ProbeSlotOwned
  BY DEF IInv, EpisodeInv, ClosedIsClean
<1> QED
  BY <1>1, BreakerInvariant, PTL

\* calibrate() never leaves the clamps, never closes the band between the thresholds
\* and never learns from unacceptable answers.
THEOREM BreakerCalibration == Spec => [](ThresholdBand /\ CalibrationNotPoisoned)
<1>1. IInv => ThresholdBand /\ CalibrationNotPoisoned
  BY DEF IInv
<1> QED
  BY <1>1, BreakerInvariant, PTL

\* Inside OpenTimeout of a bad answer nobody is let through as a probe.
THEOREM BreakerCooldown == Spec => CooldownRespected
<1>1. IInv /\ [Next]_vars => [probes' \ probes # {} => sinceBad >= OpenTimeout]_vars
  <2> SUFFICES ASSUME IInv, Next, probes' \ probes # {} PROVE sinceBad >= OpenTimeout
    OBVIOUS
  <2>1. ASSUME NEW t \in Threads, ShouldBlock(t) PROVE sinceBad >= OpenTimeout
    <3>1. state = "failing" /\ sinceOpen >= OpenTimeout
      BY <2>1 DEF ShouldBlock
    <3>2. sinceOpen <= sinceBad /\ sinceOpen \in Int /\ sinceBad \in Int /\ OpenTimeout \in Int
      BY <3>1, WindowAssumption DEF IInv, EpisodeInv, TypeOK
    <3> QED
      BY <3>1, <3>2
  <2>2. ASSUME NEW t \in Threads, Abandon(t) PROVE FALSE
    BY <2>2 DEF Abandon
  <2>3. ASSUME NEW t \in Threads, NEW s \in Scores, Record(t, s) PROVE FALSE
    BY <2>3 DEF Record, Bookkeep
  <2>4. CASE Tick
    BY <2>4 DEF Tick
  <2> QED
    BY <2>1, <2>2, <2>3, <2>4 DEF Next
<1> QED
  BY <1>1, BreakerInvariant, PTL DEF Spec, CooldownRespected

\* The circuit closes only on the RecoverySamples-th good answer with no bad one between.
THEOREM BreakerRecovery == Spec => RecoveryEarned
<1>1. IInv /\ [Next]_vars =>
        [state = "failing" /\ state' = "healthy" => goodRun' >= RecoverySamples]_vars
  <2> SUFFICES ASSUME IInv, Next, state = "failing", state' = "healthy"
               PROVE  goodRun' >= RecoverySamples
    OBVIOUS
  <2>1. PICK t \in Threads, s \in Scores : Record(t, s)
    BY DEF Next, ShouldBlock, Abandon, Tick, circuit
  <2>2. s \in 0..100 /\ Learn(s) /\ Push(s) /\ UpdateState(s) /\ Bookkeep(t, s)
    BY <2>1, ScoresAssumption DEF Record
  <2>3. ThresholdBand' /\ degradedThreshold' \in 0..100 /\ failingThreshold' \in 0..100
    BY <2>2, LearnStep
  <2>4. s >= degradedThreshold' /\ consecutiveGood + 1 = RecoverySamples
    BY <2>2, <2>3, UpdateStep
  <2>5. ~(s < failingThreshold')
    BY <2>2, <2>3, <2>4, AboveBand DEF ThresholdBand
  <2>6. goodRun' = Min2(goodRun + 1, RecoverySamples)
    BY <2>2, <2>4, <2>5 DEF Bookkeep
  <2>7. goodRun = consecutiveGood /\ RecoverySamples \in Nat
    BY WindowAssumption DEF IInv, EpisodeInv
  <2> QED
    BY <2>4, <2>6, <2>7 DEF Min2
<1> QED
  BY <1>1, BreakerInvariant, PTL DEF Spec, RecoveryEarned

\* Learned thresholds are learned once.
THEOREM BreakerCalibratesOnce == Spec => CalibratesOnce
<1>1. IInv /\ [Next]_vars =>
        [calibrated => UNCHANGED <<calibrated, baselineMean, degradedThreshold,
                                   failingThreshold>>]_vars
  <2> SUFFICES ASSUME IInv, Next, calibrated
               PROVE  UNCHANGED <<calibrated, baselineMean, degradedThreshold, failingThreshold>>
    OBVIOUS
  <2>1. ASSUME NEW t \in Threads, NEW s \in Scores, Record(t, s)
        PROVE  UNCHANGED <<calibrated, baselineMean, degradedThreshold, failingThreshold>>
    <3>1. s \in 0..100 /\ Learn(s)
      BY <2>1, ScoresAssumption DEF Record
    <3> QED
      BY <3>1, LearnStep
  <2> QED
    BY <2>1 DEF Next, ShouldBlock, Abandon, Tick, calibration
<1> QED
  BY <1>1, BreakerInvariant, PTL DEF Spec, CalibratesOnce

\* What an open or closed breaker looks like from outside.
View == [open |-> state = "failing", probing |-> probeInFlight, streak |-> consecutiveGood]

\* Record is one of the contract's reports.
LEMMA ReportStep ==
  ASSUME IInv, NEW t \in Threads, NEW s \in Scores, Record(t, s)
  PROVE  Gate!Next
<1>1. s \in 0..100 /\ Learn(s) /\ Push(s) /\ UpdateState(s)
  BY ScoresAssumption DEF Record
<1>2. ThresholdBand' /\ degradedThreshold' \in 0..100 /\ failingThreshold' \in 0..100
  BY <1>1, LearnStep
<1> DEFINE g == [open |-> state' = "failing", probing |-> probeInFlight', streak |-> consecutiveGood']
<1>3. probeInFlight' = FALSE /\ (state' # "failing" => consecutiveGood' = 0)
  BY <1>1, <1>2, UpdateStep
<1>4. CASE state # "failing"
  <2>1. state' = "failing" => consecutiveGood' = 0
    BY <1>1, <1>2, <1>4, UpdateStep
  <2>2. g \in {Gate!Closed, Gate!Opened(0)}
    BY <1>3, <2>1 DEF Gate!Closed, Gate!Opened
  <2> QED
    BY <1>4, <2>2 DEF Gate!Next, Gate!AfterReport
<1>5. CASE state = "failing"
  <2>1. CASE state' # "failing"
    <3>1. consecutiveGood + 1 = RecoverySamples
      BY <1>1, <1>2, <1>5, <2>1, UpdateStep
    <3>2. consecutiveGood + 1 >= RecoverySamples
      BY <3>1, WindowAssumption
    <3>3. (state' = "failing") = FALSE
      BY <2>1
    <3>4. g = Gate!Closed
      BY <1>3, <2>1, <3>3 DEF Gate!Closed
    <3> QED
      BY <1>5, <3>2, <3>4 DEF Gate!Next, Gate!AfterReport
  <2>2. CASE state' = "failing"
    <3>1. consecutiveGood' \in {0, consecutiveGood, consecutiveGood + 1}
          /\ consecutiveGood' < RecoverySamples
      <4>1. /\ s < failingThreshold' => consecutiveGood' = 0
            /\ s >= failingThreshold' /\ s < degradedThreshold' =>
                  consecutiveGood' = consecutiveGood
            /\ s >= degradedThreshold' => consecutiveGood' = consecutiveGood + 1
            /\ consecutiveGood' < RecoverySamples
        BY <1>1, <1>2, <1>5, <2>2, UpdateStep
      <4>2. \/ s < failingThreshold'
            \/ s >= failingThreshold' /\ s < degradedThreshold'
            \/ s >= degradedThreshold'
        BY <1>1, <1>2
      <4> QED
        BY <4>1, <4>2
    <3>2. g = Gate!Opened(consecutiveGood')
      BY <1>3, <2>2 DEF Gate!Opened
    <3>3. /\ consecutiveGood \in Nat /\ RecoverySamples \in Nat
          /\ consecutiveGood' = consecutiveGood + 1 => ~(consecutiveGood + 1 >= RecoverySamples)
      BY <3>1, WindowAssumption DEF IInv, TypeOK
    <3> QED
      BY <1>5, <3>1, <3>2, <3>3 DEF Gate!Next, Gate!AfterReport
  <2> QED
    BY <2>1, <2>2
<1> QED
  BY <1>4, <1>5

\* quality/breaker.go keeps the contract its callers rely on, for every window size,
\* threshold, cooldown and number of goroutines.
THEOREM BreakerImplementsGate == Spec => ImplementsGate
<1>1. Init => Gate!Init
  BY DEF Init, Gate!Init, Gate!Closed
<1>2. IInv /\ [Next]_vars => Gate!Next \/ UNCHANGED View
  <2> SUFFICES ASSUME IInv, [Next]_vars PROVE Gate!Next \/ UNCHANGED View
    OBVIOUS
  <2>1. ASSUME NEW t \in Threads, ShouldBlock(t) PROVE Gate!Next \/ UNCHANGED View
    <3>1. UNCHANGED <<state, consecutiveGood>>
      BY <2>1 DEF ShouldBlock
    <3>2. CASE UNCHANGED probeInFlight
      BY <3>1, <3>2 DEF View
    <3>3. CASE state = "failing" /\ ~probeInFlight /\ probeInFlight' = TRUE
      <4>1. /\ state' = "failing" /\ consecutiveGood' = consecutiveGood
            /\ probeInFlight = FALSE /\ probeInFlight' = TRUE
        BY <3>1, <3>3 DEF IInv, TypeOK
      <4>2. View = [open |-> TRUE, probing |-> FALSE, streak |-> consecutiveGood]
        BY <3>3, <4>1 DEF View
      <4>3. View' = [open |-> TRUE, probing |-> TRUE, streak |-> consecutiveGood]
        BY <4>1 DEF View
      <4>4. View.open = TRUE /\ View.probing = FALSE
        BY <4>2
      <4>5. Gate!MayProbe(View)
        BY <4>4 DEF Gate!MayProbe
      <4>6. View' = Gate!AfterProbe(View)
        BY <4>2, <4>3 DEF Gate!AfterProbe
      <4> QED
        BY <4>5, <4>6 DEF Gate!Next, View
    <3> QED
      BY <2>1, <3>2, <3>3 DEF ShouldBlock
  <2>2. ASSUME NEW t \in Threads, Abandon(t) PROVE UNCHANGED View
    BY <2>2 DEF Abandon, circuit, View
  <2>3. ASSUME NEW t \in Threads, NEW s \in Scores, Record(t, s) PROVE Gate!Next
    BY <2>3, ReportStep
  <2>4. CASE Tick
    BY <2>4 DEF Tick, View
  <2>5. CASE UNCHANGED vars
    BY <2>5 DEF vars, circuit, View
  <2> QED
    BY <2>1, <2>2, <2>3, <2>4, <2>5 DEF Next
<1> QED
  BY <1>1, <1>2, BreakerInvariant, PTL DEF Spec, ImplementsGate, Gate!Spec, View
=============================================================================
