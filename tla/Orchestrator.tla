---------------------------- MODULE Orchestrator ----------------------------
(***************************************************************************)
(* A request's way through the agent: admission by the load shedder and a  *)
(* bulkhead (agent.go, ask), then the degradation chain (orchestrator.go,  *)
(* Degrade): primary model, fallback model, semantic cache, denial.  React *)
(* requests (react.go) skip admission and run the chain once per turn.     *)
(*                                                                         *)
(* An answer is abstracted to what the quality check makes of it: "good",  *)
(* "flagged" (score below QualityAcceptable, with signals) or "unflagged"  *)
(* (below, without signals).  The semantic breakers follow BreakerGate.    *)
(* The kill switches and the transport breakers are read, never relied on: *)
(* any value may be read at any time.  Load shedder, bulkhead, transport   *)
(* breaker, hedge and retry belong to a library outside this repository.   *)
(***************************************************************************)
EXTENDS Naturals, Sequences, FiniteSets

CONSTANTS
    Requests,           \* request goroutines
    Kinds,              \* subset of {"interactive", "batch", "react"}
    Slots,              \* bulkhead slots of each kind of Ask
    RecoverySamples,    \* of both semantic breakers
    MaxTurns,           \* maxReactIterations
    MayCancel           \* may a caller give up while it waits for a slot?

ASSUME KindsAssumption == Kinds \subseteq {"interactive", "batch", "react"}
ASSUME SlotsAssumption == Slots \in Nat
ASSUME SamplesAssumption == RecoverySamples \in Nat \ {0}
ASSUME TurnsAssumption == MaxTurns \in Nat \ {0}
ASSUME CancelAssumption == MayCancel \in BOOLEAN
ASSUME RequestsAssumption == IsFiniteSet(Requests)

Models == {"primary", "fallback"}
TierNames == Models \cup {"cache", "degraded"}
Texts == {"good", "flagged", "unflagged"}
Copies == {1, 2}        \* the call and its hedge

VARIABLES
    pc, kind, turn,
    model,      \* the model a request is trying
    attempt,    \* its copies of the call: "none", "running", "ok" or "err"
    result,     \* the variable the copies write the text to
    steps,      \* trace: <<tier, outcome>> in order
    final,      \* trace: FinalTier
    served,     \* the response: tier and text
    gates,      \* the semantic breaker of each model
    cached,     \* the texts in the semantic cache
    counts,     \* CostTracker: requests per tier
    total,      \* totalRequests
    slipped     \* history: requests whose text a flagged one replaced after its verdict

vars == <<pc, kind, turn, model, attempt, result, steps, final, served,
          gates, cached, counts, total, slipped>>

Gate == INSTANCE BreakerGate WITH gate <- gates["primary"]

InChain == {"try", "dial", "calling", "evaluate", "serve", "lookup"}
Places == {"idle", "admit", "finish", "done", "failed"} \cup InChain
CallStates == {"none", "running", "ok", "err"}
Outcomes == {"killed", "semantic_cb_open", "transport_error", "semantic_failure", "success",
             "cache_hit", "graceful_denial"}
Gates == [open : BOOLEAN, probing : BOOLEAN, streak : 0..RecoverySamples-1]
Replies == [tier : TierNames \cup {"none"}, text : Texts \cup {"none"}]

TypeOK ==
    /\ pc \in [Requests -> Places]
    /\ kind \in [Requests -> {"interactive", "batch", "react"}]
    /\ turn \in [Requests -> 1..MaxTurns]
    /\ model \in [Requests -> Models]
    /\ attempt \in [Requests -> [Copies -> CallStates]]
    /\ result \in [Requests -> Texts \cup {"none"}]
    /\ steps \in [Requests -> Seq(TierNames \X Outcomes)]
    /\ final \in [Requests -> TierNames \cup {"none"}]
    /\ served \in [Requests -> Replies]
    /\ gates \in [Models -> Gates]
    /\ cached \subseteq Texts
    /\ counts \in [TierNames -> Nat]
    /\ total \in Nat
    /\ slipped \subseteq Requests

NoAttempt == [c \in Copies |-> "none"]
Nothing == [tier |-> "none", text |-> "none"]

Init ==
    /\ pc = [r \in Requests |-> "idle"]
    /\ kind = [r \in Requests |-> "react"]
    /\ turn = [r \in Requests |-> 1]
    /\ model = [r \in Requests |-> "primary"]
    /\ attempt = [r \in Requests |-> NoAttempt]
    /\ result = [r \in Requests |-> "none"]
    /\ steps = [r \in Requests |-> <<>>]
    /\ final = [r \in Requests |-> "none"]
    /\ served = [r \in Requests |-> Nothing]
    /\ gates = [m \in Models |-> Gate!Closed]
    /\ cached = {}
    /\ counts = [t \in TierNames |-> 0]
    /\ total = 0
    /\ slipped = {}

Goto(r, where) == pc' = [pc EXCEPT ![r] = where]
AddStep(r, tier, outcome) == steps' = [steps EXCEPT ![r] = Append(@, <<tier, outcome>>)]
RecordCost(tier) == counts' = [counts EXCEPT ![tier] = @ + 1]
Reply(r, tier, text) == served' = [served EXCEPT ![r] = [tier |-> tier, text |-> text]]

-----------------------------------------------------------------------------
(* Admission: Ask, AskBatch and React.                                      *)

Busy(k) == Cardinality({r \in Requests : kind[r] = k /\ pc[r] \in InChain})

\* A request arrives.  Ask counts it and queues; React goes straight to the chain.
Begin(r, k) ==
    /\ pc[r] = "idle"
    /\ kind' = [kind EXCEPT ![r] = k]
    /\ \/ k # "react" /\ Goto(r, "admit") /\ total' = total + 1
       \/ k = "react" /\ Goto(r, "try") /\ UNCHANGED total
    /\ UNCHANGED <<turn, model, attempt, result, steps, final, served, gates, cached, counts,
                   slipped>>

\* Mutant: refused requests are not counted.
Refuse_NoCost(r) ==
    /\ pc[r] = "admit"
    /\ AddStep(r, "degraded", "graceful_denial")
    /\ Reply(r, "degraded", "none")
    /\ Goto(r, "finish")
    /\ UNCHANGED <<kind, turn, model, attempt, result, final, gates, cached, counts, total,
                   slipped>>

\* ErrShed, or ErrFull: at once for a batch request, after the wait for an
\* interactive one.  The load shedder's limit adapts, so it may refuse at any time.
Refuse(r) ==
    /\ pc[r] = "admit"
    /\ AddStep(r, "degraded", "graceful_denial")
    /\ RecordCost("degraded")
    /\ Reply(r, "degraded", "none")
    /\ Goto(r, "finish")
    /\ UNCHANGED <<kind, turn, model, attempt, result, final, gates, cached, total, slipped>>

Enter(r) ==
    /\ pc[r] = "admit" /\ Busy(kind[r]) < Slots
    /\ Goto(r, "try")
    /\ UNCHANGED <<kind, turn, model, attempt, result, steps, final, served, gates, cached,
                   counts, total, slipped>>

\* Any other error, such as the caller's cancelled context, goes back as it is: the
\* trace is not finalized and nothing is counted.
Cancel(r) ==
    /\ MayCancel /\ pc[r] = "admit"
    /\ Goto(r, "failed")
    /\ UNCHANGED <<kind, turn, model, attempt, result, steps, final, served, gates, cached,
                   counts, total, slipped>>

-----------------------------------------------------------------------------
(* tryPrimary and tryFallback.                                              *)

\* The tier failed with this outcome: its step is added and the chain goes on.
FallThrough(r, outcome) ==
    /\ AddStep(r, model[r], outcome)
    /\ attempt' = [attempt EXCEPT ![r] = NoAttempt]
    /\ result' = [result EXCEPT ![r] = "none"]
    /\ \/ /\ model[r] = "primary"
          /\ model' = [model EXCEPT ![r] = "fallback"] /\ Goto(r, "try")
       \/ model[r] = "fallback" /\ Goto(r, "lookup") /\ UNCHANGED model

\* The kill switch, then ShouldBlock.
Try(r) ==
    /\ pc[r] = "try"
    /\ LET m == model[r]
       IN  \/ FallThrough(r, "killed") /\ UNCHANGED gates
           \/ gates[m].open /\ FallThrough(r, "semantic_cb_open") /\ UNCHANGED gates
           \/ /\ ~gates[m].open
              /\ Goto(r, "dial") /\ UNCHANGED <<gates, steps, attempt, result, model>>
           \/ /\ Gate!MayProbe(gates[m])
              /\ gates' = [gates EXCEPT ![m] = Gate!AfterProbe(@)]
              /\ Goto(r, "dial") /\ UNCHANGED <<steps, attempt, result, model>>
    /\ UNCHANGED <<kind, turn, final, served, cached, counts, total, slipped>>

\* The transport breaker refuses the call, or lets it through.
Dial(r) ==
    /\ pc[r] = "dial"
    /\ \/ FallThrough(r, "transport_error")
       \/ /\ attempt' = [attempt EXCEPT ![r][1] = "running"]
          /\ Goto(r, "calling") /\ UNCHANGED <<steps, result, model>>
    /\ UNCHANGED <<kind, turn, final, served, gates, cached, counts, total, slipped>>

\* The primary is slow: the hedge sends a second copy.
Hedge(r) ==
    /\ pc[r] = "calling" /\ model[r] = "primary"
    /\ attempt[r][1] = "running" /\ attempt[r][2] = "none"
    /\ attempt' = [attempt EXCEPT ![r][2] = "running"]
    /\ UNCHANGED <<pc, kind, turn, model, result, steps, final, served, gates, cached, counts,
                   total, slipped>>

\* Copy c of the call ends, its retries included.  On success it writes the shared
\* variable, whether or not anybody still waits for it: if the text in it has had its
\* verdict and is not yet returned, the new one goes out in its place.
Return(r, c) ==
    /\ attempt[r][c] = "running"
    /\ \/ \E t \in Texts : /\ result' = [result EXCEPT ![r] = t]
                           /\ attempt' = [attempt EXCEPT ![r][c] = "ok"]
                           /\ slipped' = IF pc[r] = "serve" /\ t = "flagged"
                                         THEN slipped \cup {r} ELSE slipped
       \/ attempt' = [attempt EXCEPT ![r][c] = "err"] /\ UNCHANGED <<result, slipped>>
    /\ UNCHANGED <<pc, kind, turn, model, steps, final, served, gates, cached, counts, total>>

\* Mutant: nobody notices that every copy has failed.
Collect_NoError(r) ==
    /\ pc[r] = "calling"
    /\ \E c \in Copies : attempt[r][c] = "ok"
    /\ Goto(r, "evaluate")
    /\ UNCHANGED <<steps, attempt, result, model>>
    /\ UNCHANGED <<kind, turn, final, served, gates, cached, counts, total, slipped>>

\* hedge.Do returns with the first success, whatever the other copy does, or when every
\* copy has failed.
Collect(r) ==
    /\ pc[r] = "calling"
    /\ \/ /\ \E c \in Copies : attempt[r][c] = "ok"
          /\ Goto(r, "evaluate") /\ UNCHANGED <<steps, attempt, result, model>>
       \/ /\ \A c \in Copies : attempt[r][c] \in {"none", "err"}
          /\ FallThrough(r, "transport_error")
    /\ UNCHANGED <<kind, turn, final, served, gates, cached, counts, total, slipped>>

\* Mutant: the verdict is recorded but not acted on.
Evaluate_NoVerdict(r) ==
    /\ pc[r] = "evaluate"
    /\ \E g \in Gate!AfterReport(gates[model[r]]) : gates' = [gates EXCEPT ![model[r]] = g]
    /\ AddStep(r, model[r], "success") /\ Goto(r, "serve")
    /\ UNCHANGED <<attempt, result, model>>
    /\ UNCHANGED <<kind, turn, final, served, cached, counts, total, slipped>>

\* The text is evaluated, the score recorded, and a flagged text is a failure.
Evaluate(r) ==
    /\ pc[r] = "evaluate"
    /\ \E g \in Gate!AfterReport(gates[model[r]]) : gates' = [gates EXCEPT ![model[r]] = g]
    /\ \/ result[r] = "flagged" /\ FallThrough(r, "semantic_failure")
       \/ /\ result[r] # "flagged"
          /\ AddStep(r, model[r], "success") /\ Goto(r, "serve")
          /\ UNCHANGED <<attempt, result, model>>
    /\ UNCHANGED <<kind, turn, final, served, cached, counts, total, slipped>>

\* Back in Degrade: the text, read again, is cached, counted and returned.
Serve(r) ==
    /\ pc[r] = "serve"
    /\ cached' = cached \cup {result[r]}
    /\ RecordCost(model[r])
    /\ Reply(r, model[r], result[r])
    /\ attempt' = [attempt EXCEPT ![r] = NoAttempt]
    /\ result' = [result EXCEPT ![r] = "none"]
    /\ Goto(r, "finish")
    /\ UNCHANGED <<kind, turn, model, steps, final, gates, total, slipped>>

-----------------------------------------------------------------------------
(* The cache, denial, and the end.                                          *)

\* Mutant: the denial leaves no step in the trace.
Deny_NoStep(r) ==
    /\ RecordCost("degraded") /\ Reply(r, "degraded", "none")
    /\ UNCHANGED steps

Deny(r) ==
    /\ AddStep(r, "degraded", "graceful_denial")
    /\ RecordCost("degraded") /\ Reply(r, "degraded", "none")

\* The semantic cache has a match, or the request is denied.
LookUp(r) ==
    /\ pc[r] = "lookup"
    /\ \/ \E t \in cached : /\ AddStep(r, "cache", "cache_hit")
                            /\ RecordCost("cache") /\ Reply(r, "cache", t)
       \/ Deny(r)
    /\ Goto(r, "finish")
    /\ UNCHANGED <<kind, turn, model, attempt, result, final, gates, cached, total, slipped>>

\* A React turn whose text names a tool is followed by another one.  The text of a
\* denial names none.
NextTurn(r) ==
    /\ pc[r] = "finish" /\ kind[r] = "react"
    /\ turn[r] < MaxTurns /\ served[r].tier # "degraded"
    /\ turn' = [turn EXCEPT ![r] = @ + 1]
    /\ model' = [model EXCEPT ![r] = "primary"]
    /\ Goto(r, "try")
    /\ UNCHANGED <<kind, attempt, result, steps, final, served, gates, cached, counts, total,
                   slipped>>

\* The trace is finalized and the response goes out.
Finish(r) ==
    /\ pc[r] = "finish"
    /\ final' = [final EXCEPT ![r] = served[r].tier]
    /\ Goto(r, "done")
    /\ UNCHANGED <<kind, turn, model, attempt, result, steps, served, gates, cached, counts,
                   total, slipped>>

Step(r) ==
    \/ Refuse(r) \/ Enter(r) \/ Cancel(r)
    \/ Try(r) \/ Dial(r) \/ Hedge(r) \/ Collect(r) \/ Evaluate(r) \/ Serve(r)
    \/ \E c \in Copies : Return(r, c)
    \/ LookUp(r) \/ NextTurn(r) \/ Finish(r)

Next ==
    \E r \in Requests : (\E k \in Kinds : Begin(r, k)) \/ Step(r)

Spec == Init /\ [][Next]_vars

\* A goroutine with something to do does it; provider calls end by their timeout and
\* an admission wait by its own.
FairSpec == Spec /\ \A r \in Requests : WF_vars(Step(r))

-----------------------------------------------------------------------------
(* Properties.                                                              *)

Ended(o) == o \in {"success", "cache_hit", "graceful_denial"}
After == [t \in Models |-> IF t = "primary" THEN {"fallback"} ELSE {"cache", "degraded"}]

\* A trace tells the whole story: each failed tier is followed by the next one, a
\* request is denied only after all others failed (or was never admitted), and the
\* last step is by the tier the response names (AddStep on every path of Degrade).
TraceTellsTheStory ==
    \A r \in Requests : LET tr == steps[r] IN
        /\ \A i \in 1..Len(tr)-1 :
              IF Ended(tr[i][2]) THEN kind[r] = "react" /\ tr[i+1][1] = "primary"
              ELSE tr[i+1][1] \in After[tr[i][1]]
        /\ Len(tr) > 0 => tr[1][1] = "primary" \/ tr = <<<<"degraded", "graceful_denial">>>>
        /\ final[r] # "none" => Len(tr) > 0 /\ tr[Len(tr)][1] = final[r] /\ Ended(tr[Len(tr)][2])

\* The chain as a whole keeps the promise of Shield.
Status(r) == CASE pc[r] = "idle" -> "idle" [] pc[r] = "done" -> "answered"
               [] pc[r] = "failed" -> "failed" [] OTHER -> "pending"
Promise == INSTANCE Shield WITH
    status <- [r \in Requests |-> Status(r)],
    reply <- [r \in Requests |-> IF pc[r] = "done" THEN served[r] ELSE Nothing]

\* What orchestrator.go:386 says of the quality gate: "a bad-quality response must not be
\* returned as success".  No flagged text is returned, by a model or out of the cache.
\* It does not hold: see FlaggedOnlyIfSlipped.
NoFlaggedText ==
    /\ "flagged" \notin cached
    /\ \A r \in Requests : served[r].text # "flagged"

\* There is one way past the quality gate: the slower copy of a hedged call writes the
\* shared result after tryPrimary has judged the text of the faster one and before it
\* returns it.  A flagged text that is served comes from the primary of a request to
\* which that happened, never from the fallback, or from the cache such a request filled.
FlaggedOnlyIfSlipped ==
    /\ "flagged" \in cached => slipped # {}
    /\ \A r \in Requests : served[r].text = "flagged" =>
          \/ served[r].tier = "primary" /\ r \in slipped
          \/ served[r].tier = "cache" /\ slipped # {}

\* Why: a text is there when it is evaluated, only the primary's calls have copies, and
\* only a copy that still runs can replace what was judged.
Vetted == {"good", "unflagged"}
ResultWritten ==
    \A r \in Requests :
        pc[r] \in {"evaluate", "serve"} \/ (\E c \in Copies : attempt[r][c] = "ok") =>
            result[r] \in Texts
Answered(r) == Promise!AnswersTo(r) \cup {Promise!Denial}
VettedInv ==
    /\ ResultWritten
    /\ "flagged" \in cached => slipped # {}
    /\ \A r \in Requests :
          /\ pc[r] \notin {"calling", "evaluate", "serve"} =>
                \A c \in Copies : attempt[r][c] # "running"
          /\ model[r] = "fallback" => attempt[r][2] = "none"
          /\ model[r] = "fallback" /\ pc[r] \in {"evaluate", "serve"} =>
                attempt[r][1] # "running"
          /\ pc[r] = "serve" => result[r] \in Vetted \/ (model[r] = "primary" /\ r \in slipped)
          /\ pc[r] \in {"finish", "done"} => served[r] \in Answered(r)
          /\ served[r] \in Answered(r) \cup {Nothing}

\* agent.go:396: "keep TierCounts in sync with TotalRequests".  An Ask is counted by the
\* tier that answers it, once, unless its caller gives up in the queue; React is not
\* counted in TotalRequests, but each of its turns by a tier.
Unanswered ==
    {r \in Requests : kind[r] # "react" /\ pc[r] \in {"admit", "failed"} \cup InChain}
TurnAnswered(r, n) ==
    kind[r] = "react" /\ (n < turn[r] \/ (n = turn[r] /\ pc[r] \in {"finish", "done"}))
TurnsAnswered == {t \in Requests \X (1..MaxTurns) : TurnAnswered(t[1], t[2])}
TierCountsInSync ==
    total + Cardinality(TurnsAnswered) =
        counts["primary"] + counts["fallback"] + counts["cache"] + counts["degraded"]
        + Cardinality(Unanswered)

\* Every request that arrives ends in an answer, a denial or, if its caller gave up in
\* the queue, an error, and the answer is one that Shield allows (ask, Degrade).
KeepsPromise == Promise!Spec
AnswersEveryone == Promise!FairSpec
=============================================================================
