------------------------- MODULE OrchestratorProofs -------------------------
(***************************************************************************)
(* Proofs about Orchestrator, for every instance: type correctness; that a *)
(* flagged text is served or cached only through the late write of a       *)
(* hedged call; that the chain implements Shield; that the counters agree; *)
(* and that every trace tells the whole story.                             *)
(***************************************************************************)
EXTENDS Orchestrator, FiniteSetTheorems, TLAPS

-----------------------------------------------------------------------------
(* The building blocks of the actions keep the types.                       *)

LEMMA GotoType ==
  ASSUME TypeOK, NEW r \in Requests, NEW w \in Places, Goto(r, w)
  PROVE  pc' \in [Requests -> Places]
  BY DEF Goto, TypeOK

LEMMA StepsType ==
  ASSUME TypeOK, NEW r \in Requests, NEW t \in TierNames, NEW o \in Outcomes, AddStep(r, t, o)
  PROVE  steps' \in [Requests -> Seq(TierNames \X Outcomes)]
<1>1. steps \in [Requests -> Seq(TierNames \X Outcomes)]
  BY DEF TypeOK
<1>2. <<t, o>> \in TierNames \X Outcomes
  OBVIOUS
<1>3. Append(steps[r], <<t, o>>) \in Seq(TierNames \X Outcomes)
  BY <1>1, <1>2
<1> QED
  BY <1>1, <1>3 DEF AddStep

LEMMA CountsType ==
  ASSUME TypeOK, NEW t \in TierNames, RecordCost(t)
  PROVE  counts' \in [TierNames -> Nat]
  BY DEF RecordCost, TypeOK

LEMMA ReplyType ==
  ASSUME TypeOK, NEW r \in Requests, NEW t \in TierNames, NEW x \in Texts \cup {"none"},
         Reply(r, t, x)
  PROVE  served' \in [Requests -> Replies]
<1>1. [tier |-> t, text |-> x] \in Replies
  BY DEF Replies
<1> QED
  BY <1>1 DEF Reply, TypeOK

LEMMA NoAttemptType == NoAttempt \in [Copies -> CallStates]
  BY DEF NoAttempt, CallStates

\* What FallThrough leaves behind.
LEMMA FallThroughType ==
  ASSUME TypeOK, NEW r \in Requests, NEW o \in Outcomes, FallThrough(r, o)
  PROVE  /\ steps' \in [Requests -> Seq(TierNames \X Outcomes)]
         /\ attempt' \in [Requests -> [Copies -> CallStates]]
         /\ result' \in [Requests -> Texts \cup {"none"}]
         /\ model' \in [Requests -> Models]
         /\ pc' \in [Requests -> Places]
<1>1. model[r] \in TierNames
  BY DEF TypeOK, TierNames
<1>2. steps' \in [Requests -> Seq(TierNames \X Outcomes)]
  BY <1>1, StepsType DEF FallThrough
<1>3. attempt' \in [Requests -> [Copies -> CallStates]]
  BY NoAttemptType DEF FallThrough, TypeOK
<1>4. result' \in [Requests -> Texts \cup {"none"}]
  BY DEF FallThrough, TypeOK
<1>5. model' \in [Requests -> Models]
  BY DEF FallThrough, TypeOK, Models
<1>6. "try" \in Places /\ "lookup" \in Places
  BY DEF Places, InChain
<1>7. pc' \in [Requests -> Places]
  BY <1>6, GotoType DEF FallThrough
<1> QED
  BY <1>2, <1>3, <1>4, <1>5, <1>7

\* Taking the slot and reporting leave a well-formed breaker.
LEMMA GateType ==
  ASSUME NEW g \in Gates
  PROVE  /\ Gate!AfterReport(g) \subseteq Gates
         /\ Gate!AfterProbe(g) \in Gates
<1>1. g.streak \in 0..RecoverySamples-1 /\ RecoverySamples \in Nat /\ RecoverySamples > 0
  BY SamplesAssumption DEF Gates
<1>2. ASSUME NEW n \in 0..RecoverySamples-1
      PROVE  [open |-> TRUE, probing |-> FALSE, streak |-> n] \in Gates
  BY DEF Gates
<1>3. Gate!Opened(0) \in Gates /\ Gate!Opened(g.streak) \in Gates
  BY <1>1, <1>2 DEF Gate!Opened
<1>4. Gate!Closed \in Gates
  BY <1>1 DEF Gate!Closed, Gates
<1>5. ~(g.streak + 1 >= RecoverySamples) => Gate!Opened(g.streak + 1) \in Gates
  BY <1>1, <1>2 DEF Gate!Opened
<1>6. Gate!AfterProbe(g) \in Gates
  BY <1>1 DEF Gate!AfterProbe, Gates
<1> QED
  BY <1>3, <1>4, <1>5, <1>6 DEF Gate!AfterReport

-----------------------------------------------------------------------------
(* Types, together with: a text is there when it is read.                   *)

TypeInv == TypeOK /\ ResultWritten

\* Every name an action uses is one of its type.
LEMMA Names ==
  /\ \A w \in {"idle", "admit", "finish", "done", "failed", "try", "dial", "calling",
               "evaluate", "serve", "lookup"} : w \in Places
  /\ \A o \in {"killed", "semantic_cb_open", "transport_error", "semantic_failure",
               "success", "cache_hit", "graceful_denial"} : o \in Outcomes
  /\ \A t \in {"primary", "fallback", "cache", "degraded"} : t \in TierNames
  BY DEF Places, InChain, Outcomes, TierNames, Models

LEMMA TypeStep ==
  ASSUME TypeInv, [Next]_vars
  PROVE  TypeInv'
<1> USE DEF TypeInv
<1>1. ASSUME NEW r \in Requests, NEW k \in Kinds, Begin(r, k) PROVE TypeInv'
  <2>1. pc' \in [Requests -> Places]
    BY Names, <1>1, GotoType DEF Begin
  <2>2. kind' \in [Requests -> {"interactive", "batch", "react"}]
    BY <1>1, KindsAssumption DEF Begin, TypeOK
  <2>3. total' \in Nat
    BY <1>1 DEF Begin, TypeOK
  <2> QED
    BY <1>1, <2>1, <2>2, <2>3 DEF Begin, Goto, TypeOK, ResultWritten
<1>2. ASSUME NEW r \in Requests, Refuse(r) PROVE TypeInv'
  <2>1. /\ steps' \in [Requests -> Seq(TierNames \X Outcomes)] /\ counts' \in [TierNames -> Nat]
        /\ served' \in [Requests -> Replies] /\ pc' \in [Requests -> Places]
    BY Names, <1>2, StepsType, CountsType, ReplyType, GotoType DEF Refuse
  <2> QED
    BY <1>2, <2>1 DEF Refuse, Goto, TypeOK, ResultWritten
<1>3. ASSUME NEW r \in Requests, Enter(r) \/ Cancel(r) PROVE TypeInv'
  <2>1. pc' \in [Requests -> Places]
    BY Names, <1>3, GotoType DEF Enter, Cancel
  <2> QED
    BY <1>3, <2>1 DEF Enter, Cancel, Goto, TypeOK, ResultWritten
<1>4. ASSUME NEW r \in Requests, NEW o \in Outcomes, FallThrough(r, o),
             gates' \in [Models -> Gates],
             UNCHANGED <<kind, turn, final, served, cached, counts, total, slipped>>
      PROVE  TypeInv'
  <2>1. TypeOK'
    BY <1>4, FallThroughType DEF TypeOK
  <2>2. ResultWritten'
    BY <1>4 DEF FallThrough, Goto, TypeOK, ResultWritten, NoAttempt
  <2> QED
    BY <2>1, <2>2
<1>5. ASSUME NEW r \in Requests, Try(r) PROVE TypeInv'
  <2>1. /\ UNCHANGED <<kind, turn, final, served, cached, counts, total, slipped>>
        /\ gates \in [Models -> Gates] /\ model[r] \in Models
    BY <1>5 DEF Try, TypeOK
  <2>2. CASE FallThrough(r, "killed") /\ UNCHANGED gates
    BY Names, <1>4, <2>1, <2>2
  <2>3. CASE FallThrough(r, "semantic_cb_open") /\ UNCHANGED gates
    BY Names, <1>4, <2>1, <2>3
  <2>4. CASE Goto(r, "dial") /\ gates' \in [Models -> Gates]
             /\ UNCHANGED <<steps, attempt, result, model>>
    <3>1. pc' \in [Requests -> Places]
      BY Names, <2>4, GotoType
    <3> QED
      BY <2>1, <2>4, <3>1 DEF Goto, TypeOK, ResultWritten
  <2>5. Gate!AfterProbe(gates[model[r]]) \in Gates
    BY <2>1, GateType
  <2> QED
    BY <1>5, <2>1, <2>2, <2>3, <2>4, <2>5 DEF Try
<1>6. ASSUME NEW r \in Requests, Dial(r) PROVE TypeInv'
  <2>1. /\ UNCHANGED <<kind, turn, final, served, gates, cached, counts, total, slipped>>
        /\ gates \in [Models -> Gates]
    BY <1>6 DEF Dial, TypeOK
  <2>2. CASE FallThrough(r, "transport_error")
    BY Names, <1>4, <2>1, <2>2
  <2>3. CASE /\ attempt' = [attempt EXCEPT ![r][1] = "running"]
             /\ Goto(r, "calling") /\ UNCHANGED <<steps, result, model>>
    <3>1. pc' \in [Requests -> Places]
      BY Names, <2>3, GotoType
    <3>2. attempt' \in [Requests -> [Copies -> CallStates]]
      BY <2>3 DEF TypeOK, Copies, CallStates
    <3>3. TypeOK'
      BY <2>1, <2>3, <3>1, <3>2 DEF TypeOK
    <3>4. \A q \in Requests, c \in Copies : attempt'[q][c] = "ok" => attempt[q][c] = "ok"
      BY <2>3 DEF TypeOK, Copies
    <3>5. ResultWritten'
      BY <2>3, <3>4 DEF Goto, TypeOK, ResultWritten
    <3> QED
      BY <3>3, <3>5
  <2> QED
    BY <1>6, <2>2, <2>3 DEF Dial
<1>7. ASSUME NEW r \in Requests, Hedge(r) PROVE TypeInv'
  <2>1. attempt' \in [Requests -> [Copies -> CallStates]]
    BY <1>7 DEF Hedge, TypeOK, Copies, CallStates
  <2>2. \A q \in Requests, c \in Copies : attempt'[q][c] = "ok" => attempt[q][c] = "ok"
    BY <1>7 DEF Hedge, TypeOK, Copies
  <2> QED
    BY <1>7, <2>1, <2>2 DEF Hedge, TypeOK, ResultWritten
<1>8. ASSUME NEW r \in Requests, NEW c \in Copies, Return(r, c) PROVE TypeInv'
  <2>0. PICK x \in {"ok", "err"} : /\ attempt' = [attempt EXCEPT ![r][c] = x]
                                   /\ x = "ok" => result'[r] \in Texts
    BY <1>8 DEF Return, TypeOK
  <2>1. attempt' \in [Requests -> [Copies -> CallStates]]
    BY <2>0 DEF TypeOK, CallStates
  <2>2. result' \in [Requests -> Texts \cup {"none"}]
    BY <1>8 DEF Return, TypeOK
  <2>3. \A q \in Requests : result[q] \in Texts => result'[q] \in Texts
    BY <1>8 DEF Return, TypeOK
  <2>4. \A q \in Requests, d \in Copies : attempt'[q][d] = "ok" =>
           attempt[q][d] = "ok" \/ result'[q] \in Texts
    BY <2>0 DEF TypeOK
  <2>5. TypeOK'
    BY <1>8, <2>1, <2>2 DEF Return, TypeOK
  <2>6. ResultWritten'
    BY <1>8, <2>3, <2>4 DEF Return, ResultWritten
  <2> QED
    BY <2>5, <2>6
<1>9. ASSUME NEW r \in Requests, Collect(r) PROVE TypeInv'
  <2>1. /\ UNCHANGED <<kind, turn, final, served, gates, cached, counts, total, slipped>>
        /\ gates \in [Models -> Gates]
    BY <1>9 DEF Collect, TypeOK
  <2>2. CASE FallThrough(r, "transport_error")
    BY Names, <1>4, <2>1, <2>2
  <2>3. CASE /\ \E c \in Copies : attempt[r][c] = "ok"
             /\ Goto(r, "evaluate") /\ UNCHANGED <<steps, attempt, result, model>>
    <3>1. pc' \in [Requests -> Places]
      BY Names, <2>3, GotoType
    <3> QED
      BY <2>1, <2>3, <3>1 DEF Goto, TypeOK, ResultWritten
  <2> QED
    BY <1>9, <2>2, <2>3 DEF Collect
<1>10. ASSUME NEW r \in Requests, Evaluate(r) PROVE TypeInv'
  <2>0. /\ UNCHANGED <<kind, turn, final, served, cached, counts, total, slipped>>
        /\ model[r] \in Models /\ gates \in [Models -> Gates] /\ pc[r] = "evaluate"
    BY <1>10 DEF Evaluate, TypeOK
  <2>1. gates' \in [Models -> Gates]
    <3>1. PICK g \in Gate!AfterReport(gates[model[r]]) : gates' = [gates EXCEPT ![model[r]] = g]
      BY <1>10 DEF Evaluate
    <3>2. g \in Gates
      BY <2>0, <3>1, GateType
    <3> QED
      BY <2>0, <3>1, <3>2
  <2>2. CASE FallThrough(r, "semantic_failure")
    BY Names, <1>4, <2>0, <2>1, <2>2
  <2>3. CASE /\ AddStep(r, model[r], "success") /\ Goto(r, "serve")
             /\ UNCHANGED <<attempt, result, model>>
    <3>1. /\ steps' \in [Requests -> Seq(TierNames \X Outcomes)] /\ pc' \in [Requests -> Places]
      BY Names, <2>0, <2>3, StepsType, GotoType DEF TierNames
    <3> QED
      BY <2>0, <2>1, <2>3, <3>1 DEF Goto, TypeOK, ResultWritten
  <2> QED
    BY <1>10, <2>2, <2>3 DEF Evaluate
<1>11. ASSUME NEW r \in Requests, Serve(r) PROVE TypeInv'
  <2>1. model[r] \in TierNames /\ result[r] \in Texts
    BY <1>11 DEF Serve, TypeOK, TierNames, ResultWritten
  <2>2. /\ counts' \in [TierNames -> Nat] /\ served' \in [Requests -> Replies]
        /\ pc' \in [Requests -> Places]
    BY Names, <1>11, <2>1, CountsType, ReplyType, GotoType DEF Serve
  <2>3. cached' \subseteq Texts
    BY <1>11, <2>1 DEF Serve, TypeOK
  <2>4. TypeOK'
    BY <1>11, <2>2, <2>3, NoAttemptType DEF Serve, TypeOK
  <2>5. ResultWritten'
    BY <1>11 DEF Serve, Goto, TypeOK, ResultWritten, NoAttempt
  <2> QED
    BY <2>4, <2>5
<1>12. ASSUME NEW r \in Requests, LookUp(r) PROVE TypeInv'
  <2>1. /\ steps' \in [Requests -> Seq(TierNames \X Outcomes)] /\ counts' \in [TierNames -> Nat]
        /\ served' \in [Requests -> Replies]
    <3>1. ASSUME NEW t \in cached, AddStep(r, "cache", "cache_hit"), RecordCost("cache"),
                 Reply(r, "cache", t)
          PROVE  <2>1!1 /\ <2>1!2
      <4>1. t \in Texts
        BY <3>1 DEF TypeOK
      <4> QED
        BY Names, <3>1, <4>1, StepsType, CountsType, ReplyType
    <3>2. CASE Deny(r)
      BY Names, <3>2, StepsType, CountsType, ReplyType DEF Deny
    <3> QED
      BY <1>12, <3>1, <3>2 DEF LookUp
  <2>2. pc' \in [Requests -> Places]
    BY Names, <1>12, GotoType DEF LookUp
  <2> QED
    BY <1>12, <2>1, <2>2 DEF LookUp, Goto, TypeOK, ResultWritten
<1>13. ASSUME NEW r \in Requests, NextTurn(r) PROVE TypeInv'
  <2>1. pc' \in [Requests -> Places]
    BY Names, <1>13, GotoType DEF NextTurn
  <2>2. turn' \in [Requests -> 1..MaxTurns]
    BY <1>13, TurnsAssumption DEF NextTurn, TypeOK
  <2>3. model' \in [Requests -> Models]
    BY <1>13 DEF NextTurn, TypeOK, Models
  <2> QED
    BY <1>13, <2>1, <2>2, <2>3 DEF NextTurn, Goto, TypeOK, ResultWritten
<1>14. ASSUME NEW r \in Requests, Finish(r) PROVE TypeInv'
  <2>1. pc' \in [Requests -> Places]
    BY Names, <1>14, GotoType DEF Finish
  <2>2. final' \in [Requests -> TierNames \cup {"none"}]
    BY <1>14 DEF Finish, TypeOK, Replies
  <2> QED
    BY <1>14, <2>1, <2>2 DEF Finish, Goto, TypeOK, ResultWritten
<1>15. CASE UNCHANGED vars
  BY <1>15 DEF vars, TypeOK, ResultWritten
<1> QED
  BY <1>1, <1>2, <1>3, <1>5, <1>6, <1>7, <1>8, <1>9, <1>10, <1>11, <1>12, <1>13, <1>14, <1>15
  DEF Next, Step

\* Type correctness of the request state machine, for every instance.
THEOREM OrchestratorTypeOK == Spec => [](TypeOK /\ ResultWritten)
<1> USE DEF TypeInv
<1>1. Init => TypeInv
  <2> SUFFICES ASSUME Init PROVE TypeInv
    OBVIOUS
  <2>1. 1 \in 1..MaxTurns /\ 0 \in 0..RecoverySamples-1
    BY TurnsAssumption, SamplesAssumption
  <2>2. Gate!Closed \in Gates /\ Nothing \in Replies
    BY <2>1 DEF Gate!Closed, Gates, Nothing, Replies
  <2>3. TypeOK
    BY Names, <2>1, <2>2, NoAttemptType DEF Init, TypeOK, Models
  <2>4. ResultWritten
    BY DEF Init, ResultWritten, NoAttempt
  <2> QED
    BY <2>3, <2>4
<1>2. TypeInv /\ [Next]_vars => TypeInv'
  BY TypeStep
<1> QED
  BY <1>1, <1>2, PTL DEF Spec

-----------------------------------------------------------------------------
(* The quality gate and the slower copy of a hedged call.                   *)

\* One request's part of VettedInv.
VettedAt(r) ==
    /\ pc[r] \notin {"calling", "evaluate", "serve"} =>
          \A c \in Copies : attempt[r][c] # "running"
    /\ model[r] = "fallback" => attempt[r][2] = "none"
    /\ model[r] = "fallback" /\ pc[r] \in {"evaluate", "serve"} => attempt[r][1] # "running"
    /\ pc[r] = "serve" => result[r] \in Vetted \/ (model[r] = "primary" /\ r \in slipped)
    /\ pc[r] \in {"finish", "done"} => served[r] \in Answered(r)
    /\ served[r] \in Answered(r) \cup {Nothing}

CacheVetted == "flagged" \in cached => slipped # {}

\* What may be answered once may be answered ever after.
LEMMA AnsweredGrows ==
  ASSUME NEW q \in Requests, slipped \subseteq slipped'
  PROVE  Answered(q) \subseteq Answered(q)'
  BY DEF Answered, Promise!AnswersTo, Promise!Denial

\* A request that did not move keeps its part.
LEMMA OthersVetted ==
  ASSUME NEW q \in Requests, VettedAt(q), slipped \subseteq slipped',
         pc'[q] = pc[q], attempt'[q] = attempt[q], result'[q] = result[q], served'[q] = served[q],
         model'[q] = model[q]
  PROVE  VettedAt(q)'
<1>1. Answered(q) \subseteq Answered(q)'
  BY AnsweredGrows
<1>2. q \in slipped => q \in slipped'
  OBVIOUS
<1> QED
  BY <1>1, <1>2 DEF VettedAt, Vetted, Nothing

\* The answers that keep the promise, by tier.
LEMMA Answers ==
  ASSUME NEW r \in Requests
  PROVE  /\ \A x \in Vetted, m \in Models \cup {"cache"} : [tier |-> m, text |-> x] \in Answered(r)
         /\ r \in slipped => [tier |-> "primary", text |-> "flagged"] \in Answered(r)
         /\ slipped # {} => [tier |-> "cache", text |-> "flagged"] \in Answered(r)
         /\ [tier |-> "degraded", text |-> "none"] \in Answered(r)
<1> USE DEF Answered, Promise!AnswersTo, Promise!Denial, Vetted, Models
<1>1. \A x \in Vetted, m \in Models \cup {"cache"} : [tier |-> m, text |-> x] \in Answered(r)
  OBVIOUS
<1>2. r \in slipped => [tier |-> "primary", text |-> "flagged"] \in Answered(r)
  OBVIOUS
<1>3. slipped # {} => [tier |-> "cache", text |-> "flagged"] \in Answered(r)
  OBVIOUS
<1>4. [tier |-> "degraded", text |-> "none"] \in Answered(r)
  OBVIOUS
<1> QED
  BY <1>1, <1>2, <1>3, <1>4

LEMMA VettedStep ==
  ASSUME TypeInv, VettedInv, [Next]_vars
  PROVE  VettedInv'
<1>0. /\ \A q \in Requests : VettedAt(q)
      /\ CacheVetted /\ Vetted = Texts \ {"flagged"}
      /\ TypeOK /\ ResultWritten
  BY DEF VettedInv, VettedAt, TypeInv, Vetted, Texts, CacheVetted
<1>1. SUFFICES ASSUME ResultWritten' PROVE CacheVetted' /\ \A q \in Requests : VettedAt(q)'
  BY TypeStep DEF VettedInv, VettedAt, TypeInv, CacheVetted
<1> DEFINE Goal == CacheVetted' /\ \A q \in Requests : VettedAt(q)'
           Others(r) == \A q \in Requests \ {r} :
               /\ pc'[q] = pc[q] /\ attempt'[q] = attempt[q] /\ model'[q] = model[q]
               /\ result'[q] = result[q] /\ served'[q] = served[q]
<1>2. ASSUME NEW r \in Requests, VettedAt(r)', CacheVetted', slipped \subseteq slipped', Others(r)
      PROVE  Goal
  BY <1>0, <1>2, OthersVetted
<1>3. ASSUME NEW r \in Requests, slipped' = slipped PROVE Answered(r)' = Answered(r)
  BY <1>3 DEF Answered, Promise!AnswersTo, Promise!Denial
<1>4. ASSUME UNCHANGED <<cached, slipped>> PROVE CacheVetted'
  BY <1>0, <1>4 DEF CacheVetted
<1>5. ASSUME NEW r \in Requests, NEW k \in Kinds, Begin(r, k) PROVE Goal
  <2>1. /\ \E w \in {"admit", "try"} : pc' = [pc EXCEPT ![r] = w]
        /\ pc[r] = "idle" /\ UNCHANGED <<model, attempt, result, served, cached, slipped>>
    BY <1>5 DEF Begin, Goto
  <2> QED
    BY <1>0, <1>2, <1>3, <1>4, <2>1 DEF TypeOK, VettedAt
<1>6. ASSUME NEW r \in Requests, Refuse(r) PROVE Goal
  <2>1. [tier |-> "degraded", text |-> "none"] \in Answered(r)
    BY Answers
  <2> QED
    BY <1>0, <1>2, <1>3, <1>4, <1>6, <2>1 DEF Refuse, Goto, Reply, TypeOK, VettedAt
<1>7. ASSUME NEW r \in Requests, Enter(r) \/ Cancel(r) PROVE Goal
  BY <1>0, <1>2, <1>3, <1>4, <1>7 DEF Enter, Cancel, Goto, TypeOK, VettedAt
<1>8. ASSUME NEW r \in Requests, NEW o \in Outcomes, FallThrough(r, o),
             UNCHANGED <<served, cached, slipped>>
      PROVE  Goal
  BY <1>0, <1>2, <1>3, <1>4, <1>8 DEF FallThrough, NoAttempt, Goto, TypeOK, VettedAt, Copies
<1>9. ASSUME NEW r \in Requests, Try(r) PROVE Goal
  <2>1. CASE /\ pc[r] = "try" /\ Goto(r, "dial")
             /\ UNCHANGED <<model, attempt, result, served, cached, slipped>>
    BY <1>0, <1>2, <1>3, <1>4, <2>1 DEF Goto, TypeOK, VettedAt
  <2> QED
    BY <1>8, <1>9, <2>1 DEF Try, Outcomes
<1>10. ASSUME NEW r \in Requests, Dial(r) PROVE Goal
  <2>1. CASE /\ attempt' = [attempt EXCEPT ![r][1] = "running"]
             /\ Goto(r, "calling") /\ UNCHANGED <<model, result, served, cached, slipped>>
    BY <1>0, <1>2, <1>3, <1>4, <2>1 DEF Goto, TypeOK, VettedAt, Copies
  <2> QED
    BY <1>8, <1>10, <2>1 DEF Dial, Outcomes
<1>11. ASSUME NEW r \in Requests, Hedge(r) PROVE Goal
  BY <1>0, <1>2, <1>3, <1>4, <1>11 DEF Hedge, TypeOK, VettedAt, Copies
<1>12. ASSUME NEW r \in Requests, NEW c \in Copies, Return(r, c) PROVE Goal
  <2>1. /\ pc[r] \in {"calling", "evaluate", "serve"} /\ UNCHANGED <<pc, model, served, cached>>
        /\ pc[r] # "calling" => model[r] = "primary"
        /\ slipped \subseteq slipped' /\ slipped \subseteq Requests
        /\ pc[r] # "serve" => slipped' = slipped
    BY <1>0, <1>12 DEF Return, VettedAt, TypeOK, Models, Copies
  <2>2. Others(r) /\ attempt'[r] = [attempt[r] EXCEPT ![c] = attempt'[r][c]]
    BY <1>0, <1>12, <2>1 DEF Return, TypeOK
  <2>3. CacheVetted'
    BY <1>0, <2>1 DEF CacheVetted
  <2>4. served'[r] = served[r] /\ Answered(r) \subseteq Answered(r)'
    BY <2>1, AnsweredGrows
  <2>5. model[r] = "fallback" => attempt'[r][2] = "none"
    BY <1>0, <1>12, <2>2 DEF Return, VettedAt, TypeOK, Copies
  <2>6. pc[r] = "serve" => result'[r] \in Vetted \/ r \in slipped'
    BY <1>0, <1>12 DEF Return, VettedAt, TypeOK
  <2>7. VettedAt(r)'
    BY <1>0, <2>1, <2>4, <2>5, <2>6 DEF VettedAt, Nothing
  <2> QED
    BY <1>2, <2>1, <2>2, <2>3, <2>7
<1>13. ASSUME NEW r \in Requests, Collect(r) PROVE Goal
  <2>1. CASE /\ \E c \in Copies : attempt[r][c] = "ok"
             /\ pc[r] = "calling" /\ Goto(r, "evaluate")
             /\ UNCHANGED <<model, attempt, result, served, cached, slipped>>
    <3>1. model[r] = "fallback" => attempt[r][1] = "ok"
      BY <1>0, <2>1 DEF VettedAt, Copies
    <3> QED
      BY <1>0, <1>2, <1>3, <1>4, <2>1, <3>1 DEF Goto, TypeOK, VettedAt
  <2> QED
    BY <1>8, <1>13, <2>1 DEF Collect, Outcomes
<1>14. ASSUME NEW r \in Requests, Evaluate(r) PROVE Goal
  <2>1. CASE /\ result[r] # "flagged" /\ Goto(r, "serve")
             /\ UNCHANGED <<model, attempt, result, served, cached, slipped>>
    <3>1. pc[r] = "evaluate" /\ result[r] \in Texts
      BY <1>0, <1>14 DEF Evaluate, ResultWritten
    <3>2. result[r] \in Vetted
      BY <1>0, <2>1, <3>1
    <3> QED
      BY <1>0, <1>2, <1>3, <1>4, <2>1, <3>1, <3>2 DEF Goto, TypeOK, VettedAt
  <2> QED
    BY <1>8, <1>14, <2>1 DEF Evaluate, Outcomes
<1>15. ASSUME NEW r \in Requests, Serve(r) PROVE Goal
  <2>1. result[r] \in Texts /\ (result[r] \in Vetted \/ (model[r] = "primary" /\ r \in slipped))
        /\ model[r] \in Models
    BY <1>0, <1>15 DEF Serve, VettedAt, TypeOK, ResultWritten
  <2>2. served' = [served EXCEPT ![r] = [tier |-> model[r], text |-> result[r]]]
    BY <1>15 DEF Serve, Reply
  <2>3. [tier |-> model[r], text |-> result[r]] \in Answered(r)
    BY <1>0, <2>1, Answers
  <2>4. CacheVetted'
    BY <1>0, <1>15, <2>1 DEF Serve, CacheVetted
  <2>5. VettedAt(r)'
    BY <1>0, <1>3, <1>15, <2>2, <2>3 DEF Serve, Goto, NoAttempt, TypeOK, VettedAt, Copies
  <2>6. Others(r) /\ slipped' = slipped
    BY <1>0, <1>15, <2>2 DEF Serve, Goto, TypeOK
  <2> QED
    BY <1>2, <2>4, <2>5, <2>6
<1>16. ASSUME NEW r \in Requests, LookUp(r) PROVE Goal
  <2>1. PICK a \in Answered(r) : served' = [served EXCEPT ![r] = a]
    <3>1. CASE Deny(r)
      BY <3>1, Answers DEF Deny, Reply
    <3>2. ASSUME NEW t \in cached, Reply(r, "cache", t)
          PROVE  \E a \in Answered(r) : served' = [served EXCEPT ![r] = a]
      <4>1. t \in Vetted \/ (t = "flagged" /\ slipped # {})
        BY <1>0, <3>2 DEF TypeOK, CacheVetted
      <4>2. [tier |-> "cache", text |-> t] \in Answered(r)
        BY <4>1, Answers
      <4> QED
        BY <3>2, <4>2 DEF Reply
    <3> QED
      BY <1>16, <3>1, <3>2 DEF LookUp
  <2> QED
    BY <1>0, <1>2, <1>3, <1>4, <1>16, <2>1 DEF LookUp, Goto, TypeOK, VettedAt
<1>17. ASSUME NEW r \in Requests, NextTurn(r) PROVE Goal
  BY <1>0, <1>2, <1>3, <1>4, <1>17 DEF NextTurn, Goto, TypeOK, VettedAt
<1>18. ASSUME NEW r \in Requests, Finish(r) PROVE Goal
  BY <1>0, <1>2, <1>3, <1>4, <1>18 DEF Finish, Goto, TypeOK, VettedAt
<1>19. CASE UNCHANGED vars
  BY <1>0, <1>4, <1>19, OthersVetted DEF vars
<1> QED
  BY <1>5, <1>6, <1>7, <1>9, <1>10, <1>11, <1>12, <1>13, <1>14, <1>15, <1>16, <1>17, <1>18, <1>19
  DEF Next, Step

\* Whatever the copies of a hedged call do, a flagged text gets past the quality gate of
\* tryPrimary and tryFallback only by the late write of a slower copy of that request's
\* primary call, or out of the cache after such a write.
THEOREM OrchestratorVetted == Spec => [](FlaggedOnlyIfSlipped /\ VettedInv)
<1>1. Init => VettedInv
  <2> SUFFICES ASSUME Init PROVE VettedInv
    OBVIOUS
  <2>1. ResultWritten
    BY DEF Init, ResultWritten, NoAttempt
  <2> QED
    BY <2>1 DEF Init, VettedInv, NoAttempt, Copies
<1>2. TypeInv /\ VettedInv /\ [Next]_vars => VettedInv'
  BY VettedStep
<1>3. VettedInv => FlaggedOnlyIfSlipped
  <2> SUFFICES ASSUME VettedInv PROVE FlaggedOnlyIfSlipped
    OBVIOUS
  <2>1. ASSUME NEW r \in Requests, served[r].text = "flagged"
        PROVE  \/ served[r].tier = "primary" /\ r \in slipped
               \/ served[r].tier = "cache" /\ slipped # {}
    <3>1. served[r] \in Answered(r) \cup {Nothing}
      BY DEF VettedInv
    <3>2. served[r] \in Promise!AnswersTo(r)
      BY <2>1, <3>1 DEF Answered, Promise!Denial, Nothing
    <3> QED
      BY <2>1, <3>2 DEF Promise!AnswersTo
  <2> QED
    BY <2>1 DEF FlaggedOnlyIfSlipped, VettedInv
<1>4. Spec => []TypeInv
  BY OrchestratorTypeOK DEF TypeInv
<1> QED
  BY <1>1, <1>2, <1>3, <1>4, PTL DEF Spec

-----------------------------------------------------------------------------
(* The chain keeps the promise of Shield.                                   *)

\* The reply a caller of r can see.
Visible(r) == IF pc[r] = "done" THEN served[r] ELSE Nothing
ShieldView == <<[r \in Requests |-> Status(r)], [r \in Requests |-> Visible(r)], slipped>>

\* A step that moves only r, and not to or from an end, is a stutter of Shield; so is
\* one that moves nobody.
LEMMA Stutter ==
  ASSUME TypeOK, NEW r \in Requests, NEW w \in Places, Goto(r, w),
         pc[r] \notin {"idle", "done", "failed"}, w \notin {"idle", "done", "failed"},
         \A q \in Requests \ {r} : served'[q] = served[q],
         UNCHANGED slipped
  PROVE  UNCHANGED ShieldView
<1>1. pc' = [pc EXCEPT ![r] = w] /\ pc \in [Requests -> Places]
  BY DEF Goto, TypeOK
<1>2. \A q \in Requests : Status(q)' = Status(q)
  BY <1>1 DEF Status
<1>3. \A q \in Requests : Visible(q)' = Visible(q)
  BY <1>1 DEF Visible
<1> QED
  BY <1>2, <1>3 DEF ShieldView

LEMMA StayPut ==
  ASSUME UNCHANGED <<pc, served, slipped>>
  PROVE  UNCHANGED ShieldView
<1>1. \A q \in Requests : Status(q)' = Status(q) /\ Visible(q)' = Visible(q)
  BY DEF Status, Visible
<1> QED
  BY <1>1 DEF ShieldView

LEMMA PromiseStep ==
  ASSUME TypeInv, VettedInv, [Next]_vars
  PROVE  Promise!Next \/ UNCHANGED ShieldView
<1>0. TypeOK
  BY DEF TypeInv
<1> DEFINE Goal == Promise!Next \/ UNCHANGED ShieldView
           st == [q \in Requests |-> Status(q)]
           re == [q \in Requests |-> Visible(q)]
<1>1. ASSUME NEW r \in Requests, NEW k \in Kinds, Begin(r, k) PROVE Goal
  <2>1. PICK w \in {"admit", "try"} : pc' = [pc EXCEPT ![r] = w]
    BY <1>1 DEF Begin, Goto
  <2>2. pc[r] = "idle" /\ served' = served /\ pc \in [Requests -> Places]
    BY <1>0, <1>1 DEF Begin, TypeOK
  <2>3. \A q \in Requests : Status(q)' = IF q = r THEN "pending" ELSE Status(q)
    BY <2>1, <2>2 DEF Status
  <2>4. \A q \in Requests : Visible(q)' = Visible(q)
    BY <2>1, <2>2 DEF Visible
  <2>5. st[r] = "idle" /\ st' = [st EXCEPT ![r] = "pending"]
    BY <2>2, <2>3 DEF Status
  <2>6. re' = re
    BY <2>4
  <2>7. Promise!Ask(r)
    BY <1>1, <2>5, <2>6 DEF Promise!Ask, Visible, Begin
  <2> QED
    BY <2>7 DEF Promise!Next
<1>2. ASSUME NEW r \in Requests, Refuse(r) \/ Enter(r) PROVE Goal
  <2>1. PICK w \in {"finish", "try"} : Goto(r, w) /\ pc[r] = "admit"
    BY <1>2 DEF Refuse, Enter
  <2>2. (\A q \in Requests \ {r} : served'[q] = served[q]) /\ UNCHANGED slipped
    BY <1>0, <1>2 DEF Refuse, Enter, Reply, TypeOK
  <2> QED
    BY <1>0, <2>1, <2>2, Names, Stutter
<1>3. ASSUME NEW r \in Requests, Cancel(r) PROVE Goal
  <2>1. pc' = [pc EXCEPT ![r] = "failed"] /\ pc[r] = "admit" /\ served' = served
        /\ pc \in [Requests -> Places]
    BY <1>0, <1>3 DEF Cancel, Goto, TypeOK
  <2>2. \A q \in Requests : Status(q)' = IF q = r THEN "failed" ELSE Status(q)
    BY <2>1 DEF Status
  <2>3. \A q \in Requests : Visible(q)' = Visible(q)
    BY <2>1 DEF Visible
  <2>4. st[r] = "pending" /\ st' = [st EXCEPT ![r] = "failed"]
    BY <2>1, <2>2 DEF Status
  <2>5. re' = re
    BY <2>3
  <2>6. Promise!Respond(r)
    BY <1>3, <2>4, <2>5 DEF Promise!Respond, Visible, Cancel
  <2> QED
    BY <2>6 DEF Promise!Next
<1>4. ASSUME NEW r \in Requests, NEW o \in Outcomes, FallThrough(r, o),
             UNCHANGED <<served, slipped>>, pc[r] \in InChain
      PROVE  Goal
  <2>1. PICK w \in {"try", "lookup"} : Goto(r, w)
    BY <1>4 DEF FallThrough
  <2>2. pc[r] \notin {"idle", "done", "failed"}
    BY <1>4 DEF InChain
  <2> QED
    BY <1>0, <1>4, <2>1, <2>2, Names, Stutter
<1>5. ASSUME NEW r \in Requests, NEW w \in {"dial", "calling", "evaluate", "serve", "try"},
             Goto(r, w), UNCHANGED <<served, slipped>>, pc[r] \in InChain \cup {"finish"}
      PROVE  Goal
  <2>1. pc[r] \notin {"idle", "done", "failed"}
    BY <1>5 DEF InChain
  <2> QED
    BY <1>0, <1>5, <2>1, Names, Stutter
<1>6. ASSUME NEW r \in Requests, Try(r) \/ Dial(r) \/ Collect(r) \/ Evaluate(r) PROVE Goal
  <2>1. pc[r] \in InChain /\ UNCHANGED <<served, slipped>>
    BY <1>6 DEF Try, Dial, Collect, Evaluate, InChain
  <2>2. \/ \E o \in Outcomes : FallThrough(r, o)
        \/ \E w \in {"dial", "calling", "evaluate", "serve"} : Goto(r, w)
    BY <1>6 DEF Try, Dial, Collect, Evaluate, Outcomes
  <2> QED
    BY <1>4, <1>5, <2>1, <2>2
<1>7. ASSUME NEW r \in Requests, Hedge(r) \/ \E c \in Copies : Return(r, c) PROVE Goal
  <2>1. CASE UNCHANGED <<pc, served, slipped>>
    BY <2>1, StayPut
  <2>2. CASE pc[r] = "serve" /\ slipped' = slipped \cup {r} /\ UNCHANGED <<pc, served>>
    <3>1. \A q \in Requests : Status(q)' = Status(q) /\ Visible(q)' = Visible(q)
      BY <2>2 DEF Status, Visible
    <3>2. st' = st /\ re' = re /\ st[r] = "pending"
      BY <2>2, <3>1 DEF Status
    <3>3. Promise!Slip(r)
      BY <2>2, <3>2 DEF Promise!Slip, Visible
    <3> QED
      BY <3>3 DEF Promise!Next
  <2> QED
    BY <1>7, <2>1, <2>2 DEF Hedge, Return
<1>8. ASSUME NEW r \in Requests, Serve(r) \/ LookUp(r) PROVE Goal
  <2>1. Goto(r, "finish") /\ pc[r] \in {"serve", "lookup"}
    BY <1>8 DEF Serve, LookUp
  <2>2. (\A q \in Requests \ {r} : served'[q] = served[q]) /\ UNCHANGED slipped
    BY <1>0, <1>8 DEF Serve, LookUp, Deny, Reply, TypeOK
  <2> QED
    BY <1>0, <2>1, <2>2, Names, Stutter
<1>9. ASSUME NEW r \in Requests, NextTurn(r) PROVE Goal
  BY <1>5, <1>9 DEF NextTurn
<1>10. ASSUME NEW r \in Requests, Finish(r) PROVE Goal
  <2>1. pc' = [pc EXCEPT ![r] = "done"] /\ pc[r] = "finish" /\ served' = served
        /\ pc \in [Requests -> Places]
    BY <1>0, <1>10 DEF Finish, Goto, TypeOK
  <2>2. \A q \in Requests : Status(q)' = IF q = r THEN "answered" ELSE Status(q)
    BY <2>1 DEF Status
  <2>3. \A q \in Requests : Visible(q)' = IF q = r THEN served[r] ELSE Visible(q)
    BY <2>1 DEF Visible
  <2>4. st[r] = "pending" /\ st' = [st EXCEPT ![r] = "answered"]
    BY <2>1, <2>2 DEF Status
  <2>5. re' = [re EXCEPT ![r] = served[r]]
    BY <2>3
  <2>6. served[r] \in Promise!AnswersTo(r) \cup {Promise!Denial}
    BY <2>1 DEF VettedInv, Answered
  <2>7. Promise!Respond(r)
    BY <1>10, <2>4, <2>5, <2>6 DEF Promise!Respond, Visible, Finish
  <2> QED
    BY <2>7 DEF Promise!Next
<1>11. CASE UNCHANGED vars
  BY <1>11, StayPut DEF vars
<1> QED
  BY <1>1, <1>2, <1>3, <1>6, <1>7, <1>8, <1>9, <1>10, <1>11 DEF Next, Step

\* A caller sees what Shield promises: one answer, unflagged unless a late copy of a
\* hedged call slipped it past the quality check, or a denial, or the error of a wait it
\* gave up.
THEOREM OrchestratorKeepsPromise == Spec => KeepsPromise
<1>1. Init => Promise!Init
  <2> SUFFICES ASSUME Init PROVE Promise!Init
    OBVIOUS
  <2>1. \A q \in Requests : Status(q) = "idle" /\ pc[q] # "done"
    BY DEF Init, Status
  <2> QED
    BY <2>1 DEF Init, Promise!Init, Promise!Nothing, Nothing
<1>2. TypeInv /\ VettedInv /\ [Next]_vars => [Promise!Next]_(Promise!vars)
  BY PromiseStep DEF Promise!vars, ShieldView, Visible
<1>3. Spec => []VettedInv
  BY OrchestratorVetted, PTL
<1>4. Spec => []TypeInv
  BY OrchestratorTypeOK DEF TypeInv
<1> QED
  BY <1>1, <1>2, <1>3, <1>4, PTL DEF Spec, KeepsPromise, Promise!Spec

-----------------------------------------------------------------------------
(* The counters.                                                            *)

\* Only Asks queue, and a request that has not begun is at its first turn.
Placed ==
    \A r \in Requests : (pc[r] = "admit" => kind[r] # "react") /\ (pc[r] = "idle" => turn[r] = 1)

Counted == counts["primary"] + counts["fallback"] + counts["cache"] + counts["degraded"]
SyncInv == Placed /\ total + Cardinality(TurnsAnswered) = Counted + Cardinality(Unanswered)

\* The places where a request waits for a tier.
Waiting == {"admit", "failed"} \cup InChain

LEMMA WaitingPlaces ==
  /\ "idle" \notin Waiting /\ "finish" \notin Waiting /\ "done" \notin Waiting
  /\ \A w \in {"admit", "failed", "try", "dial", "calling", "evaluate", "serve", "lookup"} :
        w \in Waiting
  BY DEF Waiting, InChain

LEMMA UnansweredFinite ==
  /\ IsFiniteSet(Unanswered) /\ Cardinality(Unanswered) \in Nat
  /\ IsFiniteSet(TurnsAnswered) /\ Cardinality(TurnsAnswered) \in Nat
<1>1. Unanswered \subseteq Requests /\ TurnsAnswered \subseteq Requests \X (1..MaxTurns)
  BY DEF Unanswered, TurnsAnswered
<1>2. IsFiniteSet(1..MaxTurns)
  BY TurnsAssumption, FS_Interval
<1>3. IsFiniteSet(Requests \X (1..MaxTurns))
  BY <1>2, RequestsAssumption, FS_Product
<1>4. IsFiniteSet(Unanswered) /\ IsFiniteSet(TurnsAnswered)
  BY <1>1, <1>3, RequestsAssumption, FS_Subset
<1> QED
  BY <1>4, FS_CardinalityType

\* One more answer is one more in the sum over the tiers.
LEMMA CostCounted ==
  ASSUME TypeOK, NEW t \in TierNames, RecordCost(t)
  PROVE  Counted' = Counted + 1
<1>1. counts' = [counts EXCEPT ![t] = @ + 1] /\ counts \in [TierNames -> Nat]
  BY DEF RecordCost, TypeOK
<1>2. t \in {"primary", "fallback", "cache", "degraded"}
  BY DEF TierNames, Models
<1>3. \A u \in {"primary", "fallback", "cache", "degraded"} :
         u \in TierNames /\ counts[u] \in Nat /\ counts'[u] = IF u = t THEN counts[u] + 1 ELSE counts[u]
  BY <1>1 DEF TierNames, Models
<1> QED
  BY <1>2, <1>3 DEF Counted

\* What the steps do to the two sets.
LEMMA StillWaiting ==
  ASSUME TypeOK, NEW r \in Requests, NEW w \in Waiting, Goto(r, w), pc[r] \in Waiting,
         UNCHANGED <<kind, turn>>
  PROVE  Unanswered' = Unanswered /\ TurnsAnswered' = TurnsAnswered
<1>1. pc' = [pc EXCEPT ![r] = w] /\ pc \in [Requests -> Places]
  BY DEF Goto, TypeOK
<1>2. \A q \in Requests, n \in 1..MaxTurns : TurnAnswered(q, n)' = TurnAnswered(q, n)
  BY <1>1, WaitingPlaces DEF TurnAnswered
<1>3. TurnsAnswered' = TurnsAnswered
  BY <1>2 DEF TurnsAnswered
<1> QED
  BY <1>1, <1>3 DEF Unanswered, Waiting

\* An Ask that is answered leaves Unanswered; a turn that is answered is one more.
LEMMA NowAnswered ==
  ASSUME TypeOK, NEW r \in Requests, Goto(r, "finish"), pc[r] \in Waiting,
         UNCHANGED <<kind, turn>>
  PROVE  /\ Cardinality(Unanswered) + Cardinality(TurnsAnswered') =
                Cardinality(Unanswered') + Cardinality(TurnsAnswered) + 1
         /\ Cardinality(Unanswered') \in Nat /\ Cardinality(TurnsAnswered') \in Nat
<1>1. /\ pc' = [pc EXCEPT ![r] = "finish"] /\ pc \in [Requests -> Places]
      /\ turn[r] \in 1..MaxTurns /\ turn \in [Requests -> 1..MaxTurns]
  BY DEF Goto, TypeOK
<1>2. \A q \in Requests \ {r}, n \in 1..MaxTurns : TurnAnswered(q, n)' = TurnAnswered(q, n)
  BY <1>1 DEF TurnAnswered
<1>3. CASE kind[r] # "react"
  <2>1. r \in Unanswered /\ Unanswered' = Unanswered \ {r}
    BY <1>1, <1>3, WaitingPlaces DEF Unanswered, Waiting
  <2>2. /\ Cardinality(Unanswered') = Cardinality(Unanswered) - 1
        /\ Cardinality(Unanswered') \in Nat
    BY <2>1, UnansweredFinite, FS_RemoveElement, FS_CardinalityType
  <2>3. \A n \in 1..MaxTurns : TurnAnswered(r, n)' = TurnAnswered(r, n)
    BY <1>3 DEF TurnAnswered
  <2>4. TurnsAnswered' = TurnsAnswered
    BY <1>2, <2>3 DEF TurnsAnswered
  <2> QED
    BY <2>2, <2>4, UnansweredFinite
<1>4. CASE kind[r] = "react"
  <2>1. Unanswered' = Unanswered
    BY <1>1, <1>4 DEF Unanswered
  <2>2. \A n \in 1..MaxTurns : TurnAnswered(r, n)' <=> TurnAnswered(r, n) \/ n = turn[r]
    BY <1>1, <1>4, WaitingPlaces DEF TurnAnswered
  <2>3. ~TurnAnswered(r, turn[r])
    BY <1>1, WaitingPlaces DEF TurnAnswered
  <2>4. <<r, turn[r]>> \notin TurnsAnswered
    BY <2>3 DEF TurnsAnswered
  <2>5. ASSUME NEW t \in Requests \X (1..MaxTurns)
        PROVE  t \in TurnsAnswered' <=> t \in TurnsAnswered \cup {<<r, turn[r]>>}
    <3>1. t = <<t[1], t[2]>> /\ t[1] \in Requests /\ t[2] \in 1..MaxTurns
      OBVIOUS
    <3>2. t = <<r, turn[r]>> <=> t[1] = r /\ t[2] = turn[r]
      BY <3>1
    <3>3. t \in TurnsAnswered' <=> TurnAnswered(t[1], t[2])'
      BY DEF TurnsAnswered
    <3>4. t \in TurnsAnswered <=> TurnAnswered(t[1], t[2])
      BY DEF TurnsAnswered
    <3> QED
      BY <1>2, <2>2, <3>1, <3>2, <3>3, <3>4
  <2>6. TurnsAnswered' = TurnsAnswered \cup {<<r, turn[r]>>}
    <3>1. TurnsAnswered' \subseteq Requests \X (1..MaxTurns)
      BY DEF TurnsAnswered
    <3>2. TurnsAnswered \cup {<<r, turn[r]>>} \subseteq Requests \X (1..MaxTurns)
      BY <1>1 DEF TurnsAnswered
    <3> QED
      BY <2>5, <3>1, <3>2
  <2>7. Cardinality(TurnsAnswered') = Cardinality(TurnsAnswered) + 1
    BY <2>4, <2>6, UnansweredFinite, FS_AddElement
  <2> QED
    BY <2>1, <2>7, UnansweredFinite
<1> QED
  BY <1>3, <1>4

LEMMA NowWaiting ==
  ASSUME TypeOK, Placed, NEW r \in Requests, NEW k \in Kinds, Begin(r, k)
  PROVE  /\ TurnsAnswered' = TurnsAnswered
         /\ Cardinality(Unanswered') = Cardinality(Unanswered) + (total' - total)
<1>1. /\ pc[r] = "idle" /\ kind' = [kind EXCEPT ![r] = k] /\ UNCHANGED turn /\ turn[r] = 1
      /\ pc \in [Requests -> Places] /\ kind \in [Requests -> {"interactive", "batch", "react"}]
      /\ total \in Nat
  BY DEF Begin, Placed, TypeOK
<1>2. PICK w \in {"admit", "try"} : pc' = [pc EXCEPT ![r] = w]
  BY DEF Begin, Goto
<1>3. \A q \in Requests, n \in 1..MaxTurns : TurnAnswered(q, n)' = TurnAnswered(q, n)
  BY <1>1, <1>2 DEF TurnAnswered
<1>4. TurnsAnswered' = TurnsAnswered
  BY <1>3 DEF TurnsAnswered
<1>5. r \notin Unanswered
  BY <1>1, WaitingPlaces DEF Unanswered, Waiting
<1>6. CASE k # "react" /\ total' = total + 1
  <2>1. Unanswered' = Unanswered \cup {r}
    BY <1>1, <1>2, <1>6, WaitingPlaces DEF Unanswered, Waiting
  <2>2. Cardinality(Unanswered') = Cardinality(Unanswered) + 1
    BY <1>5, <2>1, UnansweredFinite, FS_AddElement
  <2> QED
    BY <1>1, <1>4, <1>6, <2>2
<1>7. CASE k = "react" /\ total' = total
  <2>1. Unanswered' = Unanswered
    BY <1>1, <1>2, <1>5, <1>7 DEF Unanswered
  <2> QED
    BY <1>1, <1>4, <1>7, <2>1, UnansweredFinite
<1> QED
  BY <1>6, <1>7 DEF Begin

\* The answer to a turn stays counted when the next turn begins and when the request ends.
LEMMA StaysAnswered ==
  ASSUME TypeOK, NEW r \in Requests, NextTurn(r) \/ Finish(r)
  PROVE  Unanswered' = Unanswered /\ TurnsAnswered' = TurnsAnswered
<1>1. /\ pc[r] = "finish" /\ kind' = kind /\ pc \in [Requests -> Places]
      /\ turn \in [Requests -> 1..MaxTurns]
      /\ \/ pc' = [pc EXCEPT ![r] = "done"] /\ turn' = turn
         \/ /\ pc' = [pc EXCEPT ![r] = "try"] /\ turn' = [turn EXCEPT ![r] = @ + 1]
            /\ kind[r] = "react"
  BY DEF NextTurn, Finish, Goto, TypeOK
<1>2. \A q \in Requests, n \in 1..MaxTurns : TurnAnswered(q, n)' <=> TurnAnswered(q, n)
  BY <1>1, TurnsAssumption DEF TurnAnswered
<1>3. TurnsAnswered' = TurnsAnswered
  BY <1>2 DEF TurnsAnswered
<1> QED
  BY <1>1, <1>3, WaitingPlaces DEF Unanswered, Waiting

LEMMA SyncStep ==
  ASSUME TypeInv, SyncInv, [Next]_vars
  PROVE  SyncInv'
<1>0. /\ TypeOK /\ Placed /\ total + Cardinality(TurnsAnswered) = Counted + Cardinality(Unanswered)
      /\ Counted \in Nat /\ total \in Nat
      /\ Cardinality(Unanswered) \in Nat /\ Cardinality(TurnsAnswered) \in Nat
  <2>1. TypeOK /\ Placed /\ total + Cardinality(TurnsAnswered) = Counted + Cardinality(Unanswered)
    BY DEF TypeInv, SyncInv
  <2>2. Counted \in Nat /\ total \in Nat
    BY <2>1 DEF TypeOK, Counted, TierNames, Models
  <2> QED
    BY <2>1, <2>2, UnansweredFinite
<1>1. ASSUME NEW r \in Requests, NEW k \in Kinds, Begin(r, k) PROVE SyncInv'
  <2>1. Counted' = Counted /\ total' \in Nat
    BY <1>0, <1>1 DEF Begin, Counted
  <2>2. Placed'
    BY <1>0, <1>1 DEF Begin, Placed, Goto, TypeOK
  <2> QED
    BY <1>0, <1>1, <2>1, <2>2, NowWaiting DEF SyncInv
\* A request that goes on waiting changes no counter.
<1>2. ASSUME NEW r \in Requests, NEW w \in Waiting, Goto(r, w), pc[r] \in Waiting, w # "admit",
             UNCHANGED <<kind, turn, counts, total>>
      PROVE  SyncInv'
  <2>1. Unanswered' = Unanswered /\ TurnsAnswered' = TurnsAnswered
    BY <1>0, <1>2, StillWaiting
  <2>2. Placed'
    BY <1>0, <1>2, WaitingPlaces DEF Placed, Goto, TypeOK
  <2>3. Counted' = Counted
    BY <1>2 DEF Counted
  <2> QED
    BY <1>0, <1>2, <2>1, <2>2, <2>3 DEF SyncInv
\* A request that a tier answers moves from one side to the other, or is one more on both.
<1>3. ASSUME NEW r \in Requests, NEW t \in TierNames, RecordCost(t), Goto(r, "finish"),
             pc[r] \in Waiting, UNCHANGED <<kind, turn, total>>
      PROVE  SyncInv'
  <2>1. Cardinality(Unanswered) + Cardinality(TurnsAnswered') =
            Cardinality(Unanswered') + Cardinality(TurnsAnswered) + 1
    BY <1>0, <1>3, NowAnswered
  <2>2. Counted' = Counted + 1
    BY <1>0, <1>3, CostCounted
  <2>3. Placed'
    BY <1>0, <1>3 DEF Placed, Goto, TypeOK
  <2>4. Cardinality(Unanswered') \in Nat /\ Cardinality(TurnsAnswered') \in Nat
    BY <1>0, <1>3, NowAnswered
  <2> QED
    BY <1>0, <1>3, <2>1, <2>2, <2>3, <2>4 DEF SyncInv
\* A step that neither moves nor counts anybody.
<1>4. ASSUME UNCHANGED <<pc, kind, turn, counts, total>> PROVE SyncInv'
  BY <1>0, <1>4 DEF SyncInv, Placed, Counted, Unanswered, TurnsAnswered, TurnAnswered
<1>5. ASSUME NEW r \in Requests, Refuse(r) PROVE SyncInv'
  <2>1. /\ pc[r] \in Waiting /\ Goto(r, "finish") /\ RecordCost("degraded")
        /\ UNCHANGED <<kind, turn, total>>
    BY <1>5, WaitingPlaces DEF Refuse
  <2> QED
    BY <1>3, <2>1, Names
<1>6. ASSUME NEW r \in Requests, Enter(r) \/ Cancel(r) PROVE SyncInv'
  <2>1. pc[r] \in Waiting /\ UNCHANGED <<kind, turn, counts, total>>
        /\ \E w \in {"try", "failed"} : Goto(r, w)
    BY <1>6, WaitingPlaces DEF Enter, Cancel
  <2> QED
    BY <1>2, <2>1, WaitingPlaces
<1>7. ASSUME NEW r \in Requests, Try(r) \/ Dial(r) \/ Collect(r) \/ Evaluate(r) PROVE SyncInv'
  <2>1. pc[r] \in Waiting /\ UNCHANGED <<kind, turn, counts, total>>
    BY <1>7, WaitingPlaces DEF Try, Dial, Collect, Evaluate
  <2>2. \E w \in {"try", "lookup", "dial", "calling", "evaluate", "serve"} : Goto(r, w)
    BY <1>7 DEF Try, Dial, Collect, Evaluate, FallThrough
  <2> QED
    BY <1>2, <2>1, <2>2, WaitingPlaces
<1>8. ASSUME NEW r \in Requests, Hedge(r) \/ \E c \in Copies : Return(r, c) PROVE SyncInv'
  BY <1>4, <1>8 DEF Hedge, Return
<1>9. ASSUME NEW r \in Requests, Serve(r) PROVE SyncInv'
  <2>1. /\ pc[r] \in Waiting /\ Goto(r, "finish") /\ RecordCost(model[r])
        /\ UNCHANGED <<kind, turn, total>> /\ model[r] \in TierNames
    BY <1>0, <1>9, WaitingPlaces DEF Serve, TypeOK, TierNames
  <2> QED
    BY <1>3, <2>1
<1>10. ASSUME NEW r \in Requests, LookUp(r) PROVE SyncInv'
  <2>1. /\ pc[r] \in Waiting /\ Goto(r, "finish") /\ UNCHANGED <<kind, turn, total>>
        /\ \E t \in {"cache", "degraded"} : RecordCost(t)
    BY <1>10, WaitingPlaces DEF LookUp, Deny
  <2> QED
    BY <1>3, <2>1, Names
<1>11. ASSUME NEW r \in Requests, NextTurn(r) \/ Finish(r) PROVE SyncInv'
  <2>1. Counted' = Counted /\ total' = total
    BY <1>11 DEF NextTurn, Finish, Counted
  <2>2. Placed'
    BY <1>0, <1>11 DEF NextTurn, Finish, Placed, Goto, TypeOK
  <2> QED
    BY <1>0, <1>11, <2>1, <2>2, StaysAnswered DEF SyncInv
<1>12. CASE UNCHANGED vars
  BY <1>4, <1>12 DEF vars
<1> QED
  BY <1>1, <1>5, <1>6, <1>7, <1>8, <1>9, <1>10, <1>11, <1>12 DEF Next, Step

\* The counters agree, with React requests too: TotalRequests and the answered turns of
\* React make up the sum of TierCounts and of the Asks no tier has answered, those given
\* up included.
THEOREM OrchestratorCountsInSync == Spec => []TierCountsInSync
<1>1. Init => SyncInv
  <2> SUFFICES ASSUME Init PROVE SyncInv
    OBVIOUS
  <2>1. Unanswered = {}
    BY DEF Init, Unanswered, InChain
  <2>2. \A q \in Requests, n \in 1..MaxTurns : ~TurnAnswered(q, n)
    BY DEF Init, TurnAnswered
  <2>3. TurnsAnswered = {}
    BY <2>2 DEF TurnsAnswered
  <2>4. Counted = 0 /\ total = 0
    BY DEF Init, Counted, TierNames, Models
  <2>5. Placed
    BY DEF Init, Placed
  <2> QED
    BY <2>1, <2>3, <2>4, <2>5, FS_EmptySet DEF SyncInv
<1>2. TypeInv /\ SyncInv /\ [Next]_vars => SyncInv'
  BY SyncStep
<1>3. SyncInv => TierCountsInSync
  BY DEF SyncInv, TierCountsInSync, Counted
<1>4. Spec => []TypeInv
  BY OrchestratorTypeOK DEF TypeInv
<1> QED
  BY <1>1, <1>2, <1>3, <1>4, PTL DEF Spec

-----------------------------------------------------------------------------
(* The trace.                                                               *)

\* Step b may come after step a in the trace of a request of kind k.
Follows(a, b, k) ==
    IF Ended(a[2]) THEN k = "react" /\ b[1] = "primary" ELSE b[1] \in After[a[1]]

\* The trace tr is a story so far.
Told(tr, k) ==
    /\ \A i \in 1..Len(tr)-1 : Follows(tr[i], tr[i+1], k)
    /\ Len(tr) > 0 => tr[1][1] = "primary" \/ tr = <<<<"degraded", "graceful_denial">>>>

\* Where the story of a request has come to, from where the request is: nothing before the
\* chain; the tier before, while a model is tried; its own success or the answer, after.
Trying == {"try", "dial", "calling", "evaluate"}
StoryAt(r) ==
    LET tr == steps[r]
        last == tr[Len(tr)]
    IN  /\ Told(tr, kind[r])
        /\ pc[r] \in {"idle", "admit", "failed"} => tr = <<>> /\ model[r] = "primary"
        /\ pc[r] \in Trying /\ model[r] = "primary" =>
              \/ tr = <<>>
              \/ Len(tr) > 0 /\ kind[r] = "react" /\ last[1] # "degraded" /\ Ended(last[2])
        /\ pc[r] \in Trying /\ model[r] = "fallback" =>
              Len(tr) > 0 /\ last[1] = "primary" /\ ~Ended(last[2])
        /\ pc[r] = "serve" => Len(tr) > 0 /\ last = <<model[r], "success">>
        /\ pc[r] = "lookup" => Len(tr) > 0 /\ last[1] = "fallback" /\ ~Ended(last[2])
        /\ pc[r] \in {"finish", "done"} => Len(tr) > 0 /\ last[1] = served[r].tier /\ Ended(last[2])
        /\ final[r] # "none" => pc[r] = "done" /\ final[r] = served[r].tier
StoryInv == \A r \in Requests : StoryAt(r)

\* What AddStep does to a trace.
LEMMA Added ==
  ASSUME TypeOK, NEW r \in Requests, NEW t \in TierNames, NEW o \in Outcomes, AddStep(r, t, o)
  PROVE  /\ steps[r] \in Seq(TierNames \X Outcomes)
         /\ steps'[r] = Append(steps[r], <<t, o>>)
         /\ Len(steps'[r]) > 0
         /\ steps'[r][Len(steps'[r])] = <<t, o>>
         /\ \A q \in Requests \ {r} : steps'[q] = steps[q]
<1>1. steps \in [Requests -> Seq(TierNames \X Outcomes)] /\ <<t, o>> \in TierNames \X Outcomes
  BY DEF TypeOK
<1>2. /\ steps'[r] = Append(steps[r], <<t, o>>) /\ steps[r] \in Seq(TierNames \X Outcomes)
      /\ \A q \in Requests \ {r} : steps'[q] = steps[q]
  BY <1>1 DEF AddStep
<1> QED
  BY <1>1, <1>2

\* A story goes on with a step that may follow.
LEMMA Extended ==
  ASSUME NEW s \in Seq(TierNames \X Outcomes), NEW e \in TierNames \X Outcomes, NEW k,
         Told(s, k), Len(s) > 0, s[Len(s)][1] # "degraded", Follows(s[Len(s)], e, k)
  PROVE  Told(Append(s, e), k)
<1> DEFINE x == Append(s, e)
<1>1. /\ Len(x) = Len(s) + 1 /\ Len(s) \in Nat /\ x[Len(s) + 1] = e
      /\ \A i \in 1..Len(s) : x[i] = s[i]
  OBVIOUS
<1>2. ASSUME NEW i \in 1..Len(x)-1 PROVE Follows(x[i], x[i+1], k)
  <2>1. CASE i = Len(s)
    BY <1>1, <2>1
  <2>2. CASE i # Len(s)
    <3>1. i \in 1..Len(s)-1 /\ i \in 1..Len(s) /\ i+1 \in 1..Len(s)
      BY <1>1, <1>2, <2>2
    <3>2. x[i] = s[i] /\ x[i+1] = s[i+1]
      BY <1>1, <3>1
    <3> QED
      BY <3>1, <3>2 DEF Told
  <2> QED
    BY <2>1, <2>2
<1>3. s[1][1] = "primary"
  <2>1. CASE s = <<<<"degraded", "graceful_denial">>>>
    BY <2>1
  <2> QED
    BY <2>1 DEF Told
<1>4. x[1] = s[1]
  BY <1>1
<1> QED
  BY <1>2, <1>3, <1>4 DEF Told

\* A story begins with the primary model or is a refusal.
LEMMA Begun ==
  ASSUME NEW t, NEW o, NEW k, t = "primary" \/ <<t, o>> = <<"degraded", "graceful_denial">>
  PROVE  Told(Append(<<>>, <<t, o>>), k)
<1>1. Append(<<>>, <<t, o>>) = <<<<t, o>>>>
  OBVIOUS
<1> QED
  BY <1>1 DEF Told

\* A request that did not move keeps its place in its story.
LEMMA OthersTold ==
  ASSUME NEW q \in Requests, StoryAt(q),
         pc'[q] = pc[q], kind'[q] = kind[q], model'[q] = model[q], steps'[q] = steps[q],
         final'[q] = final[q], served'[q] = served[q]
  PROVE  StoryAt(q)'
  BY DEF StoryAt

\* The step a model adds while it is tried, whatever its outcome, goes on with the story.
LEMMA TriedStep ==
  ASSUME TypeOK, NEW r \in Requests, StoryAt(r), pc[r] \in Trying, NEW o \in Outcomes,
         AddStep(r, model[r], o)
  PROVE  Told(steps'[r], kind[r])
<1>1. model[r] \in Models /\ model[r] \in TierNames
  BY DEF TypeOK, TierNames
<1>2. steps[r] \in Seq(TierNames \X Outcomes) /\ steps'[r] = Append(steps[r], <<model[r], o>>)
  BY <1>1, Added
<1>3. <<model[r], o>> \in TierNames \X Outcomes
  BY <1>1
<1>4. CASE model[r] = "primary" /\ steps[r] = <<>>
  BY <1>2, <1>4, Begun
<1>5. CASE model[r] = "primary" /\ steps[r] # <<>>
  <2>1. Len(steps[r]) > 0 /\ kind[r] = "react" /\ steps[r][Len(steps[r])][1] # "degraded"
        /\ Ended(steps[r][Len(steps[r])][2]) /\ Told(steps[r], kind[r])
    BY <1>5 DEF StoryAt
  <2>2. Follows(steps[r][Len(steps[r])], <<model[r], o>>, kind[r])
    BY <1>5, <2>1 DEF Follows
  <2> QED
    BY <1>2, <1>3, <2>1, <2>2, Extended
<1>6. CASE model[r] = "fallback"
  <2>1. Len(steps[r]) > 0 /\ steps[r][Len(steps[r])][1] = "primary"
        /\ ~Ended(steps[r][Len(steps[r])][2]) /\ Told(steps[r], kind[r])
    BY <1>6 DEF StoryAt
  <2>2. Follows(steps[r][Len(steps[r])], <<model[r], o>>, kind[r])
    BY <1>6, <2>1 DEF Follows, After, Models
  <2> QED
    BY <1>2, <1>3, <2>1, <2>2, Extended
<1> QED
  BY <1>1, <1>4, <1>5, <1>6 DEF Models

LEMMA StoryStep ==
  ASSUME TypeInv, StoryInv, [Next]_vars
  PROVE  StoryInv'
<1>0. /\ TypeOK /\ ResultWritten /\ \A q \in Requests : StoryAt(q)
      /\ \A q \in Requests : model[q] \in Models /\ model[q] \in TierNames
  BY DEF TypeInv, StoryInv, TypeOK, TierNames
<1>1. ASSUME NEW r \in Requests, StoryAt(r)',
             \A q \in Requests \ {r} :
                /\ pc'[q] = pc[q] /\ kind'[q] = kind[q] /\ model'[q] = model[q]
                /\ steps'[q] = steps[q] /\ final'[q] = final[q] /\ served'[q] = served[q]
      PROVE  StoryInv'
  BY <1>0, <1>1, OthersTold DEF StoryInv
<1>2. ASSUME NEW r \in Requests, NEW k \in Kinds, Begin(r, k) PROVE StoryInv'
  <2>1. PICK w \in {"admit", "try"} : pc' = [pc EXCEPT ![r] = w]
    BY <1>2 DEF Begin, Goto
  <2>2. /\ pc[r] = "idle" /\ kind' = [kind EXCEPT ![r] = k]
        /\ UNCHANGED <<model, steps, final, served>> /\ pc'[r] = w /\ kind'[r] = k
        /\ \A q \in Requests \ {r} : pc'[q] = pc[q] /\ kind'[q] = kind[q]
    BY <1>0, <1>2, <2>1 DEF Begin, TypeOK
  <2>3. steps[r] = <<>> /\ model[r] = "primary" /\ final[r] = "none"
    BY <1>0, <2>2 DEF StoryAt
  <2>4. StoryAt(r)'
    BY <2>1, <2>2, <2>3 DEF StoryAt, Told, Trying
  <2> QED
    BY <1>1, <2>2, <2>4
<1>3. ASSUME NEW r \in Requests, Refuse(r) PROVE StoryInv'
  <2>1. /\ pc[r] = "admit" /\ AddStep(r, "degraded", "graceful_denial")
        /\ served' = [served EXCEPT ![r] = [tier |-> "degraded", text |-> "none"]]
        /\ pc' = [pc EXCEPT ![r] = "finish"] /\ UNCHANGED <<kind, model, final>>
    BY <1>3 DEF Refuse, Reply, Goto
  <2>2. /\ pc'[r] = "finish" /\ served'[r].tier = "degraded"
        /\ \A q \in Requests \ {r} : pc'[q] = pc[q] /\ served'[q] = served[q]
    BY <1>0, <2>1 DEF TypeOK
  <2>3. /\ steps'[r] = Append(steps[r], <<"degraded", "graceful_denial">>)
        /\ Len(steps'[r]) > 0 /\ steps'[r][Len(steps'[r])] = <<"degraded", "graceful_denial">>
        /\ \A q \in Requests \ {r} : steps'[q] = steps[q]
    BY <1>0, <2>1, Names, Added
  <2>4. steps[r] = <<>> /\ final[r] = "none"
    BY <1>0, <2>1 DEF StoryAt
  <2>5. Told(steps'[r], kind[r])
    BY <2>3, <2>4, Begun
  <2>6. StoryAt(r)'
    BY <2>1, <2>2, <2>3, <2>4, <2>5 DEF StoryAt, Trying, Ended
  <2> QED
    BY <1>1, <2>1, <2>2, <2>3, <2>6
\* A request that moves without adding a step: into the chain, along it, or out of it.
<1>4. ASSUME NEW r \in Requests, NEW w \in Places, Goto(r, w),
             UNCHANGED <<kind, model, steps, final, served>>,
             \/ pc[r] = "admit" /\ w \in {"try", "failed"}
             \/ pc[r] \in Trying /\ w \in Trying
      PROVE  StoryInv'
  <2>1. pc'[r] = w /\ \A q \in Requests \ {r} : pc'[q] = pc[q]
    BY <1>0, <1>4 DEF Goto, TypeOK
  <2>2. StoryAt(r)'
    BY <1>0, <1>4, <2>1 DEF StoryAt, Trying
  <2> QED
    BY <1>1, <1>4, <2>1, <2>2
\* A model that fails.
<1>5. ASSUME NEW r \in Requests, NEW o \in Outcomes, ~Ended(o), FallThrough(r, o),
             pc[r] \in Trying, UNCHANGED <<kind, final, served>>
      PROVE  StoryInv'
  <2>1. /\ steps[r] \in Seq(TierNames \X Outcomes) /\ Len(steps'[r]) > 0
        /\ steps'[r][Len(steps'[r])] = <<model[r], o>>
        /\ \A q \in Requests \ {r} : steps'[q] = steps[q]
    BY <1>0, <1>5, Added DEF FallThrough
  <2>2. Told(steps'[r], kind[r])
    BY <1>0, <1>5, TriedStep DEF FallThrough
  <2>3. final[r] = "none"
    BY <1>0, <1>5 DEF StoryAt, Trying
  <2>4. \/ model[r] = "primary" /\ model'[r] = "fallback" /\ pc'[r] = "try"
        \/ model[r] = "fallback" /\ pc'[r] = "lookup"
    BY <1>0, <1>5 DEF FallThrough, Goto, TypeOK
  <2>5. \A q \in Requests \ {r} : pc'[q] = pc[q] /\ model'[q] = model[q]
    BY <1>0, <1>5 DEF FallThrough, Goto, TypeOK
  <2>6. StoryAt(r)'
    BY <1>5, <2>1, <2>2, <2>3, <2>4 DEF StoryAt, Trying
  <2> QED
    BY <1>1, <1>5, <2>1, <2>5, <2>6
<1>6. ASSUME NEW r \in Requests, Enter(r) \/ Cancel(r) PROVE StoryInv'
  BY <1>4, <1>6, Names DEF Enter, Cancel
<1>7. \A o \in {"killed", "semantic_cb_open", "transport_error", "semantic_failure"} :
         o \in Outcomes /\ ~Ended(o)
  BY DEF Outcomes, Ended
<1>8. ASSUME NEW r \in Requests, Try(r) \/ Dial(r) PROVE StoryInv'
  <2>1. pc[r] \in Trying /\ UNCHANGED <<kind, final, served>>
    BY <1>8 DEF Try, Dial, Trying
  <2>2. \/ \E o \in {"killed", "semantic_cb_open", "transport_error"} : FallThrough(r, o)
        \/ \E w \in {"dial", "calling"} : Goto(r, w) /\ UNCHANGED <<model, steps>>
    BY <1>8 DEF Try, Dial
  <2>3. {"dial", "calling"} \subseteq Trying
    BY DEF Trying
  <2> QED
    BY <1>4, <1>5, <1>7, <2>1, <2>2, <2>3, Names
<1>9. ASSUME NEW r \in Requests, Collect(r) PROVE StoryInv'
  <2>1. pc[r] \in Trying /\ "evaluate" \in Trying /\ UNCHANGED <<kind, final, served>>
    BY <1>9 DEF Collect, Trying
  <2>2. \/ FallThrough(r, "transport_error")
        \/ Goto(r, "evaluate") /\ UNCHANGED <<model, steps>>
    BY <1>9 DEF Collect
  <2> QED
    BY <1>4, <1>5, <1>7, <2>1, <2>2, Names
<1>10. ASSUME NEW r \in Requests, Evaluate(r) PROVE StoryInv'
  <2>1. pc[r] = "evaluate" /\ pc[r] \in Trying /\ UNCHANGED <<kind, final, served>>
    BY <1>10 DEF Evaluate, Trying
  <2>2. CASE FallThrough(r, "semantic_failure")
    BY <1>5, <1>7, <2>1, <2>2
  <2>3. CASE AddStep(r, model[r], "success") /\ Goto(r, "serve") /\ UNCHANGED model
    <3>1. /\ Len(steps'[r]) > 0 /\ steps'[r][Len(steps'[r])] = <<model[r], "success">>
          /\ \A q \in Requests \ {r} : steps'[q] = steps[q]
      BY <1>0, <2>3, Names, Added
    <3>2. Told(steps'[r], kind[r])
      BY <1>0, <2>1, <2>3, Names, TriedStep
    <3>3. pc'[r] = "serve" /\ \A q \in Requests \ {r} : pc'[q] = pc[q]
      BY <1>0, <2>3 DEF Goto, TypeOK
    <3>4. final[r] = "none"
      BY <1>0, <2>1 DEF StoryAt
    <3>5. StoryAt(r)'
      BY <2>1, <2>3, <3>1, <3>2, <3>3, <3>4 DEF StoryAt, Trying
    <3> QED
      BY <1>1, <2>1, <2>3, <3>1, <3>3, <3>5
  <2> QED
    BY <1>10, <2>2, <2>3 DEF Evaluate
<1>11. ASSUME NEW r \in Requests, Hedge(r) \/ \E c \in Copies : Return(r, c) PROVE StoryInv'
  <2>1. UNCHANGED <<pc, kind, model, steps, final, served>>
    BY <1>11 DEF Hedge, Return
  <2> QED
    BY <1>0, <2>1, OthersTold DEF StoryInv
<1>12. ASSUME NEW r \in Requests, Serve(r) PROVE StoryInv'
  <2>1. /\ pc[r] = "serve" /\ pc' = [pc EXCEPT ![r] = "finish"]
        /\ served' = [served EXCEPT ![r] = [tier |-> model[r], text |-> result[r]]]
        /\ UNCHANGED <<kind, model, steps, final>>
    BY <1>12 DEF Serve, Goto, Reply
  <2>2. /\ pc'[r] = "finish" /\ served'[r].tier = model[r]
        /\ \A q \in Requests \ {r} : pc'[q] = pc[q] /\ served'[q] = served[q]
    BY <1>0, <2>1 DEF TypeOK
  <2>3. /\ Told(steps[r], kind[r]) /\ Len(steps[r]) > 0
        /\ steps[r][Len(steps[r])] = <<model[r], "success">> /\ final[r] = "none"
    BY <1>0, <2>1 DEF StoryAt
  <2>4. StoryAt(r)'
    BY <2>1, <2>2, <2>3 DEF StoryAt, Trying, Ended
  <2> QED
    BY <1>1, <2>1, <2>2, <2>4
<1>13. ASSUME NEW r \in Requests, LookUp(r) PROVE StoryInv'
  <2>1. /\ pc[r] = "lookup" /\ pc' = [pc EXCEPT ![r] = "finish"] /\ UNCHANGED <<kind, model, final>>
    BY <1>13 DEF LookUp, Goto
  <2>2. PICK t \in {"cache", "degraded"}, o \in {"cache_hit", "graceful_denial"},
             x \in Texts \cup {"none"} :
          AddStep(r, t, o) /\ served' = [served EXCEPT ![r] = [tier |-> t, text |-> x]]
    <3>1. cached \subseteq Texts
      BY <1>0 DEF TypeOK
    <3> QED
      BY <1>13, <3>1 DEF LookUp, Deny, Reply
  <2>3. /\ pc'[r] = "finish" /\ served'[r].tier = t
        /\ \A q \in Requests \ {r} : pc'[q] = pc[q] /\ served'[q] = served[q]
    BY <1>0, <2>1, <2>2 DEF TypeOK
  <2>4. /\ Told(steps[r], kind[r]) /\ Len(steps[r]) > 0 /\ final[r] = "none"
        /\ steps[r][Len(steps[r])][1] = "fallback" /\ ~Ended(steps[r][Len(steps[r])][2])
    BY <1>0, <2>1 DEF StoryAt
  <2>5. Follows(steps[r][Len(steps[r])], <<t, o>>, kind[r])
    BY <2>4 DEF Follows, After, Models
  <2>6. /\ steps[r] \in Seq(TierNames \X Outcomes) /\ steps'[r] = Append(steps[r], <<t, o>>)
        /\ Len(steps'[r]) > 0 /\ steps'[r][Len(steps'[r])] = <<t, o>>
        /\ \A q \in Requests \ {r} : steps'[q] = steps[q]
        /\ <<t, o>> \in TierNames \X Outcomes
    BY <1>0, <2>2, Names, Added
  <2>7. Told(steps'[r], kind[r])
    BY <2>4, <2>5, <2>6, Extended
  <2>8. StoryAt(r)'
    BY <2>1, <2>3, <2>4, <2>6, <2>7 DEF StoryAt, Trying, Ended
  <2> QED
    BY <1>1, <2>1, <2>3, <2>6, <2>8
<1>14. ASSUME NEW r \in Requests, NextTurn(r) PROVE StoryInv'
  <2>1. /\ pc[r] = "finish" /\ kind[r] = "react" /\ served[r].tier # "degraded"
        /\ UNCHANGED <<kind, steps, final, served>>
        /\ pc' = [pc EXCEPT ![r] = "try"] /\ model' = [model EXCEPT ![r] = "primary"]
    BY <1>14 DEF NextTurn, Goto
  <2>2. /\ pc'[r] = "try" /\ model'[r] = "primary"
        /\ \A q \in Requests \ {r} : pc'[q] = pc[q] /\ model'[q] = model[q]
    BY <1>0, <2>1 DEF TypeOK
  <2>3. StoryAt(r)'
    BY <1>0, <2>1, <2>2 DEF StoryAt, Trying
  <2> QED
    BY <1>1, <2>1, <2>2, <2>3
<1>15. ASSUME NEW r \in Requests, Finish(r) PROVE StoryInv'
  <2>1. /\ pc[r] = "finish" /\ UNCHANGED <<kind, model, steps, served>>
        /\ pc' = [pc EXCEPT ![r] = "done"] /\ final' = [final EXCEPT ![r] = served[r].tier]
    BY <1>15 DEF Finish, Goto
  <2>2. /\ pc'[r] = "done" /\ final'[r] = served[r].tier
        /\ \A q \in Requests \ {r} : pc'[q] = pc[q] /\ final'[q] = final[q]
    BY <1>0, <2>1 DEF TypeOK
  <2>3. StoryAt(r)'
    BY <1>0, <2>1, <2>2 DEF StoryAt, Trying
  <2> QED
    BY <1>1, <2>1, <2>2, <2>3
<1>16. CASE UNCHANGED vars
  BY <1>0, <1>16, OthersTold DEF vars, StoryInv
<1> QED
  BY <1>2, <1>3, <1>6, <1>8, <1>9, <1>10, <1>11, <1>12, <1>13, <1>14, <1>15, <1>16 DEF Next, Step

\* The trace an Ask or a React leaves is a complete account of Degrade: every tier that
\* failed is followed by the next, and the last step is by the tier that answered.
THEOREM OrchestratorTrace == Spec => []TraceTellsTheStory
<1>1. Init => StoryInv
  BY DEF Init, StoryInv, StoryAt, Told, Trying
<1>2. TypeInv /\ StoryInv /\ [Next]_vars => StoryInv'
  BY StoryStep
<1>3. StoryInv => TraceTellsTheStory
  <2> SUFFICES ASSUME StoryInv, NEW r \in Requests
               PROVE  /\ Told(steps[r], kind[r])
                      /\ final[r] # "none" => /\ Len(steps[r]) > 0
                                              /\ steps[r][Len(steps[r])][1] = final[r]
                                              /\ Ended(steps[r][Len(steps[r])][2])
    BY DEF TraceTellsTheStory, Told, Follows
  <2> QED
    BY DEF StoryInv, StoryAt
<1>4. Spec => []TypeInv
  BY OrchestratorTypeOK DEF TypeInv
<1> QED
  BY <1>1, <1>2, <1>3, <1>4, PTL DEF Spec
=============================================================================
