--------------------------- MODULE StreamingProofs ---------------------------
(***************************************************************************)
(* Proofs about Streaming, for channels of any capacity, answers of any    *)
(* length and a gate that looks as often as it likes: the client reads a   *)
(* stream with one seam, a complete answer if it stays, and no more of a   *)
(* refusal than the gate lets pass.                                        *)
(***************************************************************************)
EXTENDS Streaming, FiniteSetTheorems, TLAPS

-----------------------------------------------------------------------------
(* The inductive invariant, part by part.                                   *)

One(b) == IF b THEN 1 ELSE 0

\* What the place in StreamWithQualityGate says about the gate and the channels.
PlaceInv ==
    /\ pc = "start" => \A m \in Models : provider[m] = "off"
    /\ closed => pc = "returned"
    /\ pc \in {"start", "primary", "relay", "leave"} => ~tripped
    /\ pc \in {"abort", "switch"} => tripped
    /\ pc \in {"switch", "result"} => Drained("primary")
    /\ pc = "returned" => Drained(tier)
    /\ pc \in {"leave", "leaveFallback"} => Done
    /\ pc = "returned" /\ tier = "primary" /\ ~Done => ~tripped /\ errCh = "nil"
    /\ errCh # "empty" => provider["primary"] = "gone"

\* How far the primary's tokens have come, and what the gate knows of them.
GateInv ==
    /\ \A m \in Models : provider[m] = "sending" => produced[m] < MaxTokens
    /\ count + Len(raw["primary"]) <= produced["primary"]
    /\ refusedAt > 0 <=> Refused(hits)
    /\ refusedAt <= count
    /\ refusedAt > 0 => \A look \in refusedAt..GateLast :
          look % GateEvery = 0 => IF tripped THEN count <= look ELSE count < look

\* What has been sent so far.
AllPrimary(q) == \A i \in 1..Len(q) : q[i] = Token("primary")
Announced(q) == \E i \in 1..Len(q) : q[i].kind = "switched"
Seams(q, afterTrip, over) ==
    \A i \in 1..Len(q) :
        /\ i > 1 /\ q[i-1].tier = "fallback" => q[i].tier = "fallback" /\ q[i].kind # "switched"
        /\ afterTrip /\ q[i] = Token("fallback") => \E j \in 1..i-1 : q[j].kind = "switched"
        /\ q[i].kind = "done" => i = Len(q) /\ over
SentInv ==
    /\ Seams(Sent, tripped, handler = "returned" /\ closed)
    /\ pc \in {"start", "primary", "relay", "leave", "abort", "switch"} => AllPrimary(Sent)
    /\ pc = "result" /\ ~tripped => AllPrimary(Sent)
    /\ pc \in {"result", "fallback", "relayFallback"} /\ tripped => Announced(Sent)
    /\ pc = "returned" /\ tier = "primary" /\ handler = "loop" => AllPrimary(Sent)

\* No token is lost as long as the client stays, and the client gets no token the gate
\* has not seen.
InHand(m) == IF m = "primary" THEN pc = "relay" ELSE pc = "relayFallback"
Whole(m) == Count(Sent, Token(m)) + One(InHand(m)) + Len(raw[m]) = produced[m]
Ahead == Count(Sent, Token("primary")) + One(pc = "relay" \/ tripped) <= count
CountInv ==
    /\ ~Done /\ ~tripped => Whole("primary")
    /\ ~Done => Whole("fallback")
    /\ Ahead

\* The answer, once the client has read "done".
DoneInv ==
    handler = "returned" /\ ~expired =>
        /\ pc = "returned" /\ Len(written) > 0
        /\ written[Len(written)] = [kind |-> "done", tier |-> tier]
        /\ Count(written, Token(tier)) = produced[tier]
        /\ tier = "primary" => ~tripped /\ errCh = "nil"

StreamInv == TypeOK /\ PlaceInv /\ GateInv /\ SentInv /\ CountInv /\ DoneInv

-----------------------------------------------------------------------------
(* Channels.                                                                *)

LEMMA ModelNames == "primary" \in Models /\ "fallback" \in Models
  BY DEF Models

LEMMA EventTypes ==
  /\ \A m \in Models : Token(m) \in Events /\ [kind |-> "done", tier |-> m] \in Events
  /\ [kind |-> "switched", tier |-> "fallback"] \in Events
  BY DEF Token, Events

\* A provider sends a token.
LEMMA PushEffect ==
  ASSUME TypeOK, GateInv, NEW m \in Models, Push(m)
  PROVE  /\ raw' \in [Models -> Seq(Tokens)] /\ \A x \in Models : Len(raw'[x]) <= RawCap
         /\ Len(raw'[m]) = Len(raw[m]) + 1 /\ \A x \in Models : x # m => raw'[x] = raw[x]
         /\ produced' \in [Models -> 0..MaxTokens] /\ produced'[m] = produced[m] + 1
         /\ \A x \in Models : x # m => produced'[x] = produced[x]
<1>1. /\ raw \in [Models -> Seq(Tokens)] /\ \A x \in Models : Len(raw[x]) <= RawCap
      /\ holding[m] \in Tokens /\ produced \in [Models -> 0..MaxTokens]
      /\ produced[m] < MaxTokens /\ MaxTokens \in Nat /\ RawCap \in Nat
      /\ Len(raw[m]) < RawCap /\ Len(raw[m]) \in Nat
      /\ raw' = [raw EXCEPT ![m] = Append(raw[m], holding[m])]
      /\ produced' = [produced EXCEPT ![m] = produced[m] + 1]
  BY ChannelAssumption, GateAssumption DEF TypeOK, GateInv, Push
<1>2. Append(raw[m], holding[m]) \in Seq(Tokens) /\ Len(Append(raw[m], holding[m])) = Len(raw[m]) + 1
  BY <1>1
<1>3. /\ raw' \in [Models -> Seq(Tokens)] /\ raw'[m] = Append(raw[m], holding[m])
      /\ \A x \in Models : x # m => raw'[x] = raw[x]
  BY <1>1, <1>2
<1>4. \A x \in Models : Len(raw'[x]) <= RawCap
  BY <1>1, <1>2, <1>3
<1>5. /\ produced' \in [Models -> 0..MaxTokens] /\ produced'[m] = produced[m] + 1
      /\ \A x \in Models : x # m => produced'[x] = produced[x]
  BY <1>1
<1> QED
  BY <1>2, <1>3, <1>4, <1>5

\* A token is taken out of a channel.
LEMMA TakeEffect ==
  ASSUME TypeOK, NEW m \in Models, raw[m] # <<>>, raw' = [raw EXCEPT ![m] = Tail(@)]
  PROVE  /\ raw' \in [Models -> Seq(Tokens)] /\ \A x \in Models : Len(raw'[x]) <= RawCap
         /\ Len(raw'[m]) = Len(raw[m]) - 1 /\ Len(raw[m]) \in Nat /\ Len(raw[m]) > 0
         /\ \A x \in Models : x # m => raw'[x] = raw[x]
         /\ Head(raw[m]) \in Tokens
<1>1. /\ raw \in [Models -> Seq(Tokens)] /\ \A x \in Models : Len(raw[x]) <= RawCap
      /\ RawCap \in Nat
  BY ChannelAssumption DEF TypeOK
<1>2. /\ Tail(raw[m]) \in Seq(Tokens) /\ Len(Tail(raw[m])) = Len(raw[m]) - 1
      /\ Len(raw[m]) \in Nat /\ Len(raw[m]) > 0 /\ Head(raw[m]) \in Tokens
  BY <1>1
<1>3. /\ raw' \in [Models -> Seq(Tokens)] /\ raw'[m] = Tail(raw[m])
      /\ \A x \in Models : x # m => raw'[x] = raw[x]
  BY <1>1, <1>2
<1> QED
  BY <1>1, <1>2, <1>3

\* What has been sent, when an event is added and when chatStream reads one.
LEMMA SentGrows ==
  ASSUME TypeOK, NEW e \in Events, out' = Append(out, e), UNCHANGED written
  PROVE  Sent \in Seq(Events) /\ Sent' = Append(Sent, e)
<1>1. written \in Seq(Events) /\ out \in Seq(Events)
  BY DEF TypeOK
<1>2. Sent' = written \o Append(out, e)
  BY DEF Sent
<1>3. written \o Append(out, e) = Append(written \o out, e)
  BY <1>1
<1> QED
  BY <1>1, <1>2, <1>3 DEF Sent

LEMMA SentMoves ==
  ASSUME TypeOK, out # <<>>, written' = Append(written, Head(out)), out' = Tail(out)
  PROVE  /\ Sent' = Sent /\ written' \in Seq(Events) /\ out' \in Seq(Events)
         /\ Len(out') <= OutCap
<1>1. written \in Seq(Events) /\ out \in Seq(Events) /\ Len(out) <= OutCap /\ OutCap \in Nat
  BY ChannelAssumption DEF TypeOK
<1>2. /\ Head(out) \in Events /\ Tail(out) \in Seq(Events) /\ Len(Tail(out)) = Len(out) - 1
      /\ Len(out) \in Nat
  BY <1>1
<1>3. Append(written, Head(out)) \o Tail(out) = written \o out
  BY <1>1, <1>2
<1> QED
  BY <1>1, <1>2, <1>3 DEF Sent

LEMMA CountType ==
  ASSUME NEW q \in Seq(Events), NEW e
  PROVE  /\ IsFiniteSet({i \in 1..Len(q) : q[i] = e}) /\ Count(q, e) \in Nat
<1>1. Len(q) \in Nat
  OBVIOUS
<1>2. IsFiniteSet(1..Len(q))
  BY <1>1, FS_Interval
<1>3. IsFiniteSet({i \in 1..Len(q) : q[i] = e})
  BY <1>2, FS_Subset
<1> QED
  BY <1>3, FS_CardinalityType DEF Count

LEMMA CountAppend ==
  ASSUME NEW q \in Seq(Events), NEW x \in Events, NEW e
  PROVE  Count(Append(q, x), e) = Count(q, e) + One(x = e)
<1> DEFINE p == Append(q, x)
           A == {i \in 1..Len(q) : q[i] = e}
           B == {i \in 1..Len(p) : p[i] = e}
           n == Len(q) + 1
<1>1. /\ Len(q) \in Nat /\ Len(p) = n /\ p[n] = x
      /\ \A i \in 1..Len(q) : p[i] = q[i]
  OBVIOUS
<1>2. IsFiniteSet(A) /\ Cardinality(A) \in Nat /\ n \notin A
  <2>1. IsFiniteSet(A) /\ Count(q, e) \in Nat
    BY CountType
  <2>2. n \notin 1..Len(q)
    BY <1>1
  <2> QED
    BY <2>1, <2>2 DEF Count
<1>0. Count(p, e) = Cardinality(B) /\ Count(q, e) = Cardinality(A)
  BY DEF Count
<1> HIDE DEF p, A, B
<1>3. CASE x = e
  <2>1. B = A \cup {n}
    BY <1>1, <1>3 DEF A, B
  <2>2. Cardinality(A \cup {n}) = Cardinality(A) + 1
    BY <1>2, FS_AddElement
  <2> QED
    BY <1>0, <1>3, <2>1, <2>2 DEF One, p
<1>4. CASE x # e
  <2>1. B = A
    BY <1>1, <1>4 DEF A, B
  <2> QED
    BY <1>0, <1>2, <1>4, <2>1 DEF One, p
<1> QED
  BY <1>3, <1>4

-----------------------------------------------------------------------------
(* Types.                                                                   *)

LEMMA TypesStep ==
  ASSUME TypeOK, GateInv, [Next]_vars
  PROVE  TypeOK'
<1> USE ModelNames
<1>0. RawCap \in Nat /\ OutCap \in Nat /\ MaxTokens \in Nat
  BY ChannelAssumption, GateAssumption
<1>1. ASSUME NEW m \in Models, Read(m) \/ Close(m) \/ Drop(m) PROVE TypeOK'
  BY <1>1 DEF TypeOK, Read, Close, Drop, Becomes, gate, client
<1>2. ASSUME NEW m \in Models, Push(m) PROVE TypeOK'
  <2>1. /\ UNCHANGED <<pc, gate, cancelled, holding, errCh, out, closed, tier, client>>
        /\ provider' = [provider EXCEPT ![m] = "reading"]
    BY <1>2 DEF Push, Becomes
  <2>2. /\ raw' \in [Models -> Seq(Tokens)] /\ \A x \in Models : Len(raw'[x]) <= RawCap
        /\ produced' \in [Models -> 0..MaxTokens]
    BY <1>2, PushEffect
  <2> QED
    BY <2>1, <2>2 DEF TypeOK, gate, client
<1>3. ASSUME NEW m \in Models, Report(m) PROVE TypeOK'
  BY <1>3 DEF TypeOK, Report, Becomes, gate, client
<1>4. CASE Start
  BY <1>4 DEF TypeOK, Start, Launch, Becomes, gate, client, Models, Places
<1>5. CASE TakePrimary
  <2>1. /\ raw["primary"] # <<>> /\ raw' = [raw EXCEPT !["primary"] = Tail(@)]
        /\ token' = Head(raw["primary"]) /\ count' = count + 1
        /\ hits' = IF token' = "marker" /\ ~Refused(hits) THEN hits + 1 ELSE hits
        /\ refusedAt' \in {count', refusedAt} /\ tripped' \in {TRUE, tripped}
        /\ pc' \in Places /\ cancelled' \in [Models -> BOOLEAN]
        /\ UNCHANGED <<source, errCh, out, closed, tier, client>>
    BY <1>5 DEF TakePrimary, Places, TypeOK
  <2>2. /\ raw' \in [Models -> Seq(Tokens)] /\ \A x \in Models : Len(raw'[x]) <= RawCap
        /\ Len(raw["primary"]) \in Nat /\ Len(raw["primary"]) > 0 /\ Head(raw["primary"]) \in Tokens
    BY <2>1, TakeEffect
  <2>3. count' \in 0..MaxTokens
    <3>1. /\ count \in Nat /\ count + Len(raw["primary"]) <= produced["primary"]
          /\ produced["primary"] \in 0..MaxTokens
      BY <1>0 DEF TypeOK, GateInv
    <3> QED
      BY <1>0, <2>1, <2>2, <3>1
  <2>4. hits' \in 0..2
    BY <2>1 DEF TypeOK, Refused
  <2> QED
    BY <2>1, <2>2, <2>3, <2>4 DEF TypeOK, source, client
<1>6. ASSUME NEW e \in Events, NEW then \in Places, NEW else \in Places, Send(e, then, else)
      PROVE  pc' \in Places /\ out' \in Seq(Events) /\ Len(out') <= OutCap
  <2>1. out \in Seq(Events) /\ Len(out) <= OutCap /\ Len(out) \in Nat
    BY DEF TypeOK
  <2>2. CASE Len(out) < OutCap /\ out' = Append(out, e) /\ pc' = then
    <3>1. Append(out, e) \in Seq(Events) /\ Len(Append(out, e)) = Len(out) + 1
      BY <2>1
    <3> QED
      BY <1>0, <2>1, <2>2, <3>1
  <2> QED
    BY <1>6, <2>1, <2>2 DEF Send
<1>7. CASE Relay \/ RelayFallback
  <2>1. pc' \in Places /\ out' \in Seq(Events) /\ Len(out') <= OutCap
    BY <1>6, <1>7, EventTypes DEF Relay, RelayFallback, Token, Places
  <2>2. cancelled' \in [Models -> BOOLEAN]
    BY <1>7 DEF TypeOK, Relay, RelayFallback
  <2> QED
    BY <1>7, <2>1, <2>2 DEF TypeOK, Relay, RelayFallback, gate, source, client
<1>8. CASE Switch
  <2>1. pc' \in Places /\ out' \in Seq(Events) /\ Len(out') <= OutCap
    BY <1>6, <1>8, EventTypes DEF Switch, Places
  <2> QED
    BY <1>8, <2>1 DEF TypeOK, Switch, gate, source, client
<1>9. ASSUME NEW m \in Models, NEW where, Discard(m, where) PROVE TypeOK'
  <2>1. /\ raw[m] # <<>> /\ raw' = [raw EXCEPT ![m] = Tail(@)]
        /\ UNCHANGED <<pc, gate, cancelled, source, errCh, out, closed, tier, client>>
    BY <1>9 DEF Discard
  <2>2. raw' \in [Models -> Seq(Tokens)] /\ \A x \in Models : Len(raw'[x]) <= RawCap
    BY <2>1, TakeEffect
  <2> QED
    BY <2>1, <2>2 DEF TypeOK, gate, source, client
<1>10. CASE Aborted \/ EndOfPrimary \/ Leave \/ EndOfFallback
  BY <1>10 DEF TypeOK, Aborted, EndOfPrimary, Leave, EndOfFallback, Places, gate, source, client
<1>11. CASE Result
  BY <1>11 DEF TypeOK, Result, Launch, Becomes, Places, gate, client
<1>12. CASE TakeFallback
  <2>1. /\ raw["fallback"] # <<>> /\ raw' = [raw EXCEPT !["fallback"] = Tail(@)]
        /\ token' = Head(raw["fallback"]) /\ pc' = "relayFallback"
        /\ UNCHANGED <<count, hits, refusedAt, tripped, cancelled, source, errCh, out, closed, tier, client>>
    BY <1>12 DEF TakeFallback
  <2>2. /\ raw' \in [Models -> Seq(Tokens)] /\ \A x \in Models : Len(raw'[x]) <= RawCap
        /\ Head(raw["fallback"]) \in Tokens
    BY <2>1, TakeEffect
  <2> QED
    BY <2>1, <2>2 DEF TypeOK, source, client, Places
<1>13. CASE Write
  <2>1. written' \in Seq(Events) /\ out' \in Seq(Events) /\ Len(out') <= OutCap
    BY <1>13, SentMoves DEF Write
  <2> QED
    BY <1>13, <2>1 DEF TypeOK, Write, gate, source
<1>14. CASE WriteDone
  <2>1. written' \in Seq(Events)
    BY <1>14, EventTypes DEF TypeOK, WriteDone
  <2> QED
    BY <1>14, <2>1 DEF TypeOK, WriteDone, gate, source
<1>15. CASE GiveUp \/ Expire
  BY <1>15 DEF TypeOK, GiveUp, Expire, gate, source
<1>16. CASE UNCHANGED vars
  BY <1>16 DEF TypeOK, vars
<1> QED
  BY <1>1, <1>2, <1>3, <1>4, <1>5, <1>7, <1>8, <1>9, <1>10, <1>11, <1>12, <1>13, <1>14, <1>15,
     <1>16 DEF Next, Orchestrate, Handle

-----------------------------------------------------------------------------
(* Places and the gate.                                                     *)

LEMMA PlaceStep ==
  ASSUME TypeOK, GateInv, PlaceInv, [Next]_vars
  PROVE  PlaceInv'
<1> USE ModelNames
<1>0. provider \in [Models -> {"off", "reading", "sending", "closed", "gone"}] /\ tier \in Models
  BY DEF TypeOK
<1>1. ASSUME NEW m \in Models, Read(m) PROVE PlaceInv'
  BY <1>0, <1>1 DEF PlaceInv, Read, Becomes, gate, client, Drained, Done
<1>2. ASSUME NEW m \in Models, Push(m) PROVE PlaceInv'
  <2>1. \A x \in Models : x # m => raw'[x] = raw[x]
    BY <1>2, PushEffect
  <2> QED
    BY <1>0, <1>2, <2>1 DEF PlaceInv, Push, Becomes, gate, client, Drained, Done
<1>3. ASSUME NEW m \in Models, Close(m) \/ Drop(m) PROVE PlaceInv'
  BY <1>0, <1>3 DEF PlaceInv, Close, Drop, Becomes, gate, client, Drained, Done
<1>4. ASSUME NEW m \in Models, Report(m) PROVE PlaceInv'
  BY <1>0, <1>4 DEF PlaceInv, Report, Becomes, gate, client, Drained, Done
<1>5. CASE Start
  BY <1>0, <1>5 DEF PlaceInv, Start, Launch, Becomes, gate, client, Drained, Done, Models
<1>6. CASE TakePrimary
  <2>1. \A x \in Models : x # "primary" => raw'[x] = raw[x]
    BY <1>6, TakeEffect DEF TakePrimary
  <2> QED
    BY <1>0, <1>6, <2>1 DEF PlaceInv, TakePrimary, source, client, Drained, Done
<1>7. CASE Relay \/ RelayFallback
  BY <1>0, <1>7 DEF PlaceInv, Relay, RelayFallback, Send, gate, source, client, Drained, Done
<1>8. CASE Switch
  BY <1>0, <1>8 DEF PlaceInv, Switch, Send, gate, source, client, Drained, Done
<1>9. ASSUME NEW m \in Models, NEW where, Discard(m, where) PROVE PlaceInv'
  <2>1. \A x \in Models : x # m => raw'[x] = raw[x]
    BY <1>9, TakeEffect DEF Discard
  <2> QED
    BY <1>0, <1>9, <2>1 DEF PlaceInv, Discard, gate, source, client, Drained, Done
<1>10. CASE Aborted \/ EndOfPrimary \/ Leave \/ EndOfFallback
  BY <1>0, <1>10 DEF PlaceInv, Aborted, EndOfPrimary, Leave, EndOfFallback, gate, source, client,
                     Drained, Done
<1>11. CASE Result
  BY <1>0, <1>11 DEF PlaceInv, Result, Launch, Becomes, gate, client, Drained, Done
<1>12. CASE TakeFallback
  <2>1. \A x \in Models : x # "fallback" => raw'[x] = raw[x]
    BY <1>12, TakeEffect DEF TakeFallback
  <2> QED
    BY <1>0, <1>12, <2>1 DEF PlaceInv, TakeFallback, source, client, Drained, Done
<1>13. CASE Write \/ WriteDone \/ GiveUp \/ Expire
  BY <1>0, <1>13 DEF PlaceInv, Write, WriteDone, GiveUp, Expire, gate, source, Drained, Done
<1>14. CASE UNCHANGED vars
  BY <1>0, <1>14 DEF PlaceInv, vars, Drained, Done
<1> QED
  BY <1>1, <1>2, <1>3, <1>4, <1>5, <1>6, <1>7, <1>8, <1>9, <1>10, <1>11, <1>12, <1>13, <1>14
  DEF Next, Orchestrate, Handle

LEMMA Shift ==
  ASSUME NEW a \in Nat, NEW b \in Nat, NEW c \in Nat, a + b <= c
  PROVE  (a + 1) + (b - 1) <= c
  OBVIOUS

LEMMA GateStep ==
  ASSUME TypeOK, GateInv, PlaceInv, [Next]_vars
  PROVE  GateInv'
<1> USE ModelNames
<1>0. /\ provider \in [Models -> {"off", "reading", "sending", "closed", "gone"}]
      /\ produced \in [Models -> 0..MaxTokens] /\ MaxTokens \in Nat
      /\ count \in Nat /\ hits \in 0..2 /\ refusedAt \in Nat
      /\ GateEvery \in Nat /\ GateEvery # 0 /\ GateLast \in Nat
      /\ \A m \in Models : raw[m] \in Seq(Tokens) /\ Len(raw[m]) \in Nat
  BY GateAssumption DEF TypeOK
<1>00. count + Len(raw["primary"]) <= produced["primary"]
  BY DEF GateInv
<1>000. count \in Nat /\ Len(raw["primary"]) \in Nat /\ produced["primary"] \in Nat
  BY <1>0
<1>1. ASSUME NEW m \in Models, Read(m) \/ Close(m) \/ Drop(m) \/ Report(m) PROVE GateInv'
  BY <1>0, <1>1 DEF GateInv, Read, Close, Drop, Report, Becomes, gate
<1>2. ASSUME NEW m \in Models, Push(m) PROVE GateInv'
  <2>1. /\ Len(raw'[m]) = Len(raw[m]) + 1 /\ \A x \in Models : x # m => raw'[x] = raw[x]
        /\ produced'[m] = produced[m] + 1 /\ \A x \in Models : x # m => produced'[x] = produced[x]
    BY <1>2, PushEffect
  <2>2. /\ UNCHANGED <<count, hits, refusedAt, tripped>>
        /\ provider' = [provider EXCEPT ![m] = "reading"]
    BY <1>2 DEF Push, Becomes, gate
  <2>3. count' + Len(raw'["primary"]) <= produced'["primary"]
    <3>1. CASE m = "primary"
      BY <1>000, <1>00, <2>1, <2>2, <3>1
    <3>2. CASE m # "primary"
      BY <1>00, <2>1, <2>2, <3>2
    <3> QED
      BY <3>1, <3>2
  <2>4. \A x \in Models : provider'[x] = "sending" => produced'[x] < MaxTokens
    BY <1>0, <2>1, <2>2 DEF GateInv
  <2> QED
    BY <2>2, <2>3, <2>4 DEF GateInv
<1>3. CASE Start \/ Result
  BY <1>0, <1>3 DEF GateInv, Start, Result, Launch, Becomes, gate
<1>4. CASE TakePrimary
  <2>1. /\ count' = count + 1 /\ UNCHANGED <<provider, produced>> /\ ~tripped
        /\ hits' = IF token' = "marker" /\ ~Refused(hits) THEN hits + 1 ELSE hits
        /\ refusedAt' = IF Refused(hits') /\ ~Refused(hits) THEN count' ELSE refusedAt
    BY <1>4 DEF TakePrimary, source, PlaceInv
  <2>0. tripped' <=> GateTrips(count', hits')
    BY <1>4, <2>1 DEF TakePrimary
  <2>2. Len(raw'["primary"]) = Len(raw["primary"]) - 1
    BY <1>4, TakeEffect DEF TakePrimary
  <2>3. count' + Len(raw'["primary"]) <= produced'["primary"]
    <3>1. produced'["primary"] = produced["primary"] /\ count' = count + 1
      BY <2>1
    <3> QED
      BY <1>00, <1>000, <2>2, <3>1, Shift
  <2>4. (refusedAt' > 0 <=> Refused(hits')) /\ refusedAt' <= count'
    BY <1>0, <2>1 DEF GateInv, Refused
  \* A look at this token would have tripped the gate, had the text been a refusal.
  <2>5. ASSUME refusedAt' > 0, NEW look \in refusedAt'..GateLast, look % GateEvery = 0
        PROVE  IF tripped' THEN count' <= look ELSE count' < look
    <3>1. count' <= look
      <4>1. CASE refusedAt' = count'
        BY <1>0, <2>1, <2>5, <4>1
      <4>2. CASE refusedAt' # count'
        <5>1. refusedAt' = refusedAt
          BY <2>1, <4>2
        <5>2. count < look
          BY <2>1, <2>5, <5>1 DEF GateInv
        <5> QED
          BY <1>0, <2>1, <2>5, <5>1, <5>2
      <4> QED
        BY <4>1, <4>2
    <3>2. count' = look => tripped'
      BY <1>0, <2>0, <2>1, <2>4, <2>5 DEF GateTrips
    <3> QED
      BY <1>0, <2>1, <2>5, <3>1, <3>2
  <2> QED
    BY <2>1, <2>3, <2>4, <2>5 DEF GateInv
<1>5. CASE Relay \/ RelayFallback \/ Switch \/ Aborted \/ EndOfPrimary \/ Leave \/ EndOfFallback
  BY <1>5 DEF GateInv, Relay, RelayFallback, Switch, Aborted, EndOfPrimary, Leave, EndOfFallback,
              gate, source
<1>6. ASSUME NEW m \in Models, raw[m] # <<>>, raw' = [raw EXCEPT ![m] = Tail(@)],
             UNCHANGED <<count, hits, refusedAt, tripped, source>>
      PROVE  GateInv'
  <2>1. Len(raw'[m]) = Len(raw[m]) - 1 /\ \A x \in Models : x # m => raw'[x] = raw[x]
    BY <1>6, TakeEffect
  <2>2. count' + Len(raw'["primary"]) <= produced'["primary"]
    BY <1>0, <1>6, <2>1 DEF GateInv, source
  <2> QED
    BY <1>6, <2>2 DEF GateInv, source
<1>7. CASE TakeFallback
  BY <1>6, <1>7 DEF TakeFallback
<1>8. ASSUME NEW m \in Models, NEW where, Discard(m, where) PROVE GateInv'
  BY <1>6, <1>8 DEF Discard, gate
<1>9. CASE Write \/ WriteDone \/ GiveUp \/ Expire
  BY <1>9 DEF GateInv, Write, WriteDone, GiveUp, Expire, gate, source
<1>10. CASE UNCHANGED vars
  BY <1>10 DEF GateInv, vars
<1> QED
  BY <1>1, <1>2, <1>3, <1>4, <1>5, <1>7, <1>8, <1>9, <1>10 DEF Next, Orchestrate, Handle

-----------------------------------------------------------------------------
(* What has been sent.                                                      *)

\* One more event, after a sequence that "done" has not ended.
LEMMA SeamsAppend ==
  ASSUME NEW q \in Seq(Events), NEW x \in Events, NEW t, NEW over, Seams(q, t, FALSE),
         \A i \in 1..Len(q) : q[i].tier = "fallback" => x.tier = "fallback" /\ x.kind # "switched",
         t /\ x = Token("fallback") => Announced(q),
         x.kind = "done" => over
  PROVE  Seams(Append(q, x), t, over)
<1> DEFINE p == Append(q, x)
           n == Len(q) + 1
<1>1. /\ Len(q) \in Nat /\ Len(p) = n /\ p[n] = x
      /\ \A i \in 1..Len(q) : p[i] = q[i]
  OBVIOUS
<1> HIDE DEF p
<1>2. \A i \in 1..Len(q) : q[i].kind # "done"
  BY DEF Seams
<1>3. ASSUME NEW i \in 1..Len(p)
      PROVE  /\ i > 1 /\ p[i-1].tier = "fallback" => p[i].tier = "fallback" /\ p[i].kind # "switched"
             /\ t /\ p[i] = Token("fallback") => \E j \in 1..i-1 : p[j].kind = "switched"
             /\ p[i].kind = "done" => i = Len(p) /\ over
  <2>1. CASE i = n
    <3>1. i > 1 => i - 1 \in 1..Len(q)
      BY <1>1, <2>1
    <3>2. i > 1 /\ p[i-1].tier = "fallback" => p[i].tier = "fallback" /\ p[i].kind # "switched"
      BY <1>1, <2>1, <3>1
    <3>3. t /\ p[i] = Token("fallback") => \E j \in 1..i-1 : p[j].kind = "switched"
      BY <1>1, <2>1 DEF Announced
    <3> QED
      BY <1>1, <2>1, <3>2, <3>3
  <2>2. CASE i # n
    <3>1. i \in 1..Len(q) /\ p[i] = q[i] /\ (i > 1 => i - 1 \in 1..Len(q) /\ p[i-1] = q[i-1])
      BY <1>1, <2>2
    <3>2. i > 1 /\ p[i-1].tier = "fallback" => p[i].tier = "fallback" /\ p[i].kind # "switched"
      BY <3>1 DEF Seams
    <3>3. t /\ p[i] = Token("fallback") => \E j \in 1..i-1 : p[j].kind = "switched"
      <4>1. SUFFICES ASSUME t, q[i] = Token("fallback") PROVE \E j \in 1..i-1 : p[j].kind = "switched"
        BY <3>1
      <4>2. PICK j \in 1..i-1 : q[j].kind = "switched"
        BY <3>1, <4>1 DEF Seams
      <4>3. j \in 1..Len(q)
        BY <1>1, <3>1
      <4> QED
        BY <1>1, <4>2, <4>3
    <3> QED
      BY <1>2, <3>1, <3>2, <3>3
  <2> QED
    BY <2>1, <2>2
<1> QED
  BY <1>3 DEF Seams, p

LEMMA PrimaryAppend ==
  ASSUME NEW q \in Seq(Events), AllPrimary(q)
  PROVE  AllPrimary(Append(q, Token("primary")))
<1> DEFINE p == Append(q, Token("primary"))
<1>1. Len(p) = Len(q) + 1 /\ Len(q) \in Nat /\ p[Len(q) + 1] = Token("primary")
      /\ \A i \in 1..Len(q) : p[i] = q[i]
  OBVIOUS
<1> HIDE DEF p
<1>2. ASSUME NEW i \in 1..Len(p) PROVE p[i] = Token("primary")
  <2>1. i = Len(q) + 1 \/ i \in 1..Len(q)
    BY <1>1
  <2> QED
    BY <1>1, <2>1 DEF AllPrimary
<1> QED
  BY <1>2 DEF AllPrimary, p

LEMMA AnnouncedAppend ==
  ASSUME NEW q \in Seq(Events), NEW x \in Events, Announced(q) \/ x.kind = "switched"
  PROVE  Announced(Append(q, x))
<1>1. /\ Len(Append(q, x)) = Len(q) + 1 /\ Len(q) \in Nat /\ Append(q, x)[Len(q) + 1] = x
      /\ \A i \in 1..Len(q) : Append(q, x)[i] = q[i]
  OBVIOUS
<1>2. Len(q) + 1 \in 1..Len(Append(q, x)) /\ \A i \in 1..Len(q) : i \in 1..Len(Append(q, x))
  BY <1>1
<1> QED
  BY <1>1, <1>2 DEF Announced

\* Until chatStream has returned nothing sent is "done"; a closed channel gets no events.
LEMMA NotOver ==
  ASSUME SentInv, PlaceInv, pc # "returned" \/ handler = "loop"
  PROVE  Seams(Sent, tripped, FALSE)
  BY DEF SentInv, PlaceInv, Seams

LEMMA PrimaryTier ==
  ASSUME NEW q \in Seq(Events), AllPrimary(q), NEW t, NEW over
  PROVE  /\ Seams(q, t, over) /\ \A i \in 1..Len(q) : q[i].tier = "primary" /\ q[i].kind = "token"
<1>1. /\ Token("primary").tier = "primary" /\ Token("primary").kind = "token"
      /\ Token("fallback").tier = "fallback"
  BY DEF Token
<1>2. \A i \in 1..Len(q) : q[i].tier = "primary" /\ q[i].kind = "token"
  BY <1>1 DEF AllPrimary
<1>3. ASSUME NEW i \in 1..Len(q), i > 1 PROVE q[i-1].tier # "fallback"
  <2>1. i - 1 \in 1..Len(q)
    BY <1>3
  <2> QED
    BY <1>2, <2>1
<1> QED
  BY <1>1, <1>2, <1>3 DEF Seams

LEMMA SentStep ==
  ASSUME TypeOK, GateInv, PlaceInv, SentInv, [Next]_vars
  PROVE  SentInv'
<1> USE ModelNames
<1>0. /\ Sent \in Seq(Events) /\ tier \in Models
      /\ pc \in Places /\ handler \in {"loop", "returned"}
  BY DEF TypeOK, Sent
<1>00. UNCHANGED <<written, out>> => Sent' = Sent
  BY DEF Sent
\* Nothing is sent and nothing that matters changes.
<1>1. CASE Sent' = Sent /\ UNCHANGED <<pc, tripped, closed, tier, handler>>
  BY <1>1 DEF SentInv
<1>2. ASSUME NEW m \in Models, Read(m) \/ Push(m) \/ Close(m) \/ Drop(m) \/ Report(m) PROVE SentInv'
  BY <1>00, <1>1, <1>2 DEF Read, Push, Close, Drop, Report, gate, client
<1>3. ASSUME NEW m \in Models, NEW where, Discard(m, where) PROVE SentInv'
  BY <1>00, <1>1, <1>3 DEF Discard, gate, client
<1>4. CASE Expire
  BY <1>00, <1>1, <1>4 DEF Expire, gate
<1>5. CASE Write
  BY <1>1, <1>5, SentMoves DEF Write, gate
\* As long as the primary is the one that streams, all that was sent came from it.
<1>6. ASSUME AllPrimary(Sent), Sent' = Sent,
             \/ pc' \in {"primary", "relay", "leave", "abort", "switch", "returned"}
             \/ pc' \in {"fallback", "result"} /\ ~tripped'
      PROVE  SentInv'
  BY <1>0, <1>6, PrimaryTier DEF SentInv
<1>7. CASE Start \/ TakePrimary \/ Aborted \/ EndOfPrimary \/ Leave
  <2>1. pc \in {"start", "primary", "relay", "leave", "abort", "switch"} /\ Sent' = Sent
    BY <1>00, <1>7 DEF Start, TakePrimary, Aborted, EndOfPrimary, Leave, client
  <2>2. AllPrimary(Sent)
    BY <2>1 DEF SentInv
  <2>3. \/ pc' \in {"primary", "relay", "leave", "abort", "switch", "returned"}
        \/ pc' \in {"fallback", "result"} /\ ~tripped'
    BY <1>7 DEF Start, Launch, Models, TakePrimary, Aborted, EndOfPrimary, Leave, PlaceInv, gate
  <2> QED
    BY <1>6, <2>1, <2>2, <2>3
<1>8. CASE Result
  <2>1. Sent' = Sent /\ pc = "result" /\ UNCHANGED <<tripped, handler>>
    BY <1>00, <1>8 DEF Result, gate, client
  <2>2. CASE ~tripped
    <3>1. AllPrimary(Sent)
      BY <2>1, <2>2 DEF SentInv
    <3> QED
      BY <1>6, <1>8, <2>1, <2>2, <3>1 DEF Result, Launch
  <2>3. CASE tripped
    <3>1. pc' = "fallback" /\ UNCHANGED <<tier, closed>>
      BY <1>8, <2>3 DEF Result, Launch
    <3> QED
      BY <2>1, <2>3, <3>1 DEF SentInv
  <2> QED
    BY <2>2, <2>3
<1>9. CASE TakeFallback
  BY <1>00, <1>9 DEF TakeFallback, client, SentInv
<1>10. CASE EndOfFallback
  <2>1. /\ pc' = "returned" /\ tier' = "fallback" /\ closed' = TRUE /\ pc # "returned"
        /\ Sent' = Sent /\ UNCHANGED <<tripped, handler>>
    BY <1>00, <1>10 DEF EndOfFallback, gate, client
  <2>2. Seams(Sent, tripped, FALSE)
    BY <2>1, NotOver
  <2>3. Seams(Sent, tripped, handler' = "returned" /\ closed')
    BY <2>2 DEF Seams
  <2> QED
    BY <2>1, <2>3 DEF SentInv
<1>11. CASE GiveUp
  <2>1. Sent' = Sent /\ handler' = "returned" /\ UNCHANGED <<pc, tripped, closed, tier>> /\ handler = "loop"
    BY <1>00, <1>11 DEF GiveUp, gate
  <2>2. Seams(Sent, tripped, FALSE)
    BY <2>1, NotOver
  <2>3. Seams(Sent, tripped, handler' = "returned" /\ closed')
    BY <2>2 DEF Seams
  <2> QED
    BY <2>1, <2>3 DEF SentInv
<1>12. CASE Relay
  <2>1. pc = "relay" /\ UNCHANGED <<tripped, closed, tier, handler, written>> /\ AllPrimary(Sent)
    BY <1>12 DEF Relay, gate, client, SentInv
  <2>2. CASE out' = Append(out, Token("primary")) /\ pc' = "primary"
    <3>1. Sent' = Append(Sent, Token("primary"))
      BY <2>1, <2>2, SentGrows, EventTypes
    <3>2. AllPrimary(Append(Sent, Token("primary")))
      BY <1>0, <2>1, PrimaryAppend
    <3>3. Append(Sent, Token("primary")) \in Seq(Events)
      <4>1. Token("primary") \in Events
        BY EventTypes
      <4> QED
        BY <1>0, <4>1
    <3>4. Sent' \in Seq(Events) /\ AllPrimary(Sent')
      BY <3>1, <3>2, <3>3
    <3> QED
      BY <2>2, <3>4, PrimaryTier DEF SentInv
  <2>3. CASE UNCHANGED out /\ pc' = "leave"
    BY <1>00, <1>6, <2>1, <2>3
  <2> QED
    BY <1>12, <2>2, <2>3 DEF Relay, Send, Token
<1>13. CASE Switch
  <2> DEFINE x == [kind |-> "switched", tier |-> "fallback"]
  <2>1. /\ pc = "switch" /\ UNCHANGED <<tripped, handler, written>> /\ AllPrimary(Sent)
        /\ Seams(Sent, tripped, FALSE)
    BY <1>13, NotOver DEF Switch, gate, client, SentInv
  <2>2. CASE out' = Append(out, x) /\ pc' = "result"
    <3>1. Sent' = Append(Sent, x) /\ x \in Events
      BY <2>1, <2>2, SentGrows, EventTypes
    <3>2. x.kind = "switched" /\ x # Token("fallback")
      BY DEF Token
    <3>3. \A i \in 1..Len(Sent) : Sent[i].tier # "fallback"
      BY <1>0, <2>1, PrimaryTier
    <3>4. Seams(Append(Sent, x), tripped, handler' = "returned" /\ closed')
      BY <1>0, <2>1, <3>1, <3>2, <3>3, SeamsAppend
    <3>5. Announced(Append(Sent, x))
      BY <1>0, <3>1, <3>2, AnnouncedAppend
    <3>6. tripped
      BY <2>1 DEF PlaceInv
    <3> HIDE DEF x
    <3> QED
      BY <2>1, <2>2, <3>1, <3>4, <3>5, <3>6 DEF SentInv
  <2>3. CASE UNCHANGED out /\ pc' = "returned"
    BY <1>00, <1>6, <2>1, <2>3
  <2> QED
    BY <1>13, <2>2, <2>3 DEF Switch, Send
<1>14. CASE RelayFallback
  <2>1. /\ pc = "relayFallback" /\ UNCHANGED <<tripped, closed, tier, handler, written>>
        /\ Seams(Sent, tripped, FALSE)
    BY <1>14, NotOver DEF RelayFallback, gate, client
  <2>2. CASE out' = Append(out, Token("fallback")) /\ pc' = "fallback"
    <3> DEFINE x == Token("fallback")
    <3>1. Sent' = Append(Sent, x) /\ x \in Events
      BY <2>1, <2>2, SentGrows, EventTypes
    <3>2. x.kind = "token" /\ x.tier = "fallback"
      BY DEF Token
    <3>3. tripped => Announced(Sent)
      BY <2>1 DEF SentInv
    <3>4. Seams(Append(Sent, x), tripped, handler' = "returned" /\ closed')
      BY <1>0, <2>1, <3>1, <3>2, <3>3, SeamsAppend
    <3>5. tripped => Announced(Append(Sent, x))
      BY <1>0, <3>1, <3>3, AnnouncedAppend
    <3> HIDE DEF x
    <3> QED
      BY <2>1, <2>2, <3>1, <3>4, <3>5 DEF SentInv
  <2>3. CASE UNCHANGED out /\ pc' = "leaveFallback"
    BY <1>00, <2>1, <2>3 DEF SentInv
  <2> QED
    BY <1>14, <2>2, <2>3 DEF RelayFallback, Send, Token
<1>15. CASE WriteDone
  <2> DEFINE x == [kind |-> "done", tier |-> tier]
  <2>1. /\ handler = "loop" /\ out = <<>> /\ closed /\ handler' = "returned"
        /\ written' = Append(written, x) /\ UNCHANGED <<pc, tripped, out, closed, tier>>
    BY <1>15 DEF WriteDone, gate
  <2>2. Sent' = Append(Sent, x) /\ x \in Events
    <3>1. written \in Seq(Events) /\ x \in Events
      BY <1>0, EventTypes DEF TypeOK
    <3>2. Sent = written /\ Sent' = Append(written, x)
      BY <2>1, <3>1 DEF Sent
    <3> QED
      BY <3>1, <3>2
  <2>3. pc = "returned" /\ Seams(Sent, tripped, FALSE)
    BY <2>1, NotOver DEF PlaceInv
  <2>4. \A i \in 1..Len(Sent) : Sent[i].tier = "fallback" => tier = "fallback"
    <3>1. CASE tier = "primary"
      <4>1. AllPrimary(Sent)
        BY <2>1, <2>3, <3>1 DEF SentInv
      <4> QED
        BY <1>0, <4>1, PrimaryTier
    <3>2. CASE tier # "primary"
      BY <1>0, <3>2 DEF Models
    <3> QED
      BY <3>1, <3>2
  <2>5. x.kind = "done" /\ x.tier = tier /\ x # Token("fallback")
    BY DEF Token
  <2> HIDE DEF x
  <2>6. Seams(Append(Sent, x), tripped, TRUE)
    BY <1>0, <2>2, <2>3, <2>4, <2>5, SeamsAppend
  <2>7. Seams(Append(Sent, x), tripped, handler' = "returned" /\ closed')
    BY <2>1, <2>6 DEF Seams
  <2> QED
    BY <2>1, <2>2, <2>3, <2>7 DEF SentInv
<1>16. CASE UNCHANGED vars
  BY <1>00, <1>1, <1>16 DEF vars
<1> QED
  BY <1>2, <1>3, <1>4, <1>5, <1>7, <1>8, <1>9, <1>10, <1>11, <1>12, <1>13, <1>14, <1>15, <1>16
  DEF Next, Orchestrate, Handle

-----------------------------------------------------------------------------
(* Counting tokens.                                                         *)

LEMMA Sums ==
  ASSUME NEW a \in Nat, NEW l \in Nat
  PROVE  /\ a + 0 + l = a + l /\ a + 1 + l = (a + l) + 1 /\ (a + 1) + 0 + l = (a + l) + 1
         /\ a + 0 + (l + 1) = (a + l) + 1 /\ a + 1 + (l + 1) = (a + l) + 2
         /\ a + 1 + (l - 1) = a + l
  OBVIOUS

LEMMA WholeTypes ==
  ASSUME TypeOK, NEW m \in Models
  PROVE  /\ Sent \in Seq(Events) /\ Count(Sent, Token(m)) \in Nat
         /\ Len(raw[m]) \in Nat /\ produced[m] \in Nat
<1>1. Sent \in Seq(Events) /\ Len(raw[m]) \in Nat /\ produced[m] \in Nat
  BY GateAssumption DEF TypeOK, Sent
<1> QED
  BY <1>1, CountType

LEMMA WholeQuiet ==
  ASSUME NEW m, Whole(m), Sent' = Sent, InHand(m)' <=> InHand(m), raw'[m] = raw[m],
         produced'[m] = produced[m]
  PROVE  Whole(m)'
  BY DEF Whole, One, Token

LEMMA WholePush ==
  ASSUME TypeOK, GateInv, NEW m \in Models, Whole(m), Push(m)
  PROVE  Whole(m)'
<1>1. /\ Len(raw'[m]) = Len(raw[m]) + 1 /\ produced'[m] = produced[m] + 1
      /\ Sent' = Sent /\ (InHand(m)' <=> InHand(m))
  BY PushEffect DEF Push, Sent, client, InHand
<1>2. /\ Count(Sent, Token(m)) \in Nat /\ Len(raw[m]) \in Nat /\ produced[m] \in Nat
  BY WholeTypes
<1>3. One(InHand(m)) \in {0, 1} /\ One(InHand(m)') = One(InHand(m))
  BY <1>1 DEF One
<1>4. ASSUME NEW a \in Nat, NEW b \in {0, 1}, NEW l \in Nat, NEW p \in Nat, a + b + l = p
      PROVE  a + b + (l + 1) = p + 1
  BY <1>4
<1>5. Count(Sent, Token(m)) + One(InHand(m)) + (Len(raw[m]) + 1) = produced[m] + 1
  BY <1>2, <1>3, <1>4 DEF Whole
<1> QED
  BY <1>1, <1>3, <1>5 DEF Whole, One, Token

LEMMA WholeTake ==
  ASSUME TypeOK, NEW m \in Models, Whole(m), ~InHand(m), InHand(m)', raw[m] # <<>>,
         raw' = [raw EXCEPT ![m] = Tail(@)], UNCHANGED produced, Sent' = Sent
  PROVE  Whole(m)'
<1>1. Len(raw'[m]) = Len(raw[m]) - 1
  BY TakeEffect
<1>2. /\ Count(Sent, Token(m)) \in Nat /\ Len(raw[m]) \in Nat /\ produced[m] \in Nat
  BY WholeTypes
<1>3. Count(Sent, Token(m)) + 0 + Len(raw[m]) = produced[m]
  BY DEF Whole, One
<1>4. Count(Sent, Token(m)) + 1 + (Len(raw[m]) - 1) = produced[m]
  BY <1>2, <1>3, Sums
<1> QED
  BY <1>1, <1>4 DEF Whole, One, Token

\* An event is sent: the token in hand, or one that is not m's.
LEMMA WholeSend ==
  ASSUME TypeOK, NEW m \in Models, Whole(m), NEW e \in Events, out' = Append(out, e),
         UNCHANGED <<written, raw, produced>>,
         \/ e = Token(m) /\ InHand(m) /\ ~InHand(m)'
         \/ e # Token(m) /\ (InHand(m)' <=> InHand(m))
  PROVE  Whole(m)'
<1>1. Sent' = Append(Sent, e)
  BY SentGrows
<1>2. /\ Count(Sent, Token(m)) \in Nat /\ Len(raw[m]) \in Nat /\ produced[m] \in Nat
      /\ Sent \in Seq(Events)
  BY WholeTypes
<1>3. Count(Sent', Token(m)) = Count(Sent, Token(m)) + One(e = Token(m))
  BY <1>1, <1>2, CountAppend
<1>4. CASE e = Token(m) /\ InHand(m) /\ ~InHand(m)'
  <2>1. Count(Sent, Token(m)) + 1 + Len(raw[m]) = produced[m]
    BY <1>4 DEF Whole, One
  <2>2. (Count(Sent, Token(m)) + 1) + 0 + Len(raw[m]) = produced[m]
    BY <1>2, <2>1, Sums
  <2>3. Count(Sent', Token(m)) = Count(Sent, Token(m)) + 1
    BY <1>3, <1>4 DEF One
  <2> QED
    BY <1>4, <2>2, <2>3 DEF Whole, One, Token
<1>5. CASE e # Token(m) /\ (InHand(m)' <=> InHand(m))
  <2>1. Count(Sent', Token(m)) = Count(Sent, Token(m))
    BY <1>2, <1>3, <1>5 DEF One
  <2> QED
    BY <1>5, <2>1 DEF Whole, One, Token
<1> QED
  BY <1>4, <1>5

LEMMA AheadQuiet ==
  ASSUME TypeOK, Ahead, Sent' = Sent, UNCHANGED count,
         pc' = "relay" \/ tripped' => pc = "relay" \/ tripped
  PROVE  Ahead'
<1>1. Count(Sent, Token("primary")) \in Nat /\ count \in Nat
  BY WholeTypes, ModelNames, GateAssumption DEF TypeOK
<1>2. Count(Sent, Token("primary")) + One(pc' = "relay" \/ tripped') <= count
  BY <1>1 DEF Ahead, One
<1> QED
  BY <1>2 DEF Ahead, One, Token

\* The primary's token in hand is sent, or an event of another kind.
LEMMA AheadSend ==
  ASSUME TypeOK, Ahead, NEW e \in Events, Sent' = Append(Sent, e), UNCHANGED <<count, tripped>>,
         pc' # "relay", e = Token("primary") => pc = "relay" /\ ~tripped
  PROVE  Ahead'
<1>1. /\ Sent \in Seq(Events) /\ Count(Sent, Token("primary")) \in Nat /\ count \in Nat
  BY WholeTypes, ModelNames, GateAssumption DEF TypeOK
<1>2. Count(Sent', Token("primary")) = Count(Sent, Token("primary")) + One(e = Token("primary"))
  BY <1>1, CountAppend
<1>3. CASE e = Token("primary")
  <2>1. Count(Sent, Token("primary")) + 1 <= count
    BY <1>3 DEF Ahead, One
  <2>2. Count(Sent', Token("primary")) + 0 <= count
    BY <1>1, <1>2, <1>3, <2>1 DEF One
  <2> QED
    BY <1>3, <2>2 DEF Ahead, One, Token
<1>4. CASE e # Token("primary")
  <2>1. Count(Sent', Token("primary")) = Count(Sent, Token("primary"))
    BY <1>1, <1>2, <1>4 DEF One
  <2>2. Count(Sent, Token("primary")) + One(pc' = "relay" \/ tripped') <= count
    BY <1>1 DEF Ahead, One
  <2> QED
    BY <2>1, <2>2 DEF Ahead, One, Token
<1> QED
  BY <1>3, <1>4

LEMMA CountStep ==
  ASSUME TypeOK, GateInv, PlaceInv, CountInv, [Next]_vars
  PROVE  CountInv'
<1> USE ModelNames
<1>0. /\ ~Done /\ ~tripped => Whole("primary")
      /\ ~Done => Whole("fallback")
      /\ Ahead
  BY DEF CountInv
<1>00. UNCHANGED <<written, out>> => Sent' = Sent
  BY DEF Sent
<1>000. UNCHANGED client => (Done' <=> Done)
  BY DEF client, Done
\* Nothing is sent or taken.
<1>1. ASSUME Sent' = Sent, UNCHANGED <<expired, handler, count, tripped, raw, produced>>,
             pc' = pc \/ {pc, pc'} \cap {"relay", "relayFallback"} = {}
      PROVE  CountInv'
  <2>1. Done' <=> Done
    BY <1>1 DEF Done
  <2>2. /\ InHand("primary")' <=> InHand("primary")
        /\ InHand("fallback")' <=> InHand("fallback")
    BY <1>1 DEF InHand
  <2>3. Ahead'
    BY <1>0, <1>1, AheadQuiet
  <2> QED
    BY <1>0, <1>1, <2>1, <2>2, <2>3, WholeQuiet DEF CountInv
<1>2. ASSUME NEW m \in Models, Read(m) \/ Close(m) \/ Drop(m) \/ Report(m) PROVE CountInv'
  BY <1>00, <1>1, <1>2 DEF Read, Close, Drop, Report, gate, client
<1>3. ASSUME NEW m \in Models, Push(m) PROVE CountInv'
  <2>1. /\ Sent' = Sent /\ UNCHANGED <<pc, count, tripped, client>>
        /\ \A x \in Models : x # m => raw'[x] = raw[x] /\ produced'[x] = produced[x]
    BY <1>00, <1>3, PushEffect DEF Push, gate, client
  <2>2. /\ InHand("primary")' <=> InHand("primary")
        /\ InHand("fallback")' <=> InHand("fallback")
    BY <2>1 DEF InHand
  <2>3. ASSUME NEW x \in Models, Whole(x) PROVE Whole(x)'
    <3>1. CASE x = m
      BY <1>3, <2>3, <3>1, WholePush
    <3>2. CASE x # m
      BY <2>1, <2>2, <2>3, <3>2, WholeQuiet DEF Models
    <3> QED
      BY <3>1, <3>2
  <2>4. Ahead'
    BY <1>0, <2>1, AheadQuiet
  <2> QED
    BY <1>0, <1>000, <2>1, <2>3, <2>4 DEF CountInv
<1>4. CASE Start \/ Aborted \/ EndOfPrimary \/ Leave \/ EndOfFallback
  BY <1>00, <1>1, <1>4 DEF Start, Launch, Models, Aborted, EndOfPrimary, Leave, EndOfFallback,
                           gate, source, client
<1>5. CASE Result
  BY <1>00, <1>1, <1>5 DEF Result, Launch, gate, client
<1>6. CASE TakePrimary
  <2>1. /\ pc = "primary" /\ ~tripped /\ raw["primary"] # <<>>
        /\ raw' = [raw EXCEPT !["primary"] = Tail(@)] /\ count' = count + 1
        /\ UNCHANGED <<produced, client>> /\ Sent' = Sent /\ pc' \in {"relay", "abort"}
        /\ ~tripped' => pc' = "relay"
    BY <1>00, <1>6 DEF TakePrimary, source, client, PlaceInv
  <2>2. raw'["fallback"] = raw["fallback"]
    BY <2>1, TakeEffect
  <2>3. ~Done' => Whole("fallback")'
    BY <1>0, <1>000, <2>1, <2>2, WholeQuiet DEF InHand
  <2>4. ~Done' /\ ~tripped' => Whole("primary")'
    BY <1>0, <1>000, <2>1, WholeTake DEF InHand
  <2>5. Ahead'
    <3>1. Count(Sent, Token("primary")) \in Nat /\ count \in Nat
      BY WholeTypes, GateAssumption DEF TypeOK
    <3>2. Count(Sent, Token("primary")) + 0 <= count
      BY <1>0, <2>1 DEF Ahead, One
    <3>3. Count(Sent, Token("primary")) + 1 <= count + 1 /\ Count(Sent, Token("primary")) + 0 <= count + 1
      BY <3>1, <3>2
    <3> QED
      BY <2>1, <3>3 DEF Ahead, One, Token
  <2> QED
    BY <2>3, <2>4, <2>5 DEF CountInv
<1>7. ASSUME NEW m \in Models, NEW where, Discard(m, where),
             <<m, where>> \in {<<"primary", "abort">>, <<"primary", "leave">>, <<"fallback", "leaveFallback">>}
      PROVE  CountInv'
  <2>1. /\ pc = where /\ raw[m] # <<>> /\ raw' = [raw EXCEPT ![m] = Tail(@)] /\ Sent' = Sent
        /\ UNCHANGED <<pc, count, tripped, produced, client>>
    BY <1>00, <1>7 DEF Discard, gate, source, client
  <2>2. Ahead'
    BY <1>0, <2>1, AheadQuiet
  <2>3. CASE Done
    BY <1>000, <2>1, <2>2, <2>3 DEF CountInv
  <2>4. CASE ~Done
    <3>1. m = "primary" /\ pc = "abort" /\ tripped
      BY <1>7, <2>1, <2>4 DEF PlaceInv
    <3>2. raw'["fallback"] = raw["fallback"]
      BY <2>1, <3>1, TakeEffect
    <3>3. Whole("fallback")'
      BY <1>0, <2>1, <2>4, <3>2, WholeQuiet DEF InHand
    <3> QED
      BY <2>1, <2>2, <3>1, <3>3 DEF CountInv
  <2> QED
    BY <2>3, <2>4
<1>8. ASSUME NEW e \in Events, NEW then, NEW else, Send(e, then, else),
             UNCHANGED <<gate, source, raw, client>>,
             \/ pc = "relay" /\ e = Token("primary") /\ then = "primary"
             \/ pc = "switch" /\ e = [kind |-> "switched", tier |-> "fallback"] /\ then = "result"
             \/ pc = "relayFallback" /\ e = Token("fallback") /\ then = "fallback",
             else \notin {"relay", "relayFallback"}
      PROVE  CountInv'
  <2>1. /\ UNCHANGED <<count, tripped, produced, raw, written>> /\ (Done' <=> Done)
    BY <1>000, <1>8 DEF gate, source, client
  <2>2. /\ Token("primary") # Token("fallback")
        /\ [kind |-> "switched", tier |-> "fallback"] \notin {Token("primary"), Token("fallback")}
    BY DEF Token
  <2>3. CASE out' = Append(out, e) /\ pc' = then
    <3>1. Sent' = Append(Sent, e)
      BY <2>1, <2>3, SentGrows
    <3>2. pc' # "relay" /\ (e = Token("primary") => pc = "relay" /\ ~tripped)
      BY <1>8, <2>2, <2>3 DEF PlaceInv
    <3>3. Ahead'
      BY <1>0, <2>1, <3>1, <3>2, AheadSend
    <3>4. /\ InHand("primary") <=> pc = "relay"
          /\ InHand("fallback") <=> pc = "relayFallback"
          /\ InHand("primary")' <=> pc' = "relay"
          /\ InHand("fallback")' <=> pc' = "relayFallback"
      BY DEF InHand
    <3>5. ASSUME NEW m \in Models, Whole(m) PROVE Whole(m)'
      <4>1. \/ e = Token(m) /\ InHand(m) /\ ~InHand(m)'
            \/ e # Token(m) /\ (InHand(m)' <=> InHand(m))
        <5>1. CASE m = "primary"
          BY <1>8, <2>2, <2>3, <3>4, <5>1
        <5>2. CASE m = "fallback"
          BY <1>8, <2>2, <2>3, <3>4, <5>2
        <5> QED
          BY <5>1, <5>2 DEF Models
      <4> QED
        BY <2>1, <2>3, <3>5, <4>1, WholeSend
    <3> QED
      BY <1>0, <2>1, <3>3, <3>5 DEF CountInv
  <2>4. CASE Done /\ UNCHANGED out /\ pc' = else
    <3>1. Ahead'
      BY <1>0, <1>00, <1>8, <2>1, <2>4, AheadQuiet
    <3> QED
      BY <2>1, <2>4, <3>1 DEF CountInv
  <2> QED
    BY <1>8, <2>3, <2>4 DEF Send
<1>9. CASE Relay \/ Switch \/ RelayFallback
  <2>1. CASE Relay
    <3>1. /\ pc = "relay" /\ Send(Token("primary"), "primary", "leave")
          /\ UNCHANGED <<gate, source, raw, client>>
      BY <2>1 DEF Relay, Token
    <3>2. Token("primary") \in Events
      BY EventTypes
    <3> QED
      BY <1>8, <3>1, <3>2
  <2>2. CASE Switch
    <3>1. /\ pc = "switch" /\ Send([kind |-> "switched", tier |-> "fallback"], "result", "returned")
          /\ UNCHANGED <<gate, source, raw, client>>
      BY <2>2 DEF Switch
    <3> QED
      BY <1>8, <3>1, EventTypes
  <2>3. CASE RelayFallback
    <3>1. /\ pc = "relayFallback" /\ Send(Token("fallback"), "fallback", "leaveFallback")
          /\ UNCHANGED <<gate, source, raw, client>>
      BY <2>3 DEF RelayFallback, Token
    <3>2. Token("fallback") \in Events
      BY EventTypes
    <3> QED
      BY <1>8, <3>1, <3>2
  <2> QED
    BY <1>9, <2>1, <2>2, <2>3
<1>10. CASE TakeFallback
  <2>1. /\ pc = "fallback" /\ pc' = "relayFallback" /\ raw["fallback"] # <<>>
        /\ raw' = [raw EXCEPT !["fallback"] = Tail(@)]
        /\ UNCHANGED <<count, tripped, produced, client>> /\ Sent' = Sent
    BY <1>00, <1>10 DEF TakeFallback, source, client
  <2>2. raw'["primary"] = raw["primary"]
    BY <2>1, TakeEffect
  <2>3. ~Done' /\ ~tripped' => Whole("primary")'
    BY <1>0, <1>000, <2>1, <2>2, WholeQuiet DEF InHand
  <2>4. ~Done' => Whole("fallback")'
    BY <1>0, <1>000, <2>1, WholeTake DEF InHand
  <2>5. Ahead'
    BY <1>0, <2>1, AheadQuiet
  <2> QED
    BY <2>3, <2>4, <2>5 DEF CountInv
<1>11. CASE Write
  <2>1. Sent' = Sent
    BY <1>11, SentMoves DEF Write
  <2> QED
    BY <1>1, <1>11, <2>1 DEF Write, gate, source
<1>12. CASE GiveUp \/ Expire
  <2>1. Sent' = Sent /\ UNCHANGED <<pc, count, tripped>> /\ Done'
    BY <1>00, <1>12 DEF GiveUp, Expire, gate, Done
  <2>2. Ahead'
    BY <1>0, <2>1, AheadQuiet
  <2> QED
    BY <2>1, <2>2 DEF CountInv
<1>13. CASE WriteDone
  <2> DEFINE x == [kind |-> "done", tier |-> tier]
  <2>1. /\ out = <<>> /\ UNCHANGED <<out, pc, count, tripped>> /\ Done' /\ pc = "returned"
        /\ written' = Append(written, x)
    BY <1>13 DEF WriteDone, gate, Done, PlaceInv
  <2>2. x \in Events /\ x # Token("primary") /\ written \in Seq(Events)
    BY EventTypes DEF TypeOK, Token
  <2> HIDE DEF x
  <2>3. Sent' = Append(Sent, x)
    BY <2>1, <2>2 DEF Sent
  <2>4. Ahead'
    BY <1>0, <2>1, <2>2, <2>3, AheadSend
  <2> QED
    BY <2>1, <2>4 DEF CountInv
<1>14. CASE UNCHANGED vars
  BY <1>00, <1>1, <1>14 DEF vars
<1> QED
  BY <1>2, <1>3, <1>4, <1>5, <1>6, <1>7, <1>9, <1>10, <1>11, <1>12, <1>13, <1>14
  DEF Next, Orchestrate, Handle

-----------------------------------------------------------------------------
(* The answer.                                                              *)

LEMMA DoneStep ==
  ASSUME TypeOK, PlaceInv, CountInv, DoneInv, [Next]_vars
  PROVE  DoneInv'
<1> USE ModelNames
<1>0. /\ tier \in Models /\ provider \in [Models -> {"off", "reading", "sending", "closed", "gone"}]
      /\ produced \in [Models -> 0..MaxTokens] /\ written \in Seq(Events)
      /\ handler \in {"loop", "returned"}
  BY DEF TypeOK
<1>1. CASE WriteDone
  <2>1. SUFFICES ASSUME ~expired PROVE DoneInv'
    BY <1>1 DEF WriteDone, DoneInv
  <2> DEFINE x == [kind |-> "done", tier |-> tier]
  <2>2. /\ ~Done /\ out = <<>> /\ pc = "returned" /\ written' = Append(written, x)
        /\ UNCHANGED <<pc, tier, tripped, errCh, produced>>
    BY <1>1, <2>1 DEF WriteDone, gate, source, Done, PlaceInv
  <2>3. Sent = written
    BY <1>0, <2>2 DEF Sent
  <2>4. Drained(tier) /\ (tier = "primary" => ~tripped /\ errCh = "nil")
    BY <2>2 DEF PlaceInv
  <2>5. Whole(tier)
    BY <1>0, <2>2, <2>4 DEF CountInv, Models
  <2>6. Count(written, Token(tier)) = produced[tier]
    <3>1. Count(written, Token(tier)) \in Nat /\ Len(raw[tier]) = 0 /\ One(InHand(tier)) = 0
      BY <1>0, <2>2, <2>4, CountType DEF Drained, One, InHand
    <3>2. Count(written, Token(tier)) + 0 + 0 = produced[tier]
      BY <2>3, <2>5, <3>1 DEF Whole
    <3> QED
      BY <3>1, <3>2
  <2>7. x \in Events /\ x # Token(tier)
    BY <1>0, EventTypes DEF Token
  <2>8. Count(written', Token(tier)) = produced[tier]
    <3>1. Count(written, Token(tier)) \in Nat
      BY <1>0, CountType
    <3>2. Count(written', Token(tier)) = Count(written, Token(tier)) + 0
      BY <1>0, <2>2, <2>7, CountAppend DEF One
    <3> QED
      BY <2>6, <3>1, <3>2
  <2>9. Len(written') > 0 /\ written'[Len(written')] = x
    BY <1>0, <2>2, <2>7
  <2> QED
    BY <2>2, <2>4, <2>8, <2>9 DEF DoneInv, Token
<1>2. CASE GiveUp
  BY <1>2 DEF GiveUp, DoneInv
<1>3. CASE Write \/ Expire
  BY <1>3 DEF Write, Expire, DoneInv
\* Once "done" is written only the other provider has something left to do.
<1>4. SUFFICES ASSUME UNCHANGED client, ~WriteDone, ~GiveUp, ~Write, ~Expire,
                      handler = "returned", ~expired
               PROVE  DoneInv'
  <2>1. \/ UNCHANGED client \/ Handle \/ Expire
    BY DEF Next, Orchestrate, Read, Push, Close, Drop, Report, Start, TakePrimary, Relay, Aborted,
       Switch, EndOfPrimary, Result, Leave, TakeFallback, RelayFallback, EndOfFallback, Discard,
       vars, client
  <2>2. \/ UNCHANGED client \/ WriteDone \/ GiveUp \/ Write \/ Expire
    BY <2>1 DEF Handle
  <2>3. CASE UNCHANGED client /\ ~(handler = "returned" /\ ~expired)
    BY <2>3 DEF client, DoneInv
  <2> QED
    BY <1>1, <1>2, <1>3, <1>4, <2>2, <2>3
<1>5. /\ pc = "returned" /\ Len(written) > 0
      /\ written[Len(written)] = [kind |-> "done", tier |-> tier]
      /\ Count(written, Token(tier)) = produced[tier]
      /\ tier = "primary" => ~tripped /\ errCh = "nil"
      /\ Drained(tier)
  BY <1>4 DEF DoneInv, PlaceInv
<1>6. ASSUME UNCHANGED <<pc, written, tier, tripped>>, produced'[tier] = produced[tier],
             tier = "primary" => UNCHANGED errCh
      PROVE  DoneInv'
  BY <1>4, <1>5, <1>6 DEF DoneInv, client, Token
<1>7. ASSUME NEW m \in Models, Read(m) \/ Close(m) \/ Drop(m) PROVE DoneInv'
  BY <1>6, <1>7 DEF Read, Close, Drop, gate, client
<1>8. ASSUME NEW m \in Models, Push(m) PROVE DoneInv'
  <2>1. m # tier
    BY <1>5, <1>8 DEF Push, Drained
  <2> QED
    BY <1>0, <1>6, <1>8, <2>1 DEF Push, gate, client
<1>9. ASSUME NEW m \in Models, Report(m) PROVE DoneInv'
  <2>1. tier = "primary" => m # "primary"
    BY <1>5, <1>9 DEF Report, PlaceInv
  <2> QED
    BY <1>6, <1>9, <2>1 DEF Report, gate, client
<1>10. CASE Orchestrate
  BY <1>5, <1>10
  DEF Orchestrate, Start, TakePrimary, Relay, Aborted, Switch, EndOfPrimary, Result, Leave,
      TakeFallback, RelayFallback, EndOfFallback, Discard
<1>11. CASE UNCHANGED vars
  BY <1>6, <1>11 DEF vars
<1> QED
  BY <1>4, <1>7, <1>8, <1>9, <1>10, <1>11 DEF Next, Handle

-----------------------------------------------------------------------------
(* The theorems.                                                            *)

LEMMA StreamInit == Init => StreamInv
<1> USE ModelNames
<1> SUFFICES ASSUME Init PROVE StreamInv
  OBVIOUS
<1>1. TypeOK
  <2>1. /\ raw \in [Models -> Seq(Tokens)] /\ \A m \in Models : Len(raw[m]) <= RawCap
        /\ out \in Seq(Events) /\ Len(out) <= OutCap /\ written \in Seq(Events)
    BY ChannelAssumption DEF Init
  <2>2. /\ holding \in [Models -> Tokens] /\ produced \in [Models -> 0..MaxTokens]
        /\ cancelled \in [Models -> BOOLEAN]
        /\ provider \in [Models -> {"off", "reading", "sending", "closed", "gone"}]
    BY GateAssumption DEF Init, Tokens
  <2>3. /\ expired \in BOOLEAN /\ tripped \in BOOLEAN /\ closed \in BOOLEAN
        /\ pc \in Places /\ token \in Tokens /\ errCh \in {"empty", "nil", "error"}
        /\ tier \in Models /\ handler \in {"loop", "returned"}
    BY Zenon DEF Init, Places, Tokens
  <2>4. count \in 0..MaxTokens /\ refusedAt \in 0..MaxTokens /\ hits \in 0..2
    BY GateAssumption DEF Init
  <2> QED
    BY <2>1, <2>2, <2>3, <2>4 DEF TypeOK
<1>2. PlaceInv /\ DoneInv
  BY DEF Init, PlaceInv, DoneInv, Done
<1>3. GateInv
  BY GateAssumption DEF Init, GateInv, Refused
<1>4. Sent = <<>> /\ Sent \in Seq(Events) /\ AllPrimary(Sent)
  BY DEF Init, Sent, AllPrimary
<1>5. SentInv
  BY <1>4, PrimaryTier DEF Init, SentInv
<1>6. \A e : Count(Sent, e) = 0
  <2>1. ASSUME NEW e PROVE Count(Sent, e) = 0
    <3>1. {i \in 1..Len(Sent) : Sent[i] = e} = {}
      BY <1>4
    <3> QED
      BY <3>1, FS_EmptySet DEF Count
  <2> QED
    BY <2>1
<1>7. CountInv
  BY <1>6 DEF Init, CountInv, Whole, Ahead, One, InHand
<1> QED
  BY <1>1, <1>2, <1>3, <1>5, <1>7 DEF StreamInv

\* The types, the places, the gate and the counts of a stream, whatever providers, client
\* and deadline do (StreamWithQualityGate, chatStream).
THEOREM StreamInvariant == Spec => []StreamInv
<1>1. StreamInv /\ [Next]_vars => StreamInv'
  BY TypesStep, PlaceStep, GateStep, SentStep, CountStep, DoneStep DEF StreamInv
<1> QED
  BY <1>1, StreamInit, PTL DEF Spec

\* The client reads a stream with one seam at most, announced when the gate tripped, and
\* "done" comes last.
THEOREM StreamIsWellFormed == Spec => []WellFormedStream
<1>1. StreamInv => WellFormedStream
  BY DEF StreamInv, SentInv, Seams, WellFormedStream
<1> QED
  BY <1>1, StreamInvariant, PTL

\* A client that stays reads all tokens of the tier that "done" names; it names the primary
\* only after a clean end of a stream the gate let pass.
THEOREM AnswerIsComplete == Spec => []CompleteAnswer
<1>1. StreamInv => CompleteAnswer
  <2>1. SUFFICES ASSUME StreamInv, handler = "returned", ~expired PROVE CompleteAnswer
    BY DEF CompleteAnswer
  <2>2. /\ written[Len(written)] = [kind |-> "done", tier |-> tier]
        /\ Count(written, Token(tier)) = produced[tier]
        /\ tier = "primary" => ~tripped /\ errCh = "nil"
    BY <2>1 DEF StreamInv, DoneInv
  <2>3. written[Len(written)].kind = "done" /\ written[Len(written)].tier = tier
    BY <2>2
  <2> QED
    BY <2>2, <2>3 DEF CompleteAnswer
<1> QED
  BY <1>1, StreamInvariant, PTL

\* Fewer tokens of a refusal than the number of the next look of the gate reach the client,
\* whatever the interval of the looks and the length of the answer.
THEOREM RefusalIsStopped == Spec => []RefusalStopped
<1>1. StreamInv => RefusalStopped
  <2>1. SUFFICES ASSUME StreamInv, refusedAt > 0, NEW look \in refusedAt..GateLast,
                        look % GateEvery = 0
                 PROVE  Count(Sent, Token("primary")) < look
    BY DEF RefusalStopped
  <2>2. /\ Count(Sent, Token("primary")) \in Nat /\ count \in Nat /\ refusedAt \in Nat
        /\ GateLast \in Nat
    BY <2>1, WholeTypes, ModelNames, GateAssumption DEF StreamInv, TypeOK
  <2>3. look \in Nat /\ IF tripped THEN count <= look ELSE count < look
    BY <2>1, <2>2 DEF StreamInv, GateInv
  <2>4. Count(Sent, Token("primary")) + One(pc = "relay" \/ tripped) <= count
    BY <2>1 DEF StreamInv, CountInv, Ahead
  <2>5. CASE tripped
    <3>1. Count(Sent, Token("primary")) + 1 <= count /\ count <= look
      BY <2>3, <2>4, <2>5 DEF One
    <3> QED
      BY <2>2, <2>3, <3>1
  <2>6. CASE ~tripped
    <3>1. One(pc = "relay" \/ tripped) \in Nat /\ count < look
      BY <2>3, <2>6 DEF One
    <3>2. Count(Sent, Token("primary")) <= count
      BY <2>2, <2>4 DEF One
    <3> QED
      BY <2>2, <2>3, <3>1, <3>2
  <2> QED
    BY <2>5, <2>6
<1> QED
  BY <1>1, StreamInvariant, PTL
=============================================================================
