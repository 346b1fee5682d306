------------------------------ MODULE Streaming ------------------------------
(***************************************************************************)
(* A streamed answer: StreamWithQualityGate (orchestrator/stream.go)       *)
(* between the goroutine of a provider's Stream and the SSE loop of        *)
(* chatStream (api/handler.go).                                            *)
(*                                                                         *)
(*   provider  --raw-->  StreamWithQualityGate  --out-->  chatStream       *)
(*                                                                         *)
(* raw and out are bounded channels.  A provider closes raw when its       *)
(* stream ends and only then hands its error to errCh.  The context ends   *)
(* when the client leaves, after 60 s, or when chatStream returns; ending  *)
(* it never interrupts a provider that is blocked on a full channel        *)
(* (OllamaProvider sends without a select).                                *)
(*                                                                         *)
(* A token is abstracted to whether it completes a refusal marker that the *)
(* text did not contain before ("marker") or not ("plain").                *)
(***************************************************************************)
EXTENDS Integers, Sequences, FiniteSets

CONSTANTS
    RawCap, OutCap,     \* capacity of the channels (64 in the code)
    GateEvery,          \* the gate looks at every GateEvery-th token (30) ...
    GateLast,           \* ... up to this one (120)
    MaxTokens           \* bound: tokens one provider produces

ASSUME ChannelAssumption == RawCap \in Nat \ {0} /\ OutCap \in Nat \ {0}
ASSUME GateAssumption == GateEvery \in Nat \ {0} /\ GateLast \in Nat /\ MaxTokens \in Nat

Models == {"primary", "fallback"}
Tokens == {"plain", "marker"}

VARIABLES
    expired,    \* the client has left, or 60 s are over
    pc,         \* StreamWithQualityGate
    token,      \* the token in its hands
    count,      \* tokenCount
    hits,       \* distinct refusal markers in buf, counted up to 2
    refusedAt,  \* history: the token that made the text a refusal, or 0
    tripped,
    cancelled,  \* per model: cancelStream or cancelFallback was called
    provider,   \* per model: "off", "reading", "sending", "closed" or "gone"
    holding,    \* per model: the token it is sending
    produced,   \* per model: how many tokens it has sent
    raw,        \* per model: the channel rawTokens
    errCh,      \* the primary's error: "empty", "nil" or "error"
    out,        \* the channel to chatStream
    closed,     \* out is closed
    tier,       \* what StreamWithQualityGate returned
    handler,    \* chatStream: "loop" or "returned"
    written     \* the events chatStream wrote to the client

vars == <<expired, pc, token, count, hits, refusedAt, tripped, cancelled, provider, holding, produced,
          raw, errCh, out, closed, tier, handler, written>>

Places == {"start", "primary", "relay", "abort", "switch", "leave", "result",
           "fallback", "relayFallback", "leaveFallback", "returned"}
Events == [kind : {"token"}, tier : Models]
            \cup {[kind |-> "switched", tier |-> "fallback"]}
            \cup [kind : {"done"}, tier : Models]

TypeOK ==
    /\ expired \in BOOLEAN /\ pc \in Places
    /\ token \in Tokens /\ count \in 0..MaxTokens /\ hits \in 0..2 /\ refusedAt \in 0..MaxTokens
    /\ tripped \in BOOLEAN /\ cancelled \in [Models -> BOOLEAN]
    /\ provider \in [Models -> {"off", "reading", "sending", "closed", "gone"}]
    /\ holding \in [Models -> Tokens]
    /\ produced \in [Models -> 0..MaxTokens]
    /\ raw \in [Models -> Seq(Tokens)] /\ \A m \in Models : Len(raw[m]) <= RawCap
    /\ errCh \in {"empty", "nil", "error"}
    /\ out \in Seq(Events) /\ Len(out) <= OutCap
    /\ closed \in BOOLEAN /\ tier \in Models
    /\ handler \in {"loop", "returned"}
    /\ written \in Seq(Events)

Init ==
    /\ expired = FALSE /\ pc = "start" /\ token = "plain"
    /\ count = 0 /\ hits = 0 /\ refusedAt = 0 /\ tripped = FALSE
    /\ cancelled = [m \in Models |-> FALSE]
    /\ provider = [m \in Models |-> "off"]
    /\ holding = [m \in Models |-> "plain"]
    /\ produced = [m \in Models |-> 0]
    /\ raw = [m \in Models |-> <<>>]
    /\ errCh = "empty"
    /\ out = <<>> /\ closed = FALSE /\ tier = "primary"
    /\ handler = "loop" /\ written = <<>>

client == <<expired, handler, written>>
gate == <<token, count, hits, refusedAt, tripped>>
source == <<provider, holding, produced>>

-----------------------------------------------------------------------------
(* A provider's Stream.                                                     *)

\* The context is over: expired, or ended by chatStream's deferred cancel().
Done == expired \/ handler = "returned"
Stopped(m) == Done \/ cancelled[m]

Becomes(m, s) == provider' = [provider EXCEPT ![m] = s]

\* The next token arrives.
Read(m) ==
    /\ provider[m] = "reading" /\ ~Stopped(m)
    /\ produced[m] < MaxTokens
    /\ \E t \in Tokens : holding' = [holding EXCEPT ![m] = t]
    /\ Becomes(m, "sending")
    /\ UNCHANGED <<pc, gate, cancelled, produced, raw, errCh, out, closed, tier, client>>

\* out <- token, once there is room.
Push(m) ==
    /\ provider[m] = "sending" /\ Len(raw[m]) < RawCap
    /\ raw' = [raw EXCEPT ![m] = Append(@, holding[m])]
    /\ produced' = [produced EXCEPT ![m] = @ + 1]
    /\ Becomes(m, "reading")
    /\ UNCHANGED <<pc, gate, cancelled, holding, errCh, out, closed, tier, client>>

\* The stream ends, well or not, and the provider closes the channel.
Close(m) ==
    /\ provider[m] = "reading"
    /\ Becomes(m, "closed")
    /\ UNCHANGED <<pc, gate, cancelled, holding, produced, raw, errCh, out, closed, tier, client>>

\* A provider that selects on its context while it sends (OpenAIProvider) drops the
\* token and ends.
Drop(m) ==
    /\ provider[m] = "sending" /\ Stopped(m)
    /\ Becomes(m, "closed")
    /\ UNCHANGED <<pc, gate, cancelled, holding, produced, raw, errCh, out, closed, tier, client>>

\* Its goroutine ends.  The primary's puts the error into errCh, which has room for
\* the one value it ever gets; the fallback's error is ignored.
Report(m) ==
    /\ provider[m] = "closed"
    /\ Becomes(m, "gone")
    /\ \/ m = "primary" /\ errCh' \in {"nil", "error"}
       \/ m = "fallback" /\ UNCHANGED errCh
    /\ UNCHANGED <<pc, gate, cancelled, holding, produced, raw, out, closed, tier, client>>

Drained(m) == raw[m] = <<>> /\ provider[m] \in {"closed", "gone"}

-----------------------------------------------------------------------------
(* StreamWithQualityGate.                                                   *)

Launch(m) ==
    /\ Becomes(m, "reading")
    /\ pc' = m

\* canUsePrimary: kill switch, semantic breaker and transport breaker are read.
Start ==
    /\ pc = "start"
    /\ \E m \in Models : Launch(m)
    /\ UNCHANGED <<gate, cancelled, holding, produced, raw, errCh, out, closed, tier, client>>

\* RefusalMarkerScore(buf) < 0.5: every marker costs 0.35.
Refused(h) == h >= 2

\* Mutant: the gate stops one look too early.
GateTrips_OffByOne(c, h) == c % GateEvery = 0 /\ c < GateLast /\ Refused(h)

\* The gate, asked at every GateEvery-th token.
GateTrips(c, h) == c % GateEvery = 0 /\ c <= GateLast /\ Refused(h)

\* Take a token from the primary: abort if the gate trips, relay it otherwise.
TakePrimary ==
    /\ pc = "primary" /\ raw["primary"] # <<>>
    /\ token' = Head(raw["primary"])
    /\ raw' = [raw EXCEPT !["primary"] = Tail(@)]
    /\ count' = count + 1
    /\ hits' = IF token' = "marker" /\ ~Refused(hits) THEN hits + 1 ELSE hits
    /\ refusedAt' = IF Refused(hits') /\ ~Refused(hits) THEN count' ELSE refusedAt
    /\ \/ /\ GateTrips(count', hits')
          /\ tripped' = TRUE /\ pc' = "abort"
          /\ cancelled' = [cancelled EXCEPT !["primary"] = TRUE]
       \/ ~GateTrips(count', hits') /\ pc' = "relay" /\ UNCHANGED <<tripped, cancelled>>
    /\ UNCHANGED <<source, errCh, out, closed, tier, client>>

\* sendToken: the event goes into out, or the context has ended; both may be
\* possible, and select picks either.
Send(event, then, else) ==
    \/ Len(out) < OutCap /\ out' = Append(out, event) /\ pc' = then
    \/ Done /\ UNCHANGED out /\ pc' = else

Relay ==
    /\ pc = "relay"
    /\ Send([kind |-> "token", tier |-> "primary"], "primary", "leave")
    /\ cancelled' = [cancelled EXCEPT !["primary"] = @ \/ pc' = "leave"]
    /\ UNCHANGED <<gate, source, raw, errCh, closed, tier, client>>

\* for range rawTokens {}: throw away what the provider still sends.
Discard(m, where) ==
    /\ pc = where /\ raw[m] # <<>>
    /\ raw' = [raw EXCEPT ![m] = Tail(@)]
    /\ UNCHANGED <<pc, gate, cancelled, source, errCh, out, closed, tier, client>>

\* After the abort: the provider has closed the channel.
Aborted ==
    /\ pc = "abort" /\ Drained("primary")
    /\ pc' = "switch"
    /\ UNCHANGED <<gate, cancelled, source, raw, errCh, out, closed, tier, client>>

\* Mutant: the switch is not announced.
Switch_Silent ==
    /\ pc = "switch" /\ pc' = "result"
    /\ UNCHANGED <<gate, cancelled, source, raw, errCh, out, closed, tier, client>>

\* The switch is announced; if the client is gone there is nothing left to do.
Switch ==
    /\ pc = "switch"
    /\ Send([kind |-> "switched", tier |-> "fallback"], "result", "returned")
    /\ closed' = (pc' = "returned")
    /\ tier' = "primary"
    /\ UNCHANGED <<gate, cancelled, source, raw, errCh, client>>

\* The primary's channel is closed and empty.
EndOfPrimary ==
    /\ pc = "primary" /\ Drained("primary")
    /\ pc' = "result"
    /\ cancelled' = [cancelled EXCEPT !["primary"] = TRUE]
    /\ UNCHANGED <<gate, source, raw, errCh, out, closed, tier, client>>

\* Mutant: a broken stream counts as a complete answer.
Result_IgnoreError ==
    /\ pc = "result" /\ errCh # "empty"
    /\ \/ /\ ~tripped
          /\ pc' = "returned" /\ tier' = "primary" /\ closed' = TRUE
          /\ UNCHANGED provider
       \/ tripped /\ Launch("fallback") /\ UNCHANGED <<tier, closed>>
    /\ UNCHANGED <<gate, cancelled, holding, produced, raw, errCh, out, client>>

\* <-errCh: a clean end is the answer, anything else starts the fallback.
Result ==
    /\ pc = "result" /\ errCh # "empty"
    /\ \/ /\ ~tripped /\ errCh = "nil"
          /\ pc' = "returned" /\ tier' = "primary" /\ closed' = TRUE
          /\ UNCHANGED provider
       \/ /\ tripped \/ errCh = "error"
          /\ Launch("fallback") /\ UNCHANGED <<tier, closed>>
    /\ UNCHANGED <<gate, cancelled, holding, produced, raw, errCh, out, client>>

\* Mutant: the client left, return without emptying the channel.
Leave_NoDrain ==
    /\ pc = "leave"
    /\ pc' = "returned" /\ tier' = "primary" /\ closed' = TRUE
    /\ UNCHANGED <<gate, cancelled, source, raw, errCh, out, client>>

\* The client left during the primary stream: wait for the provider, then return.
Leave ==
    /\ pc = "leave" /\ Drained("primary") /\ errCh # "empty"
    /\ pc' = "returned" /\ tier' = "primary" /\ closed' = TRUE
    /\ UNCHANGED <<gate, cancelled, source, raw, errCh, out, client>>

TakeFallback ==
    /\ pc = "fallback" /\ raw["fallback"] # <<>>
    /\ token' = Head(raw["fallback"])
    /\ raw' = [raw EXCEPT !["fallback"] = Tail(@)]
    /\ pc' = "relayFallback"
    /\ UNCHANGED <<count, hits, refusedAt, tripped, cancelled, source, errCh, out, closed, tier, client>>

RelayFallback ==
    /\ pc = "relayFallback"
    /\ Send([kind |-> "token", tier |-> "fallback"], "fallback", "leaveFallback")
    /\ cancelled' = [cancelled EXCEPT !["fallback"] = @ \/ pc' = "leaveFallback"]
    /\ UNCHANGED <<gate, source, raw, errCh, closed, tier, client>>

\* The fallback's channel is closed: done, whether the client is there or not.
EndOfFallback ==
    /\ pc \in {"fallback", "leaveFallback"} /\ Drained("fallback")
    /\ pc' = "returned" /\ tier' = "fallback" /\ closed' = TRUE
    /\ cancelled' = [cancelled EXCEPT !["fallback"] = TRUE]
    /\ UNCHANGED <<gate, source, raw, errCh, out, client>>

Orchestrate ==
    \/ Start \/ TakePrimary \/ Relay \/ Aborted \/ Switch \/ EndOfPrimary \/ Result \/ Leave
    \/ TakeFallback \/ RelayFallback \/ EndOfFallback
    \/ Discard("primary", "abort") \/ Discard("primary", "leave")
    \/ Discard("fallback", "leaveFallback")

-----------------------------------------------------------------------------
(* chatStream.                                                              *)

Write ==
    /\ handler = "loop" /\ out # <<>>
    /\ written' = Append(written, Head(out))
    /\ out' = Tail(out)
    /\ UNCHANGED <<expired, pc, gate, cancelled, source, raw, errCh, closed, tier, handler>>

\* out is closed and empty: the final event names the tier.
WriteDone ==
    /\ handler = "loop" /\ out = <<>> /\ closed
    /\ written' = Append(written, [kind |-> "done", tier |-> tier])
    /\ handler' = "returned"
    /\ UNCHANGED <<expired, pc, gate, cancelled, source, raw, errCh, out, closed, tier>>

GiveUp ==
    /\ handler = "loop" /\ expired
    /\ handler' = "returned"
    /\ UNCHANGED <<expired, pc, gate, cancelled, source, raw, errCh, out, closed, tier, written>>

\* The client disconnects, or 60 s are over.
Expire ==
    /\ ~expired /\ handler = "loop" /\ expired' = TRUE
    /\ UNCHANGED <<pc, gate, cancelled, source, raw, errCh, out, closed, tier, handler, written>>

Handle == Write \/ WriteDone \/ GiveUp

Next ==
    \/ \E m \in Models : Read(m) \/ Push(m) \/ Close(m) \/ Drop(m) \/ Report(m)
    \/ Orchestrate \/ Handle \/ Expire

Spec == Init /\ [][Next]_vars

\* Goroutines that can run do, and a provider's stream ends by its timeout if not
\* before.  Nothing is assumed of Drop (OllamaProvider has none) and of Expire.
FairSpec ==
    /\ Spec
    /\ WF_vars(Orchestrate) /\ WF_vars(Handle)
    /\ \A m \in Models : WF_vars(Read(m) \/ Push(m) \/ Close(m) \/ Report(m))

-----------------------------------------------------------------------------
(* Properties.                                                              *)

Sent == written \o out
Token(m) == [kind |-> "token", tier |-> m]
Count(events, e) == Cardinality({i \in 1..Len(events) : events[i] = e})

\* What the client reads has at most one seam: nothing of the primary follows an event
\* of the fallback, and when the gate tripped the fallback's first event is the one
\* "switched" (sendToken in StreamWithQualityGate); "done" is last.
WellFormedStream ==
    \A i \in 1..Len(Sent) :
        /\ Sent[i].kind = "done" => i = Len(Sent)
        /\ i > 1 /\ Sent[i-1].tier = "fallback" =>
              Sent[i].tier = "fallback" /\ Sent[i].kind # "switched"
        /\ tripped /\ Sent[i] = Token("fallback") =>
              \E j \in 1..i-1 : Sent[j].kind = "switched"

\* A client that stays reads a complete answer: the last event is "done" and every
\* token of the tier it names was relayed; the primary is named only if its stream
\* ended without error and the gate let it pass.
CompleteAnswer ==
    handler = "returned" /\ ~expired =>
        LET last == written[Len(written)] IN
        /\ last.kind = "done"
        /\ Count(written, Token(last.tier)) = produced[last.tier]
        /\ last.tier = "primary" => ~tripped /\ errCh = "nil"

\* A refusal goes no further than the next look of the gate (every 30 tokens up to the
\* 120th): the token looked at, and all after it, stay away from the client.
RefusalStopped ==
    refusedAt > 0 => \A look \in refusedAt..GateLast :
        look % GateEvery = 0 => Count(Sent, Token("primary")) < look

\* Whatever the client does, StreamWithQualityGate and chatStream return and no
\* provider's goroutine stays blocked on its channel (the drain loops).
EveryoneLeaves ==
    <>(/\ pc = "returned" /\ handler = "returned"
       /\ \A m \in Models : provider[m] \in {"off", "gone"})
=============================================================================
