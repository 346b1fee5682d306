# AgentShield: a TLA+ verification project

AgentShield is a Go service in front of language models. A question goes to a primary
model; if that model is down, slow or answering badly, the request falls through to a
fallback model, then to a semantic cache, and in the end to a polite denial. This
directory holds TLA+ models of the parts that decide who answers and of those around them
(limits, notifications, telemetry, verdicts, prompts, tools), the TLC configurations that
check them, and TLAPS proofs of what matters most.

Paths below are relative to `src/`.

## 1. Inventory

### Components, their state and their operations

| Component | State | Operations | Modelled in |
|---|---|---|---|
| Semantic circuit breaker (`quality/breaker.go`) | score window, state, openAt, consecutiveGood, probeInFlight, thresholds, calibration and drift | `ShouldBlock`, `Record` (with `calibrate`, `updateState`) | `SemanticBreaker`, `BreakerGate` |
| Chaos switches (`orchestrator/chaos.go`, `agent/chaos.go`, demo handlers in `api/handler.go`) | one atomic flag, timer slot and generation per fault; chaosRunning; the channel of scenario events | Kill/Restore, arm, cancel, timer callback, `TryStart`/`Done`, the script, its events | `Chaos`, `ChaosStream` |
| Semantic cache (`cache/semantic.go`) | slice of entries | `Get`, `Set`, `prune`, the embedding goroutine | `SemanticCache` |
| Degradation chain (`orchestrator/orchestrator.go`) | per request: trace, hedged call; shared: breakers, cache, counters | `Degrade`, `tryPrimary`, `tryFallback` | `Orchestrator`, `Shield` |
| Admission and ReAct (`agent/agent.go`, `agent/react.go`) | totalRequests, load shedder, two bulkheads, turn | `Ask`, `AskBatch`, `React`, `Compare` | `Orchestrator`, `Conversation`, `Transcript`, `Evaluator` |
| Streaming (`orchestrator/stream.go`, `chatStream` in `api/handler.go`, `Stream` of the providers) | two bounded channels, an error channel, contexts | token relay, quality gate, switch, disconnect | `Streaming` |
| Sessions and traces (`memory/*.go`) | session histories with TTL, map of traces, score history | `GetOrCreate`, `Add`, `Delete`, cleanup, `AddStep`, `Record` | sessions in `Conversation`, trace steps in `Orchestrator`, scores in `Telemetry` |
| Tools (`agent/tool.go`, `agent/toolcache.go`, `agent/mcp_tool.go`) | registry, LRU of results | `Execute`, `Get`, `Set`, the calculator | `Conversation`, `Calculator` |
| Transcript summarization (`agent/summarize.go`) | the growing prompt of a ReAct run | `summarizeTranscript`, `abbreviate`, the final cut | `Transcript` |
| HTTP API and rate limiter (`api/*.go`) | sliding window per client and kind of route, in an LRU map | `middleware`, `compareMiddleware`, `allow`, eviction, `clientIPFor` | `Api` |
| Webhook (`telemetry/webhook.go`, callbacks in `agent/agent.go`) | URL, places for posts under way | `SetURL`, `Fire`, the announcing goroutines, URL validation | `Webhook` |
| Telemetry (`telemetry/*.go`, `Status` in `agent/agent.go`) | tier counts, latency windows, score history | `Record`, `Percentile`, `ComputeScore`, `Status` | `Telemetry`, tier counts also in `Orchestrator` |
| Quality evaluator (`quality/evaluator.go`, `provider/degraded.go`) | ring of reply lengths | `Evaluate` and its five signals, `degradedText` | `Evaluator` |
| Providers (`provider/*.go`) | none | `Complete`, `Stream`, `Embed` | sending side of `Stream` in `Streaming` |
| Configuration, start-up, dashboard, benchmarks | none of interest | - | not modelled |

### How they interact

A request goroutine runs `Ask` -> load shedder -> bulkhead -> `Degrade`. `Degrade` reads
the chaos flags, asks the semantic breaker's `ShouldBlock`, goes through the transport
breaker and a hedge (library code), evaluates the text, reports it with `Record`, and
stores it with the cache's `Set`; every exit adds a step to the trace and a count to the
cost tracker. Breakers, flags, cache and counters are shared by all requests; each has its
own lock and nothing holds two locks at once, so every call is atomic and whatever lies
between two calls interleaves. Streaming takes the same decision once and then moves
tokens through two channels between three goroutines. Timers (auto-restore) and embedding
goroutines act on shared state long after the call that started them.

### What is hard, and what has to hold

* **Breaker**: a caller asks, works for seconds, and reports. Reports from before a trip
  arrive in the middle of the recovery; some callers never report. Cooldown, probe slot
  and recovery count must survive any order.
* **Chaos**: flag and timer are changed in separate steps; a callback checks under the
  lock and acts after it. A killed model must come back in bounded time.
* **Cache**: an index remembered across an unlock, filtering in place, a copied slice
  searched after the lock was released. Capacity, relevance and no stray vectors.
* **Chain**: every combination of failing tiers must end in one answer, no flagged text
  may get out although two copies of a call write one variable, and trace and counters must
  agree with what happened.
* **Conversations**: a request reads its session, works for up to two minutes and writes
  twice; deletion, expiry and other requests come in between. No half exchanges, no
  forgotten ones, a bounded history; tool results only from calls that succeeded.
* **Streaming**: three goroutines, two bounded channels, cancellation at any point. No
  goroutine may be left blocked and the client must read one coherent answer.
* **Limiter**: windows are lost when the map is full; headers name clients only if a trusted
  peer sent them, one header goes before the other, and a list may hold what earlier hops wrote.
  Nobody may be refused for another's requests.
* **Webhook**: two goroutines per notification, a URL that changes under them, a bounded
  number of posts. Places must come back, and a receiver must be able to tell the state.
* **Telemetry**: `Status` loads some twenty values without a lock, so it reports mixtures.
* **Evaluator**: one length baseline for all requests, moved by the degraded texts too.
* **Transcript**: a summary written by a model, of any length, of summaries of summaries.

`PROJECT.json` lists each of these as a hazard with its line and properties.

## 2. Modules

| Module | Role |
|---|---|
| `BreakerGate` | abstract breaker: closed or open, one probe slot, a streak |
| `SemanticBreaker` | the breaker in detail; implements `BreakerGate` |
| `Shield` | abstract service: a request is answered once, denied, or its caller gave up; the text is unflagged unless one slipped past the quality check |
| `Orchestrator` | admission and chain; uses `BreakerGate` for its two breakers, implements `Shield` |
| `Chaos` | kill switches, timers, scenario |
| `SemanticCache` | response cache |
| `Streaming` | provider, gate and SSE loop |
| `Conversation` | ReAct requests, session store, tool cache |
| `Api` | routes, client addresses, per-client limiter |
| `Webhook` | announcing breaker changes to a URL that operators change |
| `Telemetry` | `Status`, latency percentiles, resilience score |
| `Transcript` | the prompt of a ReAct run and its summarization |
| `Evaluator` | concurrent quality verdicts, `Compare`, degrade mode's texts |
| `Calculator` | the calculate tool's parser against a grammar |
| `ChaosStream` | events of the chaos scenario on their way to a client, or to nobody |
| `Rings` | the ring buffer that `Telemetry` and `Evaluator` share |
| `Filter` | the loop that keeps some elements of a slice, for `SemanticCache`, `Conversation` and `Api` |
| `Sums` | the loop that adds up, for `Evaluator` and `Transcript` |
| `MC...` | instances for TLC (symmetry sets, the similarity table, the table of cache keys); `MCSupport` is the sum of `SemanticCache` and the seven modules from `Api` to `ChaosStream` |
| `FilterTheorems` | what such a loop keeps, and the least-number argument that stands in for induction |
| `SemanticBreakerProofs`, `ChaosProofs`, `OrchestratorProofs`, `SemanticCacheProofs`, `StreamingProofs`, `ConversationProofs` | theorems about the module of that name |
| `SupportProofs` | theorems about the other parts of `MCSupport`: `Webhook`, `Api`, `ChaosStream`, `Telemetry`, `Evaluator`, `Transcript` |

So the breaker is verified once against its real window and thresholds, and the chain is
verified against the breaker's contract: the two halves meet in `BreakerGate`.

Operators named `X_Something` directly above an operator `X` are faulty variants of it
(a dropped guard, an off-by-one, a missing reset). No specification uses them; each
one, put in the place of `X`, breaks a property, which shows the property is not empty.

### Correspondence with the code

**SemanticBreaker.** `ShouldBlock` and `Record` hold `sb.mu` throughout, so each is one
action. `Record` is `Learn` (calibration, then drift), `Push` (the circular window) and
`UpdateState`, whose alternatives are the branches of `updateState` in order. Scores are
hundredths; `avg < t` is `sum < t * samples`, so no division is needed; the standard
deviation is the largest integer whose square does not exceed the variance. openAt is kept
as its age, saturating at `OpenTimeout`. `calling`, `probes`, `staleRecords`, `sinceBad`
and `goodRun` are history: who is out, as what, and what an episode has seen. `Abandon` is
the early return of `tryPrimary` after a transport error (`orchestrator.go:319`) and every
streamed answer (`stream.go:33`): `ShouldBlock` without `Record`. The long-term count
saturates at `MaxLongTerm`, where `Learn` goes on but the count stands still.

**Chaos.** The flag is an atomic written outside `c.mu`, so Kill is `StoreKilled` then
`ScheduleAutoRestore`, Restore is `StoreRestored` then `CancelTimer`. `Fire` is the runtime
starting the callback; if the goroutine still has to wait for the lock it is in `queued`;
`CallbackCheck` is its critical section and `CallbackRestore` the `restore()` after it.
Time stands still while a goroutine is between two such steps, because those take
microseconds and a tick is a good part of five minutes. `Exclusive` says whether operators
wait for each other on a slot (`Admitted`). The code does not make them, and the run
`chaos_race` shows what follows; with `Exclusive` the promised bound holds.

**SemanticCache.** `Set` reads the clock (`SetBegin`), then prunes and appends under the
lock (`SetLocked`) and starts a goroutine that stores the vector later (`EmbedDone`) or
never (`EmbedFailed`). `Get` copies the slice under the lock (`GetBegin`) and searches it
afterwards (`GetEnd`). `Pruned` computes the exact contents `prune` leaves in the shared
array, including the entries its clean-up loop zeroes. The loop that keeps the live entries
is `Filter`'s `Pick`: the elements at the kept positions, in order. `MCSemanticCache` assumes
(and TLC evaluates) that on small slices it is the library's `SelectSeq`; a definition without
recursion is what the proofs need. Cosine similarity is the table `Sim`.

**Orchestrator.** One action per call that other requests can interleave with: the kill
switch and `ShouldBlock` (`Try`), the transport breaker (`Dial`), the copies of the hedged
call (`Hedge`, `Return`), the end of `hedge.Do` (`Collect`), evaluation and `Record`
(`Evaluate`), caching and counting (`Serve`), the cache and the denial (`LookUp`),
`NextTurn` and `Finish`. Both copies of a hedged call write the captured variable `result`.
Load shedder, bulkhead, hedge, retry and transport breaker come from a library outside the
repository and are modelled by how the code uses them: they may refuse at any time. The hedge
returns with the first copy that succeeds, as the repository describes it
(`docs/architecture/05-glossary.md:92-99`, `agent/tool.go:407-408`); the other copy may
still come back, with an error or with a text, as long as the request is in the chain, and
`slipped` remembers the requests whose judged text it replaced by a flagged one.

**Streaming.** One action per channel operation: a provider reads, pushes and closes;
`StreamWithQualityGate` takes, looks, relays or aborts, drains, switches; `chatStream`
writes, finishes or gives up. A token is "plain" or "marker" (it completes a refusal marker
the text did not contain before); two markers push `RefusalMarkerScore` below 0.5. Providers
that select on their context (`Drop`) and those that do not are both covered.

**Conversation.** `GetOrCreate`, `Messages` and the two `Add`s of `React` are separate
steps, because each takes and releases the store's lock; `Delete` and `Cleanup` come in
between. A turn of the loop touches only the request's own tool cache and is one step: the
cache answers (`Promoted`), or the registry runs the tool (`Results`) and a success is
stored (`Stored`). A tool's result is represented by the call that produced it, and
`KeyOf` stands for `normKey` after the input was cut at 2 KB: two calls may share a key.
The age of a session is kept instead of its LastUsed, the age of a request instead of the
handler's 120 s deadline. `log`, `uses` and `lost` are history.

**Api.** A header value is the sequence of its comma-separated parts. A request has a true
origin, a header that was written before it reached the last hop (`told`), and a way in:
directly, or by a trusted proxy that replaces `X-Forwarded-For`, appends to it, or sets
`X-Real-IP` and lets `X-Forwarded-For` through. `ClientIPFor` sees the peer and the two headers
that come of this and nothing else; like the code it prefers `X-Forwarded-For`, takes what stands
before the first comma, and the whole value if the comma comes first. `Misnamed` is said of the
way in: a proxy passed on a list that does not start with the origin. `Charges` collects what
requests come to for the limiter, so that TLC does not repeat a step for each way to send one.
A request passes the limiter under its lock and is one step: the name, the entry found, created or made room for (`Touch`), `Allow` (library code), the handler or 429.
Both kinds of window live in one map under different keys, as in the code, so compare
requests evict chat windows. A window counts its requests by their age (`Total`, the number
of them within the window). `served`, `idle`, `own`, `misled` and `refused`
are history: what was served under a key and to its client, and since when nobody else came under
its name.

**Webhook.** `Announce` is `Record` changing the state and starting a goroutine; `ReadURL`
the goroutine's read of the URL, `Fire` its try for a place or its drop, `Post` the end of
the second goroutine. `SetWebhook` and `ClearWebhook` are the handlers; `ValidateWebhookURL`
is the check of a URL's scheme and host.

**Telemetry.** Each load of `Status` is a step (`Looks` is their order); requests, breakers
and switches write in between. `ComputeScore` is a sum of points over what was loaded.
The sort in `percentile` is `Sorted`, which puts a sample after those before it in the order of
values and then of places; `MCSupport` assumes (and TLC evaluates) that on small sequences it
is the library's `SortSeq`.

**Transcript.** A line is its words, its bytes, the turn that wrote it and whether it is an
observation. `Ask` is a turn of `React`'s loop, `Check` the summarization in front of it; the
fallback model's summary is any text of the given sizes, or none. Loops over lines are given by
what they leave: the observations whose bytes add up to at most `MaxAbbrev` (`Excerpts`), the
lines with fewer than n bytes after them (`LastBytes`).

**Evaluator.** `Evaluate` is split where the code releases a lock or waits: reading the
baseline and adding to it, then the embedder. Scores are thousandths. `Compare` evaluates two
replies with an evaluator of its own. Which phrases are refusals is left out: a reply has a
number of hits.

**Calculator.** The parser operators return value, position and error flag, and read on after
an error as the code does; what stands in parentheses is looked up in the function `expr`,
which is defined by them in turn. The reference is a grammar that relates stretches of tokens to
values. Fractions stand for floats, `abs` for all functions of one argument.

**ChaosStream.** `Emit` is `emit`'s select between channel and context; `Receive` is the
loop of `chaosStream`, `Expire` the deadline or a client who leaves. The counts are the real ones: 29 events, a channel of 64.

**MCSupport.** The eight parts share no state, so a behaviour picks one and leaves the others
where they start.

## 3. Runs

| Run | What it shows |
|---|---|
| `breaker` | Three goroutines, window of 3, two calibration samples, scores bad, mediocre and good, calls that may never report. `ProbeDiscipline`: at most one probe is out, plus one per late report of a call from before the trip. `CooldownRespected`: no probe within `OpenTimeout` of a bad score. `RecoveryEarned`: closing takes `RecoverySamples` good answers without a bad one among them. `ThresholdBand`: learned thresholds stay ten points apart. `ImplementsGate`: the contract used by `Orchestrator`. `RecoversOrProbeLost`: once only good answers come, the breaker ends up healthy for ever, although the window still holds old scores, unless a probe was lost. |
| `breaker_probe_leak` | (violation) If a probe may end without a report, the breaker can stay open for ever. |
| `chaos` | Two operators, one of whom may run the scenario, at most one at a time on a slot: a slot's timer, its generation and the callbacks under way always agree (`OneLiveTimer`), one scenario at a time, a kill lasts at most the timeout (`KillBounded`) and is undone even if the model is killed again and again (`KillSelfHeals`). |
| `chaos_race` | (violation) With two concurrent operators a kill can outlive the timeout. |
| `cache_eviction` | (violation) `prune` drops a newer entry and keeps an older one. |
| `orchestrator` | Two concurrent requests, each interactive, batch or ReAct, one slot each, whose callers may give up in the queue, and hedged copies that may come back late. `FlaggedOnlyIfSlipped`: a flagged text is served only by the primary of a request whose late copy replaced the judged text, or out of the cache it filled. `TierCountsInSync`: requests and turns against tier counts. `TraceTellsTheStory`: the trace is a complete account. `AnswersEveryone`: the chain implements `Shield`, with liveness. |
| `hedge_late_write` | (violation) One request: the slower copy of the hedged call writes `result` after the verdict, and the flagged text is served. |
| `streaming` | Channels of capacity 1, a gate that looks at every second token up to the fourth, five tokens per provider: one seam, complete answers, refusals stopped at the next look, nobody left blocked. |
| `conversation` | Two requests, one session with three messages, three turns, four tool calls with three keys, a tool cache of two: an exchange is stored whole unless its session was removed under it; a request is told of every exchange finished before; the cleanup spares running requests and forgets all others in the end; the tool cache is an exact LRU of successful calls. |
| `support` | The parts around the chain. `OnlyACrowdOverflows`: a client gets past its limit only if more clients than the map holds were active in that window. `RefusedAtOwnLimit`: 429 only after one's own full limit, or if a proxy let another's request come under one's name within the window. `SizeBounded`, `VectorMatchesPrompt`, `HitIsRelevant`, `LossBounded` (cache; two goroutines, three prompts of which two are paraphrases, cap 2): size, vectors, relevance of hits; a `Set` costs no live entry while there is room and at most two at the cap. `StateReconstructible`: events that have all arrived tell the breaker's state in any order. `PlacesMatchPosts`, `NothingAfterClear`: places come back, and changes made after the URL was cleared are not sent. `TornCountsAreSafe`: a torn `Status` never overstates availability, nor shows more answers than requests and turns. `RingsTellTheLatest`: percentiles and score history are about the last calls. `SummaryBounded`: a summarization leaves fewer tokens, or no more than the cut's marker and half of the bytes (or the cut's minimum). `VerdictIsFair`: degraded texts always fail and a plain answer never does, whatever others did to the baseline. `CalculatorFollowsGrammar`: accepted inputs and values are those of the grammar. `ScenarioNeedsNoAudience`: a scenario nobody watches never blocks, and one that is watched to its end is told completely. |
| `transcript_recent` | (violation) The newest turn is not kept intact by a summarization. |
| `transcript_shrinks` | (violation) A summarization that lowers the tokens raises the bytes. |

What some of these properties leave open: `LossBounded` allows the second entry that `prune`
zeroes, which `cache_eviction` is about; `CompleteAnswer` takes a fallback that ends early without an
error for complete; `ExchangeStored` exempts requests whose session was removed under them, so half an
exchange in a session created anew is not excluded; `StateReconstructible` tells the state, not the
order in which events happened; `OneLiveTimer` is about timers, not about a callback that is past its
check; `RefusalStopped` and `NothingAfterClear` have the gaps named in section 5.

### Bounds

* Breaker: the window wraps after three scores; three goroutines allow a probe, a late
  report and a third party at once; 20, 50, 95 fall below failing, between the thresholds
  and above. `MaxLongTerm` stops the long-term count once drift has been judged several
  times.
* Chaos: `MaxGen` generations per slot are enough for restore, kill again, restore again
  and a stale callback; `Timeout` 2 distinguishes a fresh timer from an old one.
* Cache: two entries make every `Set` after the second evict; the eviction run uses three
  so that compaction and eviction can meet. One embedding under way when a `Set` starts
  still lets two overlap. A `Get` changes nothing that another reads, so one search at a time
  (`MaxSearches`) next to a `Set` is enough.
* Orchestrator: two requests are the fewest that share a breaker, a cache and a slot. Both may be
  ReAct, of two turns; a request goes on to its second turn only while no other request has
  begun, and none begins after it did (`TurnsAlone`, in the fairness too), so second turns are
  explored with everything an earlier turn may have left, but not against a concurrent request.
* Conversation: two exchanges are four messages, one more than a session keeps; `MaxRun` =
  `TTL` is the tightest case the code's constants allow (120 s against 30 min); three uses
  of a cache of two reach both an eviction and a hit out of order.
* Streaming: capacity 1 makes both channels full as early as possible; 5 tokens reach past
  the last look (4).
* Api: two addresses with two kinds of window are four keys, one more than the map holds, so
  that eviction happens with and without a crowd; one peer is a trusted proxy, one is not. One
  request per key is served within a tick (`MaxPerTick`), so a chat limit of 2 takes a whole
  window of two ticks to use up, and only the compare limit of 1 can be overrun. `Told` is no
  header or one list of two addresses, which is right for one client and wrong for the other;
  lists that start with a comma are covered by the proof only.
* Webhook: two breakers, two places and three changes make one of them find no place.
* Telemetry: rings of two are part full, full and wrapped after three writes (`MaxWrites`);
  behaviours in which breakers or switches change too have two (`MaxMixed`).
* Transcript: thresholds small enough that four turns summarize a summary; words of 1 and 30
  bytes and observations of 1 and 12 lines separate tokens from bytes and lines from turns.
  `transcript_recent` and `transcript_shrinks` use the sizes of the code's prompt, abbreviation
  and minimum, with a small threshold.
* Evaluator: two callers, a window of two lengths, three evaluations: each reply is judged
  against the baseline of any two others.
* Calculator: every input of up to five tokens out of eleven.

### Fairness

* Breaker: requests keep coming, calls end (provider timeouts), time passes. A call is never
  forced to be abandoned, and `RecoversOrProbeLost` assumes good answers only from some
  point on.
* Chaos: goroutines that entered a handler or callback leave it. Time is strongly fair:
  operators may be active again and again, and the clock still advances between them.
* Orchestrator: a goroutine that can move does; provider calls and admission waits have
  timeouts. No request is required to arrive.
* Conversation: a running `React` goes on (every model and tool call has a timeout), the
  clock and the cleanup's ticker run. Requests need not arrive and nobody has to delete.
* Streaming: goroutines that can run do, and a provider's stream ends (client timeout).
  Nothing is assumed of the client leaving, nor of `Drop`, which Ollama's provider lacks.

`CHECK_DEADLOCK FALSE` is used where the system comes to rest when all requests are done.

## 4. Theorems

All hold for every value of the constants that satisfies the modules' assumptions.

**SemanticBreakerProofs.** The inductive invariant `IInv` is the conjunction of the type
invariant, `ProbeDiscipline`, `StaleRecordsBounded`, `ProbeSlotOwned`, `EpisodeInv`,
`ThresholdBand`, `CalibrationNotPoisoned` and `SamplesAcceptable`. None of the
interesting ones is inductive alone: the probe bound needs that an episode starts without
probes (`EpisodeInv`); the cooldown needs that openAt is never older than the last bad
answer; the recovery count needs that it equals the history's run; the clamps need that
the sum of the samples is at least `QualityAcceptable` times their number. From it follow
`BreakerTypeOK`, `BreakerProbeDiscipline`, `BreakerSlot`, `BreakerCalibration`, the action
properties `BreakerCooldown`, `BreakerRecovery`, `BreakerCalibratesOnce`, and the
refinement `BreakerImplementsGate`. The assumption that matters is that the configured
thresholds are at least ten points apart.

**ChaosProofs.** `ChaosHandshake`: for any number of operators, a slot holds a timer
exactly when one callback with its current generation is running or waiting.
`ChaosScenarioExclusive`. `ChaosSerialBound`: if operators wait for each other on a slot
(`Exclusive`) a kill lasts at most the timeout, for any number of operators; the
strengthening `SerialInv` says that no two are busy with a slot, that whoever is about to
cancel has cleared the flag, and that a set flag is no older than the timer running for it.

**OrchestratorProofs.** `OrchestratorTypeOK`. `OrchestratorVetted`: a flagged text is served or
cached only where a late copy wrote it, from `VettedInv`: only the primary's calls have a second
copy, copies of the fallback are over before it is judged, and what is about to be served is
what was judged unless the request is in `slipped`. `OrchestratorKeepsPromise`, the refinement of
`Shield` by step simulation, uses it; a late write is `Shield`'s `Slip`. Neither assumes anything
of the hedge. `OrchestratorCountsInSync`: a tier count moves in the same step in which its request
leaves `Unanswered` or its turn enters `TurnsAnswered`, so `SyncInv` adds to the equation that
both are finite and where each request stands. `OrchestratorTrace`: `StoryInv` says for each
place in the chain which steps the trace of this turn holds already; the property itself, about
finished requests, follows from the last one.

**FilterTheorems.** `Pick` enumerates positions by `Nth`, which is well defined and in order
(`NthInOrder`) and leaves none out (`NthOnto`). These are facts about every finite set of
positions; instead of an induction, each takes the least number that would be a counterexample
(`LeastNat`, from the well-foundedness of the order). `PickSeq` and `PickKeeps` are what the
cache and the tool cache use.

**SemanticCacheProofs.** `CacheInv` adds to `SizeBounded` and `HitIsRelevant` that every entry,
in the shared slice and in each copy a `Get` is searching, is a zeroed one or the work of some
`Set`, with no vector or its own prompt's. `VectorMatchesPrompt` is only about the slice, but a hit comes
from a copy, and `prune` moves entries under remembered indices: the invariant has to follow an
entry wherever it goes. `CacheLosesLittle`, an action property, bounds what one `Set`
loses: the image of the live positions under the compaction is counted with `PickKeeps`.

**StreamingProofs.** For channels of any capacity. `StreamInv` is the types with `PlaceInv`
(what the place in `StreamWithQualityGate` says about trip flag, channels and error),
`GateInv` (tokens produced, under way and counted; a completed refusal and the looks still to
come), `SentInv` (the shape of what has been sent, written or still in the channel), `CountInv`
(no token is lost between provider and client while nobody has left) and `DoneInv`. The
properties speak of the written stream; what lies in the channels has to be counted along.
From it `StreamIsWellFormed`, `AnswerIsComplete` and `RefusalIsStopped`.

**ConversationProofs.** `ConvInv` consists of types; `WindowInv`: a session holds the newest
`MaxHistory` messages of its log; `KeptInv`: how much of its exchange each request has stored,
unless its session was removed; `FreshInv`: a session has been idle no longer than any request
using it has run; `GenuineInv`: the tool cache holds results of registered tools under their own
key. `ExchangesStored` and `HitsAreGenuine` follow at once, `CleanupSparesRunning` from
`FreshInv` and the assumption that a run is no longer than the TTL, and `FinishedRemembered`
from `WindowInv`. `ToolCacheIsLRU`: the cache is the most recently used keys in the order of
their last use; that is inductive next to the types, with one lemma per operation of the list
(moving to the front, adding, dropping the last).

**SupportProofs**, one section for each part.

*Webhook.* The inductive invariant `WebhookInv` is the types with `NothingAfterClear`
and `PlacesMatchPosts`. The count of places needs that the posts are finitely many and that
one change of phase adds or removes exactly one of them. From it `WebhookPlaces` and
`WebhookSilence`, for any number of breakers, changes and places. `WebhookTellsState` rests on
`Ledger`: for each breaker and state the events into it exceed those out of it by one exactly
if the breaker is there now and did not start there (and conversely), a balance every
announcement keeps.

*Api.* `ApiRefusals` and `ApiOverflow`, for any finite set of addresses and header lists, any
limits, window length and size of the map. `ApiRefusals` rests on `ChargedTo`: by each of the four
ways in, and for any list that was told before, a request that is not misnamed is charged to its
origin; and on `OwnInv`: at every age younger than the last misnamed request, a window holds no
more than its own client was served. `OnlyACrowdOverflows` compares what a client was served with its limit, and
nothing in it says why a window may have forgotten requests. `ApiInv` does: the map's order is
that of the last use (`MapInv`), so the key evicted is the one idle longest; a window holds no
more than was served, and at most its limit (`WindowsInv`); and where it holds less than was
served at some age, more keys than the map can hold have been active since (`ForgottenInv`).
Eviction is where this is earned: everything else in a full map has been used since the evicted
key was, and so has the new one.

*ChaosStream.* `ScenarioNeverStuck` from `ChaosStreamInv`: events in the channel and with the
client are no more than were emitted, and exactly as many while nobody has left. The script's 29
events never fill a channel of 64.

*Telemetry.* `TornStatusIsSafe`: between two loads of `Status` any number of requests may be
counted. `TornInv` says of each prefix of its loads what has been seen so far: no count is above
its counter now, from the load of the denials on none is above the counter at that moment, and
from the load of the total on the counts seen are covered by total and turns. The counters
themselves satisfy `answered + denied <= total + turns`, because `ask` counts the request first.
`RingsAreCurrent`, for rings of any size: `RingHolds` says that a ring is the end of its history,
slot by slot, and `RingPutHolds` that recording keeps this while the ring fills, when it fills up
and when it wraps round. What `percentile` picks then takes three facts about every finite
sequence: `Sorted` is an increasing rearrangement (`SortedPlace`, `SortedGrows`), the value at a
place has that many samples at or below it (`SortedCounts`), and the samples of a wrapped ring
are its history rotated (`Rotation`).

*Sums.* `SumTo` is a recursive function; that it exists, and its two equations (`SumToStep`), is
shown with a least counterexample, as in `FilterTheorems`. The other lemmas (monotone, positive,
first summand apart) follow from the equations in the same way.

*Evaluator.* `EvaluatorFair`, for any number of callers and any window: `EvaluatorInv` says that
the baselines hold lengths of replies (positive, at most the window's number of them) and that a
reply under evaluation has been charged its repetition in full and at most a quarter for its
length (`LengthPenalty`, whoever recorded what in between). The rest is the trigrams of a sentence
said k times: it has at most as many different ones as the sentence has words (`FewTrigrams`), so
degrade mode's loops lose enough to fail whatever the other signals say, and a sentence said once
repeats nothing (`DifferentTrigrams`) and stays acceptable even if length and coherence cost all
they can.

*Transcript.* `TranscriptBounded`, for prompts, observations, summaries, thresholds and cuts of any
size: what `LastBytes` keeps fits (`LastBytesFit`), so the cut leaves its marker and at most its
target (`HardCutFits`), and without the cut the check before it has just seen fewer tokens. The
invariant is that prompts are texts of lines with at least a byte to a word.

**Only model-checked**:

* the liveness properties `RecoversOrProbeLost`, `KillSelfHeals`, `AnswersEveryone`,
  `EveryoneLeaves` and `EverythingExpires`: the prover has neither fairness nor ENABLED;
* `CalculatorFollowsGrammar`: that the parser and the grammar agree on every input is an
  induction over expressions nested to any depth, through functions that are defined by each
  other; the least-number argument used for sums and filters does not reach that far.

## 5. Where the code and its documentation disagree

* **Probe slot never released** (`orchestrator/orchestrator.go:319`, run
  `breaker_probe_leak`): a probe whose call fails in transport, and every probe taken by
  a streamed request (`orchestrator/stream.go:33`), never calls `Record`. The breaker then
  blocks for ever.
* **Kill without a timer** (`orchestrator/chaos.go:99`, run `chaos_race`): a kill between
  the two halves of a restore is left without a timer; `api/handler.go:95` promises five
  minutes at worst.
* **Prune blanks live entries** (`cache/semantic.go:208`, run `cache_eviction`).
* **A late copy replaces the judged text** (`orchestrator/orchestrator.go:313`, run
  `hedge_late_write`): both copies of a hedged call write `result`; the slower one can do so
  between `Evaluate` (line 325) and `return result` (line 344). The text that is served and cached
  was never judged, though lines 384-386 say that "a bad-quality response must not be returned as
  success". `FlaggedOnlyIfSlipped` shows that this is the only way past the gate.
* **A summary may be longer** (`agent/summarize.go:89`, run `transcript_shrinks`): lines 87-88
  promise that "both token-count AND byte-length shrink strictly", but only tokens are compared, so
  a summary of fewer and longer words is taken and the prompt grows in bytes. With a small threshold
  the 64 bytes that the cut keeps can also leave the tokens as they were. `SummaryBounded` is what
  does hold.
* **The newest turn is summarized away** (`agent/summarize.go:66`, run `transcript_recent`):
  the split counts lines, so an observation of many lines is cut together with the thought
  and action it belongs to; line 65 says "Keep the most-recent iteration intact."

Noticed while modelling, visible in the models but not the subject of a run:

* the streaming gate looks at tokens 30, 60, 90 and 120 only, so a refusal that ends before
  the next look is passed off as a complete answer (`RefusalStopped` says how far one gets);
* the tool cache's key is the input cut at 2 KB, so long inputs can share an entry, and a
  tool named in the wrong case is an error unless its result is already cached;
* a late `Record` from before the trip frees the slot of a running probe, so two probes may
  be out (`ProbeDiscipline` bounds it);
* good, mediocre, good closes the breaker, though the docs say "in a row";
* with `MinSamples` scores one zero can trip the breaker;
* recovery keeps the outage's scores in the window, so a perfect answer can trip it again;
* a callback that has passed its check still clears a newer kill (`chaos.go:80-81`);
* behind a proxy that appends to `X-Forwarded-For`, or passes it on and sets `X-Real-IP`, the
  leftmost entry is whatever an earlier hop wrote, and the request is charged to that name; a test
  ("takes first IP") wants the leftmost one, so the limiter counts on trusted proxies that replace
  the header (`RefusedAtOwnLimit` says exactly how far);
* `React` counts a tier per turn and never counts itself in totalRequests (`agent.go:396`);
* a primary stream that breaks off is continued by the fallback without a Switched event;
* a client whose 60 s run out may still read "done" after a truncated stream;
* in degrade mode a streamed answer is one token, so the streaming gate, which looks at every
  30th, never sees it;
* `config.go:49-51` speaks of the transcript, but the question and the tools' description are
  summarized with it;
* the degraded texts score 0.41, 0.27 and 0.27, not "~0.10-0.15"; all fail all the same;
* `Compare` says its raw call "bypasses the chaos wrapper", and uses the wrapped primary
  (`agent.go:463`, `491`);
* `Status` reads a breaker as "killed" and the flag later as false if a restore comes in
  between, and then takes no points off; the recommendation blames a transport breaker when
  only the fallback is killed;
* the calculator accepts a function call without its closing parenthesis;
* clearing the webhook URL does not stop events whose goroutines have read it.

## 6. Not modelled, and the plan

Left out for good:

* HTTP requests, JSON and SSE encoding, metrics, spans, logs and wording: no state depends on
  them;
* configuration parsing, start-up, the dashboard, the benchmark programs and the mock server;
* which phrases are refusals, which documents a search finds, the clock and the MCP lookup:
  text and I/O; the models use what comes of them;
* the map of traces: entries are added, read by operators and dropped after 30 minutes;
* the JSON encoding of a live `*Session` while `Add` rewrites it (`memory/sessions.go:85`): a
  data race whose outcome only reaches the operator who asked.

Every safety property of the passing runs but `CalculatorFollowsGrammar` is proved. What could
come next:

* `Calculator`: the agreement of parser and grammar for nested expressions of a fixed depth, by
  one lemma per level of precedence.
