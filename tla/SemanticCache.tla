---------------------------- MODULE SemanticCache ----------------------------
(***************************************************************************)
(* The semantic response cache (cache/semantic.go) under concurrent Get    *)
(* and Set and with embeddings computed in the background.                 *)
(*                                                                         *)
(* Set stamps the time before it takes the lock; Get copies the entries    *)
(* under the lock and searches the copy afterwards; the goroutine Set      *)
(* starts comes back later and has to find the entry again.  Each of these *)
(* is a step of its own.  A vector is the prompt it was computed from, and *)
(* Sim gives the similarity of two prompts' vectors in hundredths.         *)
(***************************************************************************)
EXTENDS Integers, FiniteSets, Sequences, Filter

CONSTANTS
    Threads,        \* request goroutines
    Prompts,
    Responses,
    Sim,            \* Sim[p, q]: cosine similarity of the vectors of p and q
    CacheThreshold,      \* WithThreshold
    TTL,            \* time to live, in ticks
    MaxEntries,     \* WithMaxEntries; 0 disables the cap
    HasEmbedder,    \* is there an embedder at all?
    MaxTime,        \* bound: the clock stops here
    MaxEmbeds,      \* bound: no Set starts with this many embeddings under way
    MaxSearches     \* bound: no Get starts with this many others under way

ASSUME SimAssumption ==
    \A p, q \in Prompts : Sim[p, q] \in 0..100 /\ Sim[p, p] >= CacheThreshold
ASSUME CapAssumption ==
    /\ MaxEntries \in Nat /\ TTL \in Nat /\ MaxTime \in Nat
    /\ MaxEmbeds \in Nat /\ MaxSearches \in Nat
    /\ CacheThreshold \in 1..100 /\ HasEmbedder \in BOOLEAN

\* No prompt, no vector; the expiry of a zero cacheEntry lies before any time.
NoText == "none"
Wiped == [prompt |-> NoText, resp |-> NoText, emb |-> NoText, exp |-> -1]

VARIABLES
    entries,        \* c.entries
    now,
    pc,             \* per goroutine: "idle", "set" (stamped) or "get" (has a copy)
    req,            \* per goroutine: the prompt and response it works with
    stamp,          \* per goroutine: the time it read
    copied,         \* per goroutine: Get's copy of the entries
    embedding,      \* background goroutines: [prompt, exp, idx]
    answer,         \* what the last Get returned, until the next call begins
    stored          \* history: every <<prompt, response>> ever Set

cacheVars == <<entries, now, pc, req, stamp, copied, embedding, answer, stored>>

Entry == [prompt : Prompts \cup {NoText}, resp : Responses \cup {NoText},
          emb : Prompts \cup {NoText}, exp : Int]

CacheTypeOK ==
    /\ entries \in Seq(Entry)
    /\ now \in 0..MaxTime
    /\ pc \in [Threads -> {"idle", "set", "get"}]
    /\ req \in [Threads -> [prompt : Prompts \cup {NoText}, resp : Responses \cup {NoText}]]
    /\ stamp \in [Threads -> 0..MaxTime]
    /\ copied \in [Threads -> Seq(Entry)]
    /\ \A g \in embedding : g.prompt \in Prompts /\ g.exp \in Nat /\ g.idx \in Nat \ {0}
    /\ answer \in [prompt : Prompts \cup {NoText}, resp : Responses \cup {NoText}]
    /\ stored \subseteq Prompts \X Responses

NoRequest == [prompt |-> NoText, resp |-> NoText]

CacheInit ==
    /\ entries = <<>> /\ now = 0
    /\ pc = [t \in Threads |-> "idle"]
    /\ req = [t \in Threads |-> NoRequest]
    /\ stamp = [t \in Threads |-> 0]
    /\ copied = [t \in Threads |-> <<>>]
    /\ embedding = {}
    /\ answer = NoRequest
    /\ stored = {}

-----------------------------------------------------------------------------
(* prune                                                                    *)

LiveAt(es) == {i \in 1..Len(es) : now <= es[i].exp}
Live(es) == Pick(es, LiveAt(es))

\* Mutant: one entry too few is evicted.
Excess_OffByOne(n) == IF MaxEntries > 0 /\ n > MaxEntries THEN n - MaxEntries ELSE 0

\* Mutant: eviction starts one entry early.
Excess_Eager(n) == IF MaxEntries > 0 /\ n + 1 >= MaxEntries /\ n > 0 THEN 1 ELSE 0

\* How many live entries have to go so that one more fits.
Excess(n) == IF MaxEntries > 0 /\ n >= MaxEntries THEN n - MaxEntries + 1 ELSE 0

\* Expired entries are filtered out in place, then the slice start moves past the
\* excess oldest ones.  The clean-up loop after that counts from len(live) in the
\* coordinates of the whole array, so it also zeroes the last entries of the
\* shifted slice.
Pruned ==
    LET live   == Live(entries)
        excess == Excess(Len(live))
        kept   == Len(live) - excess
    IN  [i \in 1..kept |-> IF i + excess > kept THEN Wiped ELSE live[i + excess]]

-----------------------------------------------------------------------------
(* Set                                                                      *)

\* Set reads the clock and builds the entry.
SetBegin(t, p, r) ==
    /\ pc[t] = "idle" /\ Cardinality(embedding) < MaxEmbeds
    /\ pc' = [pc EXCEPT ![t] = "set"]
    /\ req' = [req EXCEPT ![t] = [prompt |-> p, resp |-> r]]
    /\ stamp' = [stamp EXCEPT ![t] = now]
    /\ answer' = NoRequest
    /\ UNCHANGED <<entries, now, copied, embedding, stored>>

\* The critical section of Set, and the goroutine it starts.
SetLocked(t) ==
    LET p   == req[t].prompt
        r   == req[t].resp
        exp == stamp[t] + TTL
    IN  /\ pc[t] = "set"
        /\ entries' = Append(Pruned, [prompt |-> p, resp |-> r, emb |-> NoText, exp |-> exp])
        /\ embedding' = IF HasEmbedder
                        THEN embedding \cup {[prompt |-> p, exp |-> exp, idx |-> Len(entries')]}
                        ELSE embedding
        /\ stored' = stored \cup {<<p, r>>}
        /\ pc' = [pc EXCEPT ![t] = "idle"]
        /\ req' = [req EXCEPT ![t] = NoRequest]
        /\ stamp' = [stamp EXCEPT ![t] = 0]
        /\ UNCHANGED <<now, copied, answer>>

\* The entry goroutine g was started for.
Matches(e, g) == e.prompt = g.prompt /\ e.exp = g.exp

\* Mutant: the index is trusted.
EmbedDone_TrustIndex(g) ==
    /\ g \in embedding
    /\ embedding' = embedding \ {g}
    /\ entries' = IF g.idx <= Len(entries) /\ entries[g.idx] # Wiped
                  THEN [entries EXCEPT ![g.idx].emb = g.prompt] ELSE entries
    /\ UNCHANGED <<now, pc, req, stamp, copied, answer, stored>>

\* The vector arrives: it goes to the entry at the remembered index if that still is
\* the right one, else to the first right one, else nowhere.
EmbedDone(g) ==
    /\ g \in embedding
    /\ embedding' = embedding \ {g}
    /\ \/ /\ g.idx <= Len(entries) /\ Matches(entries[g.idx], g)
          /\ entries' = [entries EXCEPT ![g.idx].emb = g.prompt]
       \/ /\ ~(g.idx <= Len(entries) /\ Matches(entries[g.idx], g))
          /\ \E i \in 1..Len(entries) :
                /\ Matches(entries[i], g) /\ \A j \in 1..i-1 : ~Matches(entries[j], g)
                /\ entries' = [entries EXCEPT ![i].emb = g.prompt]
       \/ /\ \A i \in 1..Len(entries) : ~Matches(entries[i], g)
          /\ UNCHANGED entries
    /\ UNCHANGED <<now, pc, req, stamp, copied, answer, stored>>

\* The embedder failed or timed out.
EmbedFailed(g) ==
    /\ g \in embedding
    /\ embedding' = embedding \ {g}
    /\ UNCHANGED <<entries, now, pc, req, stamp, copied, answer, stored>>

-----------------------------------------------------------------------------
(* Get                                                                      *)

\* Get copies the entries under the read lock and reads the clock.
GetBegin(t, p) ==
    /\ pc[t] = "idle" /\ Cardinality({u \in Threads : pc[u] = "get"}) < MaxSearches
    /\ pc' = [pc EXCEPT ![t] = "get"]
    /\ req' = [req EXCEPT ![t] = [prompt |-> p, resp |-> NoText]]
    /\ stamp' = [stamp EXCEPT ![t] = now]
    /\ copied' = [copied EXCEPT ![t] = entries]
    /\ answer' = NoRequest
    /\ UNCHANGED <<entries, now, embedding, stored>>

\* Mutant: the first comparable vector is taken.
SemanticHit_First(t, i) ==
    /\ copied[t][i].exp >= stamp[t] /\ copied[t][i].emb # NoText

\* Entry i of the copy is the semantic match: unexpired, with a vector, the first of
\* the most similar ones, and similar enough.
SemanticHit(t, i) ==
    LET es == copied[t]
        Usable == {j \in 1..Len(es) : es[j].exp >= stamp[t] /\ es[j].emb # NoText}
        S(j) == Sim[req[t].prompt, es[j].emb]
    IN  /\ i \in Usable /\ S(i) >= CacheThreshold
        /\ \A j \in Usable : S(j) < S(i) \/ (S(j) = S(i) /\ i <= j)

\* Entry i of the copy is the exact match: the first unexpired one for this prompt.
ExactHit(t, i) ==
    LET es == copied[t]
        Same == {j \in 1..Len(es) : es[j].exp >= stamp[t] /\ es[j].prompt = req[t].prompt}
    IN  i \in Same /\ \A j \in Same : i <= j

\* Get searches its copy: by vector if its own embedding call succeeds, else, or if
\* nothing is similar enough, by exact prompt.
GetEnd(t) ==
    LET es == copied[t]
        I  == 1..Len(es)
        Answer(r) == answer' = [prompt |-> req[t].prompt, resp |-> r]
    IN  /\ pc[t] = "get"
        /\ \E embedded \in {HasEmbedder, FALSE} :
              \/ \E i \in I : embedded /\ SemanticHit(t, i) /\ Answer(es[i].resp)
              \/ /\ ~embedded \/ \A i \in I : ~SemanticHit(t, i)
                 /\ \/ \E i \in I : ExactHit(t, i) /\ Answer(es[i].resp)
                    \/ (\A i \in I : ~ExactHit(t, i)) /\ Answer(NoText)
        /\ pc' = [pc EXCEPT ![t] = "idle"]
        /\ req' = [req EXCEPT ![t] = NoRequest]
        /\ copied' = [copied EXCEPT ![t] = <<>>]
        /\ stamp' = [stamp EXCEPT ![t] = 0]
        /\ UNCHANGED <<entries, now, embedding, stored>>

CacheTick ==
    /\ now < MaxTime
    /\ now' = now + 1
    /\ UNCHANGED <<entries, pc, req, stamp, copied, embedding, answer, stored>>

CacheNext ==
    \/ \E t \in Threads, p \in Prompts : GetBegin(t, p) \/ \E r \in Responses : SetBegin(t, p, r)
    \/ \E t \in Threads : SetLocked(t) \/ GetEnd(t)
    \/ \E g \in embedding : EmbedDone(g) \/ EmbedFailed(g)
    \/ CacheTick

CacheSpec == CacheInit /\ [][CacheNext]_cacheVars

-----------------------------------------------------------------------------
(* Properties.                                                              *)

\* The cap holds whatever is expired, wiped or added concurrently (prune, then append).
SizeBounded == MaxEntries > 0 => Len(entries) <= MaxEntries

\* A vector that arrives late never lands on another prompt's entry, although pruning
\* moves entries (the goroutine of Set).
VectorMatchesPrompt == \A i \in 1..Len(entries) : entries[i].emb \in {NoText, entries[i].prompt}

\* A hit is a response that was Set for that prompt or for a similar one, although Get
\* searches a copy that may be out of date.
HitIsRelevant ==
    answer.resp # NoText =>
        \E q \in Prompts : Sim[answer.prompt, q] >= CacheThreshold /\ <<q, answer.resp>> \in stored

\* Entries Set loses: live before it, gone after it.
Unexpired(es) == {e \in {es[i] : i \in 1..Len(es)} : e # Wiped /\ now <= e.exp}
Lost == Unexpired(entries) \ {entries'[i] : i \in 1..Len(entries')}
Occupied == Len(Live(entries))

\* A Set never costs a live entry while there is room, and at the cap it costs at most
\* two: the oldest, and the one the clean-up loop zeroes.
LossBounded ==
    [][\A t \in Threads : SetLocked(t) =>
         Cardinality(Lost) <= IF MaxEntries > 0 /\ Occupied >= MaxEntries THEN 2 ELSE 0]_cacheVars

-----------------------------------------------------------------------------
(* What the comments say and the code does not do.                          *)

\* semantic.go:48: prune() "evicts oldest-by-expiry entries to make room".
EvictsOldest ==
    [][\A t \in Threads : SetLocked(t) =>
         \A e \in Lost, f \in Unexpired(entries) \ Lost : e.exp <= f.exp]_cacheVars
=============================================================================
