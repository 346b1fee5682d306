------------------------- MODULE SemanticCacheProofs -------------------------
(***************************************************************************)
(* Proofs about SemanticCache, for any number of goroutines, prompts and   *)
(* entries: the cap holds, a late vector lands on its own prompt's entry,  *)
(* a hit is relevant, and Set loses at most two live entries.              *)
(***************************************************************************)
EXTENDS SemanticCache, FilterTheorems

-----------------------------------------------------------------------------
(* The inductive invariant.                                                 *)

\* An entry is one that the clean-up loop zeroed, or one that a Set made, with no vector
\* or with the vector of its own prompt.
Genuine(e, sets) ==
    \/ e = Wiped
    \/ <<e.prompt, e.resp>> \in sets /\ e.emb \in {NoText, e.prompt}

AllGenuine == \A i \in 1..Len(entries) : Genuine(entries[i], stored)
CopiesGenuine == \A t \in Threads : \A i \in 1..Len(copied[t]) : Genuine(copied[t][i], stored)

\* A goroutine inside Set or Get works with a real prompt.
AtWork ==
    \A t \in Threads :
        /\ pc[t] = "set" => req[t].prompt \in Prompts /\ req[t].resp \in Responses
        /\ pc[t] = "get" => req[t].prompt \in Prompts

CacheInv == CacheTypeOK /\ AllGenuine /\ CopiesGenuine /\ AtWork /\ SizeBounded /\ HitIsRelevant

-----------------------------------------------------------------------------
(* prune.                                                                   *)

LEMMA WipedEntry ==
  /\ Wiped \in Entry
  /\ Wiped.resp = NoText /\ Wiped.emb = NoText /\ Wiped.exp = -1
  BY DEF Wiped, Entry

\* The live entries, and what is left of them.
LEMMA LivePart ==
  ASSUME entries \in Seq(Entry)
  PROVE  /\ LiveAt(entries) \subseteq 1..Len(entries)
         /\ Live(entries) \in Seq(Entry) /\ Len(Live(entries)) = Cardinality(LiveAt(entries))
         /\ Len(Live(entries)) \in Nat /\ Len(Live(entries)) <= Len(entries)
         /\ \A k \in 1..Len(Live(entries)) :
               \E i \in 1..Len(entries) : Live(entries)[k] = entries[i]
<1>1. LiveAt(entries) \subseteq 1..Len(entries)
  BY DEF LiveAt
<1>2. /\ Pick(entries, LiveAt(entries)) \in Seq(Entry)
      /\ Len(Pick(entries, LiveAt(entries))) = Cardinality(LiveAt(entries))
      /\ Cardinality(LiveAt(entries)) \in Nat /\ Cardinality(LiveAt(entries)) <= Len(entries)
      /\ \A k \in 1..Cardinality(LiveAt(entries)) :
            /\ Nth(LiveAt(entries), k) \in LiveAt(entries)
            /\ Pick(entries, LiveAt(entries))[k] = entries[Nth(LiveAt(entries), k)]
  BY <1>1, PickSeq
<1> QED
  BY <1>1, <1>2 DEF Live

\* How many are evicted.
LEMMA ExcessFits ==
  ASSUME NEW n \in Nat
  PROVE  /\ Excess(n) \in Nat /\ Excess(n) <= n
         /\ MaxEntries > 0 => n - Excess(n) + 1 <= MaxEntries
         /\ ~(MaxEntries > 0 /\ n >= MaxEntries) => Excess(n) = 0
         /\ MaxEntries > 0 /\ n = MaxEntries => Excess(n) = 1
  BY CapAssumption DEF Excess

LEMMA PrunedShape ==
  ASSUME entries \in Seq(Entry)
  PROVE  LET live == Live(entries)
             excess == Excess(Len(live))
             kept == Len(live) - excess
         IN  /\ Pruned \in Seq(Entry) /\ Len(Pruned) = kept /\ kept \in Nat
             /\ \A k \in 1..kept :
                   /\ k + excess \in 1..Len(live)
                   /\ Pruned[k] = IF k + excess > kept THEN Wiped ELSE live[k + excess]
<1> DEFINE live == Live(entries)
           n == Len(live)
           excess == Excess(n)
           kept == n - excess
<1>1. live \in Seq(Entry) /\ n \in Nat
  BY LivePart
<1>2. excess \in Nat /\ excess <= n
  BY <1>1, ExcessFits
<1>3. kept \in Nat /\ \A k \in 1..kept : k + excess \in 1..n
  BY <1>1, <1>2
<1>4. \A k \in 1..n : live[k] \in Entry
  BY <1>1
<1> HIDE DEF live, n, excess
<1>5. Pruned = [i \in 1..kept |-> IF i + excess > kept THEN Wiped ELSE live[i + excess]]
  BY DEF Pruned, live, n, excess
<1>6. Pruned \in [1..kept -> Entry]
  BY <1>3, <1>4, <1>5, WipedEntry
<1>7. Pruned \in Seq(Entry) /\ Len(Pruned) = kept
  BY <1>3, <1>6
<1>8. \A k \in 1..kept : Pruned[k] = IF k + excess > kept THEN Wiped ELSE live[k + excess]
  BY <1>5
<1> QED
  BY <1>3, <1>7, <1>8 DEF live, n, excess

\* Nothing new comes out of prune.
LEMMA PrunedFrom ==
  ASSUME entries \in Seq(Entry)
  PROVE  \A k \in 1..Len(Pruned) :
            Pruned[k] = Wiped \/ \E i \in 1..Len(entries) : Pruned[k] = entries[i]
  BY PrunedShape, LivePart

-----------------------------------------------------------------------------
(* The steps.                                                               *)

\* The response of a genuine entry that is similar or equal is relevant.
LEMMA GenuineIsRelevant ==
  ASSUME CacheTypeOK, NEW e, Genuine(e, stored), e.resp # NoText, NEW p \in Prompts,
         e.prompt = p \/ (e.emb # NoText /\ Sim[p, e.emb] >= CacheThreshold)
  PROVE  /\ e.resp \in Responses
         /\ \E q \in Prompts : Sim[p, q] >= CacheThreshold /\ <<q, e.resp>> \in stored
<1>1. e # Wiped
  BY WipedEntry
<1>2. <<e.prompt, e.resp>> \in stored /\ e.emb \in {NoText, e.prompt}
  BY <1>1 DEF Genuine
<1>3. e.prompt \in Prompts /\ e.resp \in Responses
  BY <1>2 DEF CacheTypeOK
<1>4. Sim[p, e.prompt] >= CacheThreshold
  BY <1>2, <1>3, SimAssumption
<1> QED
  BY <1>2, <1>3, <1>4

LEMMA CacheStep ==
  ASSUME CacheInv, [CacheNext]_cacheVars
  PROVE  CacheInv'
<1>0. CacheTypeOK /\ AllGenuine /\ CopiesGenuine /\ AtWork /\ SizeBounded /\ HitIsRelevant
      /\ MaxEntries \in Nat /\ TTL \in Nat /\ MaxTime \in Nat
  BY CapAssumption DEF CacheInv
<1>1. ASSUME NEW t \in Threads, NEW p \in Prompts, NEW r \in Responses, SetBegin(t, p, r)
      PROVE  CacheInv'
  <2>1. CacheTypeOK'
    BY <1>0, <1>1 DEF SetBegin, CacheTypeOK, NoRequest
  <2>2. AllGenuine' /\ CopiesGenuine' /\ SizeBounded'
    BY <1>0, <1>1 DEF SetBegin, AllGenuine, CopiesGenuine, SizeBounded, Genuine
  <2>3. AtWork'
    BY <1>0, <1>1 DEF SetBegin, AtWork, CacheTypeOK
  <2>4. HitIsRelevant'
    BY <1>1 DEF SetBegin, HitIsRelevant, NoRequest
  <2> QED
    BY <2>1, <2>2, <2>3, <2>4 DEF CacheInv
<1>2. ASSUME NEW t \in Threads, SetLocked(t) PROVE CacheInv'
  <2> DEFINE p == req[t].prompt
             r == req[t].resp
             exp == stamp[t] + TTL
             new == [prompt |-> p, resp |-> r, emb |-> NoText, exp |-> exp]
  <2>1. /\ pc[t] = "set" /\ entries' = Append(Pruned, new)
        /\ stored' = stored \cup {<<p, r>>}
        /\ pc' = [pc EXCEPT ![t] = "idle"] /\ req' = [req EXCEPT ![t] = NoRequest]
        /\ stamp' = [stamp EXCEPT ![t] = 0]
        /\ UNCHANGED <<now, copied, answer>>
    BY <1>2 DEF SetLocked
  <2>2. p \in Prompts /\ r \in Responses /\ exp \in Nat
    BY <1>0, <2>1 DEF AtWork, CacheTypeOK
  <2>3. new \in Entry
    BY <2>2 DEF Entry
  <2>4. Pruned \in Seq(Entry) /\ Len(Pruned) \in Nat
        /\ Len(Pruned) = Len(Live(entries)) - Excess(Len(Live(entries)))
    BY <1>0, PrunedShape DEF CacheTypeOK
  <2> HIDE DEF new
  <2>5. /\ entries' \in Seq(Entry) /\ Len(entries') = Len(Pruned) + 1
        /\ entries'[Len(Pruned) + 1] = new
        /\ \A k \in 1..Len(Pruned) : entries'[k] = Pruned[k]
    BY <2>1, <2>3, <2>4
  <2>6. CacheTypeOK'
    <3>1. \A g \in embedding' : g.prompt \in Prompts /\ g.exp \in Nat /\ g.idx \in Nat \ {0}
      <4>1. ASSUME NEW g \in embedding'
            PROVE  g \in embedding \/ g = [prompt |-> p, exp |-> exp, idx |-> Len(entries')]
        BY <1>2 DEF SetLocked
      <4>2. Len(entries') \in Nat \ {0}
        BY <2>4, <2>5
      <4> QED
        BY <1>0, <2>2, <4>1, <4>2 DEF CacheTypeOK
    <3>2. stored' \subseteq Prompts \X Responses
      BY <1>0, <2>1, <2>2 DEF CacheTypeOK
    <3>3. /\ pc' \in [Threads -> {"idle", "set", "get"}]
          /\ req' \in [Threads -> [prompt : Prompts \cup {NoText}, resp : Responses \cup {NoText}]]
          /\ stamp' \in [Threads -> 0..MaxTime]
      BY <1>0, <2>1 DEF CacheTypeOK, NoRequest
    <3> QED
      BY <1>0, <2>1, <2>5, <3>1, <3>2, <3>3 DEF CacheTypeOK
  <2>7. AllGenuine'
    <3>1. ASSUME NEW k \in 1..Len(entries') PROVE Genuine(entries'[k], stored')
      <4>1. CASE k = Len(Pruned) + 1
        BY <2>1, <2>5, <4>1 DEF Genuine, new
      <4>2. CASE k # Len(Pruned) + 1
        <5>1. k \in 1..Len(Pruned) /\ entries'[k] = Pruned[k]
          BY <2>4, <2>5, <4>2
        <5>2. Genuine(Pruned[k], stored)
          BY <1>0, <5>1, PrunedFrom DEF CacheTypeOK, AllGenuine, Genuine
        <5> QED
          BY <2>1, <5>1, <5>2 DEF Genuine
      <4> QED
        BY <4>1, <4>2
    <3> QED
      BY <3>1 DEF AllGenuine, Genuine
  <2>8. CopiesGenuine'
    BY <1>0, <2>1 DEF CopiesGenuine, Genuine
  <2>9. AtWork'
    BY <1>0, <2>1 DEF AtWork, CacheTypeOK
  <2>10. SizeBounded'
    <3>1. Len(Live(entries)) \in Nat
      BY <1>0, LivePart DEF CacheTypeOK
    <3> QED
      BY <2>4, <2>5, <3>1, ExcessFits DEF SizeBounded
  <2>11. HitIsRelevant'
    BY <1>0, <2>1 DEF HitIsRelevant
  <2> QED
    BY <2>6, <2>7, <2>8, <2>9, <2>10, <2>11 DEF CacheInv
<1>3. ASSUME NEW g \in embedding, EmbedDone(g) PROVE CacheInv'
  <2>1. /\ embedding' = embedding \ {g} /\ UNCHANGED <<now, pc, req, stamp, copied, answer, stored>>
        /\ g.prompt \in Prompts /\ g.exp \in Nat /\ g.idx \in Nat \ {0}
        /\ entries \in Seq(Entry) /\ Len(entries) \in Nat
    BY <1>0, <1>3 DEF EmbedDone, CacheTypeOK
  <2>2. \/ UNCHANGED entries
        \/ \E i \in 1..Len(entries) : /\ Matches(entries[i], g)
                                      /\ entries' = [entries EXCEPT ![i].emb = g.prompt]
    <3>1. g.idx <= Len(entries) => g.idx \in 1..Len(entries)
      BY <2>1
    <3> QED
      BY <1>3, <3>1 DEF EmbedDone
  <2>3. CASE UNCHANGED entries
    BY <1>0, <2>1, <2>3 DEF CacheInv, CacheTypeOK, AllGenuine, CopiesGenuine, AtWork, SizeBounded,
                            HitIsRelevant, Genuine
  <2>4. ASSUME NEW i \in 1..Len(entries), Matches(entries[i], g),
               entries' = [entries EXCEPT ![i].emb = g.prompt]
        PROVE  CacheInv'
    <3> DEFINE e == entries[i]
               x == [e EXCEPT !.emb = g.prompt]
    <3>1. e \in Entry /\ e.prompt = g.prompt /\ e.exp = g.exp
      BY <2>1, <2>4 DEF Matches
    <3>2. x \in Entry /\ x.prompt = e.prompt /\ x.resp = e.resp /\ x.emb = g.prompt
      BY <2>1, <3>1 DEF Entry
    <3>3. e # Wiped
      BY <2>1, <3>1, WipedEntry
    <3>4. <<x.prompt, x.resp>> \in stored /\ x.emb \in {NoText, x.prompt}
      BY <1>0, <3>1, <3>2, <3>3 DEF AllGenuine, Genuine
    <3> HIDE DEF x
    <3>5. /\ entries' \in Seq(Entry) /\ Len(entries') = Len(entries) /\ entries'[i] = x
          /\ \A k \in 1..Len(entries) : k # i => entries'[k] = entries[k]
      <4>1. entries' = [entries EXCEPT ![i] = x]
        BY <2>4 DEF x
      <4> QED
        BY <2>1, <3>2, <4>1
    <3>6. CacheTypeOK'
      BY <1>0, <2>1, <3>5 DEF CacheTypeOK
    <3>7. AllGenuine'
      <4>1. ASSUME NEW k \in 1..Len(entries') PROVE Genuine(entries'[k], stored')
        BY <1>0, <2>1, <3>4, <3>5 DEF AllGenuine, Genuine
      <4> QED
        BY <4>1 DEF AllGenuine, Genuine
    <3>8. CopiesGenuine' /\ AtWork' /\ SizeBounded' /\ HitIsRelevant'
      BY <1>0, <2>1, <3>5 DEF CopiesGenuine, AtWork, SizeBounded, HitIsRelevant, Genuine
    <3> QED
      BY <3>6, <3>7, <3>8 DEF CacheInv
  <2> QED
    BY <2>2, <2>3, <2>4
<1>4. ASSUME NEW g \in embedding, EmbedFailed(g) PROVE CacheInv'
  BY <1>0, <1>4 DEF EmbedFailed, CacheInv, CacheTypeOK, AllGenuine, CopiesGenuine, AtWork, SizeBounded,
                    HitIsRelevant, Genuine
<1>5. ASSUME NEW t \in Threads, NEW p \in Prompts, GetBegin(t, p) PROVE CacheInv'
  <2>1. CacheTypeOK'
    BY <1>0, <1>5 DEF GetBegin, CacheTypeOK, NoRequest
  <2>2. AllGenuine' /\ SizeBounded'
    BY <1>0, <1>5 DEF GetBegin, AllGenuine, SizeBounded, Genuine
  <2>3. CopiesGenuine'
    <3>1. \A u \in Threads : copied'[u] = IF u = t THEN entries ELSE copied[u]
      BY <1>0, <1>5 DEF GetBegin, CacheTypeOK
    <3>2. stored' = stored
      BY <1>5 DEF GetBegin
    <3> QED
      BY <1>0, <3>1, <3>2 DEF CopiesGenuine, AllGenuine, Genuine
  <2>4. AtWork'
    BY <1>0, <1>5 DEF GetBegin, AtWork, CacheTypeOK
  <2>5. HitIsRelevant'
    BY <1>5 DEF GetBegin, HitIsRelevant, NoRequest
  <2> QED
    BY <2>1, <2>2, <2>3, <2>4, <2>5 DEF CacheInv
<1>6. ASSUME NEW t \in Threads, GetEnd(t) PROVE CacheInv'
  <2> DEFINE p == req[t].prompt
  <2>1. /\ pc[t] = "get" /\ pc' = [pc EXCEPT ![t] = "idle"] /\ req' = [req EXCEPT ![t] = NoRequest]
        /\ copied' = [copied EXCEPT ![t] = <<>>] /\ stamp' = [stamp EXCEPT ![t] = 0]
        /\ UNCHANGED <<entries, now, embedding, stored>>
    BY <1>6 DEF GetEnd
  <2>2. p \in Prompts
    BY <1>0, <2>1 DEF AtWork
  \* Whatever the search found, it answers NoText or with the response of an entry of the
  \* copy that is for this prompt or similar to it.
  <2>3. \/ answer' = [prompt |-> p, resp |-> NoText]
        \/ \E i \in 1..Len(copied[t]) :
              /\ answer' = [prompt |-> p, resp |-> copied[t][i].resp]
              /\ \/ copied[t][i].prompt = p
                 \/ copied[t][i].emb # NoText /\ Sim[p, copied[t][i].emb] >= CacheThreshold
    BY <1>6 DEF GetEnd, SemanticHit, ExactHit
  <2>4. \/ answer' = [prompt |-> p, resp |-> NoText]
        \/ /\ answer'.prompt = p /\ answer'.resp \in Responses
           /\ answer' = [prompt |-> p, resp |-> answer'.resp]
           /\ \E q \in Prompts : Sim[p, q] >= CacheThreshold /\ <<q, answer'.resp>> \in stored
    <3>1. ASSUME NEW i \in 1..Len(copied[t]),
                 answer' = [prompt |-> p, resp |-> copied[t][i].resp],
                 \/ copied[t][i].prompt = p
                 \/ copied[t][i].emb # NoText /\ Sim[p, copied[t][i].emb] >= CacheThreshold
          PROVE  <2>4
      <4>1. Genuine(copied[t][i], stored)
        BY <1>0 DEF CopiesGenuine
      <4>2. CASE copied[t][i].resp = NoText
        BY <3>1, <4>2
      <4>3. CASE copied[t][i].resp # NoText
        <5>1. /\ copied[t][i].resp \in Responses
              /\ \E q \in Prompts : Sim[p, q] >= CacheThreshold /\ <<q, copied[t][i].resp>> \in stored
          BY <1>0, <2>2, <3>1, <4>1, <4>3, GenuineIsRelevant
        <5> QED
          BY <3>1, <5>1
      <4> QED
        BY <4>2, <4>3
    <3> QED
      BY <2>3, <3>1
  <2>5. CacheTypeOK'
    <3>1. answer' \in [prompt : Prompts \cup {NoText}, resp : Responses \cup {NoText}]
      <4>1. CASE answer' = [prompt |-> p, resp |-> NoText]
        BY <2>2, <4>1
      <4>2. ASSUME NEW x \in Responses, answer' = [prompt |-> p, resp |-> x]
            PROVE  <3>1
        BY <2>2, <4>2
      <4> QED
        BY <2>4, <4>1, <4>2
    <3>2. copied' \in [Threads -> Seq(Entry)]
      BY <1>0, <2>1 DEF CacheTypeOK
    <3> QED
      BY <1>0, <2>1, <3>1, <3>2 DEF CacheTypeOK, NoRequest
  <2>6. AllGenuine' /\ SizeBounded'
    BY <1>0, <2>1 DEF AllGenuine, SizeBounded, Genuine
  <2>7. CopiesGenuine'
    <3>1. \A u \in Threads : copied'[u] = IF u = t THEN <<>> ELSE copied[u]
      BY <1>0, <2>1 DEF CacheTypeOK
    <3> QED
      BY <1>0, <2>1, <3>1 DEF CopiesGenuine, Genuine
  <2>8. AtWork'
    BY <1>0, <2>1 DEF AtWork, CacheTypeOK
  <2>9. HitIsRelevant'
    <3>1. stored' = stored
      BY <2>1
    <3>2. CASE answer' = [prompt |-> p, resp |-> NoText]
      BY <3>2 DEF HitIsRelevant
    <3> QED
      BY <2>4, <3>1, <3>2 DEF HitIsRelevant
  <2> QED
    BY <2>5, <2>6, <2>7, <2>8, <2>9 DEF CacheInv
<1>7. CASE CacheTick
  <2>1. now' \in 0..MaxTime
    BY <1>0, <1>7 DEF CacheTick, CacheTypeOK
  <2>2. CacheTypeOK'
    BY <1>0, <1>7, <2>1 DEF CacheTick, CacheTypeOK
  <2>3. AllGenuine' /\ CopiesGenuine' /\ AtWork' /\ SizeBounded' /\ HitIsRelevant'
    BY <1>0, <1>7 DEF CacheTick, AllGenuine, CopiesGenuine, AtWork, SizeBounded, HitIsRelevant
  <2> QED
    BY <2>2, <2>3 DEF CacheInv
<1>8. CASE UNCHANGED cacheVars
  BY <1>0, <1>8 DEF cacheVars, CacheInv, CacheTypeOK, AllGenuine, CopiesGenuine, AtWork, SizeBounded,
                    HitIsRelevant, Genuine
<1> QED
  BY <1>1, <1>2, <1>3, <1>4, <1>5, <1>6, <1>7, <1>8 DEF CacheNext

\* The invariant of the semantic cache: its types, and that every entry, also in a copy
\* that Get took earlier, is a wiped one or what some Set stored.
THEOREM CacheInvariant == CacheSpec => []CacheInv
<1>1. CacheInit => CacheInv
  <2> SUFFICES ASSUME CacheInit PROVE CacheInv
    OBVIOUS
  <2>1. CacheTypeOK
    BY CapAssumption DEF CacheInit, CacheTypeOK, NoRequest
  <2>2. AllGenuine /\ CopiesGenuine /\ AtWork /\ SizeBounded /\ HitIsRelevant
    BY CapAssumption DEF CacheInit, AllGenuine, CopiesGenuine, AtWork, SizeBounded, HitIsRelevant, NoRequest
  <2> QED
    BY <2>1, <2>2 DEF CacheInv
<1>2. CacheInv /\ [CacheNext]_cacheVars => CacheInv'
  BY CacheStep
<1> QED
  BY <1>1, <1>2, PTL DEF CacheSpec

\* The cap of WithMaxEntries holds whatever Sets run at the same time.
THEOREM CacheBounded == CacheSpec => []SizeBounded
<1>1. CacheInv => SizeBounded
  BY DEF CacheInv
<1> QED
  BY <1>1, CacheInvariant, PTL

\* A vector that arrives late lands on an entry of its own prompt or nowhere.
THEOREM CacheVectors == CacheSpec => []VectorMatchesPrompt
<1>1. CacheInv => VectorMatchesPrompt
  BY WipedEntry DEF CacheInv, AllGenuine, Genuine, VectorMatchesPrompt
<1> QED
  BY <1>1, CacheInvariant, PTL

\* What Get returns was Set for this prompt or for one similar enough.
THEOREM CacheHits == CacheSpec => []HitIsRelevant
<1>1. CacheInv => HitIsRelevant
  BY DEF CacheInv
<1> QED
  BY <1>1, CacheInvariant, PTL

-----------------------------------------------------------------------------
(* What Set loses.                                                          *)

LEMMA AtMostTwo ==
  ASSUME NEW a, NEW b, NEW S, S \subseteq {a, b}
  PROVE  Cardinality(S) <= 2
<1>1. IsFiniteSet({a}) /\ Cardinality({a}) = 1
  BY FS_Singleton
<1>2. IsFiniteSet({a} \cup {b}) /\ Cardinality({a} \cup {b}) <= 2
  BY <1>1, FS_AddElement
<1>3. S \subseteq {a} \cup {b}
  OBVIOUS
<1>4. Cardinality(S) <= Cardinality({a} \cup {b}) /\ IsFiniteSet(S)
  BY <1>2, <1>3, FS_Subset
<1>5. Cardinality(S) \in Nat /\ Cardinality({a} \cup {b}) \in Nat
  BY <1>2, <1>4, FS_CardinalityType
<1> QED
  BY <1>2, <1>4, <1>5

\* An unexpired entry is one of the live ones.
LEMMA UnexpiredIsLive ==
  ASSUME CacheTypeOK, NEW e \in Unexpired(entries)
  PROVE  \E k \in 1..Len(Live(entries)) : Live(entries)[k] = e
<1>1. PICK i \in 1..Len(entries) : e = entries[i] /\ now <= e.exp
  BY DEF Unexpired
<1>2. i \in LiveAt(entries) /\ LiveAt(entries) \subseteq 1..Len(entries)
  BY <1>1 DEF LiveAt
<1>3. entries \in Seq(Entry)
  BY DEF CacheTypeOK
<1>4. /\ Rank(LiveAt(entries), i) + 1 \in 1..Cardinality(LiveAt(entries))
      /\ Pick(entries, LiveAt(entries))[Rank(LiveAt(entries), i) + 1] = entries[i]
  BY <1>2, <1>3, PickKeeps
<1> QED
  BY <1>1, <1>3, <1>4, LivePart DEF Live

LEMMA LossStep ==
  ASSUME CacheInv, NEW t \in Threads, SetLocked(t)
  PROVE  Cardinality(Lost) <= IF MaxEntries > 0 /\ Occupied >= MaxEntries THEN 2 ELSE 0
<1> DEFINE live == Live(entries)
           n == Len(live)
           excess == Excess(n)
           kept == n - excess
<1>0. CacheTypeOK /\ SizeBounded /\ entries \in Seq(Entry) /\ MaxEntries \in Nat
  BY CapAssumption DEF CacheInv, CacheTypeOK
<1>1. n \in Nat /\ n <= Len(entries) /\ Len(entries) \in Nat
  BY <1>0, LivePart
<1>2. /\ Pruned \in Seq(Entry) /\ Len(Pruned) = kept /\ kept \in Nat
      /\ \A k \in 1..kept : Pruned[k] = IF k + excess > kept THEN Wiped ELSE live[k + excess]
  BY <1>0, PrunedShape
\* What prune leaves is still there after the append.
<1>3. ASSUME NEW k \in 1..kept PROVE Pruned[k] \in {entries'[i] : i \in 1..Len(entries')}
  <2>1. PICK new : entries' = Append(Pruned, new)
    BY DEF SetLocked
  <2>2. Len(entries') = kept + 1 /\ entries'[k] = Pruned[k]
    BY <1>2, <2>1
  <2>3. k \in 1..Len(entries')
    BY <1>2, <2>2
  <2> QED
    BY <2>2, <2>3
<1>4. ASSUME NEW e \in Lost
      PROVE  \E k \in 1..n : e = live[k] /\ \A j \in 1..kept : Pruned[j] # e
  <2>1. e \in Unexpired(entries) /\ e \notin {entries'[i] : i \in 1..Len(entries')}
    BY DEF Lost
  <2> QED
    BY <1>0, <1>3, <2>1, UnexpiredIsLive
<1>5. Occupied = n
  BY DEF Occupied
<1> HIDE DEF live, n
<1>6. CASE MaxEntries > 0 /\ n >= MaxEntries
  <2>1. n = MaxEntries /\ excess = 1 /\ kept = n - 1
    BY <1>0, <1>1, <1>6, ExcessFits DEF SizeBounded
  <2>2. ASSUME NEW e \in Lost PROVE e \in {live[1], live[n]}
    <3>1. PICK k \in 1..n : e = live[k] /\ \A j \in 1..kept : Pruned[j] # e
      BY <1>4
    <3>2. ASSUME k # 1, k # n PROVE FALSE
      <4>1. k - 1 \in 1..kept /\ ~(k - 1 + excess > kept) /\ k - 1 + excess = k
        BY <1>1, <2>1, <3>2
      <4>2. Pruned[k - 1] = live[k]
        BY <1>2, <4>1
      <4> QED
        BY <3>1, <4>1, <4>2
    <3> QED
      BY <3>1, <3>2
  <2>3. Cardinality(Lost) <= 2
    BY <2>2, AtMostTwo
  <2> QED
    BY <1>5, <1>6, <2>3
<1>7. CASE ~(MaxEntries > 0 /\ n >= MaxEntries)
  <2>1. excess = 0 /\ kept = n
    BY <1>1, <1>7, ExcessFits
  <2>2. \A k \in 1..n : Pruned[k] = live[k]
    BY <1>1, <1>2, <2>1
  <2>3. Lost = {}
    BY <1>4, <2>1, <2>2
  <2>4. Cardinality(Lost) = 0
    BY <2>3, FS_EmptySet
  <2> QED
    BY <1>5, <1>7, <2>4
<1> QED
  BY <1>6, <1>7

\* A Set loses no live entry while there is room, and at most two at the cap: the oldest
\* and the one that prune's clean-up loop zeroes.
THEOREM CacheLosesLittle == CacheSpec => LossBounded
<1>1. CacheInv => [\A t \in Threads : SetLocked(t) =>
         Cardinality(Lost) <= IF MaxEntries > 0 /\ Occupied >= MaxEntries THEN 2 ELSE 0]_cacheVars
  BY LossStep
<1> QED
  BY <1>1, CacheInvariant, PTL DEF LossBounded
=============================================================================
