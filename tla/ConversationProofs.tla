------------------------- MODULE ConversationProofs -------------------------
(***************************************************************************)
(* Proofs about Conversation, for any number of requests, sessions and     *)
(* tool calls: exchanges are stored whole, finished ones are remembered,   *)
(* the cleanup spares running requests, and a tool cache holds the results *)
(* of successful calls, the most recently used ones.                       *)
(***************************************************************************)
EXTENDS Conversation, FilterTheorems

-----------------------------------------------------------------------------
(* The inductive invariant, part by part.                                   *)

\* What a request has left in the log of its session, as long as that is not lost.
InLog(r, message) == \E i \in 1..Len(log[session[r]]) : log[session[r]][i] = message
InOrder(r) ==
    \E i, j \in 1..Len(log[session[r]]) :
        i < j /\ log[session[r]][i] = Question(r) /\ log[session[r]][j] = Answer(r)
Kept(r) ==
    pc[r] # "idle" /\ r \notin lost =>
        /\ session[r] \in DOMAIN store
        /\ pc[r] \in {"turn", "answer"} => InLog(r, Question(r))
        /\ pc[r] = "done" => InOrder(r)
KeptInv == \A r \in Requests : Kept(r)

\* A session remembers the newest MaxHistory messages of its log.
Window(messages, all) ==
    /\ Len(messages) = IF Len(all) > MaxHistory THEN MaxHistory ELSE Len(all)
    /\ \A i \in 1..Len(messages) : messages[i] = all[Len(all) - Len(messages) + i]
WindowInv == \A s \in DOMAIN store : Window(store[s].messages, log[s])

\* A session has been idle for no longer than any request that uses it has run.
Fresh(r) ==
    /\ pc[r] \in {"idle", "done"} => age[r] = 0
    /\ r \in Running /\ session[r] \in DOMAIN store => store[session[r]].idle <= age[r]
FreshInv == \A r \in Requests : Fresh(r)

\* Only results of registered tools, under their own key.
Genuine(e) == e.of \in Known /\ KeyOf[e.of] = e.key
GenuineInv ==
    \A r \in Requests : /\ \A i \in 1..Len(cache[r]) : Genuine(cache[r][i])
                        /\ \A i \in 1..Len(uses[r]) : Genuine(uses[r][i])

-----------------------------------------------------------------------------
(* The session store.                                                       *)

\* The part of TypeOK that is about the store and its log.
SessionOK(x) ==
    x \in [messages : Seq(Messages), idle : 0..TTL + 1] /\ Len(x.messages) <= MaxHistory
StoreOK ==
    /\ DOMAIN store \subseteq Sessions /\ \A s \in DOMAIN store : SessionOK(store[s])
    /\ log \in [Sessions -> Seq(Messages)]

LEMMA MessagesType ==
  ASSUME NEW r \in Requests
  PROVE  Question(r) \in Messages /\ Answer(r) \in Messages
  BY DEF Question, Answer, Messages

\* Add's trimming keeps the window on the log.
LEMMA TrimmedWindow ==
  ASSUME NEW m \in Seq(Messages), NEW all \in Seq(Messages), NEW x \in Messages, Window(m, all)
  PROVE  /\ Trimmed(Append(m, x)) \in Seq(Messages)
         /\ Len(Trimmed(Append(m, x))) <= MaxHistory
         /\ Window(Trimmed(Append(m, x)), Append(all, x))
<1> DEFINE q == Append(m, x)
           a == Append(all, x)
<1>0. MaxHistory \in Nat /\ MaxHistory >= 1
  BY StoreAssumption
<1>1. /\ q \in Seq(Messages) /\ Len(q) = Len(m) + 1 /\ q[Len(m) + 1] = x
      /\ \A i \in 1..Len(m) : q[i] = m[i]
      /\ Len(m) \in Nat
  OBVIOUS
<1>2. /\ a \in Seq(Messages) /\ Len(a) = Len(all) + 1 /\ a[Len(all) + 1] = x
      /\ \A i \in 1..Len(all) : a[i] = all[i]
      /\ Len(all) \in Nat
  OBVIOUS
<1>3. /\ Len(m) = IF Len(all) > MaxHistory THEN MaxHistory ELSE Len(all)
      /\ \A i \in 1..Len(m) : m[i] = all[Len(all) - Len(m) + i]
  BY DEF Window
<1> HIDE DEF q, a
\* Before trimming, q is the tail of the new log.
<1>4. ASSUME NEW i \in 1..Len(q) PROVE q[i] = a[Len(a) - Len(q) + i]
  <2>1. CASE i = Len(m) + 1
    <3>1. Len(a) - Len(q) + i = Len(all) + 1
      BY <1>1, <1>2, <2>1
    <3> QED
      BY <1>1, <1>2, <2>1, <3>1
  <2>2. CASE i # Len(m) + 1
    <3>1. i \in 1..Len(m) /\ Len(a) - Len(q) + i = Len(all) - Len(m) + i
      BY <1>1, <1>2, <1>4, <2>2
    <3>2. Len(all) - Len(m) + i \in 1..Len(all)
      BY <1>0, <1>1, <1>2, <1>3, <3>1
    <3> QED
      BY <1>1, <1>2, <1>3, <3>1, <3>2
  <2> QED
    BY <2>1, <2>2
<1>5. CASE Len(q) > MaxHistory
  <2> DEFINE t == SubSeq(q, Len(q) - MaxHistory + 1, Len(q))
  <2>1. Len(q) = MaxHistory + 1 /\ Len(q) - MaxHistory + 1 = 2
    BY <1>0, <1>1, <1>2, <1>3, <1>5
  <2>2. t \in Seq(Messages) /\ Len(t) = MaxHistory /\ \A i \in 1..MaxHistory : t[i] = q[i + 1]
    BY <1>0, <1>1, <2>1
  <2>3. Trimmed(q) = t
    BY <1>5 DEF Trimmed
  <2> HIDE DEF t
  <2>4. ASSUME NEW i \in 1..MaxHistory PROVE t[i] = a[Len(a) - MaxHistory + i]
    <3>1. i + 1 \in 1..Len(q) /\ Len(a) - Len(q) + (i + 1) = Len(a) - MaxHistory + i
      BY <1>0, <1>2, <2>1
    <3> QED
      BY <1>4, <2>2, <3>1
  <2>5. Len(a) > MaxHistory
    BY <1>0, <1>1, <1>2, <1>3, <2>1
  <2>6. Window(t, a)
    BY <1>0, <2>2, <2>4, <2>5 DEF Window
  <2>7. Len(t) <= MaxHistory
    BY <1>0, <2>2
  <2> QED
    BY <2>2, <2>3, <2>6, <2>7 DEF q, a
<1>6. CASE ~(Len(q) > MaxHistory)
  <2>1. Trimmed(q) = q
    BY <1>6 DEF Trimmed
  <2>2. Len(q) = Len(a) /\ Len(q) <= MaxHistory
    BY <1>0, <1>1, <1>2, <1>3, <1>6
  <2>3. Window(q, a)
    BY <1>0, <1>2, <1>4, <2>2 DEF Window
  <2> QED
    BY <1>1, <2>1, <2>2, <2>3 DEF q, a
<1> QED
  BY <1>5, <1>6

\* GetOrCreate leaves the session there, just used, and resets the log of a new one only.
LEMMA GetOrCreateEffect ==
  ASSUME StoreOK, WindowInv, NEW s \in Sessions, GetOrCreate(s)
  PROVE  /\ StoreOK' /\ WindowInv'
         /\ DOMAIN store' = DOMAIN store \cup {s} /\ store'[s].idle = 0
         /\ \A x \in DOMAIN store : x # s => store'[x] = store[x]
         /\ \A x \in Sessions : x # s \/ s \in DOMAIN store => log'[x] = log[x]
<1>0. MaxHistory \in Nat /\ TTL \in Nat
  BY StoreAssumption
<1>1. CASE s \in DOMAIN store /\ store' = With(s, store[s].messages) /\ UNCHANGED log
  <2>1. /\ DOMAIN store' = DOMAIN store \cup {s}
        /\ store'[s] = [messages |-> store[s].messages, idle |-> 0]
        /\ \A x \in DOMAIN store : x # s => store'[x] = store[x]
    BY <1>1 DEF With
  <2>2. StoreOK'
    BY <1>0, <1>1, <2>1 DEF StoreOK, SessionOK
  <2>3. WindowInv'
    BY <1>1, <2>1 DEF WindowInv
  <2> QED
    BY <1>1, <2>1, <2>2, <2>3
<1>2. CASE s \notin DOMAIN store /\ store' = With(s, <<>>) /\ log' = [log EXCEPT ![s] = <<>>]
  <2>1. /\ DOMAIN store' = DOMAIN store \cup {s}
        /\ store'[s] = [messages |-> <<>>, idle |-> 0]
        /\ \A x \in DOMAIN store : x # s => store'[x] = store[x]
    BY <1>2 DEF With
  <2>2. /\ log' \in [Sessions -> Seq(Messages)] /\ log'[s] = <<>>
        /\ \A x \in Sessions : x # s => log'[x] = log[x]
    BY <1>2 DEF StoreOK
  <2>3. SessionOK(store'[s])
    BY <1>0, <2>1 DEF SessionOK
  <2>4. StoreOK'
    BY <2>1, <2>2, <2>3 DEF StoreOK, SessionOK
  <2>5. Window(<<>>, <<>>)
    BY <1>0 DEF Window
  <2>6. WindowInv'
    <3>1. \A x \in DOMAIN store : x \in Sessions
      BY DEF StoreOK
    <3> QED
      BY <2>1, <2>2, <2>5, <3>1 DEF WindowInv
  <2> QED
    BY <1>2, <2>1, <2>2, <2>4, <2>6
<1> QED
  BY <1>1, <1>2 DEF GetOrCreate

\* Add appends to a session that is there, which counts as a use, and nothing else.
LEMMA AddEffect ==
  ASSUME StoreOK, WindowInv, NEW s \in Sessions, NEW m \in Messages, Add(s, m)
  PROVE  /\ StoreOK' /\ WindowInv'
         /\ DOMAIN store' = DOMAIN store
         /\ s \in DOMAIN store => store'[s].idle = 0 /\ log'[s] = Append(log[s], m)
         /\ \A x \in DOMAIN store : x # s => store'[x] = store[x]
         /\ \A x \in Sessions : x # s => log'[x] = log[x]
<1>0. MaxHistory \in Nat /\ TTL \in Nat
  BY StoreAssumption
<1>1. CASE s \notin DOMAIN store /\ UNCHANGED <<store, log>>
  BY <1>1 DEF StoreOK, SessionOK, WindowInv
<1>2. CASE /\ s \in DOMAIN store
           /\ store' = With(s, Trimmed(Append(store[s].messages, m)))
           /\ log' = [log EXCEPT ![s] = Append(@, m)]
  <2> DEFINE t == Trimmed(Append(store[s].messages, m))
  <2>1. /\ store[s].messages \in Seq(Messages) /\ log[s] \in Seq(Messages)
        /\ Window(store[s].messages, log[s])
    BY <1>2 DEF StoreOK, SessionOK, WindowInv
  <2>2. /\ t \in Seq(Messages) /\ Len(t) <= MaxHistory /\ Window(t, Append(log[s], m))
    BY <2>1, TrimmedWindow
  <2>3. Append(log[s], m) \in Seq(Messages)
    BY <2>1
  <2> HIDE DEF t
  <2>4. /\ DOMAIN store' = DOMAIN store /\ store'[s] = [messages |-> t, idle |-> 0]
        /\ \A x \in DOMAIN store : x # s => store'[x] = store[x]
    BY <1>2 DEF With, t
  <2>5. /\ log' \in [Sessions -> Seq(Messages)] /\ log'[s] = Append(log[s], m)
        /\ \A x \in Sessions : x # s => log'[x] = log[x]
    BY <1>2, <2>3 DEF StoreOK
  <2>6. SessionOK(store'[s])
    BY <1>0, <2>2, <2>4 DEF SessionOK
  <2>7. StoreOK'
    BY <2>4, <2>5, <2>6 DEF StoreOK, SessionOK
  <2>8. WindowInv'
    <3>1. \A x \in DOMAIN store : x \in Sessions
      BY DEF StoreOK
    <3>2. Window(store'[s].messages, log'[s])
      BY <2>2, <2>4, <2>5
    <3>3. ASSUME NEW x \in DOMAIN store' PROVE Window(store'[x].messages, log'[x])
      BY <2>4, <2>5, <3>1, <3>2 DEF WindowInv
    <3> QED
      BY <3>3 DEF WindowInv
  <2> QED
    BY <2>4, <2>5, <2>7, <2>8
<1> QED
  BY <1>1, <1>2 DEF Add

\* Removing sessions leaves the others alone.
LEMMA RemoveEffect ==
  ASSUME StoreOK, WindowInv, NEW gone, Remove(gone), UNCHANGED log
  PROVE  /\ StoreOK' /\ WindowInv'
         /\ DOMAIN store' = DOMAIN store \ gone
         /\ \A x \in DOMAIN store' : store'[x] = store[x]
<1>1. DOMAIN store' = DOMAIN store \ gone /\ \A x \in DOMAIN store' : store'[x] = store[x]
  BY DEF Remove, Without
<1> QED
  BY <1>1 DEF StoreOK, SessionOK, WindowInv

\* A tick ages the sessions, up to a tick past the TTL.
LEMMA TickEffect ==
  ASSUME StoreOK, Tick
  PROVE  /\ DOMAIN store' = DOMAIN store
         /\ \A s \in DOMAIN store :
               /\ store'[s].messages = store[s].messages
               /\ store'[s].idle = IF store[s].idle <= TTL THEN store[s].idle + 1 ELSE store[s].idle
               /\ store'[s] \in [messages : Seq(Messages), idle : 0..TTL + 1]
<1>0. TTL \in Nat
  BY StoreAssumption
<1>1. ASSUME NEW s \in DOMAIN store
      PROVE  /\ store'[s].messages = store[s].messages
             /\ store'[s].idle = IF store[s].idle <= TTL THEN store[s].idle + 1 ELSE store[s].idle
             /\ store'[s] \in [messages : Seq(Messages), idle : 0..TTL + 1]
  <2> DEFINE x == store[s]
             n == IF x.idle <= TTL THEN x.idle + 1 ELSE x.idle
  <2>1. x \in [messages : Seq(Messages), idle : 0..TTL + 1]
    BY DEF StoreOK, SessionOK
  <2>2. n \in 0..TTL + 1
    BY <1>0, <2>1
  <2>3. store'[s] = [x EXCEPT !.idle = n]
    BY Zenon DEF Tick
  <2> HIDE DEF n, x
  <2>4. /\ [x EXCEPT !.idle = n] \in [messages : Seq(Messages), idle : 0..TTL + 1]
        /\ [x EXCEPT !.idle = n].messages = x.messages /\ [x EXCEPT !.idle = n].idle = n
    BY <2>1, <2>2
  <2> QED
    BY <2>3, <2>4 DEF n, x
<1>2. DOMAIN store' = DOMAIN store
  BY Zenon DEF Tick
<1> QED
  BY <1>1, <1>2

-----------------------------------------------------------------------------
(* The tool cache.                                                          *)

\* The positions of the entries with another key.
Elsewhere(c, k) == {i \in 1..Len(c) : c[i].key # k}

LEMMA OthersShape ==
  ASSUME NEW c \in Seq(Entries), NEW k
  PROVE  /\ Elsewhere(c, k) \subseteq 1..Len(c)
         /\ Others(c, k) = Pick(c, Elsewhere(c, k))
         /\ Others(c, k) \in Seq(Entries) /\ Len(Others(c, k)) = Cardinality(Elsewhere(c, k))
         /\ Cardinality(Elsewhere(c, k)) \in Nat /\ Cardinality(Elsewhere(c, k)) <= Len(c)
         /\ \A j \in 1..Cardinality(Elsewhere(c, k)) :
               /\ Nth(Elsewhere(c, k), j) \in Elsewhere(c, k)
               /\ Others(c, k)[j] = c[Nth(Elsewhere(c, k), j)]
<1>1. Elsewhere(c, k) \subseteq 1..Len(c)
  BY DEF Elsewhere
<1>2. Others(c, k) = Pick(c, Elsewhere(c, k))
  BY DEF Others, Elsewhere
<1> QED
  BY <1>1, <1>2, PickSeq

\* A hit keeps the entries and puts its own first.
LEMMA PromotedShape ==
  ASSUME NEW c \in Seq(Entries), NEW i \in 1..Len(c)
  PROVE  LET p == Promoted(c, c[i])
             o == Others(c, c[i].key)
         IN  /\ p \in Seq(Entries) /\ Len(p) = Len(o) + 1 /\ Len(o) < Len(c) /\ Len(o) \in Nat
             /\ p[1] = c[i] /\ \A j \in 1..Len(o) : p[j + 1] = o[j]
             /\ \A j \in 1..Len(p) : \E l \in 1..Len(c) : p[j] = c[l]
<1> DEFINE k == c[i].key
           I == Elsewhere(c, k)
           o == Others(c, k)
           p == Promoted(c, c[i])
<1>1. /\ o \in Seq(Entries) /\ Len(o) = Cardinality(I) /\ Cardinality(I) \in Nat
      /\ I \subseteq 1..Len(c)
      /\ \A j \in 1..Cardinality(I) : Nth(I, j) \in I /\ o[j] = c[Nth(I, j)]
  BY OthersShape
<1>2. Cardinality(I) < Len(c)
  <2>1. IsFiniteSet(1..Len(c)) /\ Cardinality(1..Len(c)) = Len(c)
    <3>1. Len(c) \in Nat
      OBVIOUS
    <3>2. IsFiniteSet(1..Len(c)) /\ Cardinality(1..Len(c)) = IF 1 > Len(c) THEN 0 ELSE Len(c)-1+1
      BY <3>1, FS_Interval
    <3> QED
      BY <3>1, <3>2
  <2>2. I \subseteq 1..Len(c) /\ i \notin I
    BY DEF Elsewhere
  <2>3. Cardinality(I) < Cardinality(1..Len(c))
    BY <2>1, <2>2, SmallerSubset
  <2> QED
    BY <2>1, <2>3
<1>3. c[i] \in Entries
  OBVIOUS
<1>4. \A j \in 1..Len(o) : \E l \in 1..Len(c) : o[j] = c[l]
  BY <1>1
<1> HIDE DEF o, I
<1>5. p = <<c[i]>> \o o
  BY DEF Promoted, o
<1>6. /\ p \in Seq(Entries) /\ Len(p) = Len(o) + 1 /\ p[1] = c[i]
      /\ \A j \in 1..Len(o) : p[j + 1] = o[j]
  BY <1>1, <1>3, <1>5
<1>7. ASSUME NEW j \in 1..Len(p) PROVE \E l \in 1..Len(c) : p[j] = c[l]
  <2>1. CASE j = 1
    BY <1>6, <2>1
  <2>2. CASE j # 1
    <3>1. j - 1 \in 1..Len(o) /\ (j - 1) + 1 = j
      BY <1>1, <1>6, <2>2
    <3> QED
      BY <1>4, <1>6, <3>1
  <2> QED
    BY <2>1, <2>2
<1> QED
  BY <1>1, <1>2, <1>6, <1>7 DEF o

\* A store puts the new entry first and drops the last one if there is no room.
LEMMA StoredShape ==
  ASSUME NEW c \in Seq(Entries), Len(c) <= CacheMax, NEW e \in Entries
  PROVE  LET n == IF Len(c) >= CacheMax THEN Len(c) - 1 ELSE Len(c) IN
         /\ Stored(c, e) \in Seq(Entries) /\ Len(Stored(c, e)) = n + 1
         /\ n \in Nat /\ n <= Len(c) /\ n + 1 <= CacheMax
         /\ Stored(c, e)[1] = e /\ \A j \in 1..n : Stored(c, e)[j + 1] = c[j]
         /\ \A j \in 1..n+1 : Stored(c, e)[j] = e \/ \E l \in 1..Len(c) : Stored(c, e)[j] = c[l]
<1> DEFINE n == IF Len(c) >= CacheMax THEN Len(c) - 1 ELSE Len(c)
           rest == IF Len(c) >= CacheMax THEN SubSeq(c, 1, Len(c) - 1) ELSE c
           t == Stored(c, e)
<1>0. CacheMax \in Nat /\ CacheMax >= 1 /\ Len(c) \in Nat
  BY LoopAssumption
<1>1. n \in Nat /\ n <= Len(c) /\ n + 1 <= CacheMax
  BY <1>0
<1>2. rest \in Seq(Entries) /\ Len(rest) = n /\ \A j \in 1..n : rest[j] = c[j]
  <2>1. CASE Len(c) >= CacheMax
    <3>1. Len(c) - 1 \in Nat /\ rest = SubSeq(c, 1, Len(c) - 1) /\ n = Len(c) - 1
      BY <1>0, <2>1
    <3> QED
      BY <1>0, <3>1
  <2>2. CASE ~(Len(c) >= CacheMax)
    BY <2>2
  <2> QED
    BY <2>1, <2>2
<1>3. t = <<e>> \o rest
  BY DEF Stored
<1> HIDE DEF rest, t
<1>4. /\ t \in Seq(Entries) /\ Len(t) = n + 1 /\ t[1] = e
      /\ \A j \in 1..n : t[j + 1] = c[j]
  BY <1>1, <1>2, <1>3
<1>5. ASSUME NEW j \in 1..n+1 PROVE t[j] = e \/ \E l \in 1..Len(c) : t[j] = c[l]
  <2>1. CASE j = 1
    BY <1>4, <2>1
  <2>2. CASE j # 1
    <3>1. j - 1 \in 1..n /\ (j - 1) + 1 = j /\ j - 1 \in 1..Len(c)
      BY <1>0, <1>1, <2>2
    <3> QED
      BY <1>4, <3>1
  <2> QED
    BY <2>1, <2>2
<1> QED
  BY <1>1, <1>4, <1>5 DEF t

\* What a tool call can do to its request's cache: nothing; a hit on entry i; a store of
\* a genuine entry for a key that was not there.
Hit(r, i) ==
    /\ cache' = [cache EXCEPT ![r] = Promoted(@, cache[r][i])]
    /\ uses' = [uses EXCEPT ![r] = Append(@, cache[r][i])]
Store(r, e) ==
    /\ ~Found(cache[r], e.key) /\ Genuine(e)
    /\ cache' = [cache EXCEPT ![r] = Stored(@, e)]
    /\ uses' = [uses EXCEPT ![r] = Append(@, e)]

LEMMA ToolEffect ==
  ASSUME NEW r \in Requests, NEW c \in Calls, UseTool(r, c)
  PROVE  \/ UNCHANGED <<cache, uses>>
         \/ \E i \in 1..Len(cache[r]) : Hit(r, i)
         \/ \E e \in Entries : Store(r, e)
<1>1. CASE CacheEnabled /\ \E i \in 1..Len(cache[r]) : Hit(r, i)
  BY <1>1
<1>2. ASSUME ~CacheEnabled \/ ~Found(cache[r], KeyOf[c]), NEW result \in Results(c),
             Cacheable(result),
             cache' = [cache EXCEPT ![r] = Stored(@, [key |-> KeyOf[c], of |-> result])],
             uses' = [uses EXCEPT ![r] = Append(@, [key |-> KeyOf[c], of |-> result])]
      PROVE  \E e \in Entries : Store(r, e)
  <2> DEFINE e == [key |-> KeyOf[c], of |-> result]
  <2>1. result = c /\ c \in Known /\ ~Found(cache[r], KeyOf[c])
    BY <1>2 DEF Results, Cacheable
  <2>2. e \in Entries /\ Genuine(e) /\ e.key = KeyOf[c]
    BY <2>1 DEF Entries, Keys, Genuine
  <2> QED
    BY <1>2, <2>1, <2>2 DEF Store
<1> QED
  BY <1>1, <1>2 DEF UseTool, Hit

-----------------------------------------------------------------------------
(* Types.                                                                   *)

\* The part of TypeOK that is about requests, and how far each has come with its turns.
RequestOK ==
    /\ pc \in [Requests -> Places] /\ session \in [Requests -> Sessions]
    /\ age \in [Requests -> 0..MaxRun]
    /\ history \in [Requests -> Seq(Messages)]
    /\ turn \in [Requests -> 0..MaxTurns]
    /\ cache \in [Requests -> Seq(Entries)]
    /\ \A r \in Requests : Len(cache[r]) <= CacheMax
    /\ uses \in [Requests -> Seq(Entries)]
    /\ lost \subseteq Requests
TurnsLeft ==
    \A r \in Requests : /\ pc[r] \in {"idle", "read", "question"} => turn[r] = 0
                        /\ pc[r] = "turn" => turn[r] < MaxTurns
ConvTypes == StoreOK /\ WindowInv /\ RequestOK /\ TurnsLeft

LEMMA TypesSplit == TypeOK <=> StoreOK /\ RequestOK
  BY DEF TypeOK, StoreOK, SessionOK, RequestOK

LEMMA GotoType ==
  ASSUME RequestOK, NEW r \in Requests, NEW w \in Places, Goto(r, w)
  PROVE  /\ pc' \in [Requests -> Places] /\ pc'[r] = w
         /\ \A q \in Requests : q # r => pc'[q] = pc[q]
  BY DEF RequestOK, Goto

LEMMA PlaceNames ==
  \A w \in {"idle", "read", "question", "turn", "answer", "done"} : w \in Places
  BY DEF Places

\* A tool call keeps the cache within its limit and genuine.
LEMMA ToolTypes ==
  ASSUME RequestOK, GenuineInv, NEW r \in Requests, NEW c \in Calls, UseTool(r, c)
  PROVE  /\ cache' \in [Requests -> Seq(Entries)] /\ uses' \in [Requests -> Seq(Entries)]
         /\ \A q \in Requests : Len(cache'[q]) <= CacheMax
         /\ GenuineInv'
<1>0. /\ cache \in [Requests -> Seq(Entries)] /\ uses \in [Requests -> Seq(Entries)]
      /\ \A q \in Requests : Len(cache[q]) <= CacheMax
      /\ CacheMax \in Nat
  BY LoopAssumption DEF RequestOK
<1>1. CASE UNCHANGED <<cache, uses>>
  BY <1>0, <1>1 DEF GenuineInv
\* In both other cases r gets a new cache and one more use.
<1>2. ASSUME NEW p \in Seq(Entries), Len(p) <= CacheMax, NEW e \in Entries, Genuine(e),
             \A j \in 1..Len(p) : p[j] = e \/ \E l \in 1..Len(cache[r]) : p[j] = cache[r][l],
             cache' = [cache EXCEPT ![r] = p], uses' = [uses EXCEPT ![r] = Append(@, e)]
      PROVE  /\ cache' \in [Requests -> Seq(Entries)] /\ uses' \in [Requests -> Seq(Entries)]
             /\ \A q \in Requests : Len(cache'[q]) <= CacheMax
             /\ GenuineInv'
  <2>1. /\ cache' \in [Requests -> Seq(Entries)] /\ cache'[r] = p
        /\ \A q \in Requests : q # r => cache'[q] = cache[q]
    BY <1>0, <1>2
  <2>2. uses[r] \in Seq(Entries) /\ Append(uses[r], e) \in Seq(Entries)
    BY <1>0
  <2>3. /\ uses' \in [Requests -> Seq(Entries)] /\ uses'[r] = Append(uses[r], e)
        /\ \A q \in Requests : q # r => uses'[q] = uses[q]
    BY <1>0, <1>2, <2>2
  <2>4. \A j \in 1..Len(p) : Genuine(p[j])
    BY <1>2 DEF GenuineInv
  <2>5. \A j \in 1..Len(Append(uses[r], e)) : Genuine(Append(uses[r], e)[j])
    <3>1. ASSUME NEW j \in 1..Len(Append(uses[r], e)) PROVE Genuine(Append(uses[r], e)[j])
      <4>1. CASE j = Len(uses[r]) + 1
        BY <1>2, <2>2, <4>1
      <4>2. CASE j # Len(uses[r]) + 1
        <5>1. j \in 1..Len(uses[r]) /\ Append(uses[r], e)[j] = uses[r][j]
          BY <2>2, <4>2
        <5> QED
          BY <5>1 DEF GenuineInv
      <4> QED
        BY <4>1, <4>2
    <3> QED
      BY <3>1
  <2>6. ASSUME NEW q \in Requests
        PROVE  /\ \A i \in 1..Len(cache'[q]) : Genuine(cache'[q][i])
               /\ \A i \in 1..Len(uses'[q]) : Genuine(uses'[q][i])
    <3>1. CASE q = r
      BY <2>1, <2>3, <2>4, <2>5, <3>1
    <3>2. CASE q # r
      BY <2>1, <2>3, <3>2 DEF GenuineInv
    <3> QED
      BY <3>1, <3>2
  <2>7. GenuineInv'
    BY <2>6 DEF GenuineInv
  <2> QED
    BY <1>0, <1>2, <2>1, <2>3, <2>7
<1>3. ASSUME NEW i \in 1..Len(cache[r]), Hit(r, i)
      PROVE  /\ cache' \in [Requests -> Seq(Entries)] /\ uses' \in [Requests -> Seq(Entries)]
             /\ \A q \in Requests : Len(cache'[q]) <= CacheMax
             /\ GenuineInv'
  <2> DEFINE p == Promoted(cache[r], cache[r][i])
  <2>1. cache[r] \in Seq(Entries) /\ cache[r][i] \in Entries /\ Len(cache[r]) \in Nat
    BY <1>0
  <2>2. /\ p \in Seq(Entries) /\ Len(p) <= Len(cache[r])
        /\ \A j \in 1..Len(p) : \E l \in 1..Len(cache[r]) : p[j] = cache[r][l]
    <3> DEFINE o == Others(cache[r], cache[r][i].key)
    <3>1. /\ p \in Seq(Entries) /\ Len(p) = Len(o) + 1 /\ Len(o) < Len(cache[r]) /\ Len(o) \in Nat
          /\ \A j \in 1..Len(p) : \E l \in 1..Len(cache[r]) : p[j] = cache[r][l]
      BY <2>1, PromotedShape
    <3> HIDE DEF o, p
    <3> QED
      BY <2>1, <3>1
  <2>3. Len(p) <= CacheMax
    BY <1>0, <2>1, <2>2
  <2>4. cache' = [cache EXCEPT ![r] = p] /\ uses' = [uses EXCEPT ![r] = Append(@, cache[r][i])]
    BY <1>3 DEF Hit
  <2>5. Genuine(cache[r][i])
    BY DEF GenuineInv
  <2> HIDE DEF p
  <2> QED
    BY <1>2, <2>1, <2>2, <2>3, <2>4, <2>5
<1>4. ASSUME NEW e \in Entries, Store(r, e)
      PROVE  /\ cache' \in [Requests -> Seq(Entries)] /\ uses' \in [Requests -> Seq(Entries)]
             /\ \A q \in Requests : Len(cache'[q]) <= CacheMax
             /\ GenuineInv'
  <2> DEFINE p == Stored(cache[r], e)
  <2>1. cache[r] \in Seq(Entries) /\ Len(cache[r]) <= CacheMax
    BY <1>0
  <2>2. /\ p \in Seq(Entries) /\ Len(p) <= CacheMax
        /\ \A j \in 1..Len(p) : p[j] = e \/ \E l \in 1..Len(cache[r]) : p[j] = cache[r][l]
    <3> DEFINE n == IF Len(cache[r]) >= CacheMax THEN Len(cache[r]) - 1 ELSE Len(cache[r])
    <3>1. /\ p \in Seq(Entries) /\ Len(p) = n + 1 /\ n \in Nat /\ n + 1 <= CacheMax
          /\ \A j \in 1..n+1 : p[j] = e \/ \E l \in 1..Len(cache[r]) : p[j] = cache[r][l]
      BY <2>1, StoredShape
    <3> HIDE DEF n, p
    <3> QED
      BY <3>1
  <2>3. /\ cache' = [cache EXCEPT ![r] = p] /\ uses' = [uses EXCEPT ![r] = Append(@, e)]
        /\ Genuine(e)
    BY <1>4 DEF Store
  <2> HIDE DEF p
  <2> QED
    BY <1>2, <2>2, <2>3
<1> QED
  BY <1>1, <1>3, <1>4, ToolEffect

LEMMA TypesStep ==
  ASSUME ConvTypes, GenuineInv, [Next]_vars
  PROVE  ConvTypes' /\ GenuineInv'
<1>0. /\ StoreOK /\ WindowInv /\ RequestOK /\ TurnsLeft
      /\ MaxRun \in Nat /\ TTL \in Nat /\ MaxTurns \in Nat /\ MaxTurns >= 1
  BY StoreAssumption, LoopAssumption DEF ConvTypes
<1>1. ASSUME NEW r \in Requests, Begin(r) PROVE ConvTypes' /\ GenuineInv'
  <2>1. /\ pc[r] = "idle" /\ GetOrCreate(session[r]) /\ Goto(r, "read")
        /\ UNCHANGED <<session, age, history, turn, cache, uses, lost>> /\ session[r] \in Sessions
    BY <1>0, <1>1 DEF Begin, loop, RequestOK
  <2>2. StoreOK' /\ WindowInv'
    BY <1>0, <2>1, GetOrCreateEffect
  <2>3. /\ pc' \in [Requests -> Places] /\ pc'[r] = "read"
        /\ \A q \in Requests : q # r => pc'[q] = pc[q]
    BY <1>0, <2>1, PlaceNames, GotoType
  <2>4. RequestOK' /\ TurnsLeft' /\ GenuineInv'
    BY <1>0, <2>1, <2>3 DEF RequestOK, TurnsLeft, GenuineInv
  <2> QED
    BY <2>2, <2>4 DEF ConvTypes
<1>2. ASSUME NEW r \in Requests, ReadHistory(r) PROVE ConvTypes' /\ GenuineInv'
  <2>1. /\ pc[r] = "read" /\ Goto(r, "question")
        /\ UNCHANGED <<store, lost, log, session, age, turn, cache, uses>>
        /\ history' = [history EXCEPT ![r] = IF session[r] \in DOMAIN store
                                             THEN store[session[r]].messages ELSE <<>>]
    BY <1>2 DEF ReadHistory, conversation, loop
  <2>2. StoreOK' /\ WindowInv'
    BY <1>0, <2>1 DEF StoreOK, SessionOK, WindowInv
  <2>3. /\ pc' \in [Requests -> Places] /\ pc'[r] = "question"
        /\ \A q \in Requests : q # r => pc'[q] = pc[q]
    BY <1>0, <2>1, PlaceNames, GotoType
  <2>4. history' \in [Requests -> Seq(Messages)]
    <3>1. (IF session[r] \in DOMAIN store THEN store[session[r]].messages ELSE <<>>) \in Seq(Messages)
      BY <1>0 DEF StoreOK, SessionOK
    <3> QED
      BY <1>0, <2>1, <3>1 DEF RequestOK
  <2>5. RequestOK' /\ TurnsLeft' /\ GenuineInv'
    BY <1>0, <2>1, <2>3, <2>4 DEF RequestOK, TurnsLeft, GenuineInv
  <2> QED
    BY <2>2, <2>5 DEF ConvTypes
<1>3. ASSUME NEW r \in Requests, AddQuestion(r) PROVE ConvTypes' /\ GenuineInv'
  <2>1. /\ pc[r] = "question" /\ Add(session[r], Question(r)) /\ Goto(r, "turn")
        /\ UNCHANGED <<session, age, history, turn, cache, uses, lost>> /\ session[r] \in Sessions
    BY <1>0, <1>3 DEF AddQuestion, loop, RequestOK
  <2>2. StoreOK' /\ WindowInv'
    BY <1>0, <2>1, AddEffect, MessagesType
  <2>3. /\ pc' \in [Requests -> Places] /\ pc'[r] = "turn"
        /\ \A q \in Requests : q # r => pc'[q] = pc[q]
    BY <1>0, <2>1, PlaceNames, GotoType
  <2>4. RequestOK' /\ TurnsLeft' /\ GenuineInv'
    BY <1>0, <2>1, <2>3 DEF RequestOK, TurnsLeft, GenuineInv
  <2> QED
    BY <2>2, <2>4 DEF ConvTypes
<1>4. ASSUME NEW r \in Requests, Turn(r) PROVE ConvTypes' /\ GenuineInv'
  <2>1. /\ pc[r] = "turn" /\ turn' = [turn EXCEPT ![r] = @ + 1]
        /\ UNCHANGED <<store, lost, log, session, age, history>>
        /\ turn[r] \in 0..MaxTurns /\ turn[r] < MaxTurns
    BY <1>0, <1>4 DEF Turn, conversation, RequestOK, TurnsLeft
  <2>2. StoreOK' /\ WindowInv'
    BY <1>0, <2>1 DEF StoreOK, SessionOK, WindowInv
  <2>3. /\ turn' \in [Requests -> 0..MaxTurns] /\ turn'[r] = turn[r] + 1
        /\ \A q \in Requests : q # r => turn'[q] = turn[q]
    BY <1>0, <2>1 DEF RequestOK
  <2>4. /\ cache' \in [Requests -> Seq(Entries)] /\ uses' \in [Requests -> Seq(Entries)]
        /\ \A q \in Requests : Len(cache'[q]) <= CacheMax
        /\ GenuineInv'
    <3>1. CASE UNCHANGED <<cache, uses>>
      BY <1>0, <3>1 DEF RequestOK, GenuineInv
    <3>2. CASE \E c \in Calls : UseTool(r, c)
      BY <1>0, <3>2, ToolTypes
    <3> QED
      BY <1>4, <3>1, <3>2 DEF Turn
  <2>5. PICK w \in {"answer", "turn"} :
           Goto(r, w) /\ (w = "turn" => turn[r] + 1 # MaxTurns)
    BY <1>4 DEF Turn
  <2>6. /\ pc' \in [Requests -> Places] /\ pc'[r] = w
        /\ \A q \in Requests : q # r => pc'[q] = pc[q]
    BY <1>0, <2>5, PlaceNames, GotoType
  <2>7. RequestOK'
    BY <1>0, <2>1, <2>3, <2>4, <2>6 DEF RequestOK
  <2>8. TurnsLeft'
    BY <1>0, <2>1, <2>3, <2>5, <2>6 DEF TurnsLeft
  <2> QED
    BY <2>2, <2>4, <2>7, <2>8 DEF ConvTypes
<1>5. ASSUME NEW r \in Requests, AddAnswer(r) PROVE ConvTypes' /\ GenuineInv'
  <2>1. /\ pc[r] = "answer" /\ Add(session[r], Answer(r)) /\ Goto(r, "done")
        /\ turn' = [turn EXCEPT ![r] = 0] /\ age' = [age EXCEPT ![r] = 0]
        /\ cache' = [cache EXCEPT ![r] = <<>>] /\ uses' = [uses EXCEPT ![r] = <<>>]
        /\ history' = [history EXCEPT ![r] = <<>>]
        /\ UNCHANGED <<session, lost>> /\ session[r] \in Sessions
    BY <1>0, <1>5 DEF AddAnswer, RequestOK
  <2>2. StoreOK' /\ WindowInv'
    BY <1>0, <2>1, AddEffect, MessagesType
  <2>3. /\ pc' \in [Requests -> Places] /\ pc'[r] = "done"
        /\ \A q \in Requests : q # r => pc'[q] = pc[q]
    BY <1>0, <2>1, PlaceNames, GotoType
  <2>4. /\ cache' \in [Requests -> Seq(Entries)] /\ uses' \in [Requests -> Seq(Entries)]
        /\ history' \in [Requests -> Seq(Messages)]
        /\ \A q \in Requests : /\ cache'[q] = IF q = r THEN <<>> ELSE cache[q]
                               /\ uses'[q] = IF q = r THEN <<>> ELSE uses[q]
    BY <1>0, <2>1 DEF RequestOK
  <2>5. /\ turn' \in [Requests -> 0..MaxTurns] /\ age' \in [Requests -> 0..MaxRun]
        /\ \A q \in Requests : q # r => turn'[q] = turn[q]
    BY <1>0, <2>1 DEF RequestOK
  <2>6. RequestOK'
    BY <1>0, <2>1, <2>3, <2>4, <2>5, LoopAssumption DEF RequestOK
  <2>7. TurnsLeft'
    BY <1>0, <2>3, <2>5 DEF TurnsLeft
  <2>8. ASSUME NEW q \in Requests
        PROVE  /\ \A i \in 1..Len(cache'[q]) : Genuine(cache'[q][i])
               /\ \A i \in 1..Len(uses'[q]) : Genuine(uses'[q][i])
    <3>1. CASE q = r
      BY <2>4, <3>1
    <3>2. CASE q # r
      BY <2>4, <3>2 DEF GenuineInv
    <3> QED
      BY <3>1, <3>2
  <2>9. GenuineInv'
    BY <2>8 DEF GenuineInv
  <2> QED
    BY <2>2, <2>6, <2>7, <2>9 DEF ConvTypes
<1>6. ASSUME NEW gone, Remove(gone), UNCHANGED <<pc, session, age, history, loop, log>>
      PROVE  ConvTypes' /\ GenuineInv'
  <2>1. StoreOK' /\ WindowInv'
    BY <1>0, <1>6, RemoveEffect
  <2>2. RequestOK' /\ TurnsLeft' /\ GenuineInv'
    BY <1>0, <1>6 DEF Remove, loop, RequestOK, TurnsLeft, GenuineInv
  <2> QED
    BY <2>1, <2>2 DEF ConvTypes
<1>7. CASE Tick
  <2>1. /\ UNCHANGED <<pc, session, history, turn, cache, uses, lost, log>>
        /\ age' = [r \in Requests |-> IF r \in Running THEN age[r] + 1 ELSE age[r]]
        /\ \A r \in Running : age[r] < MaxRun
    BY <1>7 DEF Tick, loop
  <2>2. age' \in [Requests -> 0..MaxRun]
    BY <1>0, <2>1 DEF RequestOK
  <2>3. /\ DOMAIN store' = DOMAIN store
        /\ \A s \in DOMAIN store :
              /\ store'[s].messages = store[s].messages
              /\ store'[s].idle = IF store[s].idle <= TTL THEN store[s].idle + 1 ELSE store[s].idle
              /\ store'[s] \in [messages : Seq(Messages), idle : 0..TTL + 1]
    BY <1>0, <1>7, TickEffect
  <2>4. StoreOK' /\ WindowInv'
    BY <1>0, <2>1, <2>3 DEF StoreOK, SessionOK, WindowInv
  <2>5. RequestOK' /\ TurnsLeft' /\ GenuineInv'
    BY <1>0, <2>1, <2>2 DEF RequestOK, TurnsLeft, GenuineInv
  <2> QED
    BY <2>4, <2>5 DEF ConvTypes
<1>8. CASE UNCHANGED vars
  BY <1>0, <1>8 DEF vars, ConvTypes, StoreOK, SessionOK, WindowInv, RequestOK, TurnsLeft, GenuineInv
<1> QED
  BY <1>1, <1>2, <1>3, <1>4, <1>5, <1>6, <1>7, <1>8 DEF Next, React, Delete, Cleanup

-----------------------------------------------------------------------------
(* Exchanges stay in the log; sessions in use stay fresh.                   *)

\* A log that only grew.
Grows(a, b) == Len(a) <= Len(b) /\ \A i \in 1..Len(a) : b[i] = a[i]

LEMMA KeptStays ==
  ASSUME ConvTypes, NEW q \in Requests, Kept(q), pc'[q] = pc[q], session' = session,
         lost \subseteq lost',
         pc[q] # "idle" /\ q \notin lost' /\ session[q] \in DOMAIN store =>
            session[q] \in DOMAIN store' /\ Grows(log[session[q]], log'[session[q]]),
         StoreOK'
  PROVE  Kept(q)'
<1>1. SUFFICES ASSUME pc[q] # "idle", q \notin lost'
               PROVE  /\ session[q] \in DOMAIN store'
                      /\ pc[q] \in {"turn", "answer"} => InLog(q, Question(q))'
                      /\ pc[q] = "done" => InOrder(q)'
  BY DEF Kept
<1>2. /\ session[q] \in DOMAIN store' /\ Grows(log[session[q]], log'[session[q]])
      /\ pc[q] \in {"turn", "answer"} => InLog(q, Question(q))
      /\ pc[q] = "done" => InOrder(q)
  BY <1>1 DEF Kept
<1>3. Len(log[session[q]]) \in Nat /\ Len(log'[session[q]]) \in Nat
  BY DEF ConvTypes, StoreOK, RequestOK
<1>4. \A i \in 1..Len(log[session[q]]) :
         i \in 1..Len(log'[session[q]]) /\ log'[session[q]][i] = log[session[q]][i]
  BY <1>2, <1>3 DEF Grows
<1>5. pc[q] \in {"turn", "answer"} => InLog(q, Question(q))'
  BY <1>2, <1>4 DEF InLog, Question
<1>6. pc[q] = "done" => InOrder(q)'
  BY <1>2, <1>4 DEF InOrder, Question, Answer
<1> QED
  BY <1>2, <1>5, <1>6

\* A request adds a message to its session: the other requests keep what they have.
LEMMA OthersKept ==
  ASSUME ConvTypes, KeptInv, NEW r \in Requests, NEW m \in Messages, Add(session[r], m),
         NEW q \in Requests, pc'[q] = pc[q], UNCHANGED <<session, lost>>
  PROVE  Kept(q)'
<1>1. /\ DOMAIN store' = DOMAIN store /\ StoreOK'
      /\ session[r] \in DOMAIN store => log'[session[r]] = Append(log[session[r]], m)
      /\ \A x \in Sessions : x # session[r] => log'[x] = log[x]
  BY AddEffect DEF ConvTypes, RequestOK
<1>2. session[q] \in Sessions /\ log[session[q]] \in Seq(Messages)
  BY DEF ConvTypes, RequestOK, StoreOK
<1>3. session[q] \in DOMAIN store => Grows(log[session[q]], log'[session[q]])
  BY <1>1, <1>2 DEF Grows
<1> QED
  BY <1>1, <1>3, KeptStays DEF KeptInv

LEMMA KeptStep ==
  ASSUME ConvTypes, GenuineInv, KeptInv, [Next]_vars
  PROVE  KeptInv'
<1>0. /\ StoreOK /\ WindowInv /\ RequestOK /\ \A q \in Requests : Kept(q)
      /\ ConvTypes' /\ StoreOK'
  BY TypesStep DEF ConvTypes, KeptInv
<1>00. \A q \in Requests : session[q] \in Sessions /\ log[session[q]] \in Seq(Messages)
  BY <1>0 DEF RequestOK, StoreOK
<1>1. ASSUME NEW r \in Requests, Begin(r) PROVE KeptInv'
  <2>1. /\ pc[r] = "idle" /\ GetOrCreate(session[r]) /\ Goto(r, "read") /\ UNCHANGED <<session, lost>>
    BY <1>1 DEF Begin
  <2>2. /\ pc'[r] = "read" /\ \A q \in Requests : q # r => pc'[q] = pc[q]
    BY <1>0, <2>1, PlaceNames, GotoType
  <2>3. /\ DOMAIN store' = DOMAIN store \cup {session[r]}
        /\ \A x \in Sessions : x # session[r] \/ session[r] \in DOMAIN store => log'[x] = log[x]
    BY <1>0, <1>00, <2>1, GetOrCreateEffect
  <2>4. ASSUME NEW q \in Requests, q # r PROVE Kept(q)'
    <3>1. session[q] \in DOMAIN store =>
             session[q] \in DOMAIN store' /\ Grows(log[session[q]], log'[session[q]])
      BY <1>00, <2>3 DEF Grows
    <3> QED
      BY <1>0, <2>1, <2>2, <2>4, <3>1, KeptStays
  <2>5. Kept(r)'
    BY <2>1, <2>2, <2>3 DEF Kept
  <2> QED
    BY <2>4, <2>5 DEF KeptInv
<1>2. ASSUME NEW r \in Requests, ReadHistory(r) PROVE KeptInv'
  <2>1. pc[r] = "read" /\ Goto(r, "question") /\ UNCHANGED <<store, lost, log, session>>
    BY <1>2 DEF ReadHistory, conversation
  <2>2. /\ pc'[r] = "question" /\ \A q \in Requests : q # r => pc'[q] = pc[q]
    BY <1>0, <2>1, PlaceNames, GotoType
  <2> QED
    BY <1>0, <2>1, <2>2 DEF KeptInv, Kept, InLog, InOrder
<1>3. ASSUME NEW r \in Requests, AddQuestion(r) PROVE KeptInv'
  <2>1. /\ pc[r] = "question" /\ Add(session[r], Question(r)) /\ Goto(r, "turn")
        /\ UNCHANGED <<session, lost>>
    BY <1>3 DEF AddQuestion
  <2>2. /\ pc'[r] = "turn" /\ \A q \in Requests : q # r => pc'[q] = pc[q]
    BY <1>0, <2>1, PlaceNames, GotoType
  <2>3. ASSUME NEW q \in Requests, q # r PROVE Kept(q)'
    BY <2>1, <2>2, <2>3, OthersKept, MessagesType
  <2>4. /\ DOMAIN store' = DOMAIN store
        /\ session[r] \in DOMAIN store => log'[session[r]] = Append(log[session[r]], Question(r))
    BY <1>0, <1>00, <2>1, AddEffect, MessagesType
  <2>5. Kept(r)'
    <3>1. SUFFICES ASSUME r \notin lost PROVE session[r] \in DOMAIN store' /\ InLog(r, Question(r))'
      BY <2>1, <2>2 DEF Kept
    <3>2. session[r] \in DOMAIN store
      BY <1>0, <2>1, <3>1 DEF Kept
    <3>3. Len(log'[session[r]]) = Len(log[session[r]]) + 1 /\ Len(log[session[r]]) \in Nat
          /\ log'[session[r]][Len(log[session[r]]) + 1] = Question(r)
      BY <1>00, <2>4, <3>2, MessagesType
    <3>4. Len(log[session[r]]) + 1 \in 1..Len(log'[session[r]])
      BY <3>3
    <3>5. InLog(r, Question(r))'
      BY <2>1, <3>3, <3>4 DEF InLog, Question
    <3> QED
      BY <2>4, <3>2, <3>5
  <2> QED
    BY <2>3, <2>5 DEF KeptInv
<1>4. ASSUME NEW r \in Requests, Turn(r) PROVE KeptInv'
  <2>1. /\ pc[r] = "turn" /\ UNCHANGED <<store, lost, log, session>>
        /\ \E w \in {"answer", "turn"} : Goto(r, w)
    BY <1>4 DEF Turn, conversation
  <2>2. /\ pc'[r] \in {"answer", "turn"} /\ \A q \in Requests : q # r => pc'[q] = pc[q]
    BY <1>0, <2>1, PlaceNames, GotoType
  <2> QED
    BY <1>0, <2>1, <2>2 DEF KeptInv, Kept, InLog, InOrder
<1>5. ASSUME NEW r \in Requests, AddAnswer(r) PROVE KeptInv'
  <2>1. /\ pc[r] = "answer" /\ Add(session[r], Answer(r)) /\ Goto(r, "done")
        /\ UNCHANGED <<session, lost>>
    BY <1>5 DEF AddAnswer
  <2>2. /\ pc'[r] = "done" /\ \A q \in Requests : q # r => pc'[q] = pc[q]
    BY <1>0, <2>1, PlaceNames, GotoType
  <2>3. ASSUME NEW q \in Requests, q # r PROVE Kept(q)'
    BY <2>1, <2>2, <2>3, OthersKept, MessagesType
  <2>4. /\ DOMAIN store' = DOMAIN store
        /\ session[r] \in DOMAIN store => log'[session[r]] = Append(log[session[r]], Answer(r))
    BY <1>0, <1>00, <2>1, AddEffect, MessagesType
  <2>5. Kept(r)'
    <3>1. SUFFICES ASSUME r \notin lost PROVE session[r] \in DOMAIN store' /\ InOrder(r)'
      BY <2>1, <2>2 DEF Kept
    <3>2. session[r] \in DOMAIN store /\ InLog(r, Question(r))
      BY <1>0, <2>1, <3>1 DEF Kept
    <3>3. PICK i \in 1..Len(log[session[r]]) : log[session[r]][i] = Question(r)
      BY <3>2 DEF InLog
    <3> DEFINE n == Len(log[session[r]]) + 1
    <3>4. /\ Len(log'[session[r]]) = n /\ Len(log[session[r]]) \in Nat
          /\ log'[session[r]][n] = Answer(r) /\ log'[session[r]][i] = Question(r)
      <4>1. /\ log[session[r]] \in Seq(Messages) /\ Answer(r) \in Messages
            /\ log'[session[r]] = Append(log[session[r]], Answer(r))
        BY <1>00, <2>4, <3>2, MessagesType
      <4>2. Append(log[session[r]], Answer(r))[i] = log[session[r]][i]
        BY <4>1
      <4> QED
        BY <3>3, <4>1, <4>2
    <3>5. i \in 1..Len(log'[session[r]]) /\ n \in 1..Len(log'[session[r]]) /\ i < n
      BY <3>4
    <3>6. InOrder(r)'
      BY <2>1, <3>4, <3>5 DEF InOrder, Question, Answer
    <3> QED
      BY <2>4, <3>2, <3>6
  <2> QED
    BY <2>3, <2>5 DEF KeptInv
<1>6. ASSUME NEW gone, Remove(gone), UNCHANGED <<pc, session, log>> PROVE KeptInv'
  <2>1. /\ lost' = lost \cup {r \in Requests : pc[r] # "idle" /\ session[r] \in gone}
        /\ DOMAIN store' = DOMAIN store \ gone
    BY <1>0, <1>6, RemoveEffect DEF Remove
  <2>2. ASSUME NEW q \in Requests PROVE Kept(q)'
    <3>1. pc[q] # "idle" /\ q \notin lost' /\ session[q] \in DOMAIN store =>
             session[q] \in DOMAIN store' /\ Grows(log[session[q]], log'[session[q]])
      BY <1>00, <1>6, <2>1 DEF Grows
    <3> QED
      BY <1>0, <1>6, <2>1, <3>1, KeptStays
  <2> QED
    BY <2>2 DEF KeptInv
<1>7. CASE Tick
  <2>1. DOMAIN store' = DOMAIN store /\ UNCHANGED <<pc, session, log, lost>>
    BY <1>0, <1>7, TickEffect DEF Tick
  <2> QED
    BY <1>0, <2>1 DEF KeptInv, Kept, InLog, InOrder
<1>8. CASE UNCHANGED vars
  BY <1>0, <1>8 DEF vars, KeptInv, Kept, InLog, InOrder
<1> QED
  BY <1>1, <1>2, <1>3, <1>4, <1>5, <1>6, <1>7, <1>8 DEF Next, React, Delete, Cleanup

LEMMA FreshStep ==
  ASSUME ConvTypes, FreshInv, [Next]_vars
  PROVE  FreshInv'
<1>0. /\ StoreOK /\ WindowInv /\ RequestOK /\ \A q \in Requests : Fresh(q)
      /\ \A q \in Requests : session[q] \in Sessions /\ age[q] \in 0..MaxRun
      /\ TTL \in Nat /\ MaxRun \in Nat /\ MaxRun <= TTL
      /\ \A s \in DOMAIN store : store[s].idle \in 0..TTL + 1
  BY StoreAssumption, ShortRuns DEF ConvTypes, FreshInv, RequestOK, StoreOK, SessionOK
\* A session that is used, created or found missing by a request.
<1>1. ASSUME NEW r \in Requests, NEW s \in Sessions,
             s \in DOMAIN store' => store'[s].idle = 0,
             \A x \in DOMAIN store' : x # s => x \in DOMAIN store /\ store'[x] = store[x],
             UNCHANGED session,
             \A q \in Requests : q # r => pc'[q] = pc[q] /\ age'[q] = age[q],
             age'[r] \in 0..MaxRun, session[r] = s, pc'[r] \in {"idle", "done"} => age'[r] = 0
      PROVE  FreshInv'
  <2>1. ASSUME NEW q \in Requests PROVE Fresh(q)'
    <3>1. CASE q = r
      BY <1>0, <1>1, <3>1 DEF Fresh
    <3>2. CASE q # r
      BY <1>0, <1>1, <3>2 DEF Fresh, Running
    <3> QED
      BY <3>1, <3>2
  <2> QED
    BY <2>1 DEF FreshInv
<1>2. ASSUME NEW r \in Requests, Begin(r) PROVE FreshInv'
  <2>1. /\ pc[r] = "idle" /\ GetOrCreate(session[r]) /\ Goto(r, "read") /\ UNCHANGED <<session, age>>
    BY <1>2 DEF Begin
  <2>2. /\ pc'[r] = "read" /\ \A q \in Requests : q # r => pc'[q] = pc[q]
    BY <1>0, <2>1, PlaceNames, GotoType
  <2>3. /\ DOMAIN store' = DOMAIN store \cup {session[r]} /\ store'[session[r]].idle = 0
        /\ \A x \in DOMAIN store : x # session[r] => store'[x] = store[x]
    BY <1>0, <2>1, GetOrCreateEffect
  <2> QED
    BY <1>0, <1>1, <2>1, <2>2, <2>3
<1>3. ASSUME NEW r \in Requests, NEW m \in Messages, Add(session[r], m), NEW w \in Places,
             Goto(r, w), UNCHANGED session, pc[r] \notin {"idle", "done"},
             \/ UNCHANGED age /\ w \notin {"idle", "done"}
             \/ age' = [age EXCEPT ![r] = 0]
      PROVE  FreshInv'
  <2>1. /\ pc'[r] = w /\ \A q \in Requests : q # r => pc'[q] = pc[q]
    BY <1>0, <1>3, GotoType
  <2>2. /\ DOMAIN store' = DOMAIN store /\ (session[r] \in DOMAIN store => store'[session[r]].idle = 0)
        /\ \A x \in DOMAIN store : x # session[r] => store'[x] = store[x]
    BY <1>0, <1>3, AddEffect
  <2>3. /\ age'[r] \in 0..MaxRun /\ (pc'[r] \in {"idle", "done"} => age'[r] = 0)
        /\ \A q \in Requests : q # r => age'[q] = age[q]
    BY <1>0, <1>3, <2>1 DEF RequestOK
  <2> QED
    BY <1>0, <1>1, <1>3, <2>1, <2>2, <2>3
<1>4. ASSUME NEW r \in Requests, AddQuestion(r) \/ AddAnswer(r) PROVE FreshInv'
  BY <1>3, <1>4, MessagesType, PlaceNames DEF AddQuestion, AddAnswer
<1>5. ASSUME NEW r \in Requests, ReadHistory(r) \/ Turn(r) PROVE FreshInv'
  <2>1. /\ pc[r] \notin {"idle", "done"} /\ UNCHANGED <<store, session, age>>
        /\ \E w \in {"question", "answer", "turn"} : Goto(r, w)
    BY <1>5 DEF ReadHistory, Turn, conversation
  <2>2. /\ pc'[r] \notin {"idle", "done"} /\ \A q \in Requests : q # r => pc'[q] = pc[q]
    BY <1>0, <2>1, PlaceNames, GotoType
  <2> QED
    BY <1>0, <2>1, <2>2 DEF FreshInv, Fresh, Running
<1>6. ASSUME NEW gone, Remove(gone), UNCHANGED <<pc, session, age, log>> PROVE FreshInv'
  <2>1. DOMAIN store' = DOMAIN store \ gone /\ \A x \in DOMAIN store' : store'[x] = store[x]
    BY <1>0, <1>6, RemoveEffect
  <2> QED
    BY <1>0, <1>6, <2>1 DEF FreshInv, Fresh, Running
<1>7. CASE Tick
  <2>1. /\ UNCHANGED <<pc, session>> /\ DOMAIN store' = DOMAIN store
        /\ \A s \in DOMAIN store : store'[s].idle <= store[s].idle + 1
    <3>1. ASSUME NEW s \in DOMAIN store PROVE store'[s].idle <= store[s].idle + 1
      BY <1>0, <1>7, TickEffect
    <3> QED
      BY <1>0, <1>7, <3>1, TickEffect DEF Tick
  <2>2. \A r \in Requests : age'[r] = IF r \in Running THEN age[r] + 1 ELSE age[r]
    BY <1>7 DEF Tick
  <2>3. \A s \in DOMAIN store : store'[s].idle \in Nat
    BY <1>0, <1>7, TickEffect
  <2>4. ASSUME NEW q \in Requests PROVE Fresh(q)'
    <3>1. Running' = Running
      BY <2>1 DEF Running
    <3> QED
      BY <1>0, <2>1, <2>2, <2>3, <3>1 DEF Fresh, Running
  <2> QED
    BY <2>4 DEF FreshInv
<1>8. CASE UNCHANGED vars
  BY <1>0, <1>8 DEF vars, FreshInv, Fresh, Running
<1> QED
  BY <1>2, <1>4, <1>5, <1>6, <1>7, <1>8 DEF Next, React, Delete, Cleanup

-----------------------------------------------------------------------------
(* The invariant and the theorems that follow from it.                      *)

ConvInv == ConvTypes /\ GenuineInv /\ KeptInv /\ FreshInv

LEMMA ConvInit == Init => ConvInv
<1> SUFFICES ASSUME Init PROVE ConvInv
  OBVIOUS
<1>0. /\ MaxHistory \in Nat /\ TTL \in Nat /\ MaxRun \in Nat
      /\ MaxTurns \in Nat /\ MaxTurns >= 1 /\ CacheMax \in Nat
  BY StoreAssumption, LoopAssumption
<1>1. DOMAIN store = {}
  BY DEF Init
<1>2. StoreOK /\ WindowInv
  BY <1>1 DEF Init, StoreOK, WindowInv
<1>3. RequestOK /\ TurnsLeft /\ GenuineInv
  BY <1>0 DEF Init, RequestOK, TurnsLeft, GenuineInv, Places
<1>4. KeptInv /\ FreshInv
  BY DEF Init, KeptInv, Kept, FreshInv, Fresh, Running
<1> QED
  BY <1>2, <1>3, <1>4 DEF ConvInv, ConvTypes

\* The types of the store and of the requests, the window a session keeps on its log,
\* what running requests have left behind and how fresh their sessions are: sessions.go
\* and react.go keep all of it, whatever requests, deletions and cleanups interleave.
THEOREM ConversationInvariant == Spec => [](TypeOK /\ ConvInv)
<1>1. ConvInv => TypeOK
  BY TypesSplit DEF ConvInv, ConvTypes
<1>2. ConvInv /\ [Next]_vars => ConvInv'
  BY TypesStep, KeptStep, FreshStep DEF ConvInv
<1> QED
  BY <1>1, <1>2, ConvInit, PTL DEF Spec

\* An exchange is stored as a whole, question before answer, unless its session was
\* removed while React ran.
THEOREM ExchangesStored == Spec => []ExchangeStored
<1>1. ConvInv => ExchangeStored
  BY DEF ConvInv, KeptInv, Kept, InOrder, ExchangeStored, Position
<1> QED
  BY <1>1, ConversationInvariant, PTL

\* The tool cache never answers with an error or with the result of another key.
THEOREM HitsAreGenuine == Spec => []HitIsGenuine
<1>1. ConvInv => HitIsGenuine
  BY DEF ConvInv, GenuineInv, Genuine, HitIsGenuine
<1> QED
  BY <1>1, ConversationInvariant, PTL

\* The cleanup goroutine removes no session that a running React has found or created:
\* this is where the assumption that a run is no longer than the TTL is needed.
THEOREM CleanupSparesRunning == Spec => CleanupSparesActive
<1>1. ASSUME ConvInv, Cleanup, NEW r \in Running, session[r] \in DOMAIN store
      PROVE  session[r] \in DOMAIN store'
  <2>1. r \in Requests /\ StoreOK /\ WindowInv /\ RequestOK /\ Fresh(r)
    BY <1>1 DEF Running, ConvInv, ConvTypes, FreshInv
  <2>2. /\ store[session[r]].idle <= age[r] /\ age[r] \in 0..MaxRun
        /\ store[session[r]].idle \in 0..TTL + 1
    BY <1>1, <2>1 DEF Fresh, RequestOK, StoreOK, SessionOK
  <2>3. session[r] \notin Expired
    BY <2>2, StoreAssumption, ShortRuns DEF Expired
  <2>4. DOMAIN store' = DOMAIN store \ Expired
    BY <1>1, <2>1, RemoveEffect DEF Cleanup
  <2> QED
    BY <1>1, <2>3, <2>4
<1>2. ConvInv => [Cleanup => \A r \in Running :
         session[r] \in DOMAIN store => session[r] \in DOMAIN store']_vars
  BY <1>1
<1> QED
  BY <1>2, ConversationInvariant, PTL DEF CleanupSparesActive

\* What a request reads of its session is the newest MaxHistory messages of the log.
LEMMA ReadsWindow ==
  ASSUME ConvInv, NEW r \in Requests, pc[r] = "read", pc'[r] = "question",
         session[r] \in DOMAIN store, [Next]_vars
  PROVE  history'[r] = store[session[r]].messages
<1>0. RequestOK /\ pc \in [Requests -> Places] /\ history \in [Requests -> Seq(Messages)]
  BY DEF ConvInv, ConvTypes, RequestOK
<1>1. CASE ReadHistory(r)
  BY <1>0, <1>1 DEF ReadHistory
<1>2. CASE ~ReadHistory(r)
  <2>1. ASSUME NEW q \in Requests, NEW w \in Places, Goto(q, w), q # r \/ w # "question"
        PROVE  FALSE
    BY <1>0, <2>1 DEF Goto
  <2>2. ~ \E q \in Requests : Begin(q)
    BY <2>1, PlaceNames DEF Begin
  <2>3. ~ \E q \in Requests : ReadHistory(q)
    BY <1>2, <2>1, PlaceNames DEF ReadHistory
  <2>4. ~ \E q \in Requests : AddQuestion(q) \/ AddAnswer(q)
    BY <2>1, PlaceNames DEF AddQuestion, AddAnswer
  <2>5. ~ \E q \in Requests : Turn(q)
    BY <2>1, PlaceNames DEF Turn
  <2>6. ~(UNCHANGED pc)
    OBVIOUS
  <2> QED
    BY <2>2, <2>3, <2>4, <2>5, <2>6 DEF Next, React, Delete, Cleanup, Tick, vars
<1> QED
  BY <1>1, <1>2

\* A request is told of every exchange that was finished before it read its history and
\* is among the newest MaxHistory messages, unless that exchange's session was removed.
THEOREM FinishedRemembered == Spec => RemembersFinished
<1>1. ASSUME ConvInv, [Next]_vars, NEW r \in Requests, NEW q \in Requests \ lost,
             pc[r] = "read", pc'[r] = "question", pc[q] = "done", session[q] = session[r],
             NEW i \in Position(session[q], Answer(q)),
             ~(Len(log[session[q]]) >= i + MaxHistory)
      PROVE  \E j \in 1..Len(history'[r]) : history'[r][j] = Answer(q)
  <2> DEFINE s == session[q]
             m == store[s].messages
             all == log[s]
             j == i - (Len(all) - Len(m))
  <2>1. s \in DOMAIN store /\ StoreOK /\ WindowInv /\ RequestOK
    BY <1>1 DEF ConvInv, ConvTypes, KeptInv, Kept
  <2>2. history'[r] = m
    BY <1>1, <2>1, ReadsWindow
  <2>3. /\ m \in Seq(Messages) /\ all \in Seq(Messages)
        /\ Len(m) \in Nat /\ Len(all) \in Nat
    BY <2>1 DEF StoreOK, SessionOK
  <2>4. /\ Len(m) = IF Len(all) > MaxHistory THEN MaxHistory ELSE Len(all)
        /\ \A l \in 1..Len(m) : m[l] = all[Len(all) - Len(m) + l]
    BY <2>1 DEF WindowInv, Window
  <2>5. i \in 1..Len(all) /\ all[i] = Answer(q) /\ ~(Len(all) >= i + MaxHistory)
    BY <1>1 DEF Position
  <2> HIDE DEF s, m, all
  <2>6. j \in 1..Len(m) /\ Len(all) - Len(m) + j = i
    <3>0. MaxHistory \in Nat /\ i \in Nat /\ 1 <= i /\ i <= Len(all) /\ Len(all) < i + MaxHistory
      BY <2>3, <2>5, StoreAssumption
    <3>1. CASE Len(all) > MaxHistory
      <4>1. Len(m) = MaxHistory
        BY <2>4, <3>1
      <4> QED
        BY <2>3, <3>0, <3>1, <4>1
    <3>2. CASE ~(Len(all) > MaxHistory)
      <4>1. Len(m) = Len(all)
        BY <2>4, <3>2
      <4> QED
        BY <2>3, <3>0, <4>1
    <3> QED
      BY <3>1, <3>2
  <2>7. m[j] = Answer(q)
    BY <2>4, <2>5, <2>6
  <2> QED
    BY <2>2, <2>6, <2>7
<1>2. ConvInv /\ [Next]_vars =>
        [\A r \in Requests, q \in Requests \ lost :
         /\ pc[r] = "read" /\ pc'[r] = "question"
         /\ pc[q] = "done" /\ session[q] = session[r]
         => \/ \E i \in 1..Len(history'[r]) : history'[r][i] = Answer(q)
            \/ \A i \in Position(session[q], Answer(q)) : Len(log[session[q]]) >= i + MaxHistory]_vars
  BY <1>1
<1> QED
  BY <1>2, ConversationInvariant, PTL DEF Spec, RemembersFinished

-----------------------------------------------------------------------------
(* The tool cache is an LRU cache.                                          *)

\* CacheIsLRU for one cache c and the uses u of it.
LastOf(u, k) == {i \in 1..Len(u) : u[i].key = k /\ \A j \in i+1..Len(u) : u[j].key # k}
After(u, k, l) == \A i \in LastOf(u, k), j \in LastOf(u, l) : i > j
Ordered(c, u) ==
    \A i, j \in 1..Len(c) : i < j => c[i].key # c[j].key /\ After(u, c[i].key, c[j].key)
InUse(c, u) == \A i \in 1..Len(c) : LastOf(u, c[i].key) # {}
Evicted(c, u) ==
    \A k \in Keys : ~Found(c, k) /\ LastOf(u, k) # {} =>
        Len(c) = CacheMax /\ \A i \in 1..Len(c) : After(u, c[i].key, k)
LRU(c, u) == Ordered(c, u) /\ InUse(c, u) /\ Evicted(c, u)

LEMMA LRUForAll == CacheIsLRU <=> \A r \in Requests : LRU(cache[r], uses[r])
  BY DEF CacheIsLRU, LRU, Ordered, InUse, Evicted, After, LastOf, UsedAfter, LastUse

\* A use of a key makes it the most recently used one and leaves the others in order.
LEMMA UseEffect ==
  ASSUME NEW u \in Seq(Entries), NEW e \in Entries
  PROVE  LET v == Append(u, e) IN
         /\ LastOf(v, e.key) = {Len(u) + 1}
         /\ \A k : k # e.key => /\ LastOf(v, k) = LastOf(u, k)
                                 /\ After(v, e.key, k)
         /\ \A k, l : k # e.key /\ l # e.key => (After(v, k, l) <=> After(u, k, l))
<1> DEFINE v == Append(u, e)
           n == Len(u)
<1>1. /\ n \in Nat /\ Len(v) = n + 1 /\ v[n + 1] = e
      /\ \A i \in 1..n : v[i] = u[i]
  OBVIOUS
<1> HIDE DEF v, n
<1>2. LastOf(v, e.key) = {n + 1}
  BY <1>1 DEF LastOf
<1>3. ASSUME NEW k, k # e.key PROVE LastOf(v, k) = LastOf(u, k)
  <2>1. ASSUME NEW i \in LastOf(v, k) PROVE i \in LastOf(u, k)
    BY <1>1, <1>3 DEF LastOf, n
  <2>2. ASSUME NEW i \in LastOf(u, k) PROVE i \in LastOf(v, k)
    BY <1>1, <1>3 DEF LastOf, n
  <2> QED
    BY <2>1, <2>2
<1>4. ASSUME NEW k, k # e.key PROVE After(v, e.key, k)
  <2>1. \A j \in LastOf(u, k) : n + 1 > j
    BY <1>1 DEF LastOf, n
  <2> QED
    BY <1>2, <1>3, <1>4, <2>1 DEF After
<1>5. ASSUME NEW k, NEW l, k # e.key, l # e.key PROVE After(v, k, l) <=> After(u, k, l)
  BY <1>3, <1>5 DEF After
<1> QED
  BY <1>2, <1>3, <1>4, <1>5 DEF v, n

\* p is e followed by n entries of c that have other keys, in the order they have in c,
\* where at gives their positions.
InFront(p, e, c, n, at) ==
    /\ Len(p) = n + 1 /\ p[1] = e
    /\ \A j \in 1..n : /\ at[j] \in 1..Len(c) /\ p[j + 1] = c[at[j]] /\ c[at[j]].key # e.key
                        /\ \A l \in 1..n : j < l => at[j] < at[l]

\* Such a p, after a use of e, is ordered and in use like c.
LEMMA FrontUsed ==
  ASSUME NEW c \in Seq(Entries), NEW u \in Seq(Entries), LRU(c, u), NEW e \in Entries,
         NEW n \in Nat, NEW p \in Seq(Entries), NEW at, InFront(p, e, c, n, at)
  PROVE  Ordered(p, Append(u, e)) /\ InUse(p, Append(u, e))
<1> DEFINE v == Append(u, e)
<1>0. /\ Len(p) = n + 1 /\ p[1] = e
      /\ \A j \in 1..n : /\ at[j] \in 1..Len(c) /\ p[j + 1] = c[at[j]] /\ c[at[j]].key # e.key
                          /\ \A l \in 1..n : j < l => at[j] < at[l]
  BY DEF InFront
<1>1. /\ LastOf(v, e.key) = {Len(u) + 1}
      /\ \A k : k # e.key => LastOf(v, k) = LastOf(u, k) /\ After(v, e.key, k)
      /\ \A k, l : k # e.key /\ l # e.key => (After(v, k, l) <=> After(u, k, l))
  BY UseEffect
<1> HIDE DEF v
<1>2. \A a \in 1..Len(p) : a # 1 => a - 1 \in 1..n /\ p[a] = c[at[a - 1]] /\ p[a].key # e.key
  <2>1. ASSUME NEW a \in 1..Len(p), a # 1
        PROVE  a - 1 \in 1..n /\ p[a] = c[at[a - 1]] /\ p[a].key # e.key
    <3>1. a - 1 \in 1..n /\ (a - 1) + 1 = a
      BY <1>0, <2>1
    <3> QED
      BY <1>0, <3>1
  <2> QED
    BY <2>1
<1>3. ASSUME NEW a \in 1..Len(p), NEW b \in 1..Len(p), a < b
      PROVE  p[a].key # p[b].key /\ After(v, p[a].key, p[b].key)
  <2>1. b # 1
    BY <1>3
  <2>2. CASE a = 1
    BY <1>0, <1>1, <1>2, <2>1, <2>2
  <2>3. CASE a # 1
    <3>1. /\ a - 1 \in 1..n /\ b - 1 \in 1..n /\ a - 1 < b - 1
          /\ p[a] = c[at[a - 1]] /\ p[b] = c[at[b - 1]] /\ p[a].key # e.key /\ p[b].key # e.key
      BY <1>2, <1>3, <2>1, <2>3
    <3>2. at[a - 1] \in 1..Len(c) /\ at[b - 1] \in 1..Len(c) /\ at[a - 1] < at[b - 1]
      BY <1>0, <3>1
    <3>3. p[a].key # p[b].key /\ After(u, p[a].key, p[b].key)
      BY <3>1, <3>2 DEF LRU, Ordered
    <3> QED
      BY <1>1, <3>1, <3>3
  <2> QED
    BY <2>2, <2>3
<1>4. ASSUME NEW a \in 1..Len(p) PROVE LastOf(v, p[a].key) # {}
  <2>1. CASE a = 1
    BY <1>0, <1>1, <2>1
  <2>2. CASE a # 1
    <3>1. a - 1 \in 1..n /\ p[a] = c[at[a - 1]] /\ p[a].key # e.key /\ at[a - 1] \in 1..Len(c)
      BY <1>0, <1>2, <2>2
    <3> QED
      BY <1>1, <3>1 DEF LRU, InUse
  <2> QED
    BY <2>1, <2>2
<1> QED
  BY <1>3, <1>4 DEF Ordered, InUse, v

\* A hit: the entry moves to the front and none is lost.
LEMMA HitLRU ==
  ASSUME NEW c \in Seq(Entries), NEW u \in Seq(Entries), LRU(c, u), NEW i \in 1..Len(c)
  PROVE  LRU(Promoted(c, c[i]), Append(u, c[i]))
<1> DEFINE e == c[i]
           I == Elsewhere(c, e.key)
           n == Cardinality(I)
           at == [j \in 1..n |-> Nth(I, j)]
           p == Promoted(c, e)
           v == Append(u, e)
<1>1. /\ I \subseteq 1..Len(c) /\ n \in Nat /\ Len(Others(c, e.key)) = n
      /\ \A j \in 1..n : Nth(I, j) \in I /\ Others(c, e.key)[j] = c[Nth(I, j)]
  BY OthersShape
<1>2. /\ p \in Seq(Entries) /\ Len(p) = n + 1 /\ p[1] = e /\ e \in Entries /\ Len(c) \in Nat
      /\ \A j \in 1..n : p[j + 1] = Others(c, e.key)[j]
  BY <1>1, PromotedShape
<1>3. IsFiniteSet(I) /\ \A m \in I : m \in Nat
  BY <1>1, <1>2, Positions
<1>4. \A m \in I : c[m].key # e.key
  BY DEF Elsewhere
\* No other entry has the key, so all but one stay.
<1>5. Len(c) = n + 1
  <2>1. I = (1..Len(c)) \ {i}
    <3>1. ASSUME NEW m \in 1..Len(c), m # i PROVE c[m].key # e.key
      <4>1. m < i \/ i < m
        BY <3>1
      <4> QED
        BY <4>1 DEF LRU, Ordered
    <3> QED
      BY <3>1 DEF Elsewhere
  <2>2. IsFiniteSet(1..Len(c)) /\ Cardinality(1..Len(c)) = Len(c)
    <3>1. IsFiniteSet(1..Len(c)) /\ Cardinality(1..Len(c)) = IF 1 > Len(c) THEN 0 ELSE Len(c)-1+1
      BY <1>2, FS_Interval
    <3> QED
      BY <1>2, <3>1
  <2>3. Cardinality(I) = Cardinality(1..Len(c)) - 1
    BY <2>1, <2>2, FS_RemoveElement
  <2> QED
    BY <1>1, <1>2, <2>2, <2>3
<1> HIDE DEF I, n, p, v, e
<1>6. \A j \in 1..n : /\ at[j] \in 1..Len(c) /\ p[j + 1] = c[at[j]] /\ c[at[j]].key # e.key
                       /\ \A l \in 1..n : j < l => at[j] < at[l]
  <2>1. ASSUME NEW j \in 1..n, NEW l \in 1..n, j < l PROVE at[j] < at[l]
    BY <1>3, <2>1, NthInOrder DEF n
  <2> QED
    BY <1>1, <1>2, <1>4, <2>1
<1> HIDE DEF at
<1>7. Ordered(p, v) /\ InUse(p, v)
  <2>1. InFront(p, e, c, n, at)
    BY <1>2, <1>6 DEF InFront
  <2> QED
    BY <1>1, <1>2, <2>1, FrontUsed DEF v
<1>8. Evicted(p, v)
  <2>1. SUFFICES ASSUME NEW k \in Keys, ~Found(p, k), LastOf(v, k) # {}
                 PROVE  Len(p) = CacheMax /\ \A a \in 1..Len(p) : After(v, p[a].key, k)
    BY DEF Evicted
  <2>2. k # e.key
    BY <1>1, <1>2, <2>1 DEF Found
  <2>3. /\ LastOf(v, k) = LastOf(u, k) /\ After(v, e.key, k)
        /\ \A l : l # e.key => (After(v, l, k) <=> After(u, l, k))
    BY <1>2, <2>2, UseEffect DEF v
  <2>4. ~Found(c, k)
    <3>1. SUFFICES ASSUME NEW m \in 1..Len(c), c[m].key = k PROVE FALSE
      BY DEF Found
    <3>2. m \in I
      BY <2>2, <3>1 DEF I, Elsewhere
    <3>3. PICK j \in 1..n : Nth(I, j) = m
      BY <1>3, <3>2, NthOnto DEF n
    <3>4. p[j + 1] = c[m] /\ j + 1 \in 1..Len(p)
      BY <1>1, <1>2, <3>3
    <3> QED
      BY <2>1, <3>1, <3>4 DEF Found
  <2>5. Len(c) = CacheMax /\ \A a \in 1..Len(c) : After(u, c[a].key, k)
    BY <2>1, <2>3, <2>4 DEF LRU, Evicted
  <2>6. ASSUME NEW a \in 1..Len(p) PROVE After(v, p[a].key, k)
    <3>1. CASE a = 1
      BY <1>2, <2>3, <3>1
    <3>2. CASE a # 1
      <4>1. a - 1 \in 1..n /\ (a - 1) + 1 = a
        BY <1>1, <1>2, <3>2
      <4>2. at[a - 1] \in 1..Len(c) /\ p[a] = c[at[a - 1]] /\ p[a].key # e.key
        BY <1>6, <4>1
      <4> QED
        BY <2>3, <2>5, <4>2
    <3> QED
      BY <3>1, <3>2
  <2> QED
    BY <1>2, <1>5, <2>5, <2>6
<1> QED
  BY <1>7, <1>8 DEF LRU, p, v, e

\* A store: the entry that makes room is the least recently used one.
LEMMA StoreLRU ==
  ASSUME NEW c \in Seq(Entries), Len(c) <= CacheMax, NEW u \in Seq(Entries), LRU(c, u),
         NEW e \in Entries, ~Found(c, e.key)
  PROVE  LRU(Stored(c, e), Append(u, e))
<1> DEFINE n == IF Len(c) >= CacheMax THEN Len(c) - 1 ELSE Len(c)
           at == [j \in 1..n |-> j]
           p == Stored(c, e)
           v == Append(u, e)
<1>0. CacheMax \in Nat /\ CacheMax >= 1 /\ Len(c) \in Nat
  BY LoopAssumption
<1>1. /\ p \in Seq(Entries) /\ Len(p) = n + 1 /\ n \in Nat /\ n <= Len(c)
      /\ p[1] = e /\ \A j \in 1..n : p[j + 1] = c[j]
  BY StoredShape
<1>2. (Len(c) = CacheMax /\ n = Len(c) - 1) \/ (Len(c) < CacheMax /\ n = Len(c))
  BY <1>0
<1> HIDE DEF n, p, v
<1>3. \A j \in 1..n : j \in 1..Len(c) /\ c[j].key # e.key
  <2>1. ASSUME NEW j \in 1..n PROVE j \in 1..Len(c)
    BY <1>0, <1>1
  <2> QED
    BY <2>1 DEF Found
<1>4. \A j \in 1..n : /\ at[j] \in 1..Len(c) /\ p[j + 1] = c[at[j]] /\ c[at[j]].key # e.key
                       /\ \A l \in 1..n : j < l => at[j] < at[l]
  BY <1>1, <1>3
<1> HIDE DEF at
<1>5. Ordered(p, v) /\ InUse(p, v)
  <2>1. InFront(p, e, c, n, at)
    BY <1>1, <1>4 DEF InFront
  <2> QED
    BY <1>1, <2>1, FrontUsed DEF v
<1>6. Evicted(p, v)
  <2>1. SUFFICES ASSUME NEW k \in Keys, ~Found(p, k), LastOf(v, k) # {}
                 PROVE  Len(p) = CacheMax /\ \A a \in 1..Len(p) : After(v, p[a].key, k)
    BY DEF Evicted
  <2>2. k # e.key
    BY <1>1, <2>1 DEF Found
  <2>3. /\ LastOf(v, k) = LastOf(u, k) /\ After(v, e.key, k)
        /\ \A l : l # e.key => (After(v, l, k) <=> After(u, l, k))
    BY <2>2, UseEffect DEF v
  <2>4. Len(c) = CacheMax /\ \A a \in 1..n : After(u, c[a].key, k)
    <3>1. CASE Found(c, k)
      <4>1. PICK m \in 1..Len(c) : c[m].key = k
        BY <3>1 DEF Found
      <4>2. m \notin 1..n
        <5>1. ASSUME m \in 1..n PROVE FALSE
          <6>1. m + 1 \in 1..Len(p) /\ p[m + 1] = c[m]
            BY <1>1, <5>1
          <6> QED
            BY <2>1, <4>1, <6>1 DEF Found
        <5> QED
          BY <5>1
      <4>3. Len(c) = CacheMax /\ m = Len(c) /\ \A a \in 1..n : a \in 1..Len(c) /\ a < m
        BY <1>0, <1>1, <1>2, <4>2
      <4> QED
        BY <4>1, <4>3 DEF LRU, Ordered
    <3>2. CASE ~Found(c, k)
      BY <1>3, <2>1, <2>3, <3>2 DEF LRU, Evicted
    <3> QED
      BY <3>1, <3>2
  <2>5. ASSUME NEW a \in 1..Len(p) PROVE After(v, p[a].key, k)
    <3>1. CASE a = 1
      BY <1>1, <2>3, <3>1
    <3>2. CASE a # 1
      <4>1. a - 1 \in 1..n /\ (a - 1) + 1 = a
        BY <1>1, <3>2
      <4>2. p[a] = c[a - 1] /\ p[a].key # e.key
        BY <1>1, <1>3, <4>1
      <4> QED
        BY <2>3, <2>4, <4>1, <4>2
    <3> QED
      BY <3>1, <3>2
  <2> QED
    BY <1>0, <1>1, <1>2, <2>4, <2>5
<1> QED
  BY <1>5, <1>6 DEF LRU, p, v

LEMMA LRUStep ==
  ASSUME ConvInv, CacheIsLRU, [Next]_vars
  PROVE  CacheIsLRU'
<1>0. /\ cache \in [Requests -> Seq(Entries)] /\ uses \in [Requests -> Seq(Entries)]
      /\ \A r \in Requests : Len(cache[r]) <= CacheMax
      /\ \A r \in Requests : LRU(cache[r], uses[r])
  BY LRUForAll DEF ConvInv, ConvTypes, RequestOK
<1>00. CacheIsLRU' <=> \A q \in Requests : LRU(cache'[q], uses'[q])
  BY DEF CacheIsLRU, LRU, Ordered, InUse, Evicted, After, LastOf, UsedAfter, LastUse
<1>1. CASE UNCHANGED <<cache, uses>>
  BY <1>0, <1>00, <1>1
<1>2. ASSUME NEW r \in Requests, NEW p, NEW v, LRU(p, v),
             cache' = [cache EXCEPT ![r] = p], uses' = [uses EXCEPT ![r] = v]
      PROVE  CacheIsLRU'
  <2>1. /\ cache'[r] = p /\ uses'[r] = v
        /\ \A q \in Requests : q # r => cache'[q] = cache[q] /\ uses'[q] = uses[q]
    BY <1>0, <1>2
  <2>2. ASSUME NEW q \in Requests PROVE LRU(cache'[q], uses'[q])
    BY <1>0, <1>2, <2>1
  <2> QED
    BY <1>00, <2>2
<1>3. ASSUME NEW r \in Requests, Turn(r) PROVE CacheIsLRU'
  <2>1. CASE \E i \in 1..Len(cache[r]) : Hit(r, i)
    <3>1. PICK i \in 1..Len(cache[r]) : Hit(r, i)
      BY <2>1
    <3>2. LRU(Promoted(cache[r], cache[r][i]), Append(uses[r], cache[r][i]))
      BY <1>0, HitLRU
    <3> QED
      BY <1>2, <3>1, <3>2 DEF Hit
  <2>2. CASE \E e \in Entries : Store(r, e)
    <3>1. PICK e \in Entries : Store(r, e)
      BY <2>2
    <3>2. LRU(Stored(cache[r], e), Append(uses[r], e))
      BY <1>0, <3>1, StoreLRU DEF Store
    <3> QED
      BY <1>2, <3>1, <3>2 DEF Store
  <2> QED
    BY <1>1, <1>3, <2>1, <2>2, ToolEffect DEF Turn
<1>4. ASSUME NEW r \in Requests, AddAnswer(r) PROVE CacheIsLRU'
  <2>1. LRU(<<>>, <<>>)
    BY DEF LRU, Ordered, InUse, Evicted, LastOf
  <2> QED
    BY <1>2, <1>4, <2>1 DEF AddAnswer
<1> QED
  BY <1>1, <1>3, <1>4
  DEF Next, React, Begin, ReadHistory, AddQuestion, Delete, Cleanup, Tick, loop, vars

\* The tool cache holds exactly the CacheMax most recently used keys, in order of use,
\* after any sequence of hits, stores and evictions.
THEOREM ToolCacheIsLRU == Spec => []CacheIsLRU
<1>1. Init => CacheIsLRU
  BY DEF Init, CacheIsLRU, LastUse
<1>2. ConvInv /\ CacheIsLRU /\ [Next]_vars => CacheIsLRU'
  BY LRUStep
<1> QED
  BY <1>1, <1>2, ConversationInvariant, PTL DEF Spec
=============================================================================
