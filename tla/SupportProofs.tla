---------------------------- MODULE SupportProofs ----------------------------
(***************************************************************************)
(* Proofs about the parts around the degradation chain, which share no     *)
(* state with each other: the webhook, the rate limiter, the chaos         *)
(* scenario's events, the status counters and the windows of telemetry,    *)
(* the quality evaluator and the transcript of a ReAct run.                *)
(***************************************************************************)
EXTENDS Webhook, Api, ChaosStream, Telemetry, Evaluator, Transcript, FilterTheorems

-----------------------------------------------------------------------------
(***************************************************************************)
(* The webhook.                                                            *)
(***************************************************************************)

\* The inductive invariant.  NothingAfterClear is inductive next to the types; the places
\* are, next to the fact that the posts are finitely many, which the types imply.
WebhookInv == WebhookTypeOK /\ NothingAfterClear /\ PlacesMatchPosts

\* Changing the phase of one event keeps the sequence of events well formed, and leaves the
\* others as they are (Becomes).
LEMMA BecomesTyped ==
    ASSUME WebhookTypeOK, NEW i \in DOMAIN events, NEW p \in Phases, Becomes(i, p)
    PROVE  /\ events' \in Seq(Events) /\ Len(events') = Len(events)
           /\ DOMAIN events' = DOMAIN events
           /\ events'[i].phase = p
           /\ \A j \in DOMAIN events : j # i => events'[j] = events[j]
<1>1. events \in Seq(Events)
  BY DEF WebhookTypeOK
<1>2. events[i] \in Events
  BY <1>1
<1>3. events' = [events EXCEPT ![i] = [@ EXCEPT !.phase = p]]
  BY DEF Becomes
<1>4. [events[i] EXCEPT !.phase = p] \in Events
  BY <1>2 DEF Events
<1>5. events' \in Seq(Events) /\ Len(events') = Len(events) /\ DOMAIN events' = DOMAIN events
  BY <1>1, <1>3, <1>4
<1>6. events'[i] = [events[i] EXCEPT !.phase = p]
  BY <1>1, <1>3
<1>7. events'[i].phase = p
  BY <1>2, <1>6 DEF Events
<1>8. \A j \in DOMAIN events : j # i => events'[j] = events[j]
  BY <1>1, <1>3
<1> QED BY <1>5, <1>7, <1>8

\* The posts under way are finitely many.
LEMMA PostsFinite ==
    ASSUME WebhookTypeOK
    PROVE  IsFiniteSet(Posts) /\ Cardinality(Posts) \in Nat
<1>1. Len(events) \in Nat /\ DOMAIN events = 1..Len(events)
  BY DEF WebhookTypeOK
<1>2. IsFiniteSet(1..Len(events))
  BY <1>1, FS_Interval
<1>3. Posts \subseteq 1..Len(events)
  BY <1>1 DEF Posts
<1>4. IsFiniteSet(Posts)
  BY <1>2, <1>3, FS_Subset
<1> QED BY <1>4, FS_CardinalityType

\* Initially nothing has been announced.
LEMMA WebhookInitInv == WebhookInit => WebhookInv
<1> SUFFICES ASSUME WebhookInit PROVE WebhookInv
  OBVIOUS
<1>1. WebhookTypeOK
  BY WebhookAssumption DEF WebhookInit, WebhookTypeOK, States, Events
<1>2. NothingAfterClear
  BY DEF WebhookInit, NothingAfterClear
<1>3. Posts = {}
  BY DEF WebhookInit, Posts
<1>4. PlacesMatchPosts
  BY <1>3, FS_EmptySet, WebhookAssumption DEF WebhookInit, PlacesMatchPosts
<1> QED BY <1>1, <1>2, <1>4 DEF WebhookInv

\* A change announced: a new event that has not been looked at.
LEMMA AnnounceInv ==
    ASSUME WebhookInv, NEW m \in Models, NEW c \in Changes, Announce(m, c)
    PROVE  WebhookInv'
<1> DEFINE e == [model |-> m, prev |-> c[1], next |-> c[2], phase |-> "spawned"]
<1>1. /\ events' = Append(events, e) /\ sb' = [sb EXCEPT ![m] = c[2]]
      /\ UNCHANGED <<url, inFlight, clearedAt>>
  BY DEF Announce
<1>2. c[1] \in States /\ c[2] \in States
  BY DEF Changes, States
<1>3. e \in Events
  BY <1>2 DEF Events, Phases
<1>4. /\ events \in Seq(Events) /\ events' \in Seq(Events)
      /\ Len(events') = Len(events) + 1 /\ Len(events) \in Nat
      /\ \A i \in DOMAIN events : events'[i] = events[i]
      /\ events'[Len(events) + 1] = e
      /\ DOMAIN events = 1..Len(events) /\ DOMAIN events' = 1..(Len(events) + 1)
  BY <1>1, <1>3 DEF WebhookInv, WebhookTypeOK
<1>5. clearedAt' \in 0..Len(events')
  BY <1>1, <1>4 DEF WebhookInv, WebhookTypeOK
<1>6. sb' \in [Models -> States]
  BY <1>1, <1>2 DEF WebhookInv, WebhookTypeOK
<1>7. WebhookTypeOK'
  BY <1>1, <1>4, <1>5, <1>6 DEF WebhookInv, WebhookTypeOK
<1>8. e.phase = "spawned"
  OBVIOUS
<1>9. NothingAfterClear'
  <2> SUFFICES ASSUME url' = None, NEW i \in DOMAIN events', i > clearedAt'
               PROVE  events'[i].phase \in {"spawned", "unset"}
    BY DEF NothingAfterClear
  <2>1. CASE i \in DOMAIN events
    BY <2>1, <1>1, <1>4 DEF WebhookInv, NothingAfterClear
  <2>2. CASE i = Len(events) + 1
    BY <2>2, <1>4, <1>8
  <2> QED BY <2>1, <2>2, <1>4
<1>10. Posts' = Posts
  <2>1. \A i \in DOMAIN events' : i \in DOMAIN events \/ i = Len(events) + 1
    BY <1>4
  <2>2. \A i \in DOMAIN events : i \in DOMAIN events'
    BY <1>4
  <2>3. events'[Len(events) + 1].phase # "posting"
    BY <1>4, <1>8
  <2> QED BY <2>1, <2>2, <2>3, <1>4 DEF Posts
<1>11. PlacesMatchPosts'
  BY <1>1, <1>10 DEF WebhookInv, PlacesMatchPosts
<1> QED BY <1>7, <1>9, <1>11 DEF WebhookInv

\* An event reads the URL: with none configured it is not sent.
LEMMA ReadURLInv ==
    ASSUME WebhookInv, NEW i \in DOMAIN events, ReadURL(i)
    PROVE  WebhookInv'
<1>1. /\ events[i].phase = "spawned" /\ UNCHANGED <<sb, url, inFlight, clearedAt>>
      /\ \/ url = None /\ Becomes(i, "unset")
         \/ url # None /\ Becomes(i, "addressed")
  BY DEF ReadURL
<1>2. PICK p \in {"unset", "addressed"} : Becomes(i, p) /\ (url = None => p = "unset")
  BY <1>1
<1>3. /\ events' \in Seq(Events) /\ Len(events') = Len(events)
      /\ DOMAIN events' = DOMAIN events
      /\ events'[i].phase = p
      /\ \A j \in DOMAIN events : j # i => events'[j] = events[j]
  <2>1. WebhookTypeOK /\ p \in Phases
    BY DEF WebhookInv, Phases
  <2> QED BY <2>1, <1>2, BecomesTyped
<1>4. WebhookTypeOK'
  BY <1>1, <1>3 DEF WebhookInv, WebhookTypeOK
<1>5. NothingAfterClear'
  BY <1>1, <1>2, <1>3 DEF WebhookInv, NothingAfterClear
<1>6. Posts' = Posts
  BY <1>1, <1>3 DEF Posts
<1>7. PlacesMatchPosts'
  BY <1>1, <1>6 DEF WebhookInv, PlacesMatchPosts
<1> QED BY <1>4, <1>5, <1>7 DEF WebhookInv

\* An event with an address is dropped at the limit or takes a place.
LEMMA FireInv ==
    ASSUME WebhookInv, NEW i \in DOMAIN events, Fire(i)
    PROVE  WebhookInv'
<1>1. /\ events[i].phase = "addressed" /\ UNCHANGED <<sb, url, clearedAt>>
      /\ \/ Becomes(i, "dropped") /\ inFlight' = inFlight
         \/ Becomes(i, "posting") /\ inFlight < MaxInFlight /\ inFlight' = inFlight + 1
  BY DEF Fire
<1>2. PICK p \in {"dropped", "posting"} :
         /\ Becomes(i, p)
         /\ p = "dropped" => inFlight' = inFlight
         /\ p = "posting" => inFlight < MaxInFlight /\ inFlight' = inFlight + 1
  BY <1>1
<1>3. /\ events' \in Seq(Events) /\ Len(events') = Len(events)
      /\ DOMAIN events' = DOMAIN events
      /\ events'[i].phase = p
      /\ \A j \in DOMAIN events : j # i => events'[j] = events[j]
  <2>1. WebhookTypeOK /\ p \in Phases
    BY DEF WebhookInv, Phases
  <2> QED BY <2>1, <1>2, BecomesTyped
<1>4. inFlight' \in 0..MaxInFlight
  BY <1>2, WebhookAssumption DEF WebhookInv, WebhookTypeOK
<1>5. WebhookTypeOK'
  BY <1>1, <1>3, <1>4 DEF WebhookInv, WebhookTypeOK
<1>6. NothingAfterClear'
  BY <1>1, <1>3 DEF WebhookInv, NothingAfterClear
<1>7. IsFiniteSet(Posts) /\ Cardinality(Posts) \in Nat /\ i \notin Posts
  BY <1>1, PostsFinite DEF WebhookInv, Posts
<1>8. PlacesMatchPosts'
  <2>1. CASE p = "dropped"
    <3>1. Posts' = Posts
      BY <2>1, <1>1, <1>3 DEF Posts
    <3> QED BY <2>1, <3>1, <1>2 DEF WebhookInv, PlacesMatchPosts
  <2>2. CASE p = "posting"
    <3>1. Posts' = Posts \cup {i}
      BY <2>2, <1>1, <1>3 DEF Posts
    <3>2. Cardinality(Posts') = Cardinality(Posts) + 1
      BY <3>1, <1>7, FS_AddElement
    <3> QED BY <2>2, <3>2, <1>2, <1>4, WebhookAssumption DEF WebhookInv, PlacesMatchPosts
  <2> QED BY <2>1, <2>2
<1> QED BY <1>5, <1>6, <1>8 DEF WebhookInv

\* A post ends and gives its place back.
LEMMA PostInv ==
    ASSUME WebhookInv, NEW i \in DOMAIN events, Post(i)
    PROVE  WebhookInv'
<1>1. /\ events[i].phase = "posting" /\ UNCHANGED <<sb, url, clearedAt>>
      /\ inFlight' = inFlight - 1
  BY DEF Post
<1>2. PICK p \in {"delivered", "failed"} : Becomes(i, p)
  BY DEF Post
<1>3. /\ events' \in Seq(Events) /\ Len(events') = Len(events)
      /\ DOMAIN events' = DOMAIN events
      /\ events'[i].phase = p
      /\ \A j \in DOMAIN events : j # i => events'[j] = events[j]
  <2>1. WebhookTypeOK /\ p \in Phases
    BY DEF WebhookInv, Phases
  <2> QED BY <2>1, <1>2, BecomesTyped
<1>4. IsFiniteSet(Posts) /\ Cardinality(Posts) \in Nat /\ i \in Posts
  BY <1>1, PostsFinite DEF WebhookInv, Posts
<1>5. Posts' = Posts \ {i}
  BY <1>1, <1>3 DEF Posts
<1>6. IsFiniteSet(Posts') /\ Cardinality(Posts') = Cardinality(Posts) - 1
  BY <1>4, <1>5, FS_RemoveElement
<1>7. Cardinality(Posts') \in Nat
  BY <1>6, FS_CardinalityType
<1>8. PlacesMatchPosts' /\ inFlight' \in 0..MaxInFlight
  BY <1>1, <1>6, <1>7, WebhookAssumption DEF WebhookInv, WebhookTypeOK, PlacesMatchPosts
<1>9. WebhookTypeOK'
  BY <1>1, <1>3, <1>8 DEF WebhookInv, WebhookTypeOK
<1>10. NothingAfterClear'
  BY <1>1, <1>3 DEF WebhookInv, NothingAfterClear
<1> QED BY <1>8, <1>9, <1>10 DEF WebhookInv

\* Setting and clearing the URL.
LEMMA ConfigureInv ==
    ASSUME WebhookInv, (\E u \in Candidates : SetWebhook(u)) \/ ClearWebhook
    PROVE  WebhookInv'
<1>1. CASE \E u \in Candidates : SetWebhook(u)
  <2>1. url' \in Candidates /\ UNCHANGED <<sb, inFlight, events, clearedAt>>
    BY <1>1 DEF SetWebhook
  <2>2. WebhookTypeOK'
    BY <2>1 DEF WebhookInv, WebhookTypeOK
  <2>3. NothingAfterClear'
    BY <2>1, WebhookAssumption DEF NothingAfterClear
  <2>4. PlacesMatchPosts'
    BY <2>1 DEF WebhookInv, PlacesMatchPosts, Posts
  <2> QED BY <2>2, <2>3, <2>4 DEF WebhookInv
<1>2. CASE ClearWebhook
  <2>1. url' = None /\ clearedAt' = Len(events) /\ UNCHANGED <<sb, inFlight, events>>
    BY <1>2 DEF ClearWebhook
  <2>2. Len(events) \in Nat /\ DOMAIN events = 1..Len(events)
    BY DEF WebhookInv, WebhookTypeOK
  <2>3. WebhookTypeOK'
    BY <2>1, <2>2 DEF WebhookInv, WebhookTypeOK
  <2>4. NothingAfterClear'
    BY <2>1, <2>2 DEF NothingAfterClear
  <2>5. PlacesMatchPosts'
    BY <2>1 DEF WebhookInv, PlacesMatchPosts, Posts
  <2> QED BY <2>3, <2>4, <2>5 DEF WebhookInv
<1> QED BY <1>1, <1>2

\* Every step of the webhook keeps the invariant.
LEMMA WebhookNextInv ==
    ASSUME WebhookInv, [WebhookNext]_webhookVars
    PROVE  WebhookInv'
<1>1. CASE \E m \in Models, c \in Changes : Announce(m, c)
  BY <1>1, AnnounceInv
<1>2. CASE \E i \in DOMAIN events : ReadURL(i)
  BY <1>2, ReadURLInv
<1>3. CASE \E i \in DOMAIN events : Fire(i)
  BY <1>3, FireInv
<1>4. CASE \E i \in DOMAIN events : Post(i)
  BY <1>4, PostInv
<1>5. CASE (\E u \in Candidates : SetWebhook(u)) \/ ClearWebhook
  BY <1>5, ConfigureInv
<1>6. CASE UNCHANGED webhookVars
  BY <1>6 DEF webhookVars, WebhookInv, WebhookTypeOK, NothingAfterClear, PlacesMatchPosts, Posts
<1> QED BY <1>1, <1>2, <1>3, <1>4, <1>5, <1>6 DEF WebhookNext

\* Types, places and silence after clearing, in every reachable state (Fire, its posting
\* goroutines, setWebhook and clearWebhook).
THEOREM WebhookInvariant == WebhookSpec => []WebhookInv
<1>1. WebhookInit => WebhookInv
  BY WebhookInitInv
<1>2. WebhookInv /\ [WebhookNext]_webhookVars => WebhookInv'
  BY WebhookNextInv
<1> QED BY <1>1, <1>2, PTL DEF WebhookSpec

\* The places taken are exactly the posts under way, never more than MaxInFlight, whatever
\* the number of changes, failures and goroutines (the semaphore of Fire).
THEOREM WebhookPlaces == WebhookSpec => []PlacesMatchPosts
<1>1. WebhookInv => PlacesMatchPosts
  BY DEF WebhookInv
<1> QED BY <1>1, WebhookInvariant, PTL

\* With no URL set, no change made since it was cleared is sent or will find a place,
\* however the goroutines of Fire interleave with the operators (ClearURL against Fire).
THEOREM WebhookSilence == WebhookSpec => []NothingAfterClear
<1>1. WebhookInv => NothingAfterClear
  BY DEF WebhookInv
<1> QED BY <1>1, WebhookInvariant, PTL

-----------------------------------------------------------------------------
(* Telling the state from unordered events.                                 *)

\* The announced changes into and out of a state, arrived or not, and the ledger they
\* keep: only the state a breaker is in was entered once more than left, its start in
\* healthy included.
Into(m, s) == {i \in DOMAIN events : events[i].model = m /\ events[i].next = s}
OutOf(m, s) == {i \in DOMAIN events : events[i].model = m /\ events[i].prev = s}
One(b) == IF b THEN 1 ELSE 0
Balanced(m, s) ==
    Cardinality(Into(m, s)) + One(s = "healthy") = Cardinality(OutOf(m, s)) + One(s = sb[m])
Ledger == \A m \in Models, s \in States : Balanced(m, s)

\* The events into and out of a state can be counted.
LEMMA LedgerFinite ==
    ASSUME WebhookTypeOK, NEW m, NEW s
    PROVE  /\ IsFiniteSet(Into(m, s)) /\ Cardinality(Into(m, s)) \in Nat
           /\ IsFiniteSet(OutOf(m, s)) /\ Cardinality(OutOf(m, s)) \in Nat
<1>1. Len(events) \in Nat /\ DOMAIN events = 1..Len(events)
  BY DEF WebhookTypeOK
<1>2. IsFiniteSet(1..Len(events))
  BY <1>1, FS_Interval
<1>3. Into(m, s) \subseteq 1..Len(events) /\ OutOf(m, s) \subseteq 1..Len(events)
  BY <1>1 DEF Into, OutOf
<1>4. IsFiniteSet(Into(m, s)) /\ IsFiniteSet(OutOf(m, s))
  BY <1>2, <1>3, FS_Subset
<1> QED BY <1>4, FS_CardinalityType

\* What happens to an event on its way does not change what it says.
LEMMA LedgerKept ==
    ASSUME WebhookTypeOK, Ledger, UNCHANGED sb, DOMAIN events' = DOMAIN events,
           \A i \in DOMAIN events : /\ events'[i].model = events[i].model
                                    /\ events'[i].prev = events[i].prev
                                    /\ events'[i].next = events[i].next
    PROVE  Ledger'
<1>1. ASSUME NEW m, NEW s PROVE Into(m, s)' = Into(m, s) /\ OutOf(m, s)' = OutOf(m, s)
  BY DEF Into, OutOf
<1> QED BY <1>1 DEF Ledger, Balanced, One

\* The phase of an event does not matter to the ledger.
LEMMA LedgerBecomes ==
    ASSUME WebhookTypeOK, Ledger, UNCHANGED sb, NEW i \in DOMAIN events, NEW p \in Phases,
           Becomes(i, p)
    PROVE  Ledger'
<1>1. events \in Seq(Events) /\ events[i] \in Events
  BY DEF WebhookTypeOK
<1>2. events' = [events EXCEPT ![i] = [@ EXCEPT !.phase = p]]
  BY DEF Becomes
<1>3. DOMAIN events' = DOMAIN events /\ \A j \in DOMAIN events : j # i => events'[j] = events[j]
  BY BecomesTyped
<1>4. events'[i] = [events[i] EXCEPT !.phase = p]
  BY <1>1, <1>2
<1>5. /\ events'[i].model = events[i].model /\ events'[i].prev = events[i].prev
      /\ events'[i].next = events[i].next
  BY <1>1, <1>4 DEF Events
<1> QED BY <1>3, <1>5, LedgerKept

\* A change moves one unit from the state it leaves to the state it enters.
LEMMA LedgerAnnounce ==
    ASSUME WebhookTypeOK, Ledger, NEW m \in Models, NEW c \in Changes, Announce(m, c)
    PROVE  Ledger'
<1> DEFINE e == [model |-> m, prev |-> c[1], next |-> c[2], phase |-> "spawned"]
           n == Len(events) + 1
<1>1. /\ events' = Append(events, e) /\ sb[m] = c[1] /\ sb' = [sb EXCEPT ![m] = c[2]]
      /\ sb \in [Models -> States]
  BY DEF Announce, WebhookTypeOK
<1>2. c[1] \in States /\ c[2] \in States /\ c[1] # c[2]
  BY DEF Changes, States
<1>3. e \in Events /\ e.model = m /\ e.prev = c[1] /\ e.next = c[2]
  BY <1>2 DEF Events, Phases
<1>4. /\ Len(events) \in Nat /\ events'[n] = e
      /\ \A i \in DOMAIN events : events'[i] = events[i]
      /\ DOMAIN events = 1..Len(events) /\ DOMAIN events' = 1..n
  BY <1>1, <1>3 DEF WebhookTypeOK
<1>5. n \notin DOMAIN events /\ DOMAIN events' = DOMAIN events \cup {n}
  BY <1>4
<1> HIDE DEF n, e
<1>6. ASSUME NEW q \in Models, NEW s \in States
      PROVE  /\ Into(q, s)' = IF q = m /\ s = c[2] THEN Into(q, s) \cup {n} ELSE Into(q, s)
             /\ OutOf(q, s)' = IF q = m /\ s = c[1] THEN OutOf(q, s) \cup {n} ELSE OutOf(q, s)
             /\ n \notin Into(q, s) /\ n \notin OutOf(q, s)
  BY <1>3, <1>4, <1>5 DEF Into, OutOf
<1>7. ASSUME NEW q \in Models, NEW s \in States PROVE Balanced(q, s)'
  <2> DEFINE a == Cardinality(Into(q, s))
             b == Cardinality(OutOf(q, s))
  <2>1. a \in Nat /\ b \in Nat /\ IsFiniteSet(Into(q, s)) /\ IsFiniteSet(OutOf(q, s))
    BY LedgerFinite
  <2>2. Cardinality(Into(q, s))' = a + One(q = m /\ s = c[2])
    <3>1. CASE q = m /\ s = c[2]
      <4>1. Into(q, s)' = Into(q, s) \cup {n} /\ n \notin Into(q, s)
        BY <1>6, <3>1
      <4>2. Cardinality(Into(q, s) \cup {n}) = a + 1
        BY <2>1, <4>1, FS_AddElement
      <4> QED BY <3>1, <4>1, <4>2 DEF One
    <3>2. CASE ~(q = m /\ s = c[2])
      <4>1. Into(q, s)' = Into(q, s)
        BY <1>6, <3>2
      <4> QED BY <2>1, <3>2, <4>1 DEF One
    <3> QED BY <3>1, <3>2
  <2>3. Cardinality(OutOf(q, s))' = b + One(q = m /\ s = c[1])
    <3>1. CASE q = m /\ s = c[1]
      <4>1. OutOf(q, s)' = OutOf(q, s) \cup {n} /\ n \notin OutOf(q, s)
        BY <1>6, <3>1
      <4>2. Cardinality(OutOf(q, s) \cup {n}) = b + 1
        BY <2>1, <4>1, FS_AddElement
      <4> QED BY <3>1, <4>1, <4>2 DEF One
    <3>2. CASE ~(q = m /\ s = c[1])
      <4>1. OutOf(q, s)' = OutOf(q, s)
        BY <1>6, <3>2
      <4> QED BY <2>1, <3>2, <4>1 DEF One
    <3> QED BY <3>1, <3>2
  <2>4. a + One(s = "healthy") = b + One(s = sb[q])
    BY DEF Ledger, Balanced
  <2> HIDE DEF a, b
  <2>5. One(s = sb'[q]) + One(q = m /\ s = c[1]) = One(s = sb[q]) + One(q = m /\ s = c[2])
    BY <1>1, <1>2 DEF One
  <2>6. /\ One(s = "healthy") \in Nat /\ One(s = sb[q]) \in Nat /\ One(s = sb'[q]) \in Nat
        /\ One(q = m /\ s = c[1]) \in Nat /\ One(q = m /\ s = c[2]) \in Nat
    BY DEF One
  <2>7. (a + One(q = m /\ s = c[2])) + One(s = "healthy")
          = (b + One(q = m /\ s = c[1])) + One(s = sb'[q])
    BY <2>1, <2>4, <2>5, <2>6
  <2> QED BY <2>2, <2>3, <2>7 DEF Balanced, One
<1> QED BY <1>7 DEF Ledger

\* Every step keeps the ledger.
LEMMA LedgerStep ==
    ASSUME WebhookTypeOK, Ledger, [WebhookNext]_webhookVars
    PROVE  Ledger'
<1>0. \A p \in {"unset", "addressed", "dropped", "posting", "delivered", "failed"} : p \in Phases
  BY DEF Phases
<1>1. CASE \E m \in Models, c \in Changes : Announce(m, c)
  BY <1>1, LedgerAnnounce
<1>2. ASSUME NEW i \in DOMAIN events, ReadURL(i) \/ Fire(i) \/ Post(i) PROVE Ledger'
  <2>1. /\ UNCHANGED sb
        /\ \E p \in {"unset", "addressed", "dropped", "posting", "delivered", "failed"} : Becomes(i, p)
    BY <1>2 DEF ReadURL, Fire, Post
  <2> QED BY <1>0, <2>1, LedgerBecomes
<1>3. CASE UNCHANGED <<sb, events>>
  BY <1>3, LedgerKept
<1> QED BY <1>1, <1>2, <1>3 DEF WebhookNext, SetWebhook, ClearWebhook, webhookVars

\* Without events the ledger balances.
LEMMA LedgerInit == WebhookInit => Ledger
<1> SUFFICES ASSUME WebhookInit, NEW m \in Models, NEW s \in States PROVE Balanced(m, s)
  BY DEF Ledger
<1>1. Into(m, s) = {} /\ OutOf(m, s) = {} /\ sb[m] = "healthy"
  BY DEF WebhookInit, Into, OutOf
<1>2. Cardinality(Into(m, s)) = 0 /\ Cardinality(OutOf(m, s)) = 0
  BY <1>1, FS_EmptySet
<1> QED BY <1>1, <1>2 DEF Balanced

\* A receiver that has all of a model's events, in whatever order they came, can tell the
\* state the model is in from their pairs of states alone (Record captures both states
\* under its lock).
THEOREM WebhookTellsState == WebhookSpec => []StateReconstructible
<1>1. WebhookTypeOK /\ Ledger => StateReconstructible
  <2> SUFFICES ASSUME WebhookTypeOK, Ledger, NEW m \in Models, NEW s \in States,
                      \A i \in EventsOf(m) : events[i].phase = "delivered"
               PROVE  s = sb[m] <=> Surplus(m, s) + (IF s = "healthy" THEN 1 ELSE 0) = 1
    BY DEF StateReconstructible
  <2>1. /\ {i \in EventsOf(m) : events[i].phase = "delivered" /\ events[i].next = s} = Into(m, s)
        /\ {i \in EventsOf(m) : events[i].phase = "delivered" /\ events[i].prev = s} = OutOf(m, s)
    BY DEF EventsOf, Into, OutOf
  <2>2. Surplus(m, s) = Cardinality(Into(m, s)) - Cardinality(OutOf(m, s))
    BY <2>1 DEF Surplus
  <2>3. Cardinality(Into(m, s)) \in Nat /\ Cardinality(OutOf(m, s)) \in Nat
    BY LedgerFinite
  <2>4. Cardinality(Into(m, s)) + (IF s = "healthy" THEN 1 ELSE 0)
          = Cardinality(OutOf(m, s)) + (IF s = sb[m] THEN 1 ELSE 0)
    BY DEF Ledger, Balanced, One
  <2> QED BY <2>2, <2>3, <2>4
<1>2. WebhookInv => WebhookTypeOK
  BY DEF WebhookInv
<1>3. WebhookTypeOK /\ Ledger /\ [WebhookNext]_webhookVars => Ledger'
  BY LedgerStep
<1> QED BY <1>1, <1>2, <1>3, LedgerInit, WebhookInvariant, PTL DEF WebhookSpec

-----------------------------------------------------------------------------
(***************************************************************************)
(* The rate limiter.                                                       *)
(***************************************************************************)

\* What the assumption says of each constant.
LEMMA ApiConstants ==
  /\ IsFiniteSet(Addresses) /\ IsFiniteSet(Told)
  /\ IPLimit \in Nat \ {0} /\ CompareLimit \in Nat \ {0} /\ Window \in Nat \ {0}
  /\ MaxTracked \in Nat \ {0} /\ MaxPerTick \in Nat \ {0}
  BY ApiAssumption

-----------------------------------------------------------------------------
(* Counting the requests of a window.                                       *)

\* A window's requests can be counted.
LEMMA RingFinite ==
  ASSUME NEW ring \in [Ages -> Nat]
  PROVE  IsFiniteSet(InRing(ring)) /\ Total(ring) \in Nat
<1> DEFINE T == {{a} \X (1..ring[a]) : a \in Ages}
           f == [a \in Ages |-> {a} \X (1..ring[a])]
<1>1. IsFiniteSet(Ages)
  BY ApiConstants, FS_Interval DEF Ages
<1>2. f \in Surjection(Ages, T)
  BY DEF Surjection
<1>3. IsFiniteSet(T)
  BY <1>1, <1>2, FS_Surjection
<1>4. ASSUME NEW a \in Ages PROVE IsFiniteSet({a} \X (1..ring[a]))
  <2>1. IsFiniteSet({a}) /\ IsFiniteSet(1..ring[a])
    <3>1. ring[a] \in Int /\ 1 \in Int
      OBVIOUS
    <3>2. IsFiniteSet(1..ring[a])
      BY <3>1, FS_Interval
    <3> QED BY <3>2, FS_Singleton
  <2> QED BY <2>1, FS_Product
<1>5. IsFiniteSet(UNION T)
  BY <1>3, <1>4, FS_UNION
<1> QED BY <1>5, FS_CardinalityType DEF InRing, Total

\* What is in a ring, as a set of pairs.
LEMMA RingMember ==
  ASSUME NEW ring \in [Ages -> Nat], NEW h
  PROVE  h \in InRing(ring) <=>
           \E a \in Ages, n \in Nat : h = <<a, n>> /\ 1 <= n /\ n <= ring[a]
  BY DEF InRing

\* A ring with no more of any age has no more altogether.
LEMMA RingMonotone ==
  ASSUME NEW f \in [Ages -> Nat], NEW g \in [Ages -> Nat], \A a \in Ages : f[a] <= g[a]
  PROVE  Total(f) <= Total(g)
<1>1. ASSUME NEW h \in InRing(f) PROVE h \in InRing(g)
  <2>1. PICK a \in Ages, n \in Nat : h = <<a, n>> /\ 1 <= n /\ n <= f[a]
    BY RingMember
  <2>2. n <= g[a]
    BY <2>1
  <2> QED BY <2>1, <2>2, RingMember
<1>2. InRing(f) \subseteq InRing(g)
  BY <1>1
<1> QED BY <1>2, RingFinite, FS_Subset DEF Total

\* Serving a request adds one.
LEMMA RingCount ==
  ASSUME NEW ring \in [Ages -> Nat]
  PROVE  Count(ring) \in [Ages -> Nat] /\ Total(Count(ring)) = Total(ring) + 1
<1>1. 0 \in Ages
  BY ApiConstants DEF Ages
<1>2. Count(ring) \in [Ages -> Nat] /\ Count(ring)[0] = ring[0] + 1
      /\ \A a \in Ages : a # 0 => Count(ring)[a] = ring[a]
  BY <1>1 DEF Count
<1> DEFINE x == <<0, ring[0] + 1>>
<1>3. x \notin InRing(ring)
  BY <1>1, RingMember
<1>4. InRing(Count(ring)) = InRing(ring) \cup {x}
  <2>1. ASSUME NEW h \in InRing(Count(ring)) PROVE h \in InRing(ring) \cup {x}
    <3>1. PICK a \in Ages, n \in Nat : h = <<a, n>> /\ 1 <= n /\ n <= Count(ring)[a]
      BY <1>2, RingMember
    <3>2. CASE n <= ring[a]
      BY <3>1, <3>2, RingMember
    <3>3. CASE ~(n <= ring[a])
      <4>1. a = 0 /\ n = ring[0] + 1
        BY <3>1, <3>3, <1>2, <1>1
      <4> QED BY <3>1, <4>1
    <3> QED BY <3>2, <3>3
  <2>2. ASSUME NEW h \in InRing(ring) PROVE h \in InRing(Count(ring))
    <3>1. PICK a \in Ages, n \in Nat : h = <<a, n>> /\ 1 <= n /\ n <= ring[a]
      BY RingMember
    <3>2. n <= Count(ring)[a]
      BY <3>1, <1>2, <1>1
    <3> QED BY <3>1, <3>2, <1>2, RingMember
  <2>3. x \in InRing(Count(ring))
    <3>1. ring[0] + 1 \in Nat /\ 1 <= ring[0] + 1 /\ ring[0] + 1 <= Count(ring)[0]
      BY <1>1, <1>2
    <3> QED BY <3>1, <1>1, <1>2, RingMember
  <2> QED BY <2>1, <2>2, <2>3
<1>5. IsFiniteSet(InRing(ring))
  BY RingFinite
<1>6. Cardinality(InRing(ring) \cup {x}) = Cardinality(InRing(ring)) + 1
  BY <1>3, <1>5, FS_AddElement
<1> QED BY <1>2, <1>4, <1>6 DEF Total

\* A tick never adds any.
LEMMA RingOlder ==
  ASSUME NEW ring \in [Ages -> Nat]
  PROVE  Older(ring) \in [Ages -> Nat] /\ Total(Older(ring)) <= Total(ring)
<1>1. /\ Older(ring) \in [Ages -> Nat]
      /\ \A a \in Ages : a # 0 => a - 1 \in Ages /\ Older(ring)[a] = ring[a - 1]
      /\ \A a \in Ages : a = 0 => Older(ring)[a] = 0
  BY ApiConstants DEF Older, Ages
<1> DEFINE S == InRing(Older(ring))
           T == InRing(ring)
           f == [h \in S |-> <<h[1] - 1, h[2]>>]
<1>2. ASSUME NEW h \in S
      PROVE  /\ h[1] \in Int /\ h = <<h[1], h[2]>>
             /\ f[h] = <<h[1] - 1, h[2]>> /\ f[h] \in T
  <2>1. PICK a \in Ages, n \in Nat : h = <<a, n>> /\ 1 <= n /\ n <= Older(ring)[a]
    BY <1>1, RingMember
  <2>2. a # 0
    <3>1. SUFFICES ASSUME a = 0 PROVE FALSE
      OBVIOUS
    <3>2. Older(ring)[a] = 0
      BY <1>1, <3>1
    <3> QED BY <2>1, <3>2
  <2>3. a - 1 \in Ages /\ n <= ring[a - 1]
    BY <1>1, <2>1, <2>2
  <2>4. f[h] = <<a - 1, n>> /\ a \in Int
    BY <2>1 DEF Ages
  <2> QED BY <2>1, <2>3, <2>4, RingMember
<1>3. ASSUME NEW g \in S, NEW h \in S, f[g] = f[h] PROVE g = h
  <2>1. <<g[1] - 1, g[2]>> = <<h[1] - 1, h[2]>>
    BY <1>2, <1>3
  <2>2. g[1] - 1 = h[1] - 1 /\ g[2] = h[2]
    BY <2>1
  <2>3. g[1] \in Int /\ h[1] \in Int
    BY <1>2
  <2>4. g = <<g[1], g[2]>> /\ h = <<h[1], h[2]>>
    BY <1>2
  <2>5. g[1] = h[1]
    BY <2>2, <2>3
  <2> QED BY <2>2, <2>4, <2>5
<1>4. f \in [S -> T]
  BY <1>2
<1>5. f \in Injection(S, T)
  BY <1>3, <1>4 DEF Injection, IsInjective
<1> QED BY <1>1, <1>5, RingFinite, FS_Injection DEF Total
-----------------------------------------------------------------------------
(* The inductive invariant.                                                 *)

ApiTypeOK ==
    /\ lru \in Seq(Keys)
    /\ hits \in [Keys -> [Ages -> Nat]] /\ served \in [Keys -> [Ages -> Nat]]
    /\ idle \in [Keys -> 0..Window]
    /\ refused \subseteq Keys
OwnTypeOK == own \in [Keys -> [Ages -> Nat]] /\ misled \in [Keys -> 0..Window]

\* The map: no key twice, never more than MaxTracked, the least recently used one first.
MapInv ==
    /\ Len(lru) <= MaxTracked
    /\ \A i, j \in 1..Len(lru) : i < j => lru[i] # lru[j] /\ idle[lru[j]] <= idle[lru[i]]

\* A window holds no request that was not served, none if it is not tracked, and never more
\* than its limit.
WindowsInv ==
    /\ \A k \in Keys, a \in Ages : hits[k][a] <= served[k][a]
    /\ \A k \in Keys : (\A i \in 1..Len(lru) : lru[i] # k) => hits[k] = NoHits
    /\ \A k \in Keys : Total(hits[k]) <= Limit(k)

\* A client that was served has been active since.  If its window has forgotten that, more
\* keys than the map can hold have been active since.
ActiveSince(a) == {j \in Keys : idle[j] <= a}
ForgottenInv ==
    \A k \in Keys, a \in Ages :
        /\ served[k][a] > 0 => idle[k] <= a
        /\ served[k][a] # hits[k][a] => Cardinality(ActiveSince(a)) > MaxTracked

\* What came since the last misnamed request came from the client itself.
OwnInv == \A k \in Keys, a \in Ages : a < misled[k] => hits[k][a] <= own[k][a]

ApiInv ==
    /\ ApiTypeOK /\ OwnTypeOK
    /\ MapInv /\ WindowsInv /\ ForgottenInv /\ OwnInv /\ RefusedAtOwnLimit

\* One part is its own first part; of a longer list that starts with an address, that is it.
LEMMA FirstParts ==
  /\ \A a \in Addresses : FirstPart(<<a>>) = <<a>>
  /\ \A v \in Told, h \in Addresses :
       /\ Append(v, h) # <<>> /\ Append(v, h) \in Values /\ v \in Values
       /\ v = <<>> => FirstPart(Append(v, h)) = <<h>>
       /\ v # <<>> /\ Head(v) \in Addresses =>
            FirstPart(v) = <<Head(v)>> /\ FirstPart(Append(v, h)) = <<Head(v)>>
<1>1. ASSUME NEW a \in Addresses PROVE FirstPart(<<a>>) = <<a>>
  BY DEF FirstPart
<1>2. ASSUME NEW v \in Told, NEW h \in Addresses
      PROVE  /\ Append(v, h) # <<>> /\ Append(v, h) \in Values /\ v \in Values
             /\ v = <<>> => FirstPart(Append(v, h)) = <<h>>
             /\ v # <<>> /\ Head(v) \in Addresses =>
                  FirstPart(v) = <<Head(v)>> /\ FirstPart(Append(v, h)) = <<Head(v)>>
  <2>1. v \in Seq(Addresses \cup {Empty}) /\ Empty \notin Addresses
    BY ApiAssumption
  <2>2. Append(v, h) # <<>> /\ Append(v, h) \in Values /\ v \in Values
    BY <2>1 DEF Values
  <2>3. v = <<>> => FirstPart(Append(v, h)) = <<h>>
    <3>1. Append(<<>>, h) = <<h>>
      OBVIOUS
    <3> QED BY <1>1, <3>1
  <2>4. ASSUME v # <<>>, Head(v) \in Addresses
        PROVE  FirstPart(v) = <<Head(v)>> /\ FirstPart(Append(v, h)) = <<Head(v)>>
    <3>1. Len(v) \in Nat /\ Len(v) >= 1 /\ Head(v) = v[1] /\ Head(v) # Empty
      BY <2>1, <2>4
    <3>2. Len(Append(v, h)) > 1 /\ Head(Append(v, h)) = Head(v)
      BY <2>1, <2>4, <3>1
    <3>3. FirstPart(Append(v, h)) = <<Head(v)>>
      BY <3>1, <3>2 DEF FirstPart
    <3>4. CASE Len(v) > 1
      BY <3>1, <3>3, <3>4 DEF FirstPart
    <3>5. CASE ~(Len(v) > 1)
      <4>0. \A n \in Nat : n >= 1 /\ ~(n > 1) => n = 1
        OBVIOUS
      <4>1. Len(v) = 1
        BY <3>1, <3>5, <4>0, Zenon
      <4>2. v = <<Head(v)>>
        BY <2>1, <3>1, <4>1
      <4> QED BY <3>3, <3>5, <4>2 DEF FirstPart
    <3> QED BY <3>4, <3>5
  <2> QED BY <2>2, <2>3, <2>4
<1> QED BY <1>1, <1>2

\* A request is charged to a key, and to the one of the client it comes from unless a
\* trusted proxy passed on what somebody else had written.
LEMMA ChargedTo ==
  ASSUME NEW r \in Requests
  PROVE  /\ ClientIPFor(r) \in Names /\ <<r.origin>> \in Names
         /\ ~Misnamed(r) => ClientIPFor(r) = <<r.origin>>
<1>0. /\ r.origin \in Addresses /\ r.peer \in Addresses /\ r.hop \in Addresses /\ r.told \in Told
      /\ r.conduct \in {"direct", "replaces", "appends", "realIP"}
      /\ r.conduct = "direct" => r.peer = r.origin /\ (r.peer \in Trusted => r.told = <<>>)
      /\ r.conduct # "direct" => r.peer \in Trusted /\ (r.told = <<>> => r.hop = r.origin)
  BY DEF Requests
<1>1. /\ \A a \in Addresses : <<a>> \in Names /\ <<a>> # <<>>
      /\ \A v \in Values : v # <<>> => FirstPart(v) \in Names
  BY DEF Names
<1>2. CASE r.conduct = "direct"
  <2>1. XForwardedFor(r) = r.told /\ XRealIP(r) = r.told /\ ~Misnamed(r)
    BY <1>2 DEF XForwardedFor, XRealIP, Misnamed
  <2>2. ClientIPFor(r) = <<r.peer>>
    BY <1>0, <1>2, <2>1 DEF ClientIPFor
  <2> QED BY <1>0, <1>1, <1>2, <2>2
<1>3. CASE r.conduct = "replaces"
  <2>1. XForwardedFor(r) = <<r.origin>>
    BY <1>3 DEF XForwardedFor
  <2>2. ClientIPFor(r) = FirstPart(<<r.origin>>)
    BY <1>0, <1>1, <1>3, <2>1 DEF ClientIPFor
  <2> QED BY <1>0, <1>1, <2>2, FirstParts
<1>4. CASE r.conduct = "appends"
  <2>1. XForwardedFor(r) = Append(r.told, r.hop)
    BY <1>4 DEF XForwardedFor
  <2>2. ClientIPFor(r) = FirstPart(Append(r.told, r.hop))
    BY <1>0, <1>4, <2>1, FirstParts DEF ClientIPFor
  <2>3. ~Misnamed(r) => r.told = <<>> \/ Head(r.told) = r.origin
    BY <1>4 DEF Misnamed
  <2> QED BY <1>0, <1>1, <1>4, <2>2, <2>3, FirstParts
<1>5. CASE r.conduct = "realIP"
  <2>1. XForwardedFor(r) = r.told /\ XRealIP(r) = <<r.origin>>
    BY <1>5 DEF XForwardedFor, XRealIP
  <2>2. ClientIPFor(r) = IF r.told = <<>> THEN <<r.origin>> ELSE FirstPart(r.told)
    BY <1>0, <1>1, <1>5, <2>1 DEF ClientIPFor
  <2>3. ~Misnamed(r) => r.told = <<>> \/ Head(r.told) = r.origin
    BY <1>5 DEF Misnamed
  <2> QED BY <1>0, <1>1, <2>2, <2>3, FirstParts
<1> QED BY <1>0, <1>2, <1>3, <1>4, <1>5

\* The same of what the limiter's state depends on.
LEMMA ChargesType ==
  ASSUME NEW c \in Charges
  PROVE  c.to \in Keys /\ c.origin \in Keys /\ (~c.misnamed => c.to = c.origin)
<1>1. PICK r \in Requests :
        c = [to |-> <<ClientIPFor(r), r.window>>, origin |-> <<<<r.origin>>, r.window>>,
             misnamed |-> Misnamed(r)]
  BY DEF Charges
<1>2. r.window \in {"ip", "compare"}
  <2>1. Range(Routes) \subseteq {"ip", "compare"}
    BY DEF Range, Routes
  <2> QED BY <2>1 DEF Requests
<1> QED BY <1>1, <1>2, ChargedTo DEF Keys

-----------------------------------------------------------------------------
(* The map after a request.                                                 *)

\* What stands before the key just used.
Rest(k) == IF k \in Tracked THEN Pick(lru, {i \in DOMAIN lru : lru[i] # k}) ELSE EvictOldest

\* A key is tracked if it is somewhere in the list.
LEMMA TrackedAt ==
  ASSUME ApiTypeOK, NEW k
  PROVE  k \in Tracked <=> \E i \in 1..Len(lru) : lru[i] = k
  BY DEF ApiTypeOK, Tracked, Range

\* What touching a key leaves of the list before the key is put at its end: still in
\* order, without the key, with room for it, and only the oldest key may be missing.
LEMMA RestOrdered ==
  ASSUME ApiTypeOK, MapInv, NEW k \in Keys
  PROVE  /\ Rest(k) \in Seq(Keys) /\ Len(Rest(k)) < MaxTracked
         /\ \A i \in 1..Len(Rest(k)) : Rest(k)[i] # k
         /\ \A i, j \in 1..Len(Rest(k)) : i < j =>
              Rest(k)[i] # Rest(k)[j] /\ idle[Rest(k)[j]] <= idle[Rest(k)[i]]
         /\ \A p \in 1..Len(lru) :
              \/ lru[p] = k
              \/ \E i \in 1..Len(Rest(k)) : Rest(k)[i] = lru[p]
              \/ k \notin Tracked /\ Len(lru) = MaxTracked /\ p = 1
<1>0. lru \in Seq(Keys) /\ Len(lru) \in Nat /\ DOMAIN lru = 1..Len(lru)
      /\ MaxTracked \in Nat \ {0} /\ Len(lru) <= MaxTracked
  BY ApiConstants DEF ApiTypeOK, MapInv
<1>1. CASE k \in Tracked
  <2> DEFINE I == {i \in DOMAIN lru : lru[i] # k}
  <2>1. Rest(k) = Pick(lru, I) /\ I \subseteq 1..Len(lru)
    BY <1>0, <1>1 DEF Rest
  <2>2. PICK p \in 1..Len(lru) : lru[p] = k
    BY <1>1, TrackedAt
  <2>3. /\ Rest(k) \in Seq(Keys) /\ Len(Rest(k)) = Cardinality(I)
        /\ Cardinality(I) \in Nat
        /\ \A i \in 1..Cardinality(I) : Nth(I, i) \in I /\ Rest(k)[i] = lru[Nth(I, i)]
    BY <1>0, <2>1, PickSeq
  <2>4. IsFiniteSet(I) /\ \A m \in I : m \in Nat
    BY <1>0, <2>1, Positions
  <2>5. Cardinality(I) < Len(lru)
    <3>1. IsFiniteSet(1..Len(lru)) /\ Cardinality(1..Len(lru)) = Len(lru)
      <4>1. 1 \in Int /\ Len(lru) \in Int
        BY <1>0
      <4>2. IsFiniteSet(1..Len(lru))
            /\ Cardinality(1..Len(lru)) = IF 1 > Len(lru) THEN 0 ELSE Len(lru) - 1 + 1
        BY <4>1, FS_Interval
      <4> QED BY <1>0, <4>2
    <3>2. p \notin I
      BY <2>2
    <3> QED BY <2>1, <3>1, <3>2, SmallerSubset
  <2>6. ASSUME NEW i \in 1..Len(Rest(k)), NEW j \in 1..Len(Rest(k)), i < j
        PROVE  Rest(k)[i] # Rest(k)[j] /\ idle[Rest(k)[j]] <= idle[Rest(k)[i]]
    <3>1. Nth(I, i) < Nth(I, j)
      BY <2>3, <2>4, <2>6, NthInOrder
    <3>2. Nth(I, i) \in 1..Len(lru) /\ Nth(I, j) \in 1..Len(lru)
      BY <2>1, <2>3
    <3> QED BY <2>3, <3>1, <3>2 DEF MapInv
  <2>7. ASSUME NEW q \in 1..Len(lru), lru[q] # k
        PROVE  \E i \in 1..Len(Rest(k)) : Rest(k)[i] = lru[q]
    <3>1. q \in I
      BY <1>0, <2>7
    <3>2. Rank(I, q) + 1 \in 1..Cardinality(I) /\ Pick(lru, I)[Rank(I, q) + 1] = lru[q]
      BY <1>0, <2>1, <3>1, PickKeeps
    <3> QED BY <2>1, <2>3, <3>2
  <2>8. \A i \in 1..Len(Rest(k)) : Rest(k)[i] # k
    BY <2>3
  <2>9. Len(Rest(k)) < MaxTracked
    BY <1>0, <2>3, <2>5
  <2> QED BY <2>3, <2>6, <2>7, <2>8, <2>9
<1>2. CASE k \notin Tracked /\ Len(lru) < MaxTracked
  <2>1. Rest(k) = lru
    <3>1. ~(Len(lru) >= MaxTracked)
      BY <1>0, <1>2
    <3> QED BY <1>2, <3>1 DEF Rest, EvictOldest
  <2> QED BY <1>0, <1>2, <2>1, TrackedAt DEF MapInv
<1>3. CASE k \notin Tracked /\ Len(lru) = MaxTracked
  <2>1. Rest(k) = Tail(lru) /\ lru # <<>>
    BY <1>0, <1>3 DEF Rest, EvictOldest
  <2>2. Rest(k) \in Seq(Keys) /\ Len(Rest(k)) = Len(lru) - 1
        /\ \A i \in 1..Len(Rest(k)) : i + 1 \in 1..Len(lru) /\ Rest(k)[i] = lru[i + 1]
    BY <1>0, <2>1
  <2>3. ASSUME NEW q \in 1..Len(lru), q # 1
        PROVE  \E i \in 1..Len(Rest(k)) : Rest(k)[i] = lru[q]
    <3>1. q - 1 \in 1..Len(Rest(k)) /\ (q - 1) + 1 = q
      BY <1>0, <2>2, <2>3
    <3> QED BY <2>2, <3>1
  <2>4. ASSUME NEW i \in 1..Len(Rest(k)), NEW j \in 1..Len(Rest(k)), i < j
        PROVE  Rest(k)[i] # Rest(k)[j] /\ idle[Rest(k)[j]] <= idle[Rest(k)[i]]
    <3>1. i + 1 < j + 1
      BY <2>4
    <3> QED BY <2>2, <3>1 DEF MapInv
  <2>5. \A i \in 1..Len(Rest(k)) : Rest(k)[i] # k
    BY <1>3, <2>2, TrackedAt
  <2>6. Len(Rest(k)) < MaxTracked
    BY <1>0, <2>2
  <2> QED BY <1>3, <2>2, <2>3, <2>4, <2>5, <2>6
<1>4. Len(lru) < MaxTracked \/ Len(lru) = MaxTracked
  <2>1. Len(lru) \in Int /\ MaxTracked \in Int /\ Len(lru) <= MaxTracked
    BY <1>0
  <2> QED BY <2>1
<1> QED BY <1>1, <1>2, <1>3, <1>4
-----------------------------------------------------------------------------
(* A request, in terms of the one key it is charged to.                     *)

Kept(k) == [j \in Keys |-> IF j \in Range(Touch(k)) THEN hits[j] ELSE NoHits]
Charge(k) ==
    /\ lru' = Append(Rest(k), k)
    /\ idle' = [idle EXCEPT ![k] = 0]
    /\ \/ /\ Allow(k)
          /\ hits' = [Kept(k) EXCEPT ![k] = Count(@)]
          /\ served' = [served EXCEPT ![k] = Count(@)]
          /\ refused' = {}
       \/ /\ ~Allow(k)
          /\ hits' = Kept(k) /\ served' = served
          /\ refused' = {k}

\* Touching a key puts it at the end of the rest.
LEMMA TouchRest ==
  ASSUME NEW k
  PROVE  Touch(k) = Append(Rest(k), k)
  BY DEF Touch, Rest

\* A request charges its key, whoever it comes from.
LEMMA RequestCharges ==
  ASSUME NEW c \in Charges, Request(c)
  PROVE  c.to \in Keys /\ Charge(c.to)
<1>1. c.to \in Keys
  BY ChargesType
<1>2. Touch(c.to) = Append(Rest(c.to), c.to)
  BY TouchRest
<1>3. Charge(c.to)
  BY <1>2 DEF Request, Charge, Kept
<1> QED BY <1>1, <1>3

\* What the windows hold afterwards.
LEMMA ChargeWindows ==
  ASSUME ApiTypeOK, MapInv, WindowsInv, NEW k \in Keys, Charge(k)
  PROVE  /\ ApiTypeOK' /\ 0 \in Ages
         /\ \A j \in Keys : j # k => idle'[j] = idle[j] /\ served'[j] = served[j]
         /\ idle'[k] = 0
         /\ \A j \in Keys : j \notin Range(Touch(k)) => hits'[j] = NoHits
         /\ \A j \in Keys : j # k /\ j \in Range(Touch(k)) => hits'[j] = hits[j]
         /\ \/ Allow(k) /\ hits'[k] = Count(hits[k]) /\ served'[k] = Count(served[k]) /\ refused' = {}
            \/ ~Allow(k) /\ hits'[k] = hits[k] /\ served'[k] = served[k] /\ refused' = {k}
<1>0. 0 \in Ages /\ 0 \in 0..Window /\ NoHits \in [Ages -> Nat]
  BY ApiConstants DEF Ages, NoHits
<1>1. Rest(k) \in Seq(Keys)
  BY RestOrdered
<1>2. /\ lru' \in Seq(Keys) /\ Len(lru') = Len(Rest(k)) + 1 /\ lru'[Len(Rest(k)) + 1] = k
      /\ lru' = Touch(k) /\ DOMAIN lru' = 1..Len(lru')
  BY <1>1, TouchRest DEF Charge
<1>3. k \in Range(Touch(k))
  <2>1. Len(Rest(k)) + 1 \in DOMAIN lru'
    BY <1>1, <1>2
  <2> QED BY <1>2, <2>1 DEF Range
<1>4. Kept(k) \in [Keys -> [Ages -> Nat]] /\ Kept(k)[k] = hits[k]
  BY <1>0, <1>3 DEF Kept, ApiTypeOK
<1>5. Count(hits[k]) \in [Ages -> Nat] /\ Count(served[k]) \in [Ages -> Nat]
  BY RingCount DEF ApiTypeOK
<1>6. idle' \in [Keys -> 0..Window] /\ idle'[k] = 0 /\ \A j \in Keys : j # k => idle'[j] = idle[j]
  BY <1>0 DEF Charge, ApiTypeOK
<1>7. /\ \A j \in Keys : j # k => hits'[j] = Kept(k)[j] /\ served'[j] = served[j]
      /\ hits' \in [Keys -> [Ages -> Nat]] /\ served' \in [Keys -> [Ages -> Nat]]
      /\ refused' \subseteq Keys
      /\ \/ Allow(k) /\ hits'[k] = Count(hits[k]) /\ served'[k] = Count(served[k]) /\ refused' = {}
         \/ ~Allow(k) /\ hits'[k] = hits[k] /\ served'[k] = served[k] /\ refused' = {k}
  <2>1. CASE Allow(k)
    <3>1. hits' = [Kept(k) EXCEPT ![k] = Count(@)] /\ served' = [served EXCEPT ![k] = Count(@)]
          /\ refused' = {}
      BY <2>1 DEF Charge
    <3>2. served \in [Keys -> [Ages -> Nat]]
      BY DEF ApiTypeOK
    <3> QED BY <1>4, <1>5, <2>1, <3>1, <3>2
  <2>2. CASE ~Allow(k)
    BY <1>4, <2>2 DEF Charge, ApiTypeOK
  <2> QED BY <2>1, <2>2
<1>8. \A j \in Keys : j # k => hits'[j] = IF j \in Range(Touch(k)) THEN hits[j] ELSE NoHits
  BY <1>7 DEF Kept
<1>9. ApiTypeOK'
  BY <1>2, <1>6, <1>7 DEF ApiTypeOK
<1> QED BY <1>0, <1>3, <1>6, <1>7, <1>8, <1>9

\* Charging a key keeps the map in order and within its bound.
LEMMA ChargeMap ==
  ASSUME ApiTypeOK, MapInv, WindowsInv, NEW k \in Keys, Charge(k)
  PROVE  MapInv'
<1> DEFINE n == Len(Rest(k))
<1>0. Rest(k) \in Seq(Keys) /\ n \in Nat /\ n < MaxTracked /\ MaxTracked \in Nat
  BY RestOrdered, ApiConstants
<1>1. lru' = Append(Rest(k), k)
  BY DEF Charge
<1>2. Len(lru') = n + 1 /\ lru'[n + 1] = k /\ \A i \in 1..n : lru'[i] = Rest(k)[i] /\ Rest(k)[i] \in Keys
  BY <1>0, <1>1
<1>3. idle'[k] = 0 /\ \A j \in Keys : j # k => idle'[j] = idle[j]
  BY ChargeWindows
<1>4. ASSUME NEW i \in 1..Len(lru'), NEW j \in 1..Len(lru'), i < j
      PROVE  lru'[i] # lru'[j] /\ idle'[lru'[j]] <= idle'[lru'[i]]
  <2>1. i \in 1..n /\ lru'[i] = Rest(k)[i] /\ Rest(k)[i] \in Keys /\ Rest(k)[i] # k
    <3>1. i \in 1..n
      BY <1>0, <1>2, <1>4
    <3> QED BY <1>2, <3>1, RestOrdered
  <2>2. CASE j = n + 1
    <3>1. idle'[lru'[i]] \in Nat
      <4>1. idle[Rest(k)[i]] \in 0..Window
        BY <2>1 DEF ApiTypeOK
      <4> QED BY <1>3, <2>1, <4>1
    <3> QED BY <1>2, <1>3, <2>1, <2>2, <3>1
  <2>3. CASE j # n + 1
    <3>1. j \in 1..n
      BY <1>0, <1>2, <2>3
    <3>2. lru'[j] = Rest(k)[j] /\ Rest(k)[j] \in Keys /\ Rest(k)[j] # k
      BY <1>2, <3>1, RestOrdered
    <3>3. Rest(k)[i] # Rest(k)[j] /\ idle[Rest(k)[j]] <= idle[Rest(k)[i]]
      BY <1>4, <2>1, <3>1, RestOrdered
    <3> QED BY <1>3, <2>1, <3>2, <3>3
  <2> QED BY <2>2, <2>3
<1>5. Len(lru') <= MaxTracked
  BY <1>0, <1>2
<1> QED BY <1>4, <1>5 DEF MapInv
\* Every window has a positive limit.
LEMMA LimitType == ASSUME NEW k PROVE Limit(k) \in Nat \ {0}
  BY ApiConstants DEF Limit

\* An empty window counts nothing.
LEMMA NoHitsTotal == NoHits \in [Ages -> Nat] /\ Total(NoHits) = 0
<1>1. NoHits \in [Ages -> Nat] /\ \A a \in Ages : NoHits[a] = 0
  BY DEF NoHits
<1>2. InRing(NoHits) = {}
  BY <1>1, RingMember
<1> QED BY <1>1, <1>2, FS_EmptySet DEF Total

\* Charging a key keeps every window within its limit and within what was served.
LEMMA ChargeKeepsWindows ==
  ASSUME ApiTypeOK, MapInv, WindowsInv, NEW k \in Keys, Charge(k)
  PROVE  WindowsInv'
<1>0. /\ hits \in [Keys -> [Ages -> Nat]] /\ served \in [Keys -> [Ages -> Nat]]
      /\ NoHits \in [Ages -> Nat] /\ \A a \in Ages : NoHits[a] = 0
      /\ 0 \in Ages
  BY ChargeWindows DEF ApiTypeOK, NoHits
<1>1. \A j \in Keys : j # k => hits'[j] = hits[j] \/ hits'[j] = NoHits
  BY ChargeWindows
<1>2. ASSUME NEW j \in Keys, NEW a \in Ages PROVE hits'[j][a] <= served'[j][a]
  <2>1. hits[j][a] \in Nat /\ served[j][a] \in Nat /\ hits[j][a] <= served[j][a]
    BY <1>0 DEF WindowsInv
  <2>2. CASE j # k
    <3>1. served'[j] = served[j]
      BY <2>2, ChargeWindows
    <3> QED BY <1>0, <1>1, <2>1, <2>2, <3>1
  <2>3. CASE j = k /\ hits'[k] = hits[k] /\ served'[k] = served[k]
    BY <2>1, <2>3
  <2>4. CASE j = k /\ hits'[k] = Count(hits[k]) /\ served'[k] = Count(served[k])
    <3>1. /\ Count(hits[k])[a] = IF a = 0 THEN hits[k][a] + 1 ELSE hits[k][a]
          /\ Count(served[k])[a] = IF a = 0 THEN served[k][a] + 1 ELSE served[k][a]
      BY <1>0 DEF Count
    <3> QED BY <2>1, <2>4, <3>1
  <2> QED BY <2>2, <2>3, <2>4, ChargeWindows
<1>3. ASSUME NEW j \in Keys, \A i \in 1..Len(lru') : lru'[i] # j PROVE hits'[j] = NoHits
  <2>1. lru' = Touch(k) /\ DOMAIN lru' = 1..Len(lru')
    <3>1. ApiTypeOK'
      BY ChargeWindows
    <3> QED BY <3>1, TouchRest DEF Charge, ApiTypeOK
  <2>2. j \notin Range(Touch(k))
    BY <1>3, <2>1 DEF Range
  <2> QED BY <2>2, ChargeWindows
<1>4. ASSUME NEW j \in Keys PROVE Total(hits'[j]) <= Limit(j)
  <2>1. Total(hits[j]) \in Nat /\ Total(hits[j]) <= Limit(j) /\ Limit(j) \in Nat
    BY <1>0, RingFinite, LimitType DEF WindowsInv
  <2>2. CASE hits'[j] = hits[j]
    BY <2>1, <2>2
  <2>3. CASE hits'[j] = NoHits
    BY <2>1, <2>3, NoHitsTotal
  <2>4. CASE j = k /\ Allow(k) /\ hits'[k] = Count(hits[k])
    <3>1. Total(hits[k]) < Limit(k)
      BY <2>4 DEF Allow
    <3>2. Total(hits'[k]) = Total(hits[k]) + 1
      BY <1>0, <2>4, RingCount
    <3> QED BY <2>1, <2>4, <3>1, <3>2
  <2> QED BY <1>1, <2>2, <2>3, <2>4, ChargeWindows
<1> QED BY <1>2, <1>3, <1>4 DEF WindowsInv

\* A request keeps a window's hits within what its client was served since the last
\* misnamed request.
LEMMA RequestOwn ==
  ASSUME ApiInv, NEW c \in Charges, Request(c)
  PROVE  OwnTypeOK' /\ OwnInv'
<1>0. /\ hits \in [Keys -> [Ages -> Nat]] /\ own \in [Keys -> [Ages -> Nat]]
      /\ misled \in [Keys -> 0..Window] /\ 0 \in 0..Window /\ 0 \in Ages /\ Window \in Nat
      /\ NoHits \in [Ages -> Nat] /\ \A a \in Ages : NoHits[a] = 0 /\ a \in Nat
  BY ApiConstants DEF ApiInv, ApiTypeOK, OwnTypeOK, Ages, NoHits
<1>1. c.to \in Keys /\ c.origin \in Keys /\ (~c.misnamed => c.to = c.origin)
  BY ChargesType
<1>2. Charge(c.to) /\ ApiTypeOK /\ MapInv /\ WindowsInv /\ OwnInv
  BY RequestCharges DEF ApiInv
<1>3. /\ misled' \in [Keys -> 0..Window]
      /\ \A j \in Keys : j # c.to => misled'[j] = misled[j]
      /\ c.misnamed => misled'[c.to] = 0
      /\ ~c.misnamed => misled'[c.to] = misled[c.to]
  <2>1. misled' = IF c.misnamed THEN [misled EXCEPT ![c.to] = 0] ELSE misled
    BY DEF Request
  <2> QED BY <1>0, <1>1, <2>1
<1>4. \A j \in Keys : j # c.to => hits'[j] = hits[j] \/ hits'[j] = NoHits
  BY <1>1, <1>2, ChargeWindows
<1>5. /\ own' \in [Keys -> [Ages -> Nat]]
      /\ \A j \in Keys, a \in Ages : own[j][a] <= own'[j][a]
      /\ \/ Allow(c.to) /\ own'[c.origin] = Count(own[c.origin])
         \/ ~Allow(c.to)
  <2>1. CASE Allow(c.to)
    <3>1. own' = [own EXCEPT ![c.origin] = Count(own[c.origin])]
      BY <2>1 DEF Request
    <3>2. Count(own[c.origin]) \in [Ages -> Nat]
          /\ \A a \in Ages : own[c.origin][a] <= Count(own[c.origin])[a]
      BY <1>0, <1>1, RingCount DEF Count
    <3> QED BY <1>0, <1>1, <2>1, <3>1, <3>2
  <2>2. CASE ~Allow(c.to)
    BY <1>0, <2>2 DEF Request
  <2> QED BY <2>1, <2>2
<1>6. ASSUME NEW j \in Keys, NEW a \in Ages, a < misled'[j] PROVE hits'[j][a] <= own'[j][a]
  <2>0. hits[j][a] \in Nat /\ own[j][a] \in Nat /\ own'[j][a] \in Nat /\ own[j][a] <= own'[j][a]
    BY <1>0, <1>5
  <2>1. CASE j # c.to
    <3>1. hits[j][a] <= own[j][a]
      BY <1>2, <1>3, <1>6, <2>1 DEF OwnInv
    <3>2. hits'[j][a] = hits[j][a] \/ hits'[j][a] = 0
      BY <1>0, <1>4, <2>1
    <3> QED BY <2>0, <3>1, <3>2
  <2>2. CASE j = c.to
    <3>1. ~c.misnamed /\ c.to = c.origin /\ misled'[j] = misled[j]
      BY <1>0, <1>1, <1>3, <1>6, <2>2
    <3>2. hits[j][a] <= own[j][a]
      BY <1>2, <1>6, <3>1 DEF OwnInv
    <3>3. CASE Allow(c.to)
      <4>1. hits'[j] = Count(hits[j]) /\ own'[j] = Count(own[j])
        BY <1>1, <1>2, <1>5, <2>2, <3>1, <3>3, ChargeWindows
      <4>2. /\ Count(hits[j])[a] = IF a = 0 THEN hits[j][a] + 1 ELSE hits[j][a]
            /\ Count(own[j])[a] = IF a = 0 THEN own[j][a] + 1 ELSE own[j][a]
        BY <1>0 DEF Count
      <4> QED BY <2>0, <3>2, <4>1, <4>2
    <3>4. CASE ~Allow(c.to)
      <4>1. hits'[j] = hits[j]
        BY <1>1, <1>2, <2>2, <3>4, ChargeWindows
      <4> QED BY <2>0, <3>2, <4>1
    <3> QED BY <3>3, <3>4
  <2> QED BY <2>1, <2>2
<1> QED BY <1>3, <1>5, <1>6 DEF OwnTypeOK, OwnInv

\* A client under whose name nobody else came is refused after its own full limit only.
LEMMA RequestRefuses ==
  ASSUME ApiInv, NEW c \in Charges, Request(c)
  PROVE  RefusedAtOwnLimit'
<1> DEFINE k == c.to
<1>0. /\ k \in Keys /\ Charge(k) /\ ApiTypeOK /\ MapInv /\ WindowsInv
      /\ (~c.misnamed => c.to = c.origin)
  BY RequestCharges, ChargesType DEF ApiInv
<1>1. RefusedAtOwnLimit' <=> \A j \in refused' : Total(own'[j]) >= Limit(j) \/ misled'[j] < Window
  BY DEF RefusedAtOwnLimit, Total, InRing, Limit, Ages
<1>2. CASE Allow(k)
  BY <1>0, <1>1, <1>2, ChargeWindows
<1>3. CASE ~Allow(k)
  <2>0. refused' = {k} /\ hits'[k] = hits[k]
    BY <1>0, <1>3, ChargeWindows
  <2>1. SUFFICES ASSUME ~(misled'[k] < Window) PROVE Total(own'[k]) >= Limit(k)
    BY <1>1, <2>0
  <2>2. OwnTypeOK' /\ OwnInv' /\ ApiTypeOK
    BY RequestOwn DEF ApiInv
  <2>3. /\ hits[k] \in [Ages -> Nat] /\ own'[k] \in [Ages -> Nat] /\ misled'[k] \in 0..Window
        /\ Window \in Nat
    BY <1>0, <2>2, ApiConstants DEF ApiTypeOK, OwnTypeOK
  <2>4. \A a \in Ages : a < misled'[k]
    BY <2>1, <2>3 DEF Ages
  <2>5. \A j \in Keys, a \in Ages : a < misled'[j] => hits'[j][a] <= own'[j][a]
    BY <2>2 DEF OwnInv
  <2>6. \A a \in Ages : hits[k][a] <= own'[k][a]
    BY <1>0, <2>0, <2>4, <2>5
  <2>7. Total(hits[k]) <= Total(own'[k])
    BY <2>3, <2>6, RingMonotone
  <2>8. Total(hits[k]) \in Nat /\ Total(own'[k]) \in Nat /\ Limit(k) \in Nat
    BY <2>3, RingFinite, LimitType
  <2>9. Total(hits[k]) >= Limit(k)
    BY <1>3, <2>8 DEF Allow
  <2> QED BY <2>7, <2>8, <2>9
<1> QED BY <1>2, <1>3

\* There are finitely many windows.
LEMMA KeysFinite == IsFiniteSet(Keys)
<1>1. IsFiniteSet({"ip", "compare"})
  <2>1. IsFiniteSet({"ip"} \cup {"compare"})
    BY FS_Singleton, FS_Union
  <2>2. {"ip", "compare"} = {"ip"} \cup {"compare"}
    OBVIOUS
  <2> QED BY <2>1, <2>2
<1> DEFINE Single == [a \in Addresses |-> <<a>>]
           Longer == [va \in Told \X Addresses |-> Append(va[1], va[2])]
           First == [v \in Values \ {<<>>} |-> FirstPart(v)]
<1>2. IsFiniteSet({<<a>> : a \in Addresses})
  <2>1. Single \in Surjection(Addresses, {<<a>> : a \in Addresses})
    BY DEF Surjection
  <2> QED BY <2>1, ApiConstants, FS_Surjection
<1>3. IsFiniteSet(Values \ {<<>>})
  <2> DEFINE Appended == {Longer[va] : va \in Told \X Addresses}
  <2>1. Longer \in Surjection(Told \X Addresses, Appended)
    BY DEF Surjection
  <2>2. IsFiniteSet(Told \X Addresses)
    BY ApiConstants, FS_Product
  <2>3. IsFiniteSet(Appended)
    BY <2>1, <2>2, FS_Surjection
  <2>4. IsFiniteSet(Told \cup Appended)
    BY <2>3, ApiConstants, FS_Union
  <2>5. ASSUME NEW w \in Values PROVE w \in Told \cup Appended
    <3>1. CASE w \in Told
      BY <3>1
    <3>2. CASE w \notin Told
      <4>1. PICK v \in Told, a \in Addresses : w = Append(v, a)
        BY <3>2 DEF Values
      <4>2. <<v, a>> \in Told \X Addresses /\ Longer[<<v, a>>] = w
        BY <4>1
      <4> QED BY <4>2
    <3> QED BY <3>1, <3>2
  <2>6. Values \ {<<>>} \subseteq Told \cup Appended
    BY <2>5
  <2> QED BY <2>4, <2>6, FS_Subset
<1>4. IsFiniteSet({FirstPart(v) : v \in Values \ {<<>>}})
  <2>1. First \in Surjection(Values \ {<<>>}, {FirstPart(v) : v \in Values \ {<<>>}})
    BY DEF Surjection
  <2> QED BY <1>3, <2>1, FS_Surjection
<1>5. IsFiniteSet(Names)
  BY <1>2, <1>4, FS_Union DEF Names
<1> QED BY <1>1, <1>5, FS_Product DEF Keys

\* Any set of them can be counted.
LEMMA ActiveFinite ==
  ASSUME NEW A, A \subseteq Keys
  PROVE  IsFiniteSet(A) /\ Cardinality(A) \in Nat
  BY KeysFinite, FS_Subset, FS_CardinalityType

\* A full map holds MaxTracked different keys.
LEMMA TrackedCount ==
  ASSUME ApiTypeOK, MapInv
  PROVE  IsFiniteSet(Tracked) /\ Cardinality(Tracked) = Len(lru)
<1>0. lru \in Seq(Keys) /\ Len(lru) \in Nat /\ DOMAIN lru = 1..Len(lru)
  BY DEF ApiTypeOK
<1>1. \A i, j \in 1..Len(lru) : lru[i] = lru[j] => i = j
  <2>1. SUFFICES ASSUME NEW i \in 1..Len(lru), NEW j \in 1..Len(lru), lru[i] = lru[j], i # j
                 PROVE  FALSE
    OBVIOUS
  <2>2. i < j \/ j < i
    BY <1>0, <2>1
  <2> QED BY <2>1, <2>2 DEF MapInv
<1>2. lru \in [1..Len(lru) -> Tracked] /\ \A t \in Tracked : \E i \in 1..Len(lru) : lru[i] = t
  BY <1>0 DEF Tracked, Range
<1>3. lru \in Bijection(1..Len(lru), Tracked)
  BY <1>0, <1>1, <1>2 DEF Bijection, Injection, Surjection, IsInjective
<1>4. ExistsBijection(1..Len(lru), Tracked)
  BY <1>3 DEF ExistsBijection
<1> QED BY <1>0, <1>4, FS_CountingElements, FS_NatBijection
\* A window is forgotten only when the map is full of keys used since its own last use, and
\* one key more wants to be tracked.
LEMMA EvictionTakesACrowd ==
  ASSUME ApiTypeOK, MapInv, NEW k \in Keys, NEW a \in Ages, Charge(k), k \notin Tracked,
         Len(lru) = MaxTracked, idle[lru[1]] <= a,
         idle'[k] = 0, \A j \in Keys : j # k => idle'[j] = idle[j]
  PROVE  Cardinality(ActiveSince(a)') > MaxTracked
<1>0. /\ lru \in Seq(Keys) /\ Len(lru) \in Nat \ {0} /\ DOMAIN lru = 1..Len(lru)
      /\ idle \in [Keys -> 0..Window] /\ a \in Nat
  BY ApiConstants DEF ApiTypeOK, Ages
<1>1. ASSUME NEW t \in Tracked PROVE t \in Keys /\ idle'[t] <= a
  <2>1. PICK i \in 1..Len(lru) : lru[i] = t
    BY TrackedAt
  <2>2. t \in Keys /\ lru[1] \in Keys /\ 1 \in 1..Len(lru)
    BY <1>0, <2>1
  <2>3. idle[t] <= idle[lru[1]]
    <3>1. CASE i = 1
      <4>1. idle[t] \in Nat
        BY <1>0, <2>2
      <4> QED BY <2>1, <3>1, <4>1
    <3>2. CASE i # 1
      <4>1. 1 < i
        BY <1>0, <3>2
      <4> QED BY <2>1, <2>2, <4>1 DEF MapInv
    <3> QED BY <3>1, <3>2
  <2>4. idle[t] \in Int /\ idle[lru[1]] \in Int
    BY <1>0, <2>2
  <2>5. idle'[t] = idle[t]
    BY <2>2
  <2> QED BY <1>0, <2>2, <2>3, <2>4, <2>5
<1>2. ActiveSince(a)' = {j \in Keys : idle'[j] <= a}
  BY DEF ActiveSince, Keys
<1>3. Tracked \cup {k} \subseteq ActiveSince(a)'
  BY <1>0, <1>1, <1>2
<1>4. IsFiniteSet(Tracked) /\ Cardinality(Tracked) = MaxTracked
  BY TrackedCount
<1>5. Cardinality(Tracked \cup {k}) = MaxTracked + 1
  BY <1>4, FS_AddElement
<1>6. IsFiniteSet(ActiveSince(a)') /\ Cardinality(ActiveSince(a)') \in Nat
  BY <1>2, ActiveFinite
<1>7. Cardinality(Tracked \cup {k}) <= Cardinality(ActiveSince(a)')
  BY <1>3, <1>6, FS_Subset
<1> QED BY <1>5, <1>6, <1>7, ApiConstants

\* A charge that evicts a key does so because a map full of others has been active since.
LEMMA ChargeForgets ==
  ASSUME ApiTypeOK, MapInv, WindowsInv, ForgottenInv, NEW k \in Keys, Charge(k)
  PROVE  ForgottenInv'
<1>0. /\ hits \in [Keys -> [Ages -> Nat]] /\ served \in [Keys -> [Ages -> Nat]]
      /\ idle \in [Keys -> 0..Window] /\ \A b \in Ages : b \in Nat /\ NoHits[b] = 0
      /\ lru \in Seq(Keys) /\ 0 \in Ages
  BY ChargeWindows DEF ApiTypeOK, NoHits, Ages
<1>1. idle'[k] = 0 /\ \A j \in Keys : j # k => idle'[j] = idle[j]
  BY ChargeWindows
<1>2. ASSUME NEW j \in Keys, NEW a \in Ages, served'[j][a] > 0 PROVE idle'[j] <= a
  <2>1. CASE j = k
    BY <1>0, <1>1, <2>1
  <2>2. CASE j # k
    <3>1. served'[j] = served[j]
      BY <2>2, ChargeWindows
    <3> QED BY <1>1, <1>2, <2>2, <3>1 DEF ForgottenInv
  <2> QED BY <2>1, <2>2
<1>3. ASSUME NEW j \in Keys, NEW a \in Ages, served'[j][a] # hits'[j][a]
      PROVE  Cardinality(ActiveSince(a)') > MaxTracked
  <2>1. CASE served[j][a] # hits[j][a]
    <3>1. ActiveSince(a) \subseteq ActiveSince(a)'
      <4>1. ASSUME NEW i \in Keys, idle[i] <= a PROVE idle'[i] <= a
        <5>1. a \in Nat
          BY <1>0
        <5>2. CASE i = k
          BY <1>1, <5>1, <5>2
        <5>3. CASE i # k
          BY <1>1, <4>1, <5>3
        <5> QED BY <5>2, <5>3
      <4>2. ActiveSince(a)' = {i \in Keys : idle'[i] <= a}
        BY DEF ActiveSince, Keys
      <4> QED BY <4>1, <4>2 DEF ActiveSince
    <3>2. ActiveSince(a)' \subseteq Keys
      BY DEF ActiveSince, Keys
    <3>3. IsFiniteSet(ActiveSince(a)') /\ Cardinality(ActiveSince(a)') \in Nat
      BY <3>2, ActiveFinite
    <3>4. Cardinality(ActiveSince(a)) <= Cardinality(ActiveSince(a)')
      BY <3>1, <3>3, FS_Subset
    <3>5. Cardinality(ActiveSince(a)) > MaxTracked /\ Cardinality(ActiveSince(a)) \in Nat
      BY <2>1, ActiveFinite DEF ForgottenInv, ActiveSince
    <3> QED BY <3>3, <3>4, <3>5, ApiConstants
  <2>2. CASE served[j][a] = hits[j][a]
    <3>1. j # k
      <4>1. SUFFICES ASSUME j = k PROVE FALSE
        OBVIOUS
      <4>2. CASE hits'[k] = Count(hits[k]) /\ served'[k] = Count(served[k])
        <5>1. /\ Count(hits[k])[a] = IF a = 0 THEN hits[k][a] + 1 ELSE hits[k][a]
              /\ Count(served[k])[a] = IF a = 0 THEN served[k][a] + 1 ELSE served[k][a]
          BY <1>0 DEF Count
        <5> QED BY <1>3, <2>2, <4>1, <4>2, <5>1
      <4>3. CASE hits'[k] = hits[k] /\ served'[k] = served[k]
        BY <1>3, <2>2, <4>1, <4>3
      <4> QED BY <4>2, <4>3, ChargeWindows
    <3>2. served'[j] = served[j]
      BY <3>1, ChargeWindows
    <3>3. j \notin Range(Touch(k)) /\ hits'[j] = NoHits
      BY <1>3, <2>2, <3>1, <3>2, ChargeWindows
    <3>4. hits[j][a] # 0 /\ hits[j] # NoHits
      BY <1>0, <1>3, <2>2, <3>2, <3>3
    <3>5. PICK p \in 1..Len(lru) : lru[p] = j
      BY <3>4 DEF WindowsInv
    <3>6. ~ \E i \in 1..Len(Rest(k)) : Rest(k)[i] = j
      <4>1. SUFFICES ASSUME NEW i \in 1..Len(Rest(k)), Rest(k)[i] = j PROVE FALSE
        OBVIOUS
      <4>2. Rest(k) \in Seq(Keys)
        BY RestOrdered
      <4>3. Touch(k) \in Seq(Keys) /\ i \in DOMAIN Touch(k) /\ Touch(k)[i] = j
        BY <4>1, <4>2, TouchRest
      <4> QED BY <3>3, <4>3 DEF Range
    <3>7. k \notin Tracked /\ Len(lru) = MaxTracked /\ p = 1
      BY <3>1, <3>5, <3>6, RestOrdered
    <3>8. idle[j] <= a
      <4>1. served[j][a] > 0
        BY <1>0, <2>2, <3>4
      <4> QED BY <4>1 DEF ForgottenInv
    <3> QED BY <1>1, <3>5, <3>7, <3>8, EvictionTakesACrowd
  <2> QED BY <2>1, <2>2
<1>4. ForgottenInv' <=> \A j \in Keys, a \in Ages :
        /\ served'[j][a] > 0 => idle'[j] <= a
        /\ served'[j][a] # hits'[j][a] => Cardinality(ActiveSince(a)') > MaxTracked
  BY DEF ForgottenInv, Keys, Ages, ActiveSince
<1> QED BY <1>2, <1>3, <1>4

-----------------------------------------------------------------------------
(* Time passes.                                                             *)

\* A tick ages every request, and keeps the invariant.
LEMMA TickStep ==
  ASSUME ApiInv, Tick
  PROVE  ApiInv'
<1>0. /\ hits \in [Keys -> [Ages -> Nat]] /\ served \in [Keys -> [Ages -> Nat]]
      /\ idle \in [Keys -> 0..Window] /\ lru \in Seq(Keys) /\ Window \in Nat \ {0}
  BY ApiConstants DEF ApiInv, ApiTypeOK
<1>1. /\ \A k \in Keys : hits'[k] = Older(hits[k]) /\ served'[k] = Older(served[k])
      /\ \A k \in Keys : idle'[k] = IF idle[k] < Window THEN idle[k] + 1 ELSE Window
      /\ refused' = {} /\ lru' = lru
  BY DEF Tick, Later
<1>2. \A k \in Keys : Older(hits[k]) \in [Ages -> Nat] /\ Older(served[k]) \in [Ages -> Nat]
  BY <1>0, RingOlder
<1>3. ApiTypeOK'
  <2>1. hits' \in [Keys -> [Ages -> Nat]] /\ served' \in [Keys -> [Ages -> Nat]]
    BY <1>2 DEF Tick
  <2>2. idle' \in [Keys -> 0..Window]
    BY <1>0 DEF Tick, Later
  <2> QED BY <1>0, <1>1, <2>1, <2>2 DEF ApiTypeOK
<1>4. MapInv'
  <2>1. ASSUME NEW i \in 1..Len(lru), NEW j \in 1..Len(lru), i < j
        PROVE  lru[i] # lru[j] /\ idle'[lru[j]] <= idle'[lru[i]]
    <3>1. lru[i] \in Keys /\ lru[j] \in Keys
      BY <1>0
    <3>2. idle[lru[i]] \in 0..Window /\ idle[lru[j]] \in 0..Window
      BY <1>0, <3>1
    <3>3. lru[i] # lru[j] /\ idle[lru[j]] <= idle[lru[i]]
      BY <2>1 DEF ApiInv, MapInv
    <3>4. /\ idle'[lru[i]] = IF idle[lru[i]] < Window THEN idle[lru[i]] + 1 ELSE Window
          /\ idle'[lru[j]] = IF idle[lru[j]] < Window THEN idle[lru[j]] + 1 ELSE Window
      BY <1>1, <3>1
    <3>5. idle'[lru[j]] <= idle'[lru[i]]
      BY <1>0, <3>2, <3>3, <3>4
    <3> QED BY <3>3, <3>5
  <2> QED BY <1>1, <2>1 DEF ApiInv, MapInv
<1>5. ASSUME NEW k \in Keys, NEW a \in Ages
      PROVE  /\ a = 0 => hits'[k][a] = 0 /\ served'[k][a] = 0
             /\ a # 0 => /\ a - 1 \in Ages
                         /\ hits'[k][a] = hits[k][a - 1] /\ served'[k][a] = served[k][a - 1]
  <2>1. hits'[k] = Older(hits[k]) /\ served'[k] = Older(served[k])
    BY <1>1
  <2>2. a # 0 => a - 1 \in Ages
    BY <1>0 DEF Ages
  <2> QED BY <2>1, <2>2 DEF Older
<1>6. WindowsInv'
  <2>1. \A k \in Keys, a \in Ages : hits'[k][a] <= served'[k][a]
    BY <1>5 DEF ApiInv, WindowsInv
  <2>2. ASSUME NEW k \in Keys, \A i \in 1..Len(lru) : lru[i] # k PROVE hits'[k] = NoHits
    <3>1. hits[k] = NoHits
      BY <2>2 DEF ApiInv, WindowsInv
    <3>2. Older(NoHits) = NoHits
      BY <1>0 DEF Older, NoHits, Ages
    <3> QED BY <1>1, <3>1, <3>2
  <2>3. ASSUME NEW k \in Keys PROVE Total(hits'[k]) <= Limit(k)
    <3>1. Total(hits[k]) <= Limit(k) /\ Total(Older(hits[k])) <= Total(hits[k])
      BY <1>0, RingOlder DEF ApiInv, WindowsInv
    <3>2. Total(hits[k]) \in Nat /\ Total(Older(hits[k])) \in Nat /\ Limit(k) \in Nat
      BY <1>0, <1>2, RingFinite, LimitType
    <3> QED BY <1>1, <3>1, <3>2
  <2>4. WindowsInv' <=>
          /\ \A k \in Keys, a \in Ages : hits'[k][a] <= served'[k][a]
          /\ \A k \in Keys : (\A i \in 1..Len(lru') : lru'[i] # k) => hits'[k] = NoHits
          /\ \A k \in Keys : Total(hits'[k]) <= Limit(k)
    BY DEF WindowsInv
  <2> QED BY <1>1, <2>1, <2>2, <2>3, <2>4
<1>7. ForgottenInv'
  <2>1. ASSUME NEW k \in Keys, NEW a \in Ages, served'[k][a] > 0 PROVE idle'[k] <= a
    <3>1. a # 0 /\ a \in Int
      BY <1>5, <2>1 DEF Ages
    <3>2. a - 1 \in Ages /\ served[k][a - 1] > 0
      BY <1>5, <2>1, <3>1
    <3>3. idle[k] <= a - 1 /\ idle[k] \in 0..Window
      BY <1>0, <3>2 DEF ApiInv, ForgottenInv
    <3>4. idle'[k] = IF idle[k] < Window THEN idle[k] + 1 ELSE Window
      BY <1>1
    <3>5. a < Window
      BY <1>0 DEF Ages
    <3> QED BY <1>0, <3>1, <3>3, <3>4, <3>5
  <2>2. ASSUME NEW k \in Keys, NEW a \in Ages, served'[k][a] # hits'[k][a]
        PROVE  Cardinality(ActiveSince(a)') > MaxTracked
    <3>1. a # 0 /\ a \in Int /\ a < Window
      BY <1>0, <1>5, <2>2 DEF Ages
    <3>2. a - 1 \in Ages /\ served[k][a - 1] # hits[k][a - 1]
      BY <1>5, <2>2, <3>1
    <3>3. Cardinality(ActiveSince(a - 1)) > MaxTracked
      BY <3>2 DEF ApiInv, ForgottenInv
    <3>4. ActiveSince(a)' = {j \in Keys : idle'[j] <= a}
      BY DEF ActiveSince, Keys
    <3>5. ASSUME NEW j \in Keys, idle[j] <= a - 1 PROVE idle'[j] <= a
      <4>1. idle[j] \in 0..Window /\ idle'[j] = IF idle[j] < Window THEN idle[j] + 1 ELSE Window
        BY <1>0, <1>1
      <4> QED BY <1>0, <3>1, <3>5, <4>1
    <3>6. ActiveSince(a - 1) \subseteq ActiveSince(a)'
      BY <3>4, <3>5 DEF ActiveSince
    <3>7. IsFiniteSet(ActiveSince(a)') /\ Cardinality(ActiveSince(a)') \in Nat
      BY <3>4, ActiveFinite
    <3>8. Cardinality(ActiveSince(a - 1)) <= Cardinality(ActiveSince(a)')
      BY <3>6, <3>7, FS_Subset
    <3>9. Cardinality(ActiveSince(a - 1)) \in Nat
      BY ActiveFinite DEF ActiveSince
    <3> QED BY <3>3, <3>7, <3>8, <3>9, ApiConstants
  <2>3. ForgottenInv' <=> \A j \in Keys, a \in Ages :
          /\ served'[j][a] > 0 => idle'[j] <= a
          /\ served'[j][a] # hits'[j][a] => Cardinality(ActiveSince(a)') > MaxTracked
    BY DEF ForgottenInv, Keys, Ages, ActiveSince
  <2> QED BY <2>1, <2>2, <2>3
<1>8. RefusedAtOwnLimit'
  BY <1>1 DEF RefusedAtOwnLimit
<1>9. own \in [Keys -> [Ages -> Nat]] /\ misled \in [Keys -> 0..Window]
  BY DEF ApiInv, OwnTypeOK
<1>10. OwnTypeOK'
  <2>1. own' \in [Keys -> [Ages -> Nat]]
    <3>1. \A k \in Keys : Older(own[k]) \in [Ages -> Nat]
      BY <1>9, RingOlder
    <3> QED BY <3>1 DEF Tick
  <2>2. misled' \in [Keys -> 0..Window]
    BY <1>0, <1>9 DEF Tick, Later
  <2> QED BY <2>1, <2>2 DEF OwnTypeOK
<1>11. OwnInv'
  <2>1. SUFFICES ASSUME NEW k \in Keys, NEW a \in Ages, a < misled'[k]
                 PROVE  hits'[k][a] <= own'[k][a]
    BY DEF OwnInv
  <2>2. own'[k] = Older(own[k]) /\ misled'[k] = IF misled[k] < Window THEN misled[k] + 1 ELSE Window
    BY DEF Tick, Later
  <2>3. CASE a = 0
    <3>1. own'[k][a] = 0
      BY <2>2, <2>3 DEF Older
    <3> QED BY <1>5, <2>3, <3>1
  <2>4. CASE a # 0
    <3>1. a - 1 \in Ages /\ hits'[k][a] = hits[k][a - 1] /\ own'[k][a] = own[k][a - 1]
      BY <1>5, <2>2, <2>4 DEF Older
    <3>2. a - 1 < misled[k]
      <4>1. a \in Nat /\ a < Window /\ misled[k] \in 0..Window /\ Window \in Nat
        BY <1>0, <1>9 DEF Ages
      <4>2. CASE misled[k] < Window
        BY <2>1, <2>2, <4>1, <4>2
      <4>3. CASE ~(misled[k] < Window)
        BY <4>1, <4>3
      <4> QED BY <4>2, <4>3
    <3> QED BY <3>1, <3>2 DEF ApiInv, OwnInv
  <2> QED BY <2>3, <2>4
<1> QED BY <1>3, <1>4, <1>6, <1>7, <1>8, <1>10, <1>11 DEF ApiInv

-----------------------------------------------------------------------------
(* The theorems.                                                            *)

\* The map of windows stays ordered by last use, and a window forgets what it served only
\* when more clients than the map holds have been active since (middleware,
\* compareMiddleware and allow, for any number of clients).
THEOREM ApiInvariant == ApiSpec => []ApiInv
<1>1. ApiInit => ApiInv
  <2> SUFFICES ASSUME ApiInit PROVE ApiInv
    OBVIOUS
  <2>1. /\ lru = <<>> /\ hits = [k \in Keys |-> NoHits] /\ served = [k \in Keys |-> NoHits]
        /\ idle = [k \in Keys |-> Window] /\ refused = {} /\ Len(lru) = 0
        /\ own = [k \in Keys |-> NoHits] /\ misled = [k \in Keys |-> Window]
    BY DEF ApiInit
  <2>2. NoHits \in [Ages -> Nat] /\ Total(NoHits) = 0 /\ \A a \in Ages : NoHits[a] = 0
    BY NoHitsTotal DEF NoHits
  <2>3. Window \in 0..Window /\ MaxTracked \in Nat
    BY ApiConstants
  <2>4. ApiTypeOK
    BY <2>1, <2>2, <2>3 DEF ApiTypeOK
  <2>5. MapInv
    BY <2>1, <2>3 DEF MapInv
  <2>6. WindowsInv
    BY <2>1, <2>2, LimitType DEF WindowsInv
  <2>7. ForgottenInv
    BY <2>1, <2>2 DEF ForgottenInv
  <2>8. OwnTypeOK /\ OwnInv
    BY <2>1, <2>2, <2>3 DEF OwnTypeOK, OwnInv
  <2> QED BY <2>1, <2>4, <2>5, <2>6, <2>7, <2>8 DEF ApiInv, RefusedAtOwnLimit
<1>2. ApiInv /\ [ApiNext]_apiVars => ApiInv'
  <2> SUFFICES ASSUME ApiInv, [ApiNext]_apiVars PROVE ApiInv'
    OBVIOUS
  <2>1. ASSUME NEW c \in Charges, Request(c) PROVE ApiInv'
    <3>1. c.to \in Keys /\ Charge(c.to)
      BY <2>1, RequestCharges
    <3>2. OwnTypeOK' /\ OwnInv' /\ RefusedAtOwnLimit'
      BY <2>1, RequestOwn, RequestRefuses
    <3> QED BY <3>1, <3>2, ChargeWindows, ChargeMap, ChargeKeepsWindows, ChargeForgets DEF ApiInv
  <2>2. CASE UNCHANGED apiVars
    BY <2>2 DEF apiVars, ApiInv, ApiTypeOK, OwnTypeOK, MapInv, WindowsInv, ForgottenInv, OwnInv,
                RefusedAtOwnLimit, ActiveSince
  <2> QED BY <2>1, <2>2, TickStep DEF ApiNext
<1> QED BY <1>1, <1>2, PTL DEF ApiSpec

\* Nobody pays for the requests of another: 429 only after one's own full limit, unless a
\* trusted proxy let another's request come under one's name within the window (clientIPFor
\* over both headers, for any peers, any proxies and any header lists).
THEOREM ApiRefusals == ApiSpec => []RefusedAtOwnLimit
<1>1. ApiInv => RefusedAtOwnLimit
  BY DEF ApiInv
<1> QED BY <1>1, ApiInvariant, PTL

\* Only a crowd larger than the map gets a client past its limit, for any number of
\* clients, any limits and any size of the map.
THEOREM ApiOverflow == ApiSpec => []OnlyACrowdOverflows
<1>1. ApiInv => OnlyACrowdOverflows
  <2> SUFFICES ASSUME ApiInv, NEW k \in Keys, Total(served[k]) > Limit(k)
               PROVE  Cardinality({j \in Keys : idle[j] < Window}) > MaxTracked
    BY DEF OnlyACrowdOverflows
  <2>0. /\ hits[k] \in [Ages -> Nat] /\ served[k] \in [Ages -> Nat]
        /\ idle \in [Keys -> 0..Window] /\ Window \in Nat
    BY ApiConstants DEF ApiInv, ApiTypeOK
  <2>1. Total(hits[k]) \in Nat /\ Total(served[k]) \in Nat /\ Limit(k) \in Nat
        /\ Total(hits[k]) <= Limit(k)
    BY <2>0, RingFinite, LimitType DEF ApiInv, WindowsInv
  <2>2. PICK a \in Ages : ~(served[k][a] <= hits[k][a])
    BY <2>0, <2>1, RingMonotone
  <2>3. served[k][a] # hits[k][a] /\ a \in Nat /\ a < Window
    BY <2>0, <2>2 DEF Ages
  <2>4. Cardinality(ActiveSince(a)) > MaxTracked
    BY <2>3 DEF ApiInv, ForgottenInv
  <2>5. ActiveSince(a) \subseteq {j \in Keys : idle[j] < Window}
    BY <2>0, <2>3 DEF ActiveSince
  <2>6. /\ IsFiniteSet({j \in Keys : idle[j] < Window})
        /\ Cardinality({j \in Keys : idle[j] < Window}) \in Nat
    BY ActiveFinite
  <2>7. Cardinality(ActiveSince(a)) <= Cardinality({j \in Keys : idle[j] < Window})
    BY <2>5, <2>6, FS_Subset
  <2>8. Cardinality(ActiveSince(a)) \in Nat
    BY ActiveFinite DEF ActiveSince
  <2> QED BY <2>4, <2>6, <2>7, <2>8, ApiConstants
<1> QED BY <1>1, ApiInvariant, PTL

-----------------------------------------------------------------------------
(***************************************************************************)
(* The events of a chaos scenario.                                         *)
(***************************************************************************)

\* The script fits into the channel.
LEMMA ScriptLength == Emissions = 29 /\ Buffer = 64
  BY DEF Emissions, PhaseEvents, ScriptPhases, Buffer

\* The inductive invariant: no event is in two places, and while nobody has left none is
\* lost; a scenario has ended only after its last event, and a client that was told so has
\* them all.
ChaosStreamInv ==
    /\ runner \in {"idle", "running", "ended"} /\ watcher \in {"none", "loop", "finished", "cut"}
    /\ sent \in 0..Emissions /\ queued \in Nat /\ got \in Nat
    /\ queued + got <= sent
    /\ ~over => queued + got = sent
    /\ runner = "ended" => sent = Emissions
    /\ watcher = "finished" => got = Emissions

\* Every event of RunChaos is in one place: emitted, in the channel or with the client; one
\* is dropped only once somebody has left.
THEOREM ChaosStreamInvariant == ChaosStreamSpec => []ChaosStreamInv
<1>1. ChaosStreamInit => ChaosStreamInv
  BY ScriptLength DEF ChaosStreamInit, ChaosStreamInv
<1>2. ChaosStreamInv /\ [ChaosStreamNext]_chaosStreamVars => ChaosStreamInv'
  <2> SUFFICES ASSUME ChaosStreamInv, [ChaosStreamNext]_chaosStreamVars
               PROVE  ChaosStreamInv'
    OBVIOUS
  <2> USE ScriptLength DEF ChaosStreamInv
  <2>1. ASSUME NEW r \in {"none", "loop"}, Start(r) PROVE ChaosStreamInv'
    BY <2>1 DEF Start
  <2>2. CASE Emit
    BY <2>2 DEF Emit
  <2>3. CASE End
    BY <2>3 DEF End
  <2>4. CASE Receive
    BY <2>4 DEF Receive, Return
  <2>5. CASE Expire
    BY <2>5 DEF Expire
  <2>6. CASE UNCHANGED chaosStreamVars
    BY <2>6 DEF chaosStreamVars
  <2> QED BY <2>1, <2>2, <2>3, <2>4, <2>5, <2>6 DEF ChaosStreamNext
<1> QED BY <1>1, <1>2, PTL DEF ChaosStreamSpec

\* RunChaos never waits for an audience (its channel has room for the whole script), and a
\* client of chaosStream that is not cut off is told all of it.
THEOREM ScenarioNeverStuck == ChaosStreamSpec => []ScenarioNeedsNoAudience
<1>1. ChaosStreamInv => ScenarioNeedsNoAudience
  BY ScriptLength DEF ChaosStreamInv, ScenarioNeedsNoAudience
<1> QED BY <1>1, ChaosStreamInvariant, PTL

-----------------------------------------------------------------------------
(***************************************************************************)
(* Telemetry: a Status read while requests end.                            *)
(***************************************************************************)

-----------------------------------------------------------------------------
(* The counters that Status loads one by one.                               *)

\* Status loads fifteen values.
LEMMA FifteenLooks == Len(Looks) = 15
  BY DEF Looks

\* Where Status loads the tier counts.
PlaceOf == [primary |-> 5, fallback |-> 6, cache |-> 7, denied |-> 8]

\* A count that was loaded is no higher than the counter is now.  Once the denials have
\* been loaded, the counters at that moment are the truth about availability; once the
\* total has, no more answers have been loaded than requests and turns.
TornInv ==
    /\ counts \in [Tiers -> Nat] /\ total \in Nat /\ turns \in Nat
    /\ Answered(counts) + counts.denied <= total + turns
    /\ seen \in Seq(Range(seen)) /\ Len(seen) <= 15
    /\ truth \in Seq(Range(truth))
    /\ Len(truth) = IF Len(seen) < 8 THEN 0 ELSE IF Len(seen) < 14 THEN 1 ELSE 2
    /\ \A t \in Tiers : PlaceOf[t] <= Len(seen) =>
          seen[PlaceOf[t]] \in Nat /\ seen[PlaceOf[t]] <= counts[t]
    /\ Len(seen) >= 8 => /\ truth[1] \in [Tiers -> Nat] /\ truth[1].denied = seen[8]
                         /\ \A t \in Tiers : seen[PlaceOf[t]] <= truth[1][t]
    /\ Len(seen) >= 14 => /\ seen[14] \in Nat /\ truth[2] \in Nat
                          /\ seen[5] + seen[6] + seen[7] + seen[8] <= seen[14] + truth[2]
    /\ TornCountsAreSafe

\* After the fourteenth load comes the fifteenth.
LEMMA Fourteen ==
  ASSUME NEW k \in Nat, k + 1 <= 15, k + 1 >= 14, k + 1 # 14
  PROVE  k + 1 = 15 /\ k = 14
  OBVIOUS

\* A sequence is one over its own elements.
LEMMA OwnRange ==
  ASSUME NEW S, NEW s \in Seq(S)
  PROVE  s \in Seq(Range(s))
  BY DEF Range

\* Appending, without naming the set of elements.
LEMMA AppendOwn ==
  ASSUME NEW s, s \in Seq(Range(s)), NEW v
  PROVE  /\ Append(s, v) \in Seq(Range(Append(s, v))) /\ Len(Append(s, v)) = Len(s) + 1
         /\ Append(s, v)[Len(s) + 1] = v /\ \A i \in 1..Len(s) : Append(s, v)[i] = s[i]
<1> DEFINE S == Range(s) \cup {v}
<1>1. s \in Seq(S) /\ v \in S
  OBVIOUS
<1>2. Append(s, v) \in Seq(S)
  BY <1>1
<1>3. Append(s, v) \in Seq(Range(Append(s, v)))
  BY <1>2, OwnRange
<1> QED BY <1>1, <1>3

\* Availability falls with the answers, at the same number of denials.
LEMMA AvailabilityGrows ==
  ASSUME NEW c, NEW d, c.primary \in Nat, c.fallback \in Nat, c.cache \in Nat, c.denied \in Nat,
         d.primary \in Nat, d.fallback \in Nat, d.cache \in Nat, d.denied = c.denied,
         c.primary <= d.primary, c.fallback <= d.fallback, c.cache <= d.cache
  PROVE  Availability(c) <= Availability(d)
<1> DEFINE A == Answered(c)  B == Answered(d)  n == c.denied
<1>1. A \in Nat /\ B \in Nat /\ n \in Nat /\ A <= B
  BY DEF Answered
<1>2. CASE A + n = 0
  <2>1. n = 0 /\ Availability(c) = 20
    BY <1>1, <1>2 DEF Availability
  <2>2. CASE B = 0
    BY <2>1, <2>2 DEF Availability
  <2>3. CASE B # 0
    <3>1. Availability(d) = (20 * B) \div B
      BY <1>1, <2>1, <2>3 DEF Availability
    <3>2. (20 * B) \div B >= 20
      BY <1>1, <2>3
    <3> QED BY <2>1, <3>1, <3>2
  <2> QED BY <2>2, <2>3
<1>3. CASE A + n # 0
  <2> DEFINE q == (20 * A) \div (A + n)
  <2> HIDE DEF A, B, n
  <2>1. A + n \in Nat \ {0} /\ B + n \in Nat \ {0} /\ 20 * A \in Nat /\ 20 * B \in Nat
    BY <1>1, <1>3
  <2>2. q \in Nat /\ (A + n) * q <= 20 * A
    BY <2>1
  <2> HIDE DEF q
  <2>3. q <= 20
    BY <1>1, <2>1, <2>2
  <2>4. (B + n) * q <= 20 * B
    BY <1>1, <2>2, <2>3
  <2>5. q <= (20 * B) \div (B + n)
    BY <2>1, <2>2, <2>4
  <2>6. Availability(c) = q /\ Availability(d) = (20 * B) \div (B + n)
    BY <1>1, <1>3, <2>1 DEF Availability, A, B, n, q
  <2> QED BY <2>5, <2>6
<1> QED BY <1>2, <1>3
\* What a report says is unchanged by whoever writes.
LEMMA WriteTorn ==
  ASSUME TornInv, Write
  PROVE  TornInv'
<1>1. UNCHANGED <<seen, report, truth>>
  BY DEF Write, reader
<1>2. /\ counts' \in [Tiers -> Nat] /\ total' \in Nat /\ turns' \in Nat
      /\ Answered(counts') + counts'.denied <= total' + turns'
      /\ \A t \in Tiers : counts[t] <= counts'[t]
  <2>0. /\ counts \in [Tiers -> Nat] /\ total \in Nat /\ turns \in Nat
        /\ counts.primary + counts.fallback + counts.cache + counts.denied <= total + turns
    BY DEF TornInv, Answered
  <2>1. CASE UNCHANGED <<counts, total, turns>>
    BY <2>0, <2>1 DEF Answered
  <2>2. CASE Arrive
    BY <2>0, <2>2 DEF Arrive, Answered, Tiers
  <2>3. ASSUME NEW t \in Tiers, Record(t)
        PROVE  /\ counts' \in [Tiers -> Nat] /\ total' \in Nat /\ turns' \in Nat
               /\ Answered(counts') + counts'.denied <= total' + turns'
               /\ \A u \in Tiers : counts[u] <= counts'[u]
    <3>1. counts' = [counts EXCEPT ![t] = @ + 1] /\ total' = total /\ turns' \in Nat
          /\ counts.primary + counts.fallback + counts.cache + counts.denied + 1 <= total' + turns'
      BY <2>0, <2>3 DEF Record, Answered, Tiers
    <3>2. counts' \in [Tiers -> Nat] /\ \A u \in Tiers : counts[u] <= counts'[u]
      BY <2>0, <3>1
    <3>3. counts'.primary + counts'.fallback + counts'.cache + counts'.denied
            = counts.primary + counts.fallback + counts.cache + counts.denied + 1
      BY <2>0, <3>1 DEF Tiers
    <3> QED BY <2>0, <3>1, <3>2, <3>3 DEF Answered
  <2> QED BY <2>1, <2>2, <2>3 DEF Write, Time
<1>3. ASSUME NEW t \in Tiers, PlaceOf[t] <= Len(seen)
      PROVE  seen[PlaceOf[t]] \in Nat /\ seen[PlaceOf[t]] <= counts'[t]
  <2>1. seen[PlaceOf[t]] \in Nat /\ seen[PlaceOf[t]] <= counts[t] /\ counts[t] \in Nat
    BY <1>3 DEF TornInv
  <2> QED BY <1>2, <2>1
<1>4. TornCountsAreSafe'
  BY <1>1 DEF TornInv, TornCountsAreSafe, Availability, Answered
<1> QED BY <1>1, <1>2, <1>3, <1>4 DEF TornInv

\* The tier counts that Status loads, and the total.
LEMMA LookAt ==
  ASSUME NEW i \in 1..15
  PROVE  /\ Looks[i] = "denied" <=> i = 8
         /\ Looks[i] = "total" <=> i = 14
         /\ i = 14 => Look(Looks[i]) = total
         /\ \A t \in Tiers : /\ Looks[i] = t <=> i = PlaceOf[t]
                             /\ i = PlaceOf[t] => Look(Looks[i]) = counts[t]
<1>1. i \in {1, 2, 3, 4, 5, 6, 7, 8, 9, 10, 11, 12, 13, 14, 15}
  OBVIOUS
<1> QED BY <1>1 DEF Looks, Look, PlaceOf, Tiers

\* Status loads the count of a tier at its place.
LEMMA LookTier ==
  ASSUME NEW i \in 1..15, NEW t \in Tiers, i = PlaceOf[t]
  PROVE  Look(Looks[i]) = counts[t]
<1>1. CASE t = "primary" BY <1>1 DEF Looks, Look, PlaceOf, Tiers
<1>2. CASE t = "fallback" BY <1>2 DEF Looks, Look, PlaceOf, Tiers
<1>3. CASE t = "cache" BY <1>3 DEF Looks, Look, PlaceOf, Tiers
<1>4. CASE t = "denied" BY <1>4 DEF Looks, Look, PlaceOf, Tiers
<1> QED BY <1>1, <1>2, <1>3, <1>4 DEF Tiers

\* A load keeps TornInv: what was loaded before is not above what is loaded after it.
LEMMA LoadTorn ==
  ASSUME TornInv, Load, UNCHANGED <<counts, total, turns>>
  PROVE  TornInv'
<1> DEFINE n == Len(seen) + 1
<1>0. /\ seen \in Seq(Range(seen)) /\ truth \in Seq(Range(truth)) /\ Len(seen) \in Nat
      /\ n \in 1..15 /\ Len(truth) \in Nat
  <2>1. seen \in Seq(Range(seen)) /\ truth \in Seq(Range(truth))
    BY DEF TornInv
  <2>2. Len(seen) < 15
    BY FifteenLooks DEF Load
  <2>3. Len(seen) \in Nat /\ Len(truth) \in Nat
    BY <2>1
  <2> QED BY <2>1, <2>2, <2>3
<1>1. seen' = Append(seen, Look(Looks[n])) /\ report' = <<>>
  BY DEF Load
<1>2. /\ seen' \in Seq(Range(seen')) /\ Len(seen') = n /\ seen'[n] = Look(Looks[n])
      /\ \A i \in 1..Len(seen) : seen'[i] = seen[i]
  BY <1>0, <1>1, AppendOwn
<1>3. /\ n = 8 => truth' = <<counts>>
      /\ n = 14 => truth' = Append(truth, turns)
      /\ n # 8 /\ n # 14 => truth' = truth
  BY <1>0, LookAt DEF Load
<1>4. /\ truth' \in Seq(Range(truth'))
      /\ Len(truth') = IF n < 8 THEN 0 ELSE IF n < 14 THEN 1 ELSE 2
      /\ n = 8 => truth'[1] = counts
      /\ n > 8 => truth'[1] = truth[1]
      /\ n = 14 => truth'[2] = turns
      /\ n = 15 => truth'[2] = truth[2]
  <2>1. Len(truth) = IF n - 1 < 8 THEN 0 ELSE IF n - 1 < 14 THEN 1 ELSE 2
    BY <1>0 DEF TornInv
  <2>2. CASE n = 8
    <3>1. truth' = <<counts>> /\ <<counts>> \in Seq({counts})
      BY <1>3, <2>2
    <3>2. truth' \in Seq(Range(truth'))
      BY <3>1, OwnRange
    <3> QED BY <2>2, <3>1, <3>2
  <2>3. CASE n = 14
    <3>1. truth' = Append(truth, turns) /\ Len(truth) = 1
      BY <1>3, <2>1, <2>3
    <3>2. truth' \in Seq(Range(truth')) /\ Len(truth') = 2 /\ truth'[2] = turns
          /\ truth'[1] = truth[1]
      <4>1. /\ Append(truth, turns) \in Seq(Range(Append(truth, turns)))
            /\ Len(Append(truth, turns)) = Len(truth) + 1
            /\ Append(truth, turns)[Len(truth) + 1] = turns
            /\ \A i \in 1..Len(truth) : Append(truth, turns)[i] = truth[i]
        BY <1>0, AppendOwn
      <4> QED BY <3>1, <4>1
    <3> QED BY <2>3, <3>2
  <2>4. CASE n # 8 /\ n # 14
    BY <1>0, <1>3, <2>1, <2>4
  <2> QED BY <2>2, <2>3, <2>4
<1>5. ASSUME NEW t \in Tiers, PlaceOf[t] <= n
      PROVE  seen'[PlaceOf[t]] \in Nat /\ seen'[PlaceOf[t]] <= counts[t]
  <2>1. PlaceOf[t] \in 1..15 /\ counts[t] \in Nat
    <3>1. counts \in [Tiers -> Nat]
      BY DEF TornInv
    <3>2. PlaceOf[t] \in 1..15
      BY DEF PlaceOf, Tiers
    <3> QED BY <3>1, <3>2
  <2>2. CASE PlaceOf[t] = n
    <3>1. seen'[n] = counts[t]
      <4>1. Look(Looks[n]) = counts[t]
        <5>1. n = PlaceOf[t] => Look(Looks[n]) = counts[t]
          BY <1>0, LookTier
        <5> QED BY <2>2, <5>1
      <4> QED BY <1>2, <4>1
    <3> QED BY <2>1, <2>2, <3>1
  <2>3. CASE PlaceOf[t] # n
    <3>1. PlaceOf[t] \in 1..Len(seen)
      BY <1>0, <1>5, <2>1, <2>3
    <3>2. seen[PlaceOf[t]] \in Nat /\ seen[PlaceOf[t]] <= counts[t]
      <4>1. PlaceOf[t] <= Len(seen)
        BY <1>0, <3>1
      <4> QED BY <4>1 DEF TornInv
    <3> QED BY <1>2, <3>1, <3>2
  <2> QED BY <2>2, <2>3
<1>6. ASSUME n >= 8
      PROVE  /\ truth'[1] \in [Tiers -> Nat] /\ truth'[1].denied = seen'[8]
             /\ \A t \in Tiers : seen'[PlaceOf[t]] <= truth'[1][t]
  <2>1. CASE n = 8
    <3>1. seen'[8] = counts["denied"] /\ truth'[1] = counts
      BY <1>0, <1>2, <1>4, <2>1, LookAt DEF Tiers, PlaceOf
    <3>2. \A t \in Tiers : PlaceOf[t] <= n
      BY <2>1 DEF Tiers, PlaceOf
    <3> QED BY <1>5, <3>1, <3>2 DEF TornInv
  <2>2. CASE n # 8
    <3>1. Len(seen) >= 8 /\ n > 8 /\ \A t \in Tiers : PlaceOf[t] \in 1..Len(seen)
      BY <1>0, <1>6, <2>2 DEF Tiers, PlaceOf
    <3>2. 8 \in 1..Len(seen)
      BY <1>0, <3>1
    <3>3. truth'[1] = truth[1] /\ seen'[8] = seen[8] /\ \A t \in Tiers : seen'[PlaceOf[t]] = seen[PlaceOf[t]]
      BY <1>2, <1>4, <3>1, <3>2
    <3> QED BY <3>1, <3>3 DEF TornInv
  <2> QED BY <2>1, <2>2
<1>7. ASSUME n >= 14
      PROVE  /\ seen'[14] \in Nat /\ truth'[2] \in Nat
             /\ seen'[5] + seen'[6] + seen'[7] + seen'[8] <= seen'[14] + truth'[2]
  <2>1. CASE n = 14
    <3>1. seen'[14] = total /\ truth'[2] = turns
      BY <1>0, <1>2, <1>4, <2>1, LookAt
    <3>2. /\ seen'[5] \in Nat /\ seen'[5] <= counts.primary /\ counts.primary \in Nat
          /\ seen'[6] \in Nat /\ seen'[6] <= counts.fallback /\ counts.fallback \in Nat
          /\ seen'[7] \in Nat /\ seen'[7] <= counts.cache /\ counts.cache \in Nat
          /\ seen'[8] \in Nat /\ seen'[8] <= counts.denied /\ counts.denied \in Nat
      <4>1. counts \in [Tiers -> Nat]
        BY DEF TornInv
      <4>2. /\ PlaceOf["primary"] = 5 /\ PlaceOf["fallback"] = 6
            /\ PlaceOf["cache"] = 7 /\ PlaceOf["denied"] = 8
            /\ {"primary", "fallback", "cache", "denied"} = Tiers
        BY DEF PlaceOf, Tiers
      <4>3. 5 <= n /\ 6 <= n /\ 7 <= n /\ 8 <= n
        BY <2>1
      <4>4. \A t \in Tiers : PlaceOf[t] <= n /\ counts[t] \in Nat
        BY <4>1, <4>2, <4>3
      <4>5. \A t \in Tiers : seen'[PlaceOf[t]] \in Nat /\ seen'[PlaceOf[t]] <= counts[t]
                            /\ counts[t] \in Nat
        BY <1>5, <4>4
      <4> HIDE DEF n
      <4> QED BY <4>2, <4>5
    <3>3. /\ counts.primary + counts.fallback + counts.cache + counts.denied <= total + turns
          /\ total \in Nat /\ turns \in Nat
      BY DEF TornInv, Answered
    <3> QED BY <3>1, <3>2, <3>3
  <2>2. CASE n # 14
    <3>1. n = 15 /\ Len(seen) = 14
      <4>1. Len(seen) \in Nat /\ Len(seen) + 1 <= 15 /\ Len(seen) + 1 >= 14 /\ Len(seen) + 1 # 14
        BY <1>0, <1>7, <2>2
      <4> QED BY <4>1, Fourteen
    <3>2. /\ seen'[5] = seen[5] /\ seen'[6] = seen[6] /\ seen'[7] = seen[7] /\ seen'[8] = seen[8]
          /\ seen'[14] = seen[14] /\ truth'[2] = truth[2]
      BY <1>2, <1>4, <3>1
    <3> QED BY <3>1, <3>2 DEF TornInv
  <2> QED BY <2>1, <2>2
<1>8. TornCountsAreSafe'
  BY <1>1 DEF TornCountsAreSafe
<1>9. Len(seen') <= 15
  BY <1>0, <1>2
<1> QED BY <1>2, <1>4, <1>5, <1>6, <1>7, <1>8, <1>9 DEF TornInv

\* The counters in a report are those loaded.
LEMMA LoadedAt ==
  ASSUME TornInv, Len(seen) = 15
  PROVE  /\ \A t \in Tiers : Loaded(t) = seen[PlaceOf[t]]
         /\ Inputs.counts = [t \in Tiers |-> seen[PlaceOf[t]]]
         /\ Inputs.total = seen[14]
<1>1. DOMAIN seen = 1..15 /\ DOMAIN Looks = 1..15
  BY FifteenLooks DEF TornInv, Looks
<1>2. ASSUME NEW t \in Tiers PROVE Loaded(t) = seen[PlaceOf[t]]
  <2>1. PlaceOf[t] \in 1..15
    BY DEF PlaceOf, Tiers
  <2>2. (CHOOSE i \in 1..15 : Looks[i] = t) = PlaceOf[t]
    BY <2>1, LookAt
  <2> QED BY <1>1, <2>2 DEF Loaded
<1>3. (CHOOSE i \in 1..15 : Looks[i] = "total") = 14
  BY LookAt
<1>4. "total" \in Range(Looks)
  <2>1. 14 \in 1..15 /\ Looks[14] = "total"
    BY DEF Looks
  <2> QED BY <1>1, <2>1 DEF Range
<1>5. Inputs.total = Loaded("total")
  BY <1>4 DEF Inputs
<1>6. Inputs.counts = [t \in Tiers |-> Loaded(t)]
  BY DEF Inputs
<1>7. Inputs.counts = [t \in Tiers |-> seen[PlaceOf[t]]]
  BY <1>2, <1>6
<1>8. Loaded("total") = seen[14]
  BY <1>1, <1>3 DEF Loaded
<1> QED BY <1>2, <1>5, <1>7, <1>8

\* The finished report keeps TornInv.
LEMMA ReportTorn ==
  ASSUME TornInv, Report, UNCHANGED <<counts, total, turns>>
  PROVE  TornInv'
<1>1. Len(seen) = 15 /\ seen' = <<>> /\ truth' = <<>>
  BY FifteenLooks DEF Report
<1>2. report' = [counts |-> [t \in Tiers |-> seen[PlaceOf[t]]], total |-> seen[14],
                 trueCounts |-> truth[1], turns |-> truth[2]]
  BY <1>1, LoadedAt DEF Report
<1> DEFINE c == [t \in Tiers |-> seen[PlaceOf[t]]]
<1>3. c.primary = seen[5] /\ c.fallback = seen[6] /\ c.cache = seen[7] /\ c.denied = seen[8]
  BY DEF Tiers, PlaceOf
<1>4. seen[5] \in Nat /\ seen[6] \in Nat /\ seen[7] \in Nat /\ seen[8] \in Nat
  BY <1>1 DEF TornInv, Tiers, PlaceOf
<1>5. /\ truth[1] \in [Tiers -> Nat] /\ truth[1].denied = seen[8]
      /\ seen[5] <= truth[1].primary /\ seen[6] <= truth[1].fallback /\ seen[7] <= truth[1].cache
  BY <1>1 DEF TornInv, Tiers, PlaceOf
<1>6. truth[1].primary \in Nat /\ truth[1].fallback \in Nat /\ truth[1].cache \in Nat
  BY <1>5 DEF Tiers
<1>7. Availability(c) <= Availability(truth[1])
  BY <1>3, <1>4, <1>5, <1>6, AvailabilityGrows
<1>8. seen[5] + seen[6] + seen[7] + seen[8] <= seen[14] + truth[2]
  BY <1>1 DEF TornInv
<1>9. TornCountsAreSafe'
  <2>1. report'.counts = c /\ report'.total = seen[14] /\ report'.trueCounts = truth[1]
        /\ report'.turns = truth[2]
    BY <1>2
  <2>2. Answered(c) + c.denied <= seen[14] + truth[2]
    BY <1>3, <1>8 DEF Answered
  <2>3. TornCountsAreSafe' <=> (report' # <<>> =>
          /\ Availability(report'.counts) <= Availability(report'.trueCounts)
          /\ Answered(report'.counts) + report'.counts.denied <= report'.total + report'.turns)
    BY DEF TornCountsAreSafe, Availability, Answered
  <2> QED BY <1>7, <2>1, <2>2, <2>3
<1>10. seen' \in Seq(Range(seen')) /\ truth' \in Seq(Range(truth')) /\ Len(seen') = 0 /\ Len(truth') = 0
  BY <1>1
<1>11. \A t \in Tiers : ~(PlaceOf[t] <= 0)
  BY DEF PlaceOf, Tiers
<1> QED BY <1>9, <1>10, <1>11 DEF TornInv

\* Status loads its counters one by one while requests go on ending (TierCounts, ask): the
\* availability it reports is never better than it was when the denials were loaded, and it
\* never counts more answers than requests and turns.
THEOREM TornStatusIsSafe == TelemetrySpec => []TornCountsAreSafe
<1>1. TelemetryInit => TornInv
  <2> SUFFICES ASSUME TelemetryInit PROVE TornInv
    OBVIOUS
  <2>1. counts = [t \in Tiers |-> 0] /\ total = 0 /\ turns = 0 /\ seen = <<>> /\ truth = <<>> /\ report = <<>>
    BY DEF TelemetryInit
  <2>2. seen \in Seq(Range(seen)) /\ truth \in Seq(Range(truth)) /\ Len(seen) = 0 /\ Len(truth) = 0
    BY <2>1
  <2>3. \A t \in Tiers : ~(PlaceOf[t] <= 0)
    BY DEF PlaceOf, Tiers
  <2>4. counts \in [Tiers -> Nat] /\ Answered(counts) + counts.denied <= total + turns
    BY <2>1 DEF Answered, Tiers
  <2> QED BY <2>1, <2>2, <2>3, <2>4 DEF TornInv, TornCountsAreSafe
<1>2. TornInv /\ [TelemetryNext]_telemetryVars => TornInv'
  <2> SUFFICES ASSUME TornInv, [TelemetryNext]_telemetryVars PROVE TornInv'
    OBVIOUS
  <2>1. CASE Write
    BY <2>1, WriteTorn
  <2>2. CASE Status
    BY <2>2, LoadTorn, ReportTorn DEF Status
  <2>3. CASE UNCHANGED telemetryVars
    BY <2>3 DEF telemetryVars, TornInv, TornCountsAreSafe, Answered, Availability
  <2> QED BY <2>1, <2>2, <2>3 DEF TelemetryNext
<1>3. TornInv => TornCountsAreSafe
  BY DEF TornInv
<1> QED BY <1>1, <1>2, <1>3, PTL DEF TelemetrySpec

-----------------------------------------------------------------------------
(***************************************************************************)
(* Telemetry: the windows of latencies and scores.                         *)
(***************************************************************************)

-----------------------------------------------------------------------------
(* Rings.                                                                   *)

\* Indices of a ring: before its end,
LEMMA ModSmall == ASSUME NEW n \in Nat \ {0}, NEW a \in 0..n - 1 PROVE a % n = a
  OBVIOUS

\* and once round.
LEMMA ModOnce == ASSUME NEW n \in Nat \ {0}, NEW a \in n..2 * n - 1 PROVE a % n = a - n
  OBVIOUS

\* The slot of the i-th oldest value.
SlotOf(n, ring, i) ==
    IF ~ring.filled THEN i - 1
    ELSE IF ring.idx + i - 1 < n THEN ring.idx + i - 1 ELSE ring.idx + i - 1 - n

\* A ring of n slots holds exactly the history hist: every value of it in its slot.
RingHolds(n, ring, hist) ==
    /\ ring.slots = [i \in 0..n - 1 |-> ring.slots[i]]
    /\ ring.idx \in 0..n - 1 /\ ring.filled \in BOOLEAN
    /\ hist \in Seq(Range(hist)) /\ Len(hist) = IF ring.filled THEN n ELSE ring.idx
    /\ \A i \in 1..Len(hist) : hist[i] = ring.slots[SlotOf(n, ring, i)]

\* A ring has as many places as it has slots.
LEMMA RingCapacity ==
  ASSUME NEW n \in Nat \ {0}, NEW ring, DOMAIN ring.slots = 0..n - 1
  PROVE  Capacity(ring) = n
<1>1. 0 \in Int /\ n - 1 \in Int /\ ~(0 > n - 1) /\ n - 1 - 0 + 1 = n
  OBVIOUS
<1>2. Cardinality(0..n - 1) = IF 0 > n - 1 THEN 0 ELSE n - 1 - 0 + 1
  BY <1>1, FS_Interval
<1>3. Cardinality(0..n - 1) = n
  BY <1>1, <1>2
<1> QED BY <1>3 DEF Capacity

\* A ring that holds a history has its length, and its slots are within the ring.
LEMMA RingSize ==
  ASSUME NEW n \in Nat \ {0}, NEW ring, NEW hist, RingHolds(n, ring, hist)
  PROVE  /\ Capacity(ring) = n /\ RingLen(ring) = Len(hist) /\ Len(hist) \in 0..n
         /\ \A i \in 1..Len(hist) : SlotOf(n, ring, i) \in 0..n - 1
<1>1. DOMAIN ring.slots = 0..n - 1
  <2>1. DOMAIN [i \in 0..n - 1 |-> ring.slots[i]] = 0..n - 1
    OBVIOUS
  <2> QED BY <2>1 DEF RingHolds
<1>2. Capacity(ring) = n
  BY <1>1, RingCapacity
<1>3. RingLen(ring) = Len(hist) /\ Len(hist) \in 0..n
  BY <1>2 DEF RingLen, RingHolds
<1>4. ASSUME NEW i \in 1..Len(hist) PROVE SlotOf(n, ring, i) \in 0..n - 1
  BY DEF SlotOf, RingHolds
<1> QED BY <1>2, <1>3, <1>4

\* An empty ring holds the empty history.
LEMMA EmptyRingHolds ==
  ASSUME NEW n \in Nat \ {0}
  PROVE  RingHolds(n, EmptyRing(n), <<>>)
<1>1. <<>> \in Seq(Range(<<>>)) /\ Len(<<>>) = 0
  OBVIOUS
<1> QED BY <1>1 DEF RingHolds, EmptyRing

\* Snapshot gives the history back.
LEMMA RingTells ==
  ASSUME NEW n \in Nat \ {0}, NEW ring, NEW hist, RingHolds(n, ring, hist)
  PROVE  RingInOrder(ring) = hist
<1> DEFINE from == IF ring.filled THEN ring.idx ELSE 0
<1>1. Capacity(ring) = n /\ RingLen(ring) = Len(hist) /\ Len(hist) \in 0..n
  BY RingSize
<1>2. hist = [i \in 1..Len(hist) |-> hist[i]]
  BY DEF RingHolds
<1>3. ASSUME NEW i \in 1..Len(hist) PROVE (from + i - 1) % n = SlotOf(n, ring, i)
  <2>1. i \in Nat /\ i >= 1 /\ i <= n /\ ring.idx \in Nat /\ ring.idx <= n - 1
    BY <1>1 DEF RingHolds
  <2>2. CASE ~ring.filled
    BY <2>1, <2>2, ModSmall DEF SlotOf
  <2>3. CASE ring.filled /\ ring.idx + i - 1 < n
    BY <2>1, <2>3, ModSmall DEF SlotOf
  <2>4. CASE ring.filled /\ ~(ring.idx + i - 1 < n)
    BY <2>1, <2>4, ModOnce DEF SlotOf
  <2> QED BY <2>2, <2>3, <2>4 DEF RingHolds
<1>4. ASSUME NEW i \in 1..Len(hist) PROVE hist[i] = ring.slots[(from + i - 1) % n]
  BY <1>3 DEF RingHolds
<1>5. RingInOrder(ring) = [i \in 1..Len(hist) |-> ring.slots[(from + i - 1) % n]]
  BY <1>1 DEF RingInOrder
<1> QED BY <1>2, <1>4, <1>5

\* Overwriting the oldest slot keeps the last n values.
LEMMA RingPutHolds ==
  ASSUME NEW n \in Nat \ {0}, NEW ring, NEW hist, RingHolds(n, ring, hist), NEW v
  PROVE  RingHolds(n, RingPut(ring, v), LastOf(n, hist, v))
<1> DEFINE r == RingPut(ring, v)
           all == Append(hist, v)
           h == LastOf(n, hist, v)
           len == Len(hist)
<1>1. Capacity(ring) = n /\ len \in 0..n /\ len \in Nat
  BY RingSize
<1>2. /\ ring.idx \in 0..n - 1 /\ ring.filled \in BOOLEAN
      /\ len = IF ring.filled THEN n ELSE ring.idx
  BY DEF RingHolds
<1>3. (ring.idx + 1) % n = IF ring.idx + 1 = n THEN 0 ELSE ring.idx + 1
  <2>1. CASE ring.idx + 1 = n
    BY <1>2, <2>1, ModOnce
  <2>2. CASE ring.idx + 1 # n
    BY <1>2, <2>2, ModSmall
  <2> QED BY <2>1, <2>2
<1>4. /\ r.idx = IF ring.idx + 1 = n THEN 0 ELSE ring.idx + 1
      /\ r.filled \in BOOLEAN /\ (r.filled <=> ring.filled \/ ring.idx + 1 = n)
  <2> DEFINE next == (ring.idx + 1) % n
  <2>1. r = [slots |-> [ring.slots EXCEPT ![ring.idx] = v], idx |-> next,
             filled |-> ring.filled \/ next = 0]
    BY <1>1 DEF RingPut
  <2>2. next = 0 <=> ring.idx + 1 = n
    BY <1>2, <1>3
  <2> HIDE DEF next
  <2>3. r.filled = (ring.filled \/ next = 0) /\ r.idx = next
    BY <2>1
  <2>4. r.filled \in BOOLEAN /\ (r.filled <=> ring.filled \/ next = 0)
    BY <2>3, Zenon
  <2> QED BY <1>3, <2>2, <2>3, <2>4 DEF next
<1>5. /\ r.slots = [i \in 0..n - 1 |-> r.slots[i]]
      /\ r.slots[ring.idx] = v
      /\ \A i \in 0..n - 1 : i # ring.idx => r.slots[i] = ring.slots[i]
  <2>1. r.slots = [ring.slots EXCEPT ![ring.idx] = v]
    BY DEF RingPut
  <2>2. ring.slots = [i \in 0..n - 1 |-> ring.slots[i]]
    BY DEF RingHolds
  <2> HIDE DEF r
  <2> QED BY <1>2, <2>1, <2>2
<1>6. /\ all \in Seq(Range(all)) /\ Len(all) = len + 1 /\ all[len + 1] = v
      /\ \A i \in 1..len : all[i] = hist[i]
  BY AppendOwn DEF RingHolds
<1> HIDE DEF r, all
<1>7. CASE ~ring.filled
  <2>1. h = all
    BY <1>1, <1>2, <1>6, <1>7 DEF LastOf, all
  <2>2. ASSUME NEW i \in 1..len + 1
        PROVE  SlotOf(n, r, i) = i - 1 /\ SlotOf(n, ring, i) = i - 1
    BY <1>1, <1>2, <1>4, <1>7 DEF SlotOf
  <2>3. ASSUME NEW i \in 1..len + 1 PROVE all[i] = r.slots[i - 1]
    <3>1. CASE i = len + 1
      BY <1>1, <1>2, <1>5, <1>6, <1>7, <3>1
    <3>2. CASE i # len + 1
      <4>1. i \in 1..len /\ i - 1 \in 0..n - 1 /\ i - 1 # ring.idx
        BY <1>1, <1>2, <1>7, <3>2
      <4>2. hist[i] = ring.slots[i - 1]
        BY <2>2, <4>1 DEF RingHolds
      <4> QED BY <1>5, <1>6, <4>1, <4>2
    <3> QED BY <3>1, <3>2
  <2>4. Len(all) = IF r.filled THEN n ELSE r.idx
    BY <1>1, <1>2, <1>4, <1>6, <1>7
  <2>5. r.idx \in 0..n - 1 /\ r.filled \in BOOLEAN
    BY <1>2, <1>4
  <2>6. RingHolds(n, r, all)
    <3>1. \A i \in 1..Len(all) : all[i] = r.slots[SlotOf(n, r, i)]
      BY <1>6, <2>2, <2>3
    <3> QED BY <1>5, <1>6, <2>4, <2>5, <3>1 DEF RingHolds
  <2> QED BY <2>1, <2>6 DEF r
<1>8. CASE ring.filled
  <2>1. len = n /\ Len(all) > n
    BY <1>1, <1>2, <1>6, <1>8
  <2>2. h = Tail(all)
    BY <2>1 DEF LastOf, all
  <2>3. Tail(all) \in Seq(Range(all)) /\ Len(Tail(all)) = n
    BY <1>1, <1>6, <2>1
  <2>4. ASSUME NEW i \in 1..n PROVE Tail(all)[i] = all[i + 1]
    BY <1>1, <1>6, <2>1
  <2>5. ASSUME NEW i \in 1..n PROVE all[i + 1] = r.slots[SlotOf(n, r, i)]
    <3>1. CASE i = n
      <4>1. SlotOf(n, r, i) = ring.idx
        BY <1>2, <1>4, <1>8, <3>1 DEF SlotOf
      <4> QED BY <1>5, <1>6, <2>1, <3>1, <4>1
    <3>2. CASE i # n
      <4>1. i + 1 \in 1..len /\ i \in Nat /\ i >= 1 /\ i < n
        BY <2>1, <3>2
      <4>2. /\ SlotOf(n, r, i) = SlotOf(n, ring, i + 1)
            /\ SlotOf(n, r, i) \in 0..n - 1 /\ SlotOf(n, r, i) # ring.idx
        BY <1>2, <1>4, <1>8, <4>1 DEF SlotOf
      <4>3. hist[i + 1] = ring.slots[SlotOf(n, ring, i + 1)]
        BY <4>1 DEF RingHolds
      <4> QED BY <1>5, <1>6, <4>1, <4>2, <4>3
    <3> QED BY <3>1, <3>2
  <2>6. r.idx \in 0..n - 1 /\ r.filled
    BY <1>2, <1>4, <1>8
  <2>7. Tail(all) \in Seq(Range(Tail(all)))
    BY <2>3, OwnRange
  <2>8. RingHolds(n, r, Tail(all))
    BY <1>5, <2>3, <2>4, <2>5, <2>6, <2>7 DEF RingHolds
  <2> QED BY <2>2, <2>8 DEF r
<1> QED BY <1>2, <1>7, <1>8
-----------------------------------------------------------------------------
(* Sorting by counting what comes before.                                   *)

\* What comes before a position is not that position, and what comes before an earlier one
\* comes before a later one.
LEMMA BeforeOrder ==
  ASSUME NEW n \in Nat, NEW s \in [1..n -> Nat], NEW i \in 1..n
  PROVE  /\ IsFiniteSet(Before(s, i)) /\ Cardinality(Before(s, i)) \in 0..n - 1
         /\ i \notin Before(s, i) /\ Before(s, i) \subseteq 1..n
         /\ \A j \in 1..n : i \in Before(s, j) =>
              Cardinality(Before(s, i)) < Cardinality(Before(s, j))
<1>0. DOMAIN s = 1..n
  OBVIOUS
<1>1. ASSUME NEW j \in 1..n
      PROVE  /\ Before(s, j) \subseteq 1..n /\ IsFiniteSet(Before(s, j)) /\ j \notin Before(s, j)
             /\ Cardinality(Before(s, j)) \in 0..n - 1
  <2>1. Before(s, j) \subseteq 1..n /\ j \notin Before(s, j)
    BY <1>0 DEF Before
  <2>2. IsFiniteSet(1..n) /\ Cardinality(1..n) = n
    BY FS_Interval
  <2>3. IsFiniteSet(Before(s, j))
    BY <2>1, <2>2, FS_Subset
  <2>4. Cardinality(Before(s, j)) < n
    BY <2>1, <2>2, SmallerSubset
  <2>5. Cardinality(Before(s, j)) \in Nat
    BY <2>3, FS_CardinalityType
  <2> QED BY <2>1, <2>3, <2>4, <2>5
<1>2. ASSUME NEW j \in 1..n, i \in Before(s, j)
      PROVE  Cardinality(Before(s, i)) < Cardinality(Before(s, j))
  <2>1. Before(s, i) \subseteq Before(s, j)
    <3>1. ASSUME NEW k \in Before(s, i) PROVE k \in Before(s, j)
      <4>1. /\ k \in 1..n /\ s[k] \in Nat /\ s[i] \in Nat /\ s[j] \in Nat
            /\ s[k] < s[i] \/ (s[k] = s[i] /\ k < i)
            /\ s[i] < s[j] \/ (s[i] = s[j] /\ i < j)
        BY <1>0, <1>2, <3>1 DEF Before
      <4>2. s[k] < s[j] \/ (s[k] = s[j] /\ k < j)
        BY <4>1
      <4> QED BY <1>0, <4>1, <4>2 DEF Before
    <3> QED BY <3>1
  <2> QED BY <1>1, <1>2, <2>1, SmallerSubset
<1> QED BY <1>1, <1>2

\* Every position from 1 to n is the place of one element.
LEMMA SortedPlace ==
  ASSUME NEW n \in Nat, NEW s \in [1..n -> Nat], NEW k \in 1..n
  PROVE  \E c \in 1..n : Cardinality(Before(s, c)) = k - 1 /\ Sorted(s)[k] = s[c]
<1> DEFINE f == [i \in 1..n |-> Cardinality(Before(s, i))]
<1>0. DOMAIN s = 1..n
  OBVIOUS
<1>1. f \in [1..n -> 0..n - 1]
  BY BeforeOrder
<1>2. ASSUME NEW i \in 1..n, NEW j \in 1..n, i # j PROVE f[i] # f[j]
  <2>1. i \in Before(s, j) \/ j \in Before(s, i)
    <3>1. s[i] \in Nat /\ s[j] \in Nat
      OBVIOUS
    <3> QED BY <1>0, <1>2, <3>1 DEF Before
  <2>2. /\ Cardinality(Before(s, i)) \in Nat /\ Cardinality(Before(s, j)) \in Nat
        /\ i \in Before(s, j) => Cardinality(Before(s, i)) < Cardinality(Before(s, j))
        /\ j \in Before(s, i) => Cardinality(Before(s, j)) < Cardinality(Before(s, i))
    BY BeforeOrder
  <2> QED BY <2>1, <2>2
<1> HIDE DEF f
<1>3. f \in Injection(1..n, 0..n - 1)
  BY <1>1, <1>2 DEF Injection, IsInjective
<1>4. IsFiniteSet(0..n - 1) /\ Cardinality(0..n - 1) = n /\ Cardinality(1..n) = n
  <2>1. 0 \in Int /\ 1 \in Int /\ n \in Int /\ n - 1 \in Int /\ n >= 1
    OBVIOUS
  <2>2. IsFiniteSet(0..n - 1) /\ Cardinality(0..n - 1) = IF 0 > n - 1 THEN 0 ELSE n - 1 - 0 + 1
    BY <2>1, FS_Interval
  <2>3. Cardinality(1..n) = IF 1 > n THEN 0 ELSE n - 1 + 1
    BY <2>1, FS_Interval
  <2> QED BY <2>1, <2>2, <2>3
<1>5. f \in Surjection(1..n, 0..n - 1)
  BY <1>3, <1>4, FS_Injection
<1>6. k - 1 \in 0..n - 1
  OBVIOUS
<1>7. \E c \in 1..n : f[c] = k - 1
  BY <1>5, <1>6 DEF Surjection
<1>8. \E c \in 1..n : Cardinality(Before(s, c)) = k - 1
  BY <1>7 DEF f
<1> QED BY <1>0, <1>8 DEF Sorted

\* The positions in a sequence of n whose values are in V.
Places(n, s, V) == {i \in 1..n : s[i] \in V}

UpTo(v) == {x \in Nat : x <= v}
Below(v) == {x \in Nat : x < v}

\* At least k elements are no greater than the k-th, and at most k - 1 are smaller.
LEMMA SortedCounts ==
  ASSUME NEW n \in Nat, NEW s \in [1..n -> Nat], NEW k \in 1..n, NEW v, v = Sorted(s)[k]
  PROVE  /\ v \in Nat /\ \E c \in 1..n : v = s[c]
         /\ Cardinality(Places(n, s, UpTo(v))) >= k
         /\ Cardinality(Places(n, s, Below(v))) <= k - 1
         /\ Cardinality(Places(n, s, UpTo(v))) \in Nat
         /\ Cardinality(Places(n, s, Below(v))) \in Nat
<1>0. DOMAIN s = 1..n
  OBVIOUS
<1>1. PICK c \in 1..n : Cardinality(Before(s, c)) = k - 1 /\ v = s[c]
  BY SortedPlace
<1>2. IsFiniteSet(Before(s, c)) /\ c \notin Before(s, c)
  BY BeforeOrder
<1>3. IsFiniteSet(1..n)
  BY FS_Interval
<1> DEFINE A == Places(n, s, UpTo(v))
           B == Places(n, s, Below(v))
<1>4. IsFiniteSet(A) /\ IsFiniteSet(B)
  <2>1. A \subseteq 1..n /\ B \subseteq 1..n
    BY DEF Places
  <2> QED BY <1>3, <2>1, FS_Subset
<1>5. Before(s, c) \subseteq A /\ c \in A
  <2>1. \A i \in 1..n : s[i] \in Nat
    OBVIOUS
  <2> QED BY <1>0, <1>1, <2>1 DEF Before, Places, UpTo
<1>6. B \subseteq Before(s, c)
  BY <1>0, <1>1 DEF Before, Places, Below
<1> HIDE DEF A, B
<1>7. Cardinality(Before(s, c)) < Cardinality(A)
  BY <1>2, <1>4, <1>5, SmallerSubset
<1>8. Cardinality(B) <= Cardinality(Before(s, c))
  BY <1>2, <1>6, FS_Subset
<1>9. Cardinality(A) \in Nat /\ Cardinality(B) \in Nat
  BY <1>4, FS_CardinalityType
<1>10. Cardinality(A) >= k /\ Cardinality(B) <= k - 1
  BY <1>1, <1>7, <1>8, <1>9
<1>11. v \in Nat
  BY <1>1
<1> QED BY <1>1, <1>9, <1>10, <1>11 DEF A, B

\* It is sorted.
LEMMA SortedGrows ==
  ASSUME NEW n \in Nat, NEW s \in [1..n -> Nat], NEW k \in 1..n, NEW l \in 1..n, k <= l
  PROVE  Sorted(s)[k] <= Sorted(s)[l]
<1>0. DOMAIN s = 1..n
  OBVIOUS
<1>1. PICK c \in 1..n : Cardinality(Before(s, c)) = k - 1 /\ Sorted(s)[k] = s[c]
  BY SortedPlace
<1>2. PICK d \in 1..n : Cardinality(Before(s, d)) = l - 1 /\ Sorted(s)[l] = s[d]
  BY SortedPlace
<1>3. s[c] \in Nat /\ s[d] \in Nat
  OBVIOUS
<1>4. d \notin Before(s, c)
  <2>1. d \in Before(s, c) => Cardinality(Before(s, d)) < Cardinality(Before(s, c))
    BY BeforeOrder
  <2> QED BY <1>1, <1>2, <2>1
<1>5. ~(s[d] < s[c])
  BY <1>0, <1>4 DEF Before
<1> QED BY <1>1, <1>2, <1>3, <1>5
-----------------------------------------------------------------------------
(* The window's samples are the recent latencies, in the order of the slots. *)

\* Where the i-th oldest value is among the samples.
LEMMA Rotation ==
  ASSUME NEW n \in Nat \ {0}, NEW ring, NEW hist, RingHolds(n, ring, hist)
  PROVE  /\ Len(hist) \in Nat
         /\ \A i \in 1..Len(hist) : /\ SlotOf(n, ring, i) + 1 \in 1..Len(hist)
                                    /\ Samples(ring)[SlotOf(n, ring, i) + 1] = hist[i]
         /\ \A i, j \in 1..Len(hist) : SlotOf(n, ring, i) + 1 = SlotOf(n, ring, j) + 1 => i = j
         /\ \A j \in 1..Len(hist) : \E i \in 1..Len(hist) : SlotOf(n, ring, i) + 1 = j
<1> DEFINE len == Len(hist)
<1>1. /\ len \in 0..n /\ RingLen(ring) = len /\ ring.idx \in 0..n - 1 /\ ring.filled \in BOOLEAN
      /\ len = IF ring.filled THEN n ELSE ring.idx
  <2>1. len \in 0..n /\ RingLen(ring) = len
    BY RingSize
  <2>2. /\ ring.idx \in 0..n - 1 /\ ring.filled \in BOOLEAN
        /\ len = IF ring.filled THEN n ELSE ring.idx
    BY DEF RingHolds
  <2> QED BY <2>1, <2>2
<1>2. ASSUME NEW i \in 1..len
      PROVE  SlotOf(n, ring, i) + 1 \in 1..len /\ Samples(ring)[SlotOf(n, ring, i) + 1] = hist[i]
  <2>1. SlotOf(n, ring, i) + 1 \in 1..len /\ SlotOf(n, ring, i) \in Int
    BY <1>1 DEF SlotOf
  <2>2. Samples(ring)[SlotOf(n, ring, i) + 1] = ring.slots[SlotOf(n, ring, i)]
    BY <1>1, <2>1 DEF Samples
  <2>3. hist[i] = ring.slots[SlotOf(n, ring, i)]
    BY DEF RingHolds
  <2> QED BY <2>1, <2>2, <2>3
<1>3. ASSUME NEW i \in 1..len, NEW j \in 1..len, SlotOf(n, ring, i) + 1 = SlotOf(n, ring, j) + 1
      PROVE  i = j
  BY <1>1, <1>3 DEF SlotOf
<1>4. ASSUME NEW j \in 1..len PROVE \E i \in 1..len : SlotOf(n, ring, i) + 1 = j
  <2>1. CASE ~ring.filled
    <3>1. SlotOf(n, ring, j) + 1 = j
      BY <1>1, <2>1 DEF SlotOf
    <3> QED BY <3>1
  <2>2. CASE ring.filled /\ j > ring.idx
    <3>1. j - ring.idx \in 1..len /\ SlotOf(n, ring, j - ring.idx) + 1 = j
      BY <1>1, <2>2 DEF SlotOf
    <3> QED BY <3>1
  <2>3. CASE ring.filled /\ j <= ring.idx
    <3>1. j - ring.idx + n \in 1..len /\ SlotOf(n, ring, j - ring.idx + n) + 1 = j
      BY <1>1, <2>3 DEF SlotOf
    <3> QED BY <3>1
  <2> QED BY <1>1, <2>1, <2>2, <2>3
<1> QED BY <1>1, <1>2, <1>3, <1>4

\* Every sample is one of the recent values.
LEMMA SamplesFrom ==
  ASSUME NEW n \in Nat \ {0}, NEW ring, NEW hist, RingHolds(n, ring, hist)
  PROVE  \A j \in 1..Len(hist) : \E i \in 1..Len(hist) : Samples(ring)[j] = hist[i]
<1>1. SUFFICES ASSUME NEW j \in 1..Len(hist)
               PROVE  \E i \in 1..Len(hist) : Samples(ring)[j] = hist[i]
  OBVIOUS
<1>2. PICK i \in 1..Len(hist) : SlotOf(n, ring, i) + 1 = j
  BY Rotation
<1>3. Samples(ring)[SlotOf(n, ring, i) + 1] = hist[i]
  BY Rotation
<1> QED BY <1>2, <1>3

\* As many of the recent values as of the samples are in any set V.
LEMMA SamplesCount ==
  ASSUME NEW n \in Nat \ {0}, NEW ring, NEW hist, RingHolds(n, ring, hist), NEW V
  PROVE  Cardinality(Places(Len(hist), hist, V)) = Cardinality(Places(Len(hist), Samples(ring), V))
<1> DEFINE len == Len(hist)
           A == Places(len, hist, V)
           B == Places(len, Samples(ring), V)
           place == [i \in A |-> SlotOf(n, ring, i) + 1]
<1>1. /\ len \in Nat
      /\ \A i \in 1..len : /\ SlotOf(n, ring, i) + 1 \in 1..len
                           /\ Samples(ring)[SlotOf(n, ring, i) + 1] = hist[i]
      /\ \A i, j \in 1..len : SlotOf(n, ring, i) + 1 = SlotOf(n, ring, j) + 1 => i = j
      /\ \A j \in 1..len : \E i \in 1..len : SlotOf(n, ring, i) + 1 = j
  BY Rotation
<1>2. /\ A \subseteq 1..len /\ \A i \in 1..len : i \in A <=> hist[i] \in V
      /\ B \subseteq 1..len /\ \A i \in 1..len : i \in B <=> Samples(ring)[i] \in V
  BY DEF Places
<1> HIDE DEF A, B, len
<1>5. place \in [A -> B]
  BY <1>1, <1>2
<1>6. \A i, j \in A : place[i] = place[j] => i = j
  BY <1>1, <1>2
<1>7. \A j \in B : \E i \in A : place[i] = j
  <2>1. SUFFICES ASSUME NEW j \in B PROVE \E i \in A : place[i] = j
    OBVIOUS
  <2>2. PICK i \in 1..len : SlotOf(n, ring, i) + 1 = j
    BY <1>1, <1>2
  <2>3. i \in A
    BY <1>1, <1>2, <2>2
  <2> QED BY <2>2, <2>3
<1>8. IsFiniteSet(A)
  <2>1. 1 \in Int /\ len \in Int
    BY <1>1
  <2>2. IsFiniteSet(1..len)
    BY <2>1, FS_Interval
  <2> QED BY <1>2, <2>2, FS_Subset
<1> HIDE DEF place
<1>10. place \in Bijection(A, B)
  BY <1>5, <1>6, <1>7 DEF Bijection, Injection, Surjection, IsInjective
<1>11. Cardinality(A) = Cardinality(B)
  BY <1>8, <1>10, FS_Bijection DEF ExistsBijection
<1> QED BY <1>11 DEF A, B, len

\* percentile: where in the sorted samples it looks.
PlaceIn(n, p) == 1 + ((n * p) \div 100)

RightPlace(n, p, k) == k \in 1..n /\ 100 * k >= p * n /\ 100 * (k - 1) <= p * n

\* Where percentile looks is a place of the samples, the right one, and grows with p.
LEMMA PlaceInRange ==
  ASSUME NEW n \in Nat \ {0}, NEW p \in {50, 95, 99}
  PROVE  /\ PlaceIn(n, p) \in 1..n /\ RightPlace(n, p, PlaceIn(n, p))
         /\ PlaceIn(n, 50) <= PlaceIn(n, 95) /\ PlaceIn(n, 95) <= PlaceIn(n, 99)
<1>1. CASE p = 50
  BY <1>1 DEF PlaceIn, RightPlace
<1>2. CASE p = 95
  BY <1>2 DEF PlaceIn, RightPlace
<1>3. CASE p = 99
  BY <1>3 DEF PlaceIn, RightPlace
<1> QED BY <1>1, <1>2, <1>3

\* Both rings hold the end of their history.
RingsInv ==
    /\ RingHolds(LatencyWindow, window, recent) /\ recent \in Seq(Nat)
    /\ RingHolds(HistorySize, points, scores)

\* What percentile picks of the samples.
LEMMA PercentilePicks ==
  ASSUME RingsInv, TelemetryAssumption, Len(recent) > 0, NEW p \in {50, 95, 99}
  PROVE  /\ Samples(window) \in [1..Len(recent) -> Nat]
         /\ Percentile(window, p) = Sorted(Samples(window))[PlaceIn(Len(recent), p)]
<1> DEFINE n == Len(recent)
<1>1. LatencyWindow \in Nat \ {0} /\ RingHolds(LatencyWindow, window, recent)
  BY DEF RingsInv, TelemetryAssumption
<1>2. RingLen(window) = n /\ n \in Nat /\ n > 0
  BY <1>1, RingSize
<1>3. Samples(window) \in [1..n -> Nat]
  <2>1. \A j \in 1..n : \E i \in 1..n : Samples(window)[j] = recent[i]
    BY <1>1, SamplesFrom
  <2>2. \A i \in 1..n : recent[i] \in Nat
    BY DEF RingsInv
  <2>3. Samples(window) = [j \in 1..n |-> Samples(window)[j]]
    BY <1>2 DEF Samples
  <2> HIDE DEF n
  <2> QED BY <2>1, <2>2, <2>3
<1>4. (n * p) \div 100 < n /\ (n * p) \div 100 \in Nat
  <2> HIDE DEF n
  <2>0. n \in Nat \ {0}
    BY <1>2
  <2>1. PlaceIn(n, p) \in 1..n
    BY <2>0, PlaceInRange
  <2>2. (n * p) \div 100 \in Int
    BY <1>2
  <2> QED BY <1>2, <2>1, <2>2 DEF PlaceIn
<1>5. Percentile(window, p) = Sorted(Samples(window))[PlaceIn(n, p)]
  <2> HIDE DEF n
  <2>1. ~((n * p) \div 100 >= n)
    BY <1>2, <1>4
  <2> QED BY <1>2, <2>1 DEF Percentile, PlaceIn
<1> QED BY <1>3, <1>5

\* Rings that hold the ends of their histories tell the latest values.
LEMMA RingsTell ==
  ASSUME RingsInv, TelemetryAssumption
  PROVE  RingsTellTheLatest
<1> DEFINE n == Len(recent)
           P(p) == Percentile(window, p)
<1>1. /\ LatencyWindow \in Nat \ {0} /\ RingHolds(LatencyWindow, window, recent)
      /\ HistorySize \in Nat \ {0} /\ RingHolds(HistorySize, points, scores)
  BY DEF RingsInv, TelemetryAssumption
<1>2. n \in Nat
  BY <1>1, RingSize
<1>3. RingInOrder(points) = scores
  BY <1>1, RingTells
<1>4. ASSUME n > 0, NEW p \in {50, 95, 99}
      PROVE  /\ P(p) \in Range(recent)
             /\ 100 * Cardinality({i \in 1..n : recent[i] <= P(p)}) >= p * n
             /\ 100 * Cardinality({i \in 1..n : recent[i] < P(p)}) <= p * n
  <2> DEFINE s == Samples(window)
             k == PlaceIn(n, p)
             v == P(p)
  <2>1. s \in [1..n -> Nat] /\ v = Sorted(s)[k]
    BY <1>4, PercentilePicks
  <2>2. k \in 1..n /\ 100 * k >= p * n /\ 100 * (k - 1) <= p * n
    <3> HIDE DEF n
    <3>1. n \in Nat \ {0}
      BY <1>2, <1>4
    <3>2. RightPlace(n, p, k)
      BY <3>1, PlaceInRange
    <3> QED BY <3>2, Zenon DEF RightPlace
  <2>3. \A i \in 1..n : recent[i] \in Nat
    BY DEF RingsInv
  <2>4. \A j \in 1..n : \E i \in 1..n : s[j] = recent[i]
    BY <1>1, SamplesFrom
  <2>5. /\ Cardinality(Places(n, recent, UpTo(v))) = Cardinality(Places(n, s, UpTo(v)))
        /\ Cardinality(Places(n, recent, Below(v))) = Cardinality(Places(n, s, Below(v)))
    BY <1>1, SamplesCount
  <2> HIDE DEF s, v, k, n
  <2> DEFINE a == Cardinality(Places(n, s, UpTo(v)))
             b == Cardinality(Places(n, s, Below(v)))
  <2>6. v \in Nat /\ (\E c \in 1..n : v = s[c]) /\ a \in Nat /\ b \in Nat /\ a >= k /\ b <= k - 1
    BY <1>2, <2>1, <2>2, SortedCounts
  <2>7. /\ Places(n, recent, UpTo(v)) = {i \in 1..n : recent[i] <= v}
        /\ Places(n, recent, Below(v)) = {i \in 1..n : recent[i] < v}
    BY <2>3 DEF Places, UpTo, Below
  <2>8. v \in Range(recent)
    <3>1. DOMAIN recent = 1..n
      BY DEF RingsInv, n
    <3>2. PICK c \in 1..n : v = s[c]
      BY <2>6
    <3>3. PICK i \in 1..n : s[c] = recent[i]
      BY <2>4
    <3> QED BY <3>1, <3>2, <3>3, Zenon DEF Range
  <2>9. /\ Cardinality({i \in 1..n : recent[i] <= v}) = a
        /\ Cardinality({i \in 1..n : recent[i] < v}) = b
    BY <2>5, <2>7
  <2>10. a \in Nat /\ b \in Nat /\ a >= k /\ b <= k - 1 /\ k \in Nat /\ p \in Nat
    BY <1>2, <2>2, <2>6
  <2> HIDE DEF a, b
  <2>11. 100 * a >= p * n /\ 100 * b <= p * n
    BY <1>2, <2>2, <2>10
  <2> QED BY <2>8, <2>9, <2>11 DEF v
<1>5. ASSUME n > 0 PROVE P(50) <= P(95) /\ P(95) <= P(99)
  <2> DEFINE s == Samples(window)
             At(p) == PlaceIn(n, p)
  <2>1. ASSUME NEW p \in {50, 95, 99} PROVE s \in [1..n -> Nat] /\ P(p) = Sorted(s)[At(p)]
    BY <1>5, PercentilePicks
  <2> HIDE DEF n, s, P
  <2>2. n \in Nat \ {0}
    BY <1>2, <1>5
  <2>3. ASSUME NEW p \in {50, 95, 99} PROVE At(p) \in 1..n
    BY <2>2, PlaceInRange
  <2>4. At(50) <= At(95) /\ At(95) <= At(99)
    BY <2>2, PlaceInRange
  <2> HIDE DEF At
  <2>5. Sorted(s)[At(50)] <= Sorted(s)[At(95)] /\ Sorted(s)[At(95)] <= Sorted(s)[At(99)]
    <3>1. /\ At(50) \in 1..n /\ At(95) \in 1..n /\ At(99) \in 1..n /\ s \in [1..n -> Nat] /\ n \in Nat
      BY <2>1, <2>2, <2>3
    <3> QED BY <2>4, <3>1, SortedGrows
  <2>6. P(50) = Sorted(s)[At(50)] /\ P(95) = Sorted(s)[At(95)] /\ P(99) = Sorted(s)[At(99)]
    BY <2>1
  <2> QED BY <2>5, <2>6
<1> QED BY <1>3, <1>4, <1>5 DEF RingsTellTheLatest

\* The percentiles and the score history that the dashboard shows are about the last calls,
\* however the windows have filled and wrapped round (RingsTellTheLatest).
THEOREM RingsAreCurrent == TelemetrySpec => []RingsTellTheLatest
<1>0. LatencyWindow \in Nat \ {0} /\ HistorySize \in Nat \ {0} /\ Latencies \subseteq Nat
  BY TelemetryAssumption DEF TelemetryAssumption
<1>1. TelemetryInit => RingsInv
  <2>1. <<>> \in Seq(Nat)
    OBVIOUS
  <2> QED BY <1>0, <2>1, EmptyRingHolds DEF TelemetryInit, RingsInv
<1>2. RingsInv /\ [TelemetryNext]_telemetryVars => RingsInv'
  <2> SUFFICES ASSUME RingsInv, [TelemetryNext]_telemetryVars PROVE RingsInv'
    OBVIOUS
  <2>1. CASE UNCHANGED telemetryVars
    BY <2>1 DEF RingsInv, telemetryVars
  <2>2. ASSUME NEW d \in Latencies, Time(d), UNCHANGED reader PROVE RingsInv'
    <3>1. /\ RingHolds(LatencyWindow, RingPut(window, d), LastOf(LatencyWindow, recent, d))
      BY <1>0, RingPutHolds DEF RingsInv
    <3>2. LastOf(LatencyWindow, recent, d) \in Seq(Nat)
      <4>1. Append(recent, d) \in Seq(Nat) /\ Append(recent, d) # <<>>
        BY <1>0 DEF RingsInv
      <4> QED BY <4>1 DEF LastOf
    <3> QED BY <2>2, <3>1, <3>2 DEF Time, reader, RingsInv
  <2>3. CASE UNCHANGED <<window, recent, points, scores>>
    BY <2>3 DEF RingsInv
  <2>4. CASE Write
    BY <2>2, <2>3, <2>4 DEF Write, Arrive, Record, reader
  <2>5. CASE Status
    <3>1. CASE Load
      BY <2>3, <2>5, <3>1 DEF Status, Load
    <3>2. CASE Report
      <4>1. RingHolds(HistorySize, RingPut(points, ComputeScore(Inputs)),
                      LastOf(HistorySize, scores, ComputeScore(Inputs)))
        BY <1>0, RingPutHolds DEF RingsInv
      <4>2. CASE UNCHANGED <<points, scores>>
        BY <2>3, <2>5, <4>2 DEF Status
      <4>3. CASE /\ points' = RingPut(points, ComputeScore(Inputs))
                 /\ scores' = LastOf(HistorySize, scores, ComputeScore(Inputs))
        BY <2>5, <4>1, <4>3 DEF Status, RingsInv
      <4> QED BY <3>2, <4>2, <4>3 DEF Report
    <3> QED BY <2>5, <3>1, <3>2 DEF Status
  <2> QED BY <2>1, <2>4, <2>5 DEF TelemetryNext
<1>3. RingsInv => RingsTellTheLatest
  BY TelemetryAssumption, RingsTell
<1> QED BY <1>1, <1>2, <1>3, PTL DEF TelemetrySpec

-----------------------------------------------------------------------------
(***************************************************************************)
(* Sums.                                                                   *)
(***************************************************************************)

\* f adds up v step by step as far as n.
Adds(f, n, v) == f = [i \in 0..n |-> IF i = 0 THEN 0 ELSE f[i - 1] + v[i]]

\* There is such a function.
LEMMA AddsExists ==
  ASSUME NEW n \in Nat, NEW v
  PROVE  \E f : Adds(f, n, v)
<1> DEFINE T == {m \in 0..n : ~\E f : Adds(f, m, v)}
<1>1. T = {}
  <2>1. SUFFICES ASSUME T # {} PROVE FALSE
    OBVIOUS
  <2>2. PICK m \in T : \A l \in T : m <= l
    <3>1. \A m \in T : m \in Nat
      OBVIOUS
    <3> HIDE DEF T
    <3> QED BY <2>1, <3>1, LeastNat
  <2>3. m \in 0..n /\ ~\E f : Adds(f, m, v)
    OBVIOUS
  <2>4. CASE m = 0
    <3> DEFINE f == [i \in 0..m |-> 0]
    <3>1. Adds(f, m, v)
      BY <2>4 DEF Adds
    <3> QED BY <2>3, <3>1
  <2>5. CASE m # 0
    <3>1. m - 1 \in 0..n /\ ~(m <= m - 1) /\ m \in Nat /\ m >= 1
      BY <2>3, <2>5
    <3>2. m - 1 \notin T
      BY <2>2, <3>1
    <3>3. PICK g : Adds(g, m - 1, v)
      BY <3>1, <3>2
    <3> DEFINE f == [i \in 0..m |-> IF i = m THEN g[m - 1] + v[m] ELSE g[i]]
    <3>4. \A i \in 0..m - 1 : g[i] = IF i = 0 THEN 0 ELSE g[i - 1] + v[i]
      BY <3>3 DEF Adds
    <3>5. ASSUME NEW i \in 0..m PROVE f[i] = IF i = 0 THEN 0 ELSE f[i - 1] + v[i]
      <4>1. CASE i = m
        BY <3>1, <4>1
      <4>2. CASE i # m
        <5>1. i \in 0..m - 1 /\ (i # 0 => i - 1 \in 0..m /\ i - 1 # m)
          BY <3>1, <4>2
        <5> QED BY <3>4, <4>2, <5>1
      <4> QED BY <4>1, <4>2
    <3>6. f = [i \in 0..m |-> f[i]]
      OBVIOUS
    <3> HIDE DEF f
    <3>7. Adds(f, m, v)
      BY <3>5, <3>6 DEF Adds
    <3> QED BY <2>3, <3>7
  <2> QED BY <2>4, <2>5
<1>2. n \in 0..n
  OBVIOUS
<1>3. n \notin T
  <2> HIDE DEF T
  <2> QED BY <1>1
<1> QED BY <1>2, <1>3

\* And SumTo is its last value.
LEMMA SumToAdds ==
  ASSUME NEW n \in Nat, NEW v
  PROVE  \E f : Adds(f, n, v) /\ SumTo(n, v) = f[n]
<1> DEFINE sum[i \in 0..n] == IF i = 0 THEN 0 ELSE sum[i - 1] + v[i]
<1>1. \E f : Adds(f, n, v)
  BY AddsExists
<1>2. Adds(sum, n, v)
  BY <1>1 DEF Adds
<1>3. SumTo(n, v) = sum[n]
  BY DEF SumTo
<1> HIDE DEF sum
<1> QED BY <1>2, <1>3

\* Two of them agree as far as both go and the summands do.
LEMMA AddsAgree ==
  ASSUME NEW m \in Nat, NEW n \in Nat, NEW k \in Nat, k <= m, k <= n, NEW v, NEW w, NEW f, NEW g,
         Adds(f, m, v), Adds(g, n, w), \A i \in 1..k : v[i] = w[i]
  PROVE  f[k] = g[k]
<1> DEFINE T == {i \in 0..k : f[i] # g[i]}
<1>1. T = {}
  <2>1. SUFFICES ASSUME T # {} PROVE FALSE
    OBVIOUS
  <2>2. PICK i \in T : \A l \in T : i <= l
    <3>1. \A i \in T : i \in Nat
      OBVIOUS
    <3> HIDE DEF T
    <3> QED BY <2>1, <3>1, LeastNat
  <2>3. i \in 0..k /\ i \in 0..m /\ i \in 0..n /\ f[i] # g[i]
    OBVIOUS
  <2>4. /\ f[i] = IF i = 0 THEN 0 ELSE f[i - 1] + v[i]
        /\ g[i] = IF i = 0 THEN 0 ELSE g[i - 1] + w[i]
    BY <2>3 DEF Adds
  <2>5. i # 0
    BY <2>3, <2>4
  <2>6. i - 1 \in 0..k /\ ~(i <= i - 1) /\ i \in 1..k
    BY <2>3, <2>5
  <2>7. f[i - 1] = g[i - 1]
    BY <2>2, <2>6
  <2> QED BY <2>3, <2>4, <2>5, <2>6, <2>7
<1>2. k \in 0..k
  OBVIOUS
<1>3. k \notin T
  <2> HIDE DEF T
  <2> QED BY <1>1
<1> QED BY <1>2, <1>3

\* The recurrence.
LEMMA SumToStep ==
  ASSUME NEW v
  PROVE  /\ SumTo(0, v) = 0
         /\ \A n \in Nat : SumTo(n + 1, v) = SumTo(n, v) + v[n + 1]
<1>1. SumTo(0, v) = 0
  <2>1. PICK f : Adds(f, 0, v) /\ SumTo(0, v) = f[0]
    BY SumToAdds
  <2> QED BY <2>1 DEF Adds
<1>2. ASSUME NEW n \in Nat PROVE SumTo(n + 1, v) = SumTo(n, v) + v[n + 1]
  <2>0. n + 1 \in Nat /\ n + 1 \in 0..n + 1 /\ n + 1 # 0 /\ n + 1 - 1 = n /\ n <= n + 1
    OBVIOUS
  <2>1. PICK f : Adds(f, n + 1, v) /\ SumTo(n + 1, v) = f[n + 1]
    BY <2>0, SumToAdds
  <2>2. PICK g : Adds(g, n, v) /\ SumTo(n, v) = g[n]
    BY SumToAdds
  <2>3. f[n] = g[n]
    BY <2>0, <2>1, <2>2, AddsAgree
  <2>4. f[n + 1] = f[n] + v[n + 1]
    BY <2>0, <2>1 DEF Adds
  <2> QED BY <2>1, <2>2, <2>3, <2>4
<1> QED BY <1>1, <1>2

\* Only the summands matter.
LEMMA SumToSame ==
  ASSUME NEW n \in Nat, NEW v, NEW w, \A i \in 1..n : v[i] = w[i]
  PROVE  SumTo(n, v) = SumTo(n, w)
<1>1. PICK f : Adds(f, n, v) /\ SumTo(n, v) = f[n]
  BY SumToAdds
<1>2. PICK g : Adds(g, n, w) /\ SumTo(n, w) = g[n]
  BY SumToAdds
<1> QED BY <1>1, <1>2, AddsAgree

\* Greater summands, greater sum; and it is a natural number if they are.
LEMMA SumToMonotone ==
  ASSUME NEW n \in Nat, NEW v, NEW w,
         \A i \in 1..n : v[i] \in Nat /\ w[i] \in Nat /\ v[i] <= w[i]
  PROVE  SumTo(n, v) \in Nat /\ SumTo(n, w) \in Nat /\ SumTo(n, v) <= SumTo(n, w)
<1> DEFINE Ok(m) == SumTo(m, v) \in Nat /\ SumTo(m, w) \in Nat /\ SumTo(m, v) <= SumTo(m, w)
           T == {m \in 0..n : ~Ok(m)}
<1>1. T = {}
  <2>1. SUFFICES ASSUME T # {} PROVE FALSE
    OBVIOUS
  <2>2. PICK m \in T : \A l \in T : m <= l
    <3>1. \A m \in T : m \in Nat
      OBVIOUS
    <3> HIDE DEF T
    <3> QED BY <2>1, <3>1, LeastNat
  <2>3. m \in 0..n /\ ~Ok(m)
    OBVIOUS
  <2>4. m # 0
    <3>1. SumTo(0, v) = 0 /\ SumTo(0, w) = 0
      BY SumToStep
    <3> QED BY <2>3, <3>1
  <2>5. m - 1 \in 0..n /\ m - 1 \in Nat /\ ~(m <= m - 1) /\ m - 1 + 1 = m /\ m \in 1..n
    BY <2>3, <2>4
  <2>6. Ok(m - 1)
    <3> HIDE DEF Ok
    <3> QED BY <2>2, <2>5
  <2>7. SumTo(m, v) = SumTo(m - 1, v) + v[m] /\ SumTo(m, w) = SumTo(m - 1, w) + w[m]
    BY <2>5, SumToStep
  <2>8. v[m] \in Nat /\ w[m] \in Nat /\ v[m] <= w[m]
    BY <2>5
  <2>9. Ok(m)
    BY <2>6, <2>7, <2>8
  <2> QED BY <2>3, <2>9
<1>2. n \in 0..n
  OBVIOUS
<1>3. n \notin T
  <2> HIDE DEF T
  <2> QED BY <1>1
<1>4. Ok(n)
  <2> HIDE DEF Ok
  <2> QED BY <1>2, <1>3
<1> QED BY <1>4

\* A positive summand makes the sum positive.
LEMMA SumToPositive ==
  ASSUME NEW n \in Nat \ {0}, NEW v, \A i \in 1..n : v[i] \in Nat \ {0}
  PROVE  SumTo(n, v) \in Nat \ {0}
<1>1. n - 1 \in Nat /\ n - 1 + 1 = n /\ n \in 1..n
  OBVIOUS
<1>2. SumTo(n - 1, v) \in Nat
  <2>1. \A i \in 1..n - 1 : v[i] \in Nat /\ v[i] <= v[i]
    OBVIOUS
  <2> QED BY <1>1, <2>1, SumToMonotone
<1>3. SumTo(n, v) = SumTo(n - 1, v) + v[n]
  BY <1>1, SumToStep
<1> QED BY <1>1, <1>2, <1>3

\* The first summand can be taken out.
LEMMA SumToFirst ==
  ASSUME NEW n \in Nat, NEW v, NEW w, \A i \in 1..n : v[i + 1] = w[i],
         \A i \in 1..n + 1 : v[i] \in Nat
  PROVE  SumTo(n + 1, v) = v[1] + SumTo(n, w)
<1> DEFINE T == {m \in 0..n : SumTo(m + 1, v) # v[1] + SumTo(m, w)}
<1>0. ASSUME NEW m \in 0..n PROVE SumTo(m, w) \in Nat
  <2>1. \A i \in 1..m : w[i] \in Nat /\ w[i] <= w[i]
    <3>1. ASSUME NEW i \in 1..m PROVE w[i] \in Nat
      <4>1. i \in 1..n /\ i + 1 \in 1..n + 1
        OBVIOUS
      <4> QED BY <4>1
    <3> QED BY <3>1
  <2> QED BY <2>1, SumToMonotone
<1>1. T = {}
  <2>1. SUFFICES ASSUME T # {} PROVE FALSE
    OBVIOUS
  <2>2. PICK m \in T : \A l \in T : m <= l
    <3>1. \A m \in T : m \in Nat
      OBVIOUS
    <3> HIDE DEF T
    <3> QED BY <2>1, <3>1, LeastNat
  <2>3. m \in 0..n /\ SumTo(m + 1, v) # v[1] + SumTo(m, w)
    OBVIOUS
  <2>4. m # 0
    <3>1. SumTo(0, v) = 0 /\ SumTo(0, w) = 0 /\ SumTo(0 + 1, v) = SumTo(0, v) + v[0 + 1]
      BY SumToStep
    <3>2. v[1] \in Nat
      OBVIOUS
    <3>3. SumTo(0 + 1, v) = v[1] + SumTo(0, w)
      BY <3>1, <3>2
    <3> QED BY <2>3, <3>3
  <2>5. m - 1 \in 0..n /\ m - 1 \in Nat /\ ~(m <= m - 1) /\ m - 1 + 1 = m /\ m \in 1..n /\ m \in Nat
    BY <2>3, <2>4
  <2>6. SumTo(m - 1 + 1, v) = v[1] + SumTo(m - 1, w)
    BY <2>2, <2>5
  <2>7. SumTo(m + 1, v) = SumTo(m, v) + v[m + 1] /\ SumTo(m - 1 + 1, w) = SumTo(m - 1, w) + w[m - 1 + 1]
    BY <2>5, SumToStep
  <2>8. v[m + 1] = w[m] /\ v[m + 1] \in Nat /\ v[1] \in Nat
    BY <2>5
  <2>9. SumTo(m - 1, w) \in Nat
    BY <1>0, <2>5
  <2> QED BY <2>3, <2>5, <2>6, <2>7, <2>8, <2>9
<1>2. n \in 0..n
  OBVIOUS
<1>3. n \notin T
  <2> HIDE DEF T
  <2> QED BY <1>1
<1> QED BY <1>2, <1>3

-----------------------------------------------------------------------------
(***************************************************************************)
(* The quality evaluator.                                                  *)
(***************************************************************************)

-----------------------------------------------------------------------------
(* The signals.                                                             *)

\* The windows that occur: the recorded lengths are positive.
Baselines ==
    {ring \in [slots : [0..LengthWindow - 1 -> Nat], idx : 0..LengthWindow - 1, filled : BOOLEAN] :
       \A i \in 0..RingLen(ring) - 1 : ring.slots[i] > 0}

\* A baseline has at most LengthWindow lengths.
LEMMA BaselineLength ==
  ASSUME EvaluatorAssumption, NEW ring \in Baselines
  PROVE  Capacity(ring) = LengthWindow /\ RingLen(ring) \in 0..LengthWindow
<1>1. DOMAIN ring.slots = 0..LengthWindow - 1 /\ LengthWindow \in Nat \ {0}
  BY DEF Baselines, EvaluatorAssumption
<1>2. Capacity(ring) = LengthWindow
  BY <1>1, RingCapacity
<1> QED BY <1>1, <1>2 DEF RingLen, Baselines

\* The length signal costs at most a quarter, whatever the baseline.
LEMMA LengthPenalty ==
  ASSUME EvaluatorAssumption, NEW bytes \in Nat, NEW ring \in Baselines
  PROVE  LengthAnomaly(bytes, ring) \in 0..250
<1> DEFINE n == RingLen(ring)
           v == [i \in 1..n |-> ring.slots[i - 1]]
           sum == SumTo(n, v)
           ratio == (1000 * bytes * n) \div sum
<1>1. n \in 0..LengthWindow /\ LengthWindow \in Nat
  BY BaselineLength DEF EvaluatorAssumption
<1>2. LengthAnomaly(bytes, ring) =
        CASE bytes \in 1..9 -> 250
          [] bytes = 0 \/ (bytes >= 10 /\ n = 0) -> 0
          [] OTHER -> IF ratio >= 350 THEN 0 ELSE IF ratio < 100 THEN 250 ELSE 350 - ratio
  BY DEF LengthAnomaly
<1>3. n > 0 => sum \in Nat \ {0}
  <2>1. ASSUME NEW i \in 1..n PROVE v[i] \in Nat \ {0}
    <3>1. i - 1 \in 0..n - 1 /\ i - 1 \in 0..LengthWindow - 1
      BY <1>1
    <3> QED BY <3>1 DEF Baselines
  <2>2. ASSUME n > 0 PROVE n \in Nat \ {0}
    BY <1>1, <2>2
  <2> HIDE DEF n, v
  <2> QED BY <2>1, <2>2, SumToPositive
<1> HIDE DEF n, sum
<1>4. n > 0 => ratio \in Int
  <2>1. n \in Nat /\ 1000 * bytes * n \in Int
    BY <1>1
  <2> QED BY <1>3, <2>1
<1> HIDE DEF ratio
<1> QED BY <1>1, <1>2, <1>4

\* The coherence signal costs at most a fifth.
LEMMA CoherencePenalty ==
  ASSUME NEW sim \in 0..100, NEW off \in BOOLEAN
  PROVE  Coherence(sim, off) \in 0..200
  BY DEF Coherence

\* The language signal never adds to the score.
LEMMA LanguagePenalty ==
  ASSUME NEW reply, reply.bytes \in Nat, reply.foreign \in BOOLEAN, NEW foreignPrompt \in BOOLEAN
  PROVE  LanguageMismatch(reply, foreignPrompt) \in Nat
  BY DEF LanguageMismatch

-----------------------------------------------------------------------------
(* Trigrams of a sentence that is said several times.                       *)

\* A trigram of the sentence is told by where in it the trigram starts.
Trigram(n, r) == <<r, (r + 1) % n, (r + 2) % n>>

\* The lengths of the sentences there are.
SentenceLengths == {1, 4, 10, 11, 12, 13, 15, 20, 60}

\* A sentence has words.
LEMMA LengthIsNat == ASSUME NEW n \in SentenceLengths PROVE n \in Nat \ {0}
  BY DEF SentenceLengths

\* The next words of a sentence that is said again and again.
LEMMA NextWord ==
  ASSUME NEW n \in SentenceLengths, NEW a \in Nat
  PROVE  /\ a % n \in 0..n - 1
         /\ (a + 1) % n = ((a % n) + 1) % n
         /\ (a + 2) % n = ((a % n) + 2) % n
<1>1. CASE n \in {1, 4, 10}
  <2>1. CASE n = 1
    BY <2>1
  <2>2. CASE n = 4
    BY <2>2
  <2>3. CASE n = 10
    BY <2>3
  <2> QED BY <1>1, <2>1, <2>2, <2>3
<1>2. CASE n \in {11, 12, 13}
  <2>1. CASE n = 11
    BY <2>1
  <2>2. CASE n = 12
    BY <2>2
  <2>3. CASE n = 13
    BY <2>3
  <2> QED BY <1>2, <2>1, <2>2, <2>3
<1>3. CASE n \in {15, 20, 60}
  <2>1. CASE n = 15
    BY <2>1
  <2>2. CASE n = 20
    BY <2>2
  <2>3. CASE n = 60
    BY <2>3
  <2> QED BY <1>3, <2>1, <2>2, <2>3
<1> QED BY <1>1, <1>2, <1>3 DEF SentenceLengths
\* A sentence as a sequence.
LEMMA SentenceIs ==
  ASSUME NEW n \in Nat \ {0}, NEW k \in Nat
  PROVE  /\ Sentence(n, k) \in Seq(Int) /\ Len(Sentence(n, k)) = n * k
         /\ \A j \in 1..n * k : Sentence(n, k)[j] = (j - 1) % n
<1> DEFINE m == n * k
           w == [i \in 1..m |-> (i - 1) % n]
<1>1. m \in Nat
  OBVIOUS
<1>2. Sentence(n, k) = w
  BY DEF Sentence
<1> HIDE DEF m
<1>3. \A j \in 1..m : (j - 1) % n \in Int
  BY <1>1
<1>4. w \in Seq(Int) /\ Len(w) = m
  BY <1>1, <1>3
<1> QED BY <1>2, <1>4 DEF m

\* A trigram of the repeated sentence depends only on where in the sentence it starts.
LEMMA TrigramOf ==
  ASSUME NEW n \in SentenceLengths, NEW k \in Nat, NEW i \in 1..n * k - 2
  PROVE  SubSeq(Sentence(n, k), i, i + 2) = Trigram(n, (i - 1) % n)
<1> DEFINE w == Sentence(n, k)
           t == SubSeq(w, i, i + 2)
<1>0. n \in Nat \ {0}
  BY LengthIsNat
<1>1. n * k \in Nat /\ i \in Nat /\ i >= 1 /\ i + 2 <= n * k
  <2>1. n * k \in Nat
    BY <1>0
  <2> DEFINE m == n * k
  <2>2. m \in Nat /\ i \in 1..m - 2
    BY <2>1
  <2> HIDE DEF m
  <2>3. i \in Nat /\ i >= 1 /\ i + 2 <= m
    BY <2>2
  <2> QED BY <2>1, <2>3 DEF m
<1>2. w \in Seq(Int) /\ Len(w) = n * k /\ \A j \in 1..n * k : w[j] = (j - 1) % n
  BY <1>0, <1>1, SentenceIs
<1> HIDE DEF w
<1>3. t \in Seq(Int) /\ Len(t) = 3 /\ t[1] = w[i] /\ t[2] = w[i + 1] /\ t[3] = w[i + 2]
  BY <1>1, <1>2
<1>4. /\ w[i] = (i - 1) % n /\ w[i + 1] = (i - 1 + 1) % n /\ w[i + 2] = (i - 1 + 2) % n
  BY <1>1, <1>2
<1>5. /\ (i - 1 + 1) % n = (((i - 1) % n) + 1) % n /\ (i - 1 + 2) % n = (((i - 1) % n) + 2) % n
  BY <1>1, NextWord
<1> HIDE DEF t
<1>6. t = <<t[1], t[2], t[3]>>
  BY <1>3
<1> QED BY <1>3, <1>4, <1>5, <1>6 DEF Trigram, t, w

\* Said again, a sentence of n words brings no new trigrams.
LEMMA FewTrigrams ==
  ASSUME NEW n \in SentenceLengths, NEW k \in Nat
  PROVE  Cardinality(Trigrams(Sentence(n, k))) \in 0..n
<1> DEFINE S == Trigrams(Sentence(n, k))
           G == {Trigram(n, r) : r \in 0..n - 1}
           g == [r \in 0..n - 1 |-> Trigram(n, r)]
           m == n * k
<1>0. n \in Nat \ {0} /\ n \in Nat /\ n >= 1 /\ 0 \in Int /\ n - 1 \in Int /\ m \in Nat
  BY LengthIsNat
<1>1. S \subseteq G
  <2>1. S = {SubSeq(Sentence(n, k), i, i + 2) : i \in 1..m - 2}
    <3>1. Len(Sentence(n, k)) = m
      BY <1>0, SentenceIs
    <3> QED BY <3>1 DEF Trigrams
  <2>2. ASSUME NEW i \in 1..m - 2
        PROVE  \E r \in 0..n - 1 : SubSeq(Sentence(n, k), i, i + 2) = Trigram(n, r)
    <3>1. SubSeq(Sentence(n, k), i, i + 2) = Trigram(n, (i - 1) % n)
      BY TrigramOf
    <3> HIDE DEF m
    <3>2. i - 1 \in Nat
      BY <1>0
    <3>3. (i - 1) % n \in 0..n - 1
      BY <3>2, NextWord
    <3> QED BY <3>1, <3>3
  <2> QED BY <2>1, <2>2
<1>2. IsFiniteSet(0..n - 1) /\ Cardinality(0..n - 1) = n
  <2>1. IsFiniteSet(0..n - 1) /\ Cardinality(0..n - 1) = IF 0 > n - 1 THEN 0 ELSE n - 1 - 0 + 1
    BY <1>0, FS_Interval
  <2> QED BY <1>0, <2>1
<1>3. g \in Surjection(0..n - 1, G)
  BY DEF Surjection
<1> HIDE DEF S, G, g
<1>4. IsFiniteSet(G) /\ Cardinality(G) <= n
  BY <1>2, <1>3, FS_Surjection
<1>5. IsFiniteSet(S) /\ Cardinality(S) <= Cardinality(G)
  BY <1>1, <1>4, FS_Subset
<1>6. Cardinality(S) \in Nat /\ Cardinality(G) \in Nat
  BY <1>4, <1>5, FS_CardinalityType
<1>7. Cardinality(S) \in 0..n
  BY <1>0, <1>4, <1>5, <1>6
<1> QED BY <1>7 DEF S

\* Said once, it has no trigram twice.
LEMMA DifferentTrigrams ==
  ASSUME NEW n \in SentenceLengths, n >= 2
  PROVE  Cardinality(Trigrams(Sentence(n, 1))) = n - 2
<1> DEFINE S == Trigrams(Sentence(n, 1))
           g == [i \in 1..n - 2 |-> SubSeq(Sentence(n, 1), i, i + 2)]
<1>0. n \in Nat \ {0} /\ n * 1 = n
  BY LengthIsNat
<1>1. ASSUME NEW i \in 1..n - 2 PROVE g[i][1] = i - 1
  <2>1. i - 1 \in 0..n - 1 /\ i \in 1..n * 1 - 2 /\ 1 \in Nat
    BY <1>0
  <2>2. SubSeq(Sentence(n, 1), i, i + 2) = Trigram(n, (i - 1) % n)
    BY <2>1, TrigramOf
  <2>3. g[i] = Trigram(n, (i - 1) % n)
    BY <2>2
  <2>4. (i - 1) % n = i - 1
    BY <1>0, <2>1
  <2> HIDE DEF g
  <2> QED BY <2>3, <2>4 DEF Trigram
<1>2. g \in [1..n - 2 -> S] /\ \A t \in S : \E i \in 1..n - 2 : g[i] = t
  <2>1. S = {SubSeq(Sentence(n, 1), i, i + 2) : i \in 1..n - 2}
    <3>1. Len(Sentence(n, 1)) = n
      BY <1>0, SentenceIs
    <3> QED BY <3>1 DEF Trigrams
  <2> QED BY <2>1
<1>3. IsFiniteSet(1..n - 2) /\ Cardinality(1..n - 2) = n - 2
  <2>1. n \in Nat /\ n - 2 \in Int /\ 1 \in Int
    BY <1>0
  <2>2. IsFiniteSet(1..n - 2) /\ Cardinality(1..n - 2) = IF 1 > n - 2 THEN 0 ELSE n - 2 - 1 + 1
    BY <2>1, FS_Interval
  <2> QED BY <2>1, <2>2
<1> HIDE DEF S, g
<1>4. ASSUME NEW i \in 1..n - 2, NEW j \in 1..n - 2, g[i] = g[j] PROVE i = j
  <2>1. i - 1 = j - 1
    BY <1>1, <1>4
  <2> QED BY <1>0, <2>1
<1>5. g \in Bijection(1..n - 2, S)
  BY <1>2, <1>4 DEF Bijection, Injection, Surjection, IsInjective
<1>6. Cardinality(S) = n - 2
  BY <1>3, <1>5, FS_Bijection DEF ExistsBijection
<1> QED BY <1>6 DEF S

\* What m words with c different trigrams cost.
LEMMA RepetitionIs ==
  ASSUME NEW words, NEW m \in Nat, m = Len(words), NEW c \in Nat, c = Cardinality(Trigrams(words))
  PROVE  /\ Repetition(words) \in Int
         /\ m < 6 \/ c = m - 2 => Repetition(words) = 0
         /\ m >= 6 /\ 100 * (m - 2 - c) > 60 * (m - 2) => Repetition(words) = 450
<1> DEFINE whole == m - 2
           dups == whole - c
           rest == (1000 * dups) \div whole - 150
<1>1. Repetition(words) =
        CASE m < 6 \/ 100 * dups < 15 * whole -> 0
          [] m >= 6 /\ 100 * dups > 60 * whole -> 450
          [] OTHER -> rest
  BY DEF Repetition
<1>2. m >= 6 => rest \in Int
  <2>1. ASSUME m >= 6 PROVE whole \in Nat \ {0} /\ dups \in Int
    BY <2>1
  <2> HIDE DEF whole, dups
  <2> QED BY <2>1
<1> HIDE DEF rest
<1>3. CASE m < 6 \/ 100 * dups < 15 * whole
  <2>1. ~(m >= 6 /\ 100 * dups > 60 * whole)
    BY <1>3
  <2>2. Repetition(words) = 0
    BY <1>1, <1>3, <2>1
  <2> QED BY <2>1, <2>2
<1>4. CASE m >= 6 /\ 100 * dups > 60 * whole
  <2>1. ~(m < 6 \/ 100 * dups < 15 * whole) /\ c # m - 2
    BY <1>4
  <2>2. Repetition(words) = 450
    BY <1>1, <1>4, <2>1
  <2> QED BY <1>4, <2>1, <2>2
<1>5. CASE ~(m < 6 \/ 100 * dups < 15 * whole) /\ ~(m >= 6 /\ 100 * dups > 60 * whole)
  <2>1. Repetition(words) = rest
    BY <1>1, <1>5
  <2>2. m >= 6 /\ c # m - 2
    BY <1>5
  <2> QED BY <1>2, <1>5, <2>1, <2>2
<1> QED BY <1>3, <1>4, <1>5

\* The repetition signal is a number.
LEMMA RepetitionType ==
  ASSUME NEW n \in SentenceLengths, NEW k \in Nat
  PROVE  Repetition(Sentence(n, k)) \in Int
<1>1. n \in Nat \ {0}
  BY LengthIsNat
<1>2. Len(Sentence(n, k)) \in Nat /\ Cardinality(Trigrams(Sentence(n, k))) \in Nat
  <2>1. Len(Sentence(n, k)) = n * k /\ Cardinality(Trigrams(Sentence(n, k))) \in 0..n
    BY <1>1, SentenceIs, FewTrigrams
  <2>2. n * k \in Nat
    BY <1>1
  <2> QED BY <1>1, <2>1, <2>2
<1> QED BY <1>2, RepetitionIs

\* A text of degrade mode: five or four times the same sentence.
LEMMA LoopPenalty ==
  ASSUME NEW n \in SentenceLengths, NEW k \in {4, 5}, n \in {11, 13, 15}
  PROVE  Repetition(Sentence(n, k)) = 450
<1> DEFINE m == Len(Sentence(n, k))
           c == Cardinality(Trigrams(Sentence(n, k)))
<1>1. n \in Nat \ {0} /\ k \in Nat
  OBVIOUS
<1>2. m = n * k /\ c \in 0..n
  BY <1>1, SentenceIs, FewTrigrams
<1> HIDE DEF m, c
<1>3. m \in Nat /\ c \in Nat /\ m >= 6 /\ 100 * (m - 2 - c) > 60 * (m - 2)
  BY <1>1, <1>2
<1> QED BY <1>3, RepetitionIs DEF m, c

\* A sentence that is said once repeats nothing.
LEMMA NoLoopNoPenalty ==
  ASSUME NEW n \in {1, 10, 60}
  PROVE  Repetition(Sentence(n, 1)) = 0
<1> DEFINE m == Len(Sentence(n, 1))
           c == Cardinality(Trigrams(Sentence(n, 1)))
<1>1. n \in Nat \ {0} /\ n \in SentenceLengths /\ 1 \in Nat /\ n * 1 = n
  BY DEF SentenceLengths
<1>2. m = n /\ c \in 0..n /\ (n >= 2 => c = n - 2)
  BY <1>1, SentenceIs, FewTrigrams, DifferentTrigrams
<1> HIDE DEF m, c
<1>3. m \in Nat /\ c \in Nat /\ (m < 6 \/ c = m - 2)
  BY <1>1, <1>2
<1> QED BY <1>3, RepetitionIs DEF m, c

-----------------------------------------------------------------------------
(* Replies.                                                                 *)

\* What a reply's signals weigh, by its kind.
LEMMA ReplySignals ==
  ASSUME NEW reply \in Replies
  PROVE  /\ reply.bytes \in Nat /\ reply.hits \in 0..2 /\ reply.foreign \in BOOLEAN
         /\ Repetition(reply.words) \in Int
         /\ reply.kind = "degraded" => Repetition(reply.words) = 450 /\ reply.hits >= 1
         /\ reply.kind = "answer" => Repetition(reply.words) = 0 /\ reply.hits = 0
<1> DEFINE Good(r) == /\ r.bytes \in Nat /\ r.hits \in 0..2 /\ r.foreign \in BOOLEAN
                      /\ Repetition(r.words) \in Int
                      /\ r.kind = "degraded" => Repetition(r.words) = 450 /\ r.hits >= 1
                      /\ r.kind = "answer" => Repetition(r.words) = 0 /\ r.hits = 0
<1>1. ASSUME NEW words, NEW bytes \in Nat, NEW foreign \in BOOLEAN, Repetition(words) \in Int
      PROVE  /\ Repetition(words) = 0 => Good(Reply("answer", words, bytes, 0, foreign))
             /\ Good(Reply("loop", words, bytes, 0, foreign))
             /\ Good(Reply("refusal", words, bytes, 1, foreign))
             /\ Good(Reply("foreign", words, bytes, 0, foreign))
  BY <1>1 DEF Reply
<1> HIDE DEF Good
<1>2. ASSUME NEW w \in {1, 10, 60} PROVE Good(Reply("answer", Sentence(w, 1), 5 * w, 0, FALSE))
  <2>1. Repetition(Sentence(w, 1)) = 0 /\ 0 \in Int /\ 5 * w \in Nat /\ FALSE \in BOOLEAN
    BY NoLoopNoPenalty
  <2> QED BY <1>1, <2>1, Zenon
<1>3. ASSUME NEW n \in 0..2 PROVE Good(degradedText(n))
  <2> DEFINE a == Reply("degraded", Sentence(11, 5), 290, 1, FALSE)
             b == Reply("degraded", Sentence(13, 4), 244, 2, FALSE)
             c == Reply("degraded", Sentence(15, 4), 268, 2, FALSE)
  <2>1. /\ Repetition(Sentence(11, 5)) = 450 /\ Repetition(Sentence(13, 4)) = 450
        /\ Repetition(Sentence(15, 4)) = 450
        /\ 450 \in Int /\ 290 \in Nat /\ 244 \in Nat /\ 268 \in Nat /\ FALSE \in BOOLEAN
    BY LoopPenalty DEF SentenceLengths
  <2>3. Good(a)
    <3> DEFINE w == Sentence(11, 5)
    <3>1. a = [kind |-> "degraded", words |-> w, bytes |-> 290, hits |-> 1, foreign |-> FALSE]
      BY DEF Reply
    <3>2. Repetition(w) = 450
      BY <2>1
    <3> HIDE DEF a, w
    <3> QED BY <3>1, <3>2 DEF Good
  <2>4. Good(b)
    <3> DEFINE w == Sentence(13, 4)
    <3>1. b = [kind |-> "degraded", words |-> w, bytes |-> 244, hits |-> 2, foreign |-> FALSE]
      BY DEF Reply
    <3>2. Repetition(w) = 450
      BY <2>1
    <3> HIDE DEF b, w
    <3> QED BY <3>1, <3>2 DEF Good
  <2>5. Good(c)
    <3> DEFINE w == Sentence(15, 4)
    <3>1. c = [kind |-> "degraded", words |-> w, bytes |-> 268, hits |-> 2, foreign |-> FALSE]
      BY DEF Reply
    <3>2. Repetition(w) = 450
      BY <2>1
    <3> HIDE DEF c, w
    <3> QED BY <3>1, <3>2 DEF Good
  <2>6. degradedText(n) = CASE n % 3 = 0 -> a [] n % 3 = 1 -> b [] OTHER -> c
    BY DEF degradedText
  <2> HIDE DEF a, b, c
  <2>7. degradedText(n) \in {a, b, c}
    BY <2>6
  <2> QED BY <2>3, <2>4, <2>5, <2>7
<1>4. /\ Good(Reply("loop", Sentence(4, 5), 100, 0, FALSE))
      /\ Good(Reply("refusal", Sentence(20, 1), 110, 1, FALSE))
      /\ Good(Reply("foreign", Sentence(12, 1), 120, 0, TRUE))
  <2>1. /\ Repetition(Sentence(4, 5)) \in Int /\ Repetition(Sentence(20, 1)) \in Int
        /\ Repetition(Sentence(12, 1)) \in Int
    BY RepetitionType DEF SentenceLengths
  <2> QED BY <1>1, <2>1
<1>5. \/ \E w \in {1, 10, 60} : reply = Reply("answer", Sentence(w, 1), 5 * w, 0, FALSE)
      \/ reply = Reply("loop", Sentence(4, 5), 100, 0, FALSE)
      \/ reply = Reply("refusal", Sentence(20, 1), 110, 1, FALSE)
      \/ reply = Reply("foreign", Sentence(12, 1), 120, 0, TRUE)
      \/ \E n \in 0..2 : reply = degradedText(n)
  BY Zenon DEF Replies
<1>6. Good(reply)
  BY <1>2, <1>3, <1>4, <1>5, Zenon
<1> QED BY <1>6 DEF Good

-----------------------------------------------------------------------------
(* Evaluate, step by step.                                                  *)

Evaluators == {"shared"} \cup Callers

\* A caller before, in and after an evaluation.
Waiting == [step : {"idle"}, with : Evaluators, rest : Nat]
Examined == [step : {"record", "embed"}, with : Evaluators, reply : Replies, rest : Nat, score : Int]
Judged == [step : {"verdict"}, with : Evaluators, rest : Nat, kind : {r.kind : r \in Replies},
           acceptable : BOOLEAN, mismatch : BOOLEAN]

\* What a reply has lost so far: all of its repetition and at most the length's weight.
Charged(x) ==
    \E penalty \in 0..250 : x.score = 1000 - Repetition(x.reply.words) - penalty

\* Every baseline holds lengths that replies have, so the length costs a reply at most its
\* weight, whoever recorded them and in whatever order; repetition, which the baseline has
\* no part in, has been charged in full.
EvaluatorInv ==
    /\ lengths \in [Evaluators -> Baselines]
    /\ evaluating \in [Callers -> Waiting \cup Examined \cup Judged]
    /\ \A c \in Callers : evaluating[c] \in Examined => Charged(evaluating[c])
    /\ VerdictIsFair

\* A fresh evaluator has a baseline.
LEMMA EmptyBaseline ==
  ASSUME EvaluatorAssumption
  PROVE  EmptyRing(LengthWindow) \in Baselines
<1> DEFINE e == EmptyRing(LengthWindow)
<1>1. LengthWindow \in Nat \ {0}
  BY DEF EvaluatorAssumption
<1>2. /\ e \in [slots : [0..LengthWindow - 1 -> Nat], idx : 0..LengthWindow - 1, filled : BOOLEAN]
      /\ RingLen(e) = 0
  BY <1>1 DEF EmptyRing, RingLen
<1> HIDE DEF e
<1> QED BY <1>2 DEF Baselines, e

\* Recording a length keeps it one, also when the window wraps round.
LEMMA PutBaseline ==
  ASSUME EvaluatorAssumption, NEW ring \in Baselines, NEW v \in Nat \ {0}
  PROVE  RingPut(ring, v) \in Baselines
<1> DEFINE n == LengthWindow
           next == (ring.idx + 1) % n
           r == RingPut(ring, v)
<1>1. n \in Nat \ {0} /\ Capacity(ring) = n
  BY BaselineLength DEF EvaluatorAssumption
<1>2. /\ ring.slots \in [0..n - 1 -> Nat] /\ ring.idx \in 0..n - 1 /\ ring.filled \in BOOLEAN
      /\ RingLen(ring) = IF ring.filled THEN n ELSE ring.idx
      /\ \A i \in 0..RingLen(ring) - 1 : ring.slots[i] > 0
  BY <1>1 DEF Baselines, RingLen
<1>3. next = IF ring.idx + 1 = n THEN 0 ELSE ring.idx + 1
  <2>1. CASE ring.idx + 1 = n
    BY <1>1, <1>2, <2>1, ModOnce
  <2>2. CASE ring.idx + 1 # n
    <3>1. ring.idx + 1 \in 0..n - 1
      BY <1>1, <1>2, <2>2
    <3>2. (ring.idx + 1) % n = ring.idx + 1
      BY <1>1, <3>1, ModSmall
    <3> QED BY <2>2, <3>2
  <2> QED BY <2>1, <2>2
<1>4. r = [slots |-> [ring.slots EXCEPT ![ring.idx] = v], idx |-> next,
           filled |-> ring.filled \/ next = 0]
  BY <1>1 DEF RingPut
<1>5. next \in 0..n - 1 /\ (next = 0 <=> ring.idx + 1 = n)
  BY <1>1, <1>2, <1>3
<1> HIDE DEF next, r
<1>6. /\ r.slots = [ring.slots EXCEPT ![ring.idx] = v] /\ r.idx = next
      /\ r.filled = (ring.filled \/ next = 0)
  BY <1>4
<1>7. r.filled \in BOOLEAN /\ (r.filled <=> ring.filled \/ next = 0)
  BY <1>6, Zenon
<1>8. r.slots \in [0..n - 1 -> Nat]
  BY <1>2, <1>6
<1>9. r \in [slots : [0..n - 1 -> Nat], idx : 0..n - 1, filled : BOOLEAN]
  <2>1. r = [slots |-> r.slots, idx |-> r.idx, filled |-> r.filled]
    BY <1>4
  <2> QED BY <1>5, <1>6, <1>7, <1>8, <2>1
<1>10. RingLen(r) = IF r.filled THEN n ELSE next
  <2>1. Capacity(r) = n
    <3>1. DOMAIN r.slots = 0..n - 1
      BY <1>8
    <3> QED BY <1>1, <3>1, RingCapacity
  <2> QED BY <1>6, <2>1 DEF RingLen
<1>11. ASSUME NEW i \in 0..RingLen(r) - 1 PROVE r.slots[i] > 0
  <2>1. i \in 0..n - 1
    BY <1>1, <1>5, <1>10
  <2>2. CASE i = ring.idx
    BY <1>2, <1>6, <2>2
  <2>3. CASE i # ring.idx
    <3>1. i \in 0..RingLen(ring) - 1
      BY <1>2, <1>3, <1>5, <1>7, <1>10, <2>1, <2>3
    <3>2. r.slots[i] = ring.slots[i]
      BY <1>2, <1>6, <2>1, <2>3
    <3> QED BY <1>2, <3>1, <3>2
  <2> QED BY <2>2, <2>3
<1> QED BY <1>9, <1>11 DEF Baselines, r
\* A step of one caller keeps the invariant when its new state obeys it.
LEMMA CallerStep ==
  ASSUME EvaluatorInv, NEW c \in Callers, NEW X \in Waiting \cup Examined \cup Judged,
         evaluating' = [evaluating EXCEPT ![c] = X], lengths' \in [Evaluators -> Baselines],
         X \in Examined => Charged(X),
         X.step = "verdict" => /\ X.kind = "degraded" => ~X.acceptable
                               /\ X.kind = "answer" /\ ~X.mismatch => X.acceptable
  PROVE  EvaluatorInv'
<1>1. evaluating' \in [Callers -> Waiting \cup Examined \cup Judged]
  BY DEF EvaluatorInv
<1>2. evaluating'[c] = X /\ \A d \in Callers : d # c => evaluating'[d] = evaluating[d]
  BY DEF EvaluatorInv
<1>3. ASSUME NEW d \in Callers, evaluating'[d] \in Examined PROVE Charged(evaluating'[d])
  <2>1. CASE d = c
    BY <1>2, <1>3, <2>1
  <2>2. CASE d # c
    BY <1>2, <1>3, <2>2 DEF EvaluatorInv
  <2> QED BY <2>1, <2>2
<1>4. VerdictIsFair'
  <2>1. VerdictIsFair
    BY DEF EvaluatorInv
  <2> QED BY <1>2, <2>1 DEF VerdictIsFair
<1>5. \A d \in Callers : evaluating'[d] \in Examined => Charged(evaluating'[d])
  BY <1>3
<1>6. (\A d \in Callers : evaluating[d] \in Examined => Charged(evaluating[d]))'
  BY <1>5 DEF Examined, Charged
<1> QED BY <1>1, <1>4, <1>6 DEF EvaluatorInv

\* A caller that is between evaluations has an evaluator and replies to come.
LEMMA CallerTypes ==
  ASSUME EvaluatorInv, NEW c \in Callers
  PROVE  /\ evaluating[c].with \in Evaluators /\ evaluating[c].rest \in Nat
         /\ evaluating[c].step \in {"record", "embed"} <=> evaluating[c] \in Examined
<1>1. evaluating[c] \in Waiting \cup Examined \cup Judged
  BY DEF EvaluatorInv
<1> QED BY <1>1 DEF Waiting, Examined, Judged

\* Evaluate keeps the invariant.
LEMMA EvaluateStep ==
  ASSUME EvaluatorInv, EvaluatorAssumption, NEW c \in Callers, Evaluate(c)
  PROVE  EvaluatorInv'
<1>1. ASSUME NEW e \in Evaluators, NEW reply \in Replies, NEW rest \in Nat,
             Examine(c, e, reply, rest), UNCHANGED lengths
      PROVE  EvaluatorInv'
  <2> DEFINE rep == Repetition(reply.words)
             penalty == LengthAnomaly(reply.bytes, lengths[e])
             X == [step |-> "record", with |-> e, reply |-> reply, rest |-> rest,
                   score |-> 1000 - rep - penalty]
  <2>1. evaluating' = [evaluating EXCEPT ![c] = X]
    BY <1>1 DEF Examine
  <2>2. lengths \in [Evaluators -> Baselines] /\ lengths' = lengths
    BY <1>1 DEF EvaluatorInv
  <2>3. reply.bytes \in Nat /\ lengths[e] \in Baselines
    BY <2>2, ReplySignals
  <2>4. penalty \in 0..250
    BY <2>3, LengthPenalty
  <2>5. rep \in Int
    BY ReplySignals
  <2> HIDE DEF rep, penalty
  <2>6. X \in Examined
    BY <2>4, <2>5 DEF Examined
  <2>7. X.score = 1000 - Repetition(X.reply.words) - penalty /\ X.step # "verdict"
    BY DEF rep
  <2>8. Charged(X)
    BY <2>4, <2>7 DEF Charged
  <2> HIDE DEF X
  <2> QED BY <2>1, <2>2, <2>6, <2>7, <2>8, CallerStep
<1>2. evaluating[c].rest \in Nat
  BY CallerTypes
<1>3. evaluating[c].rest > 0 => evaluating[c].rest - 1 \in Nat
  BY <1>2
<1>4. "shared" \in Evaluators /\ c \in Evaluators /\ 0 \in Nat
  BY DEF Evaluators
<1>5. UNCHANGED lengths
  BY DEF Evaluate
<1>6. PICK reply \in Replies :
         \/ evaluating[c].rest = 0 /\ Examine(c, "shared", reply, 0)
         \/ evaluating[c].rest > 0 /\ Examine(c, c, reply, evaluating[c].rest - 1)
  BY DEF Evaluate
<1> QED BY <1>1, <1>3, <1>4, <1>5, <1>6

\* Recording a length keeps it: the score was computed before.
LEMMA RecordStep ==
  ASSUME EvaluatorInv, EvaluatorAssumption, NEW c \in Callers, RecordLength(c)
  PROVE  EvaluatorInv'
<1> DEFINE x == evaluating[c]
           X == [x EXCEPT !.step = "embed"]
<1>1. x.step = "record"
  BY DEF RecordLength
<1>2. x \in Examined
  BY <1>1, CallerTypes
<1>3. evaluating' = [evaluating EXCEPT ![c] = X]
  BY DEF RecordLength
<1>4. /\ lengths' = [lengths EXCEPT ![x.with] = IF x.reply.bytes > 0
                                                THEN RingPut(@, x.reply.bytes) ELSE @]
      /\ lengths \in [Evaluators -> Baselines]
  BY DEF RecordLength, EvaluatorInv
<1>5. Charged(x)
  BY <1>2 DEF EvaluatorInv
<1> HIDE DEF x
<1>6. x.with \in Evaluators /\ x.reply \in Replies /\ X \in Examined
  BY <1>2 DEF Examined
<1>7. x.reply.bytes \in Nat
  BY <1>6, ReplySignals
<1>8. lengths[x.with] \in Baselines
  BY <1>4, <1>6
<1>9. x.reply.bytes > 0 => RingPut(lengths[x.with], x.reply.bytes) \in Baselines
  BY <1>7, <1>8, PutBaseline
<1>10. lengths' \in [Evaluators -> Baselines]
  BY <1>4, <1>6, <1>8, <1>9
<1>11. X.score = x.score /\ X.reply = x.reply /\ X.step # "verdict"
  BY <1>2 DEF Examined
<1> HIDE DEF X
<1>12. Charged(X)
  BY <1>5, <1>11 DEF Charged
<1> QED BY <1>3, <1>6, <1>10, <1>11, <1>12, CallerStep

\* The verdict on a reply that has been examined is fair.
LEMMA FairVerdict ==
  ASSUME EvaluatorAssumption, NEW x \in Examined, Charged(x), NEW coherence \in Coherences,
         NEW foreignPrompt \in BOOLEAN, NEW X, X = Conclude(x, coherence, foreignPrompt)
  PROVE  /\ X \in Judged
         /\ X.kind = "degraded" => ~X.acceptable
         /\ X.kind = "answer" /\ ~X.mismatch => X.acceptable
<1> DEFINE reply == x.reply
           refusal == RefusalMarkers(reply.hits)
           language == LanguageMismatch(reply, foreignPrompt)
           rep == Repetition(reply.words)
           good == x.score - refusal - coherence - language >= QualityAcceptable
           bad == language > 0
<1>1. PICK penalty \in 0..250 : x.score = 1000 - rep - penalty
  BY DEF Charged
<1>2. reply \in Replies /\ x.with \in Evaluators /\ x.rest \in Nat /\ x.score \in Int
  BY DEF Examined
<1>3. coherence \in 0..200
  <2>1. \A sim \in Similarities : sim \in 0..100
    BY DEF EvaluatorAssumption
  <2> QED BY <2>1, CoherencePenalty DEF Coherences
<1>4. X = [step |-> "verdict", with |-> x.with, rest |-> x.rest, kind |-> reply.kind,
           acceptable |-> good, mismatch |-> bad]
  BY Zenon DEF Conclude
<1> HIDE DEF reply
<1>6. /\ reply.kind = "degraded" => rep = 450 /\ reply.hits \in 1..2
      /\ reply.kind = "answer" => rep = 0 /\ reply.hits = 0
      /\ reply.hits \in 0..2 /\ reply.bytes \in Nat /\ reply.foreign \in BOOLEAN /\ rep \in Int
  BY <1>2, ReplySignals
<1>7. language \in Nat
  BY <1>6, LanguagePenalty
<1>8. /\ refusal \in Nat /\ (reply.kind = "degraded" => refusal >= 140)
      /\ reply.kind = "answer" => refusal = 0
  BY <1>6 DEF RefusalMarkers
<1> HIDE DEF refusal, language, rep
<1>9. reply.kind = "degraded" => ~good
  BY <1>1, <1>3, <1>6, <1>7, <1>8 DEF QualityAcceptable
<1>10. reply.kind = "answer" /\ ~bad => good
  BY <1>1, <1>3, <1>6, <1>7, <1>8 DEF QualityAcceptable
<1>11. good \in BOOLEAN /\ bad \in BOOLEAN
  BY <1>2, <1>3, <1>7, <1>8
<1>12. reply.kind \in {r.kind : r \in Replies}
  BY <1>2
<1> HIDE DEF good, bad
<1>13. X.kind = reply.kind /\ X.acceptable = good /\ X.mismatch = bad
  BY <1>4
<1>14. X \in Judged
  BY <1>2, <1>4, <1>11, <1>12 DEF Judged
<1> QED BY <1>9, <1>10, <1>13, <1>14, Zenon

\* The verdict keeps it: this is where a degraded reply has to have lost enough.
LEMMA VerdictStep ==
  ASSUME EvaluatorInv, EvaluatorAssumption, NEW c \in Callers, Verdict(c)
  PROVE  EvaluatorInv'
<1> DEFINE x == evaluating[c]
<1>1. x \in Examined /\ x.step = "embed"
  BY CallerTypes DEF Verdict
<1>2. Charged(x)
  BY <1>1 DEF EvaluatorInv
<1>3. PICK coherence \in Coherences, foreignPrompt \in BOOLEAN :
        evaluating' = [evaluating EXCEPT ![c] = Conclude(x, coherence, foreignPrompt)]
  BY DEF Verdict
<1> DEFINE X == Conclude(x, coherence, foreignPrompt)
<1> HIDE DEF x
<1>4. /\ X \in Judged
      /\ X.kind = "degraded" => ~X.acceptable
      /\ X.kind = "answer" /\ ~X.mismatch => X.acceptable
  BY <1>1, <1>2, FairVerdict
<1>5. lengths' \in [Evaluators -> Baselines]
  BY DEF Verdict, EvaluatorInv
<1>6. evaluating' = [evaluating EXCEPT ![c] = X]
  BY <1>3
<1> HIDE DEF X
<1>7. X \notin Examined
  BY <1>4 DEF Judged, Examined
<1> QED BY <1>4, <1>5, <1>6, <1>7, CallerStep

\* Whatever replies came before and whoever evaluates at the same time, a reply of degrade
\* mode is unacceptable and a plain answer is acceptable: the invariant adds that no window
\* of lengths can make the length signal cost more than its weight.
THEOREM EvaluatorInvariant == EvaluatorSpec => []EvaluatorInv
<1>1. EvaluatorInit => EvaluatorInv
  <2> SUFFICES ASSUME EvaluatorInit PROVE EvaluatorInv
    OBVIOUS
  <2>1. lengths \in [Evaluators -> Baselines]
    BY EvaluatorAssumption, EmptyBaseline DEF EvaluatorInit, Evaluators
  <2>2. Idle \in Waiting /\ Idle \notin Examined /\ Idle.step # "verdict"
    BY DEF Idle, Waiting, Examined, Evaluators
  <2>3. evaluating = [c \in Callers |-> Idle]
    BY DEF EvaluatorInit
  <2> QED BY <2>1, <2>2, <2>3 DEF EvaluatorInv, VerdictIsFair
<1>2. EvaluatorInv /\ [EvaluatorNext]_evaluatorVars => EvaluatorInv'
  <2> SUFFICES ASSUME EvaluatorInv, [EvaluatorNext]_evaluatorVars PROVE EvaluatorInv'
    OBVIOUS
  <2>1. CASE UNCHANGED evaluatorVars
    BY <2>1 DEF EvaluatorInv, VerdictIsFair, evaluatorVars
  <2>2. ASSUME NEW c \in Callers, Compare(c) PROVE EvaluatorInv'
    <3>1. PICK sides \in 1..2 :
            evaluating' = [evaluating EXCEPT ![c] = [step |-> "idle", with |-> c, rest |-> sides]]
      BY <2>2 DEF Compare
    <3> DEFINE X == [step |-> "idle", with |-> c, rest |-> sides]
    <3>2. X \in Waiting /\ X \notin Examined /\ X.step # "verdict"
      BY DEF Waiting, Examined, Evaluators
    <3>3. lengths' \in [Evaluators -> Baselines]
      BY <2>2, EvaluatorAssumption, EmptyBaseline DEF Compare, EvaluatorInv
    <3> HIDE DEF X
    <3>4. evaluating' = [evaluating EXCEPT ![c] = X]
      BY <3>1 DEF X
    <3> QED BY <3>2, <3>3, <3>4, CallerStep
  <2>3. ASSUME NEW c \in Callers, Evaluate(c) \/ RecordLength(c) \/ Verdict(c) PROVE EvaluatorInv'
    BY <2>3, EvaluatorAssumption, EvaluateStep, RecordStep, VerdictStep
  <2> QED BY <2>1, <2>2, <2>3 DEF EvaluatorNext
<1> QED BY <1>1, <1>2, PTL DEF EvaluatorSpec

\* A reply of degrade mode is a semantic failure and a plain answer is not, whatever the
\* evaluator's window holds and whoever else evaluates at the same time (Evaluate).
THEOREM EvaluatorFair == EvaluatorSpec => []VerdictIsFair
<1>1. EvaluatorInv => VerdictIsFair
  BY DEF EvaluatorInv
<1> QED BY <1>1, EvaluatorInvariant, PTL

-----------------------------------------------------------------------------
(***************************************************************************)
(* The transcript of a ReAct run.                                          *)
(***************************************************************************)

-----------------------------------------------------------------------------
(* Lines: every word is at least a byte long.                               *)

Line == {l \in [words : Nat, bytes : Nat, turn : Nat, obs : BOOLEAN] : l.words <= l.bytes}

\* The code's own lines are lines.
LEMMA TextLine ==
  ASSUME NEW w \in Nat, NEW t \in Nat
  PROVE  Text(w, t) \in Line /\ Bracket(w) \in Line
  BY DEF Text, Bracket, Line

\* The fields of a line.
LEMMA LineFields ==
  ASSUME NEW l \in Line
  PROVE  /\ l.words \in Nat /\ l.bytes \in Nat /\ l.turn \in Nat /\ l.obs \in BOOLEAN
         /\ l.words <= l.bytes
         /\ l = [words |-> l.words, bytes |-> l.bytes, turn |-> l.turn, obs |-> l.obs]
  BY DEF Line

\* A line that no longer starts with "Observation:" is a line of the same size.
LEMMA PlainLine ==
  ASSUME NEW y \in Line
  PROVE  [y EXCEPT !.obs = FALSE] \in Line /\ [y EXCEPT !.obs = FALSE].bytes = y.bytes
<1>1. y \in [words : Nat, bytes : Nat, turn : Nat, obs : BOOLEAN] /\ y.words <= y.bytes
  BY DEF Line
<1>2. [y EXCEPT !.obs = FALSE] \in [words : Nat, bytes : Nat, turn : Nat, obs : BOOLEAN]
  BY <1>1
<1>3. /\ [y EXCEPT !.obs = FALSE].words = y.words
      /\ [y EXCEPT !.obs = FALSE].bytes = y.bytes
  BY <1>1
<1> QED BY <1>1, <1>2, <1>3 DEF Line

\* A product is no smaller than a factor.
LEMMA Product ==
  ASSUME NEW a \in Nat, NEW b \in Nat
  PROVE  /\ a * b \in Nat
         /\ a > 0 => b <= a * b
  OBVIOUS

\* a * b / c, rounded up, is at most b when a is at most c.
LEMMA Share ==
  ASSUME NEW a \in Nat, NEW b \in Nat, NEW c \in Nat \ {0}, a <= c
  PROVE  (a * b + c - 1) \div c \in Nat /\ (a * b + c - 1) \div c <= b
<1>1. a * b \in Nat /\ c * b \in Nat /\ a * b <= c * b
  OBVIOUS
<1> DEFINE p == a * b + c - 1
           q == p \div c
<1>2. p \in Nat /\ p < c * b + c
  BY <1>1
<1> HIDE DEF p
<1>3. q \in Nat /\ c * q <= p
  BY <1>2
<1> HIDE DEF q
<1>4. c * q < c * b + c
  BY <1>1, <1>2, <1>3
<1>5. ASSUME q > b PROVE FALSE
  <2>1. q >= b + 1
    BY <1>3, <1>5
  <2>2. c * q >= c * (b + 1)
    BY <1>3, <2>1
  <2>3. c * (b + 1) = c * b + c
    OBVIOUS
  <2> QED BY <1>1, <1>3, <1>4, <2>2, <2>3
<1>6. q <= b
  BY <1>3, <1>5
<1> QED BY <1>3, <1>6 DEF p, q

\* A cut line is a line, and fits.
LEMMA CutLine ==
  ASSUME NEW l \in Line, NEW b \in Nat
  PROVE  Cut(l, b) \in Line /\ Cut(l, b).bytes <= b
<1>0. /\ l.words \in Nat /\ l.bytes \in Nat /\ l.turn \in Nat /\ l.obs \in BOOLEAN
      /\ l.words <= l.bytes
      /\ l = [words |-> l.words, bytes |-> l.bytes, turn |-> l.turn, obs |-> l.obs]
  BY LineFields
<1>1. CASE l.bytes <= b
  BY <1>0, <1>1 DEF Cut
<1>2. CASE ~(l.bytes <= b)
  <2> DEFINE q == (l.words * b + l.bytes - 1) \div l.bytes
  <2>1. l.bytes \in Nat \ {0}
    BY <1>0, <1>2
  <2>2. q \in Nat /\ q <= b
    BY <1>0, <2>1, Share
  <2>3. Cut(l, b) = [l EXCEPT !.words = q, !.bytes = b]
    BY <1>2 DEF Cut
  <2> HIDE DEF q
  <2>4. Cut(l, b) = [words |-> q, bytes |-> b, turn |-> l.turn, obs |-> l.obs]
    BY <1>0, <2>3
  <2> QED BY <1>0, <2>2, <2>4 DEF Line
<1> QED BY <1>1, <1>2

-----------------------------------------------------------------------------
(* Sizes of several lines.                                                  *)

\* Several lines have at least as many bytes as words.
LEMMA SumSizes ==
  ASSUME NEW lines \in Seq(Line)
  PROVE  /\ SumOf("words", lines) \in Nat /\ SumOf("bytes", lines) \in Nat
         /\ SumOf("words", lines) <= SumOf("bytes", lines)
         /\ estimateTokens(lines) \in Nat
<1> DEFINE n == Len(lines)
           v == [i \in 1..n |-> lines[i]["words"]]
           w == [i \in 1..n |-> lines[i]["bytes"]]
<1>1. n \in Nat
  OBVIOUS
<1>2. ASSUME NEW i \in 1..n PROVE v[i] \in Nat /\ w[i] \in Nat /\ v[i] <= w[i]
  <2>1. lines[i] \in Line
    OBVIOUS
  <2>2. lines[i].words \in Nat /\ lines[i].bytes \in Nat /\ lines[i].words <= lines[i].bytes
    BY <2>1, LineFields
  <2> QED BY <2>2
<1>3. SumOf("words", lines) = SumTo(n, v) /\ SumOf("bytes", lines) = SumTo(n, w)
  BY DEF SumOf
<1> HIDE DEF n, v, w
<1>4. SumTo(n, v) \in Nat /\ SumTo(n, w) \in Nat /\ SumTo(n, v) <= SumTo(n, w)
  BY <1>1, <1>2, SumToMonotone
<1>5. estimateTokens(lines) \in Nat
  BY <1>3, <1>4 DEF estimateTokens
<1> QED BY <1>3, <1>4, <1>5

\* One more line in front adds its bytes.
LEMMA SumCons ==
  ASSUME NEW x \in Line, NEW lines \in Seq(Line)
  PROVE  SumOf("bytes", <<x>> \o lines) = x.bytes + SumOf("bytes", lines)
<1> DEFINE n == Len(lines)
           all == <<x>> \o lines
           v == [i \in 1..n + 1 |-> all[i]["bytes"]]
           w == [i \in 1..n |-> lines[i]["bytes"]]
<1>1. n \in Nat /\ all \in Seq(Line) /\ Len(all) = n + 1 /\ all[1] = x
  OBVIOUS
<1>2. \A i \in 1..n : all[i + 1] = lines[i]
  OBVIOUS
<1>3. SumOf("bytes", all) = SumTo(n + 1, v) /\ SumOf("bytes", lines) = SumTo(n, w)
  BY <1>1 DEF SumOf
<1> HIDE DEF all, n
<1>4. ASSUME NEW i \in 1..n + 1 PROVE v[i] \in Nat
  <2>1. all[i] \in Line
    BY <1>1
  <2>2. all[i].bytes \in Nat
    BY <2>1, LineFields
  <2> QED BY <2>2
<1>5. ASSUME NEW i \in 1..n PROVE v[i + 1] = w[i]
  <2>1. i + 1 \in 1..n + 1
    BY <1>1
  <2> QED BY <1>2, <2>1
<1>6. v[1] = x.bytes
  BY <1>1
<1> HIDE DEF v, w
<1>7. SumTo(n + 1, v) = v[1] + SumTo(n, w)
  BY <1>1, <1>4, <1>5, SumToFirst
<1> QED BY <1>3, <1>6, <1>7 DEF all

-----------------------------------------------------------------------------
(* What a summary may be.                                                   *)

\* A part of the lines.
LEMMA TailLines ==
  ASSUME NEW lines \in Seq(Line), NEW k \in 0..Len(lines)
  PROVE  /\ SubSeq(lines, k + 1, Len(lines)) \in Seq(Line)
         /\ SubSeq(lines, 1, k) \in Seq(Line)
         /\ Len(SubSeq(lines, k + 1, Len(lines))) = Len(lines) - k
  OBVIOUS

\* The last n bytes of the lines are at most n bytes.
LEMMA LastBytesFit ==
  ASSUME NEW lines \in Seq(Line), NEW n \in Nat
  PROVE  LastBytes(lines, n) \in Seq(Line) /\ SumOf("bytes", LastBytes(lines, n)) <= n
<1> DEFINE After(k) == SubSeq(lines, k + 1, Len(lines))
           Left(k) == n - SumOf("bytes", After(k))
           kept == {k \in 1..Len(lines) : Left(k) > 0}
           first == Min(kept)
           cut == [Cut(lines[first], Left(first)) EXCEPT !.obs = FALSE]
           head == IF lines[first].bytes <= Left(first) THEN lines[first] ELSE cut
<1>1. LastBytes(lines, n) = IF kept = {} THEN <<>> ELSE <<head>> \o After(first)
  BY DEF LastBytes
<1>2. CASE kept = {}
  <2>1. <<>> \in Seq(Line) /\ Len(<<>>) = 0
    OBVIOUS
  <2>2. SumOf("bytes", <<>>) = 0
    BY <2>1, SumToStep DEF SumOf
  <2> HIDE DEF kept
  <2> QED BY <1>1, <1>2, <2>1, <2>2
<1>3. CASE kept # {}
  <2>1. \A k \in kept : k \in Nat
    OBVIOUS
  <2>2. first \in kept
    <3> HIDE DEF kept
    <3>1. \E k \in kept : \A j \in kept : k <= j
      BY <1>3, <2>1, LeastNat
    <3> QED BY <3>1 DEF Min
  <2>3. first \in 1..Len(lines) /\ Left(first) > 0
    BY <2>2
  <2> HIDE DEF first, kept
  <2>4. After(first) \in Seq(Line)
    BY <2>3, TailLines
  <2>5. SumOf("bytes", After(first)) \in Nat
    BY <2>4, SumSizes
  <2>6. Left(first) \in Nat
    BY <2>3, <2>5
  <2>7. lines[first] \in Line
    BY <2>3
  <2> DEFINE l == lines[first]
             b == Left(first)
  <2> HIDE DEF l, After
  <2>8. cut \in Line /\ cut.bytes <= b
    <3>1. Cut(l, b) \in Line /\ Cut(l, b).bytes <= b
      BY <2>6, <2>7, CutLine DEF l
    <3> DEFINE y == Cut(l, b)
    <3>2. y \in Line /\ y.bytes <= b
      BY <3>1
    <3> HIDE DEF y
    <3>3. [y EXCEPT !.obs = FALSE] \in Line /\ [y EXCEPT !.obs = FALSE].bytes = y.bytes
      BY <3>2, PlainLine
    <3>4. [y EXCEPT !.obs = FALSE].bytes <= b
      BY <3>2, <3>3
    <3> QED BY <3>3, <3>4 DEF y, l
  <2> HIDE DEF cut
  <2>9. head \in Line /\ head.bytes <= b
    BY <2>7, <2>8 DEF l
  <2>10. head.bytes \in Nat
    BY <2>9, LineFields
  <2> HIDE DEF head
  <2>11. SumOf("bytes", <<head>> \o After(first)) = head.bytes + SumOf("bytes", After(first))
    BY <2>4, <2>9, SumCons
  <2>12. <<head>> \o After(first) \in Seq(Line)
    BY <2>4, <2>9
  <2>13. head.bytes + SumOf("bytes", After(first)) <= n
    BY <2>5, <2>9, <2>10
  <2> QED BY <1>1, <1>3, <2>11, <2>12, <2>13
<1> QED BY <1>2, <1>3
\* A line with more words and bytes added to it, as many bytes as words at least.
LEMMA LongerLine ==
  ASSUME NEW l \in Line, NEW w \in Nat, NEW b \in Nat, w <= b
  PROVE  [l EXCEPT !.words = @ + w, !.bytes = @ + b] \in Line
<1>1. /\ l \in [words : Nat, bytes : Nat, turn : Nat, obs : BOOLEAN] /\ l.words <= l.bytes
      /\ l.words + w \in Nat /\ l.bytes + b \in Nat /\ l.words + w <= l.bytes + b
  BY DEF Line
<1> DEFINE y == [l EXCEPT !.words = @ + w, !.bytes = @ + b]
<1>2. y \in [words : Nat, bytes : Nat, turn : Nat, obs : BOOLEAN]
  BY <1>1
<1>3. y.words = l.words + w /\ y.bytes = l.bytes + b
  BY <1>1
<1> HIDE DEF y
<1>4. y \in Line
  BY <1>1, <1>2, <1>3 DEF Line
<1> QED BY <1>4 DEF y

\* A line of longer words.
LEMMA WiderText ==
  ASSUME NEW w \in Nat, NEW t \in Nat, NEW b \in Nat, w <= b
  PROVE  [Text(w, t) EXCEPT !.bytes = b] \in Line
<1> DEFINE l == Text(w, t)
           y == [l EXCEPT !.bytes = b]
<1>1. l \in [words : Nat, bytes : Nat, turn : Nat, obs : BOOLEAN] /\ l.words = w
  BY DEF Text
<1> HIDE DEF l
<1>2. y \in [words : Nat, bytes : Nat, turn : Nat, obs : BOOLEAN]
  BY <1>1
<1>3. y.words = w /\ y.bytes = b
  BY <1>1
<1> HIDE DEF y
<1>4. y \in Line
  BY <1>2, <1>3 DEF Line
<1> QED BY <1>4 DEF y, l

\* A line alone.
LEMMA OneLine ==
  ASSUME NEW x \in Line
  PROVE  <<x>> \in Seq(Line) /\ Len(<<x>>) = 1
  OBVIOUS

\* Lines after lines.
LEMMA JoinLines ==
  ASSUME NEW a \in Seq(Line), NEW b \in Seq(Line)
  PROVE  a \o b \in Seq(Line) /\ Len(a \o b) = Len(a) + Len(b) /\ Len(a) \in Nat /\ Len(b) \in Nat
  OBVIOUS

\* What abbreviate keeps of the observations has no more words than bytes.
LEMMA ExcerptsSizes ==
  ASSUME NEW older \in Seq(Line)
  PROVE  /\ Excerpts(older).words \in Nat /\ Excerpts(older).bytes \in Nat
         /\ Excerpts(older).words <= Excerpts(older).bytes
<1> DEFINE cut == [i \in 1..Len(older) |-> Cut(older[i], CharLimit)]
           Of(S, field) == [i \in 1..Len(older) |-> IF i \in S THEN cut[i][field] ELSE 0]
           obs == {i \in 1..Len(older) : older[i].obs}
           fits == {i \in obs : SumTo(i, Of(obs, "bytes")) <= MaxAbbrev}
           v == Of(fits, "words")
           w == Of(fits, "bytes")
           n == Len(older)
<1>1. /\ Excerpts(older).words = SumTo(n, v)
      /\ Excerpts(older).bytes = SumTo(n, w)
  BY DEF Excerpts
<1>2. n \in Nat
  OBVIOUS
<1>3. ASSUME NEW i \in 1..n PROVE v[i] \in Nat /\ w[i] \in Nat /\ v[i] <= w[i]
  <2>1. older[i] \in Line /\ CharLimit \in Nat
    BY TranscriptAssumption
  <2>2. cut[i] \in Line
    BY <2>1, CutLine
  <2>3. cut[i].words \in Nat /\ cut[i].bytes \in Nat /\ cut[i].words <= cut[i].bytes
    BY <2>2, LineFields
  <2> HIDE DEF cut, fits
  <2>4. CASE i \in fits
    BY <2>3, <2>4
  <2>5. CASE i \notin fits
    BY <2>5
  <2> QED BY <2>4, <2>5
<1> HIDE DEF v, w, n
<1>4. SumTo(n, v) \in Nat /\ SumTo(n, w) \in Nat /\ SumTo(n, v) <= SumTo(n, w)
  BY <1>2, <1>3, SumToMonotone
<1> QED BY <1>1, <1>4

\* abbreviate writes a line.
LEMMA AbbreviateLine ==
  ASSUME NEW older \in Seq(Line)
  PROVE  abbreviate(older) \in Line
<1> DEFINE e == Excerpts(older)
<1>1. e.words \in Nat /\ e.bytes \in Nat /\ e.words <= e.bytes
  BY ExcerptsSizes
<1>2. Bracket(4) \in Line /\ Bracket(2) \in Line
  BY TextLine
<1> HIDE DEF e
<1>3. [Bracket(2) EXCEPT !.words = @ + e.words, !.bytes = @ + e.bytes] \in Line
  BY <1>1, <1>2, LongerLine
<1>4. abbreviate(older) = IF e.n = 0 THEN Bracket(4)
                          ELSE [Bracket(2) EXCEPT !.words = @ + e.words, !.bytes = @ + e.bytes]
  BY DEF abbreviate, e
<1> QED BY <1>2, <1>3, <1>4

\* Whatever the fallback model answers, the summary is a line.
LEMMA SummaryLines ==
  ASSUME NEW older \in Seq(Line), NEW s \in callSummarizeLLM(older)
  PROVE  s \in Seq(Line) /\ Len(s) = 1
<1>1. CASE s = <<abbreviate(older)>>
  BY <1>1, AbbreviateLine
<1>2. ASSUME NEW w \in LineWords \ {0}, s = <<[Bracket(4) EXCEPT !.words = @ + w, !.bytes = @ + 4 * w]>>
      PROVE  s \in Seq(Line) /\ Len(s) = 1
  <2>1. w \in Nat /\ 4 * w \in Nat /\ w <= 4 * w /\ Bracket(4) \in Line
    BY TranscriptAssumption, TextLine
  <2> DEFINE y == [Bracket(4) EXCEPT !.words = @ + w, !.bytes = @ + 4 * w]
  <2>2. y \in Line
    BY <2>1, LongerLine
  <2>3. s = <<y>>
    BY <1>2
  <2> HIDE DEF y
  <2> QED BY <2>2, <2>3
<1>3. \/ s = <<abbreviate(older)>>
      \/ \E w \in LineWords \ {0} : s = <<[Bracket(4) EXCEPT !.words = @ + w, !.bytes = @ + 4 * w]>>
  BY DEF callSummarizeLLM
<1> QED BY <1>1, <1>2, <1>3

-----------------------------------------------------------------------------
(* The hard cut leaves its marker and the target, no more.                   *)

\* bytes is no more than what a hard cut of a prompt of all bytes may leave.
Spared(bytes, all) == bytes <= 7 + all \div 2 \/ bytes <= 7 + MinTarget

LEMMA HardCutFits ==
  ASSUME NEW lines \in Seq(Line), NEW result \in Seq(Line), result # <<>>
  PROVE  /\ HardCut(result, lines) \in Seq(Line) /\ HardCut(result, lines) # <<>>
         /\ Spared(SumOf("bytes", HardCut(result, lines)), SumOf("bytes", lines))
<1> DEFINE all == SumOf("bytes", lines)
           half == all \div 2
           target == IF half < MinTarget THEN MinTarget ELSE half
           tail == LastBytes(result, target)
<1>1. all \in Nat
  BY SumSizes
<1>2. HardCut(result, lines) = IF SumOf("bytes", result) > target
                               THEN <<Bracket(1)>> \o tail ELSE result
  BY DEF HardCut
<1> HIDE DEF all
<1>3. target \in Nat /\ (target = MinTarget \/ target = all \div 2) /\ MinTarget \in Nat
  BY <1>1, TranscriptAssumption
<1> HIDE DEF target
<1>4. tail \in Seq(Line) /\ SumOf("bytes", tail) <= target
  BY <1>3, LastBytesFit
<1>5. SumOf("bytes", tail) \in Nat /\ SumOf("bytes", result) \in Nat
  BY <1>4, SumSizes
<1>6. Bracket(1) \in Line /\ Bracket(1).bytes = 7
  BY TextLine DEF Bracket
<1> HIDE DEF tail
<1>7. SumOf("bytes", <<Bracket(1)>> \o tail) = 7 + SumOf("bytes", tail)
  BY <1>4, <1>6, SumCons
<1>8. ASSUME NEW n \in Nat, n <= 7 + target PROVE Spared(n, all)
  BY <1>3, <1>8 DEF Spared
<1>9. CASE SumOf("bytes", result) > target
  <2>1. HardCut(result, lines) = <<Bracket(1)>> \o tail
    BY <1>2, <1>9
  <2>2. <<Bracket(1)>> \o tail \in Seq(Line) /\ Len(<<Bracket(1)>> \o tail) > 0
    BY <1>4, <1>6
  <2>3. 7 + SumOf("bytes", tail) \in Nat /\ 7 + SumOf("bytes", tail) <= 7 + target
    BY <1>3, <1>4, <1>5
  <2>4. Spared(7 + SumOf("bytes", tail), all)
    BY <1>8, <2>3
  <2> QED BY <1>7, <2>1, <2>2, <2>4 DEF all
<1>10. CASE ~(SumOf("bytes", result) > target)
  <2>1. HardCut(result, lines) = result
    BY <1>2, <1>10
  <2>2. SumOf("bytes", result) <= 7 + target
    BY <1>3, <1>5, <1>10
  <2>3. Spared(SumOf("bytes", result), all)
    BY <1>5, <1>8, <2>2
  <2> QED BY <2>1, <2>3 DEF all
<1> QED BY <1>9, <1>10

\* What summarizeTranscript makes of a prompt over the threshold.
LEMMA SummarizeFits ==
  ASSUME NEW lines \in Seq(Line), lines # <<>>, NEW r \in summarizeTranscript(lines)
  PROVE  /\ r \in Seq(Line) /\ r # <<>>
         /\ ~(estimateTokens(lines) < Threshold \/ Len(lines) <= 4) =>
              \/ estimateTokens(r) < estimateTokens(lines)
              \/ Spared(SumOf("bytes", r), SumOf("bytes", lines))
<1> DEFINE older == SubSeq(lines, 1, Pivot(lines))
           newer == SubSeq(lines, Pivot(lines) + 1, Len(lines))
           Grew(s) == estimateTokens(s \o newer) >= estimateTokens(lines)
           Short(s) == IF Grew(s) THEN <<abbreviate(older)>> ELSE s
           Result(s) == IF Grew(Short(s)) THEN HardCut(Short(s) \o newer, lines)
                        ELSE Short(s) \o newer
           few == estimateTokens(lines) < Threshold \/ Len(lines) <= 4
<1>1. summarizeTranscript(lines) = IF few THEN {lines}
                                   ELSE {Result(s) : s \in callSummarizeLLM(older)}
  BY DEF summarizeTranscript
<1>2. CASE few
  <2> HIDE DEF few
  <2> QED BY <1>1, <1>2 DEF few
<1>3. CASE ~few
  <2>1. PICK s \in callSummarizeLLM(older) : r = Result(s)
    <3> HIDE DEF few, Result
    <3> QED BY <1>1, <1>3
  <2>2. Pivot(lines) \in 0..Len(lines)
    BY DEF Pivot
  <2>3. older \in Seq(Line) /\ newer \in Seq(Line)
    BY <2>2, TailLines
  <2>4. s \in Seq(Line) /\ Len(s) = 1
    BY <2>3, SummaryLines
  <2>5. <<abbreviate(older)>> \in Seq(Line) /\ Len(<<abbreviate(older)>>) = 1
    BY <2>3, AbbreviateLine, OneLine
  <2> DEFINE short == Short(s)
             whole == short \o newer
  <2>6. short \in Seq(Line) /\ Len(short) = 1
    <3> HIDE DEF older, newer, Grew
    <3> QED BY <2>4, <2>5
  <2>7. r = IF Grew(short) THEN HardCut(whole, lines) ELSE whole
    BY <2>1
  <2>8. Grew(short) <=> estimateTokens(whole) >= estimateTokens(lines)
    OBVIOUS
  <2> HIDE DEF Grew, Short, Result, older, newer, short
  <2>9. whole \in Seq(Line) /\ whole # <<>>
    <3>1. whole \in Seq(Line) /\ Len(whole) = 1 + Len(newer) /\ Len(newer) \in Nat
      BY <2>3, <2>6, JoinLines
    <3>2. Len(whole) # 0
      BY <3>1
    <3> QED BY <3>1, <3>2
  <2> HIDE DEF whole
  <2>10. estimateTokens(whole) \in Nat /\ estimateTokens(lines) \in Nat
    BY <2>9, SumSizes
  <2>11. CASE Grew(short)
    <3>1. r = HardCut(whole, lines)
      BY <2>7, <2>11
    <3> QED BY <2>9, <3>1, HardCutFits
  <2>12. CASE ~Grew(short)
    <3>1. r = whole /\ estimateTokens(whole) < estimateTokens(lines)
      BY <2>7, <2>8, <2>10, <2>12
    <3> QED BY <2>9, <3>1
  <2> QED BY <2>11, <2>12
<1> QED BY <1>2, <1>3

-----------------------------------------------------------------------------
(* The invariant.                                                           *)

TranscriptInv ==
    /\ prompt \in Seq(Line) /\ prompt # <<>>
    /\ iteration \in Nat
    /\ SummaryBounded

\* Summarizing keeps the invariant.
LEMMA CheckInv ==
  ASSUME TranscriptInv, Check
  PROVE  TranscriptInv'
<1>1. /\ prompt \in Seq(Line) /\ prompt # <<>> /\ iteration \in Nat
      /\ prompt' \in summarizeTranscript(prompt)
      /\ iteration' = iteration
      /\ summarized' = IF estimateTokens(prompt) < Threshold \/ Len(prompt) <= 4 THEN <<>>
                       ELSE <<prompt, prompt'>>
  BY DEF TranscriptInv, Check
<1>2. /\ prompt' \in Seq(Line) /\ prompt' # <<>>
      /\ ~(estimateTokens(prompt) < Threshold \/ Len(prompt) <= 4) =>
              \/ estimateTokens(prompt') < estimateTokens(prompt)
              \/ Spared(SumOf("bytes", prompt'), SumOf("bytes", prompt))
  BY <1>1, SummarizeFits
<1>3. SummaryBounded'
  <2>1. CASE estimateTokens(prompt) < Threshold \/ Len(prompt) <= 4
    BY <1>1, <2>1 DEF SummaryBounded
  <2>2. CASE ~(estimateTokens(prompt) < Threshold \/ Len(prompt) <= 4)
    <3>1. summarized' = <<prompt, prompt'>>
      BY <1>1, <2>2
    <3>2. summarized'[1] = prompt /\ summarized'[2] = prompt'
      BY <3>1
    <3>3. Bracket(1).bytes = 7
      BY DEF Bracket
    <3> QED BY <1>2, <2>2, <3>2, <3>3 DEF SummaryBounded, Spared
  <2> QED BY <2>1, <2>2
<1> QED BY <1>1, <1>2, <1>3 DEF TranscriptInv

\* A turn adds lines, each of whose words is at least a byte long.
LEMMA ActLines ==
  ASSUME prompt \in Seq(Line), prompt # <<>>, iteration \in Nat,
         NEW w \in LineWords, NEW b \in WordBytes, NEW n \in ObservationLines, Act(w, b, n)
  PROVE  prompt' \in Seq(Line) /\ prompt' # <<>>
<1> DEFINE t == iteration + 1
           observed == [words |-> w + 1, bytes |-> b * w + 4, turn |-> t, obs |-> TRUE]
           row == [Text(w, t) EXCEPT !.bytes = b * w]
           rows == [i \in 1..n - 1 |-> row]
           thought == [Text(Last(prompt).words + 2, t) EXCEPT !.bytes = Last(prompt).bytes + 8]
<1>1. w \in Nat /\ b \in Nat /\ b > 0 /\ n \in Nat /\ n > 0 /\ t \in Nat
  BY TranscriptAssumption
<1>2. b * w \in Nat /\ w <= b * w
  BY <1>1, Product
<1>3. observed \in Line
  <2> DEFINE p == b * w
  <2>1. p \in Nat /\ w <= p
    BY <1>2
  <2> HIDE DEF p, t
  <2>2. /\ w + 1 \in Nat /\ p + 4 \in Nat /\ w + 1 <= p + 4
    BY <1>1, <2>1
  <2>3. [words |-> w + 1, bytes |-> p + 4, turn |-> t, obs |-> TRUE] \in Line
    BY <1>1, <2>2 DEF Line
  <2> QED BY <2>3 DEF p
<1>4. row \in Line
  BY <1>1, <1>2, WiderText
<1>5. rows \in Seq(Line)
  <2> HIDE DEF row
  <2>1. n - 1 \in Nat
    BY <1>1
  <2> QED BY <1>4, <2>1
<1>6. Last(prompt) \in Line /\ Front(prompt) \in Seq(Line)
  <2>1. Len(prompt) \in Nat /\ Len(prompt) > 0
    OBVIOUS
  <2>2. prompt[Len(prompt)] \in Line
    BY <2>1
  <2> QED BY <2>1, <2>2 DEF Last, Front
<1>7. thought \in Line
  <2>1. Last(prompt).words \in Nat /\ Last(prompt).bytes \in Nat /\ Last(prompt).words <= Last(prompt).bytes
    BY <1>6, LineFields
  <2>2. /\ Last(prompt).words + 2 \in Nat /\ Last(prompt).bytes + 8 \in Nat
        /\ Last(prompt).words + 2 <= Last(prompt).bytes + 8
    BY <2>1
  <2> QED BY <1>1, <2>2, WiderText
<1>8. Text(2, t) \in Line /\ Text(0, t) \in Line
  BY <1>1, TextLine
<1>9. prompt' = Front(prompt) \o <<thought, Text(2, t), Text(2, t)>> \o (<<observed>> \o rows) \o <<Text(0, t)>>
  BY DEF Act
<1> HIDE DEF thought, observed, rows, t
<1> DEFINE first == Front(prompt) \o <<thought, Text(2, t), Text(2, t)>>
           second == first \o (<<observed>> \o rows)
<1>10. first \in Seq(Line)
  BY <1>6, <1>7, <1>8
<1> HIDE DEF first
<1>11. second \in Seq(Line)
  BY <1>3, <1>5, <1>10
<1>12. prompt' = second \o <<Text(0, t)>>
  BY <1>9 DEF first
<1> HIDE DEF second
<1>13. prompt' \in Seq(Line) /\ Len(prompt') = Len(second) + 1 /\ Len(second) \in Nat
  BY <1>8, <1>11, <1>12
<1>14. Len(prompt') # 0
  BY <1>13
<1> QED BY <1>13, <1>14

\* For every prompt a ReAct run can build, whatever the fallback model writes, and for every
\* threshold: a summarization brings the estimated tokens down or leaves no more than the
\* hard cut's marker and half of the bytes, or MinTarget bytes (summarizeTranscript).
THEOREM TranscriptBounded == TranscriptSpec => []SummaryBounded
<1>1. TranscriptInit => TranscriptInv
  <2> SUFFICES ASSUME TranscriptInit PROVE TranscriptInv
    OBVIOUS
  <2>1. Text(3, 0) \in Line /\ Text(0, 0) \in Line /\ Text(6, 0) \in Line /\ Text(1, 0) \in Line
    BY TextLine
  <2>2. SystemLines \in Nat
    BY TranscriptAssumption
  <2> DEFINE sys == [i \in 1..SystemLines |-> Text(3, 0)]
             ends == <<Text(0, 0), Text(6, 0), Text(1, 0)>>
  <2>3. sys \in Seq(Line)
    BY <2>1, <2>2
  <2>4. ends \in Seq(Line) /\ Len(ends) = 3
    BY <2>1
  <2>5. prompt = sys \o ends /\ iteration = 0 /\ summarized = <<>>
    BY DEF TranscriptInit
  <2> HIDE DEF sys, ends
  <2>6. prompt \in Seq(Line) /\ Len(prompt) = Len(sys) + 3 /\ Len(sys) \in Nat
    BY <2>3, <2>4, <2>5, JoinLines
  <2>7. prompt # <<>>
    BY <2>6
  <2> QED BY <2>5, <2>6, <2>7 DEF TranscriptInv, SummaryBounded
<1>2. TranscriptInv /\ [TranscriptNext]_transcriptVars => TranscriptInv'
  <2> SUFFICES ASSUME TranscriptInv, [TranscriptNext]_transcriptVars PROVE TranscriptInv'
    OBVIOUS
  <2>1. CASE Check
    BY <2>1, CheckInv
  <2>2. CASE Ask
    <3>1. /\ prompt \in Seq(Line) /\ prompt # <<>> /\ iteration \in Nat /\ SummaryBounded
          /\ iteration' = iteration + 1 /\ summarized' = summarized
      BY <2>2 DEF TranscriptInv, Ask
    <3>2. \/ prompt' = prompt
          \/ \E w \in LineWords, b \in WordBytes, n \in ObservationLines : Act(w, b, n)
      BY <2>2 DEF Ask
    <3>3. prompt' \in Seq(Line) /\ prompt' # <<>>
      BY <3>1, <3>2, ActLines
    <3>4. SummaryBounded'
      BY <3>1 DEF SummaryBounded
    <3> QED BY <3>1, <3>3, <3>4 DEF TranscriptInv
  <2>3. CASE UNCHANGED transcriptVars
    BY <2>3 DEF TranscriptInv, SummaryBounded, transcriptVars
  <2> QED BY <2>1, <2>2, <2>3 DEF TranscriptNext
<1>3. TranscriptInv => SummaryBounded
  BY DEF TranscriptInv
<1> QED BY <1>1, <1>2, <1>3, PTL DEF TranscriptSpec
=============================================================================
