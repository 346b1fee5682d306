---------------------------- MODULE Conversation ----------------------------
(***************************************************************************)
(* ReAct conversations (agent/react.go): requests that share the session   *)
(* store (memory/sessions.go), each with its own cache of tool results     *)
(* (agent/toolcache.go) in front of the tool registry (agent/tool.go).     *)
(*                                                                         *)
(* Every call of the session store runs under its lock and is one step;    *)
(* between GetOrCreate, Messages and the two Adds of a request anything    *)
(* may happen to its session: other requests, DELETE, the cleanup.  A turn *)
(* of the loop touches nothing that is shared and is one step.  What the   *)
(* model says in a turn is a free choice (Orchestrator is about that).     *)
(*                                                                         *)
(* The result of a tool call is represented by the call itself.  KeyOf is  *)
(* normKey applied to the tool's name and its input cut at 2 KB.           *)
(***************************************************************************)
EXTENDS Naturals, Sequences, FiniteSets, Filter

CONSTANTS
    Requests,       \* calls of React; each adds a question and an answer
    Sessions,       \* session ids
    MaxHistory,     \* messages kept per session (20)
    TTL,            \* sessionTTL in ticks (30 min)
    MaxRun,         \* how long a call of React lasts at most (120 s), in ticks
    MaxTurns,       \* maxReactIterations (6)
    Calls,          \* tool calls a model may ask for
    Known,          \* those that name a registered tool, to the letter
    KeyOf,          \* KeyOf[c]: the cache key of call c
    CacheMax,       \* entries of a tool cache (64)
    CacheEnabled

ASSUME StoreAssumption == MaxHistory \in Nat \ {0} /\ TTL \in Nat /\ MaxRun \in Nat
ASSUME ShortRuns == MaxRun <= TTL
ASSUME LoopAssumption == MaxTurns \in Nat \ {0} /\ CacheMax \in Nat \ {0}
ASSUME CallsAssumption == Known \subseteq Calls /\ CacheEnabled \in BOOLEAN

Error == "error"

VARIABLES
    store,      \* the live sessions: id -> [messages, idle]
    pc, session, age,
    history,    \* what a request read of its session
    turn,       \* turns it has taken
    cache,      \* its tool cache, most recently used first: [key, of]
    uses,       \* history: its cache hits and stores, in order
    lost,       \* history: requests whose session was removed under them
    log         \* history: all messages of a session since it was created

vars == <<store, pc, session, age, history, turn, cache, uses, lost, log>>
conversation == <<store, lost, log>>
loop == <<turn, cache, uses>>

Messages == [role : {"user", "assistant"}, by : Requests]
Question(r) == [role |-> "user", by |-> r]
Answer(r) == [role |-> "assistant", by |-> r]
Keys == {KeyOf[c] : c \in Calls}
Entries == [key : Keys, of : Calls \cup {Error}]
Places == {"idle", "read", "question", "turn", "answer", "done"}
Running == {r \in Requests : pc[r] \notin {"idle", "done"}}

TypeOK ==
    /\ DOMAIN store \subseteq Sessions
    /\ \A s \in DOMAIN store : /\ store[s] \in [messages : Seq(Messages), idle : 0..TTL + 1]
                               /\ Len(store[s].messages) <= MaxHistory
    /\ pc \in [Requests -> Places] /\ session \in [Requests -> Sessions]
    /\ age \in [Requests -> 0..MaxRun]
    /\ history \in [Requests -> Seq(Messages)]
    /\ turn \in [Requests -> 0..MaxTurns]
    /\ cache \in [Requests -> Seq(Entries)]
    /\ \A r \in Requests : Len(cache[r]) <= CacheMax
    /\ uses \in [Requests -> Seq(Entries)]
    /\ lost \subseteq Requests
    /\ log \in [Sessions -> Seq(Messages)]

Init ==
    /\ store = <<>>
    /\ pc = [r \in Requests |-> "idle"]
    /\ session \in [Requests -> Sessions]
    /\ age = [r \in Requests |-> 0]
    /\ history = [r \in Requests |-> <<>>]
    /\ turn = [r \in Requests |-> 0]
    /\ cache = [r \in Requests |-> <<>>]
    /\ uses = [r \in Requests |-> <<>>]
    /\ lost = {}
    /\ log = [s \in Sessions |-> <<>>]

Goto(r, where) == pc' = [pc EXCEPT ![r] = where]

-----------------------------------------------------------------------------
(* The session store.                                                       *)

With(s, messages) ==
    [x \in DOMAIN store \cup {s} |->
        IF x = s THEN [messages |-> messages, idle |-> 0] ELSE store[x]]
Without(gone) == [x \in DOMAIN store \ gone |-> store[x]]

Trimmed(q) == IF Len(q) > MaxHistory
              THEN SubSeq(q, Len(q) - MaxHistory + 1, Len(q)) ELSE q

\* Mutant: an existing session is not marked as used.
GetOrCreate_NoTouch(s) ==
    \/ s \in DOMAIN store /\ UNCHANGED <<store, log>>
    \/ /\ s \notin DOMAIN store
       /\ store' = With(s, <<>>) /\ log' = [log EXCEPT ![s] = <<>>]

\* Mutant: a missing session is not created.
GetOrCreate_Get(s) ==
    /\ store' = IF s \in DOMAIN store THEN With(s, store[s].messages) ELSE store
    /\ UNCHANGED log

GetOrCreate(s) ==
    \/ s \in DOMAIN store /\ store' = With(s, store[s].messages) /\ UNCHANGED log
    \/ /\ s \notin DOMAIN store
       /\ store' = With(s, <<>>) /\ log' = [log EXCEPT ![s] = <<>>]

\* Add, which does nothing if the session is gone.
Add(s, message) ==
    \/ s \notin DOMAIN store /\ UNCHANGED <<store, log>>
    \/ /\ s \in DOMAIN store
       /\ store' = With(s, Trimmed(Append(store[s].messages, message)))
       /\ log' = [log EXCEPT ![s] = Append(@, message)]

Remove(gone) ==
    /\ store' = Without(gone)
    /\ lost' = lost \cup {r \in Requests : pc[r] # "idle" /\ session[r] \in gone}

\* DELETE /sessions/{id}.
Delete(s) ==
    /\ s \in DOMAIN store
    /\ Remove({s})
    /\ UNCHANGED <<pc, session, age, history, loop, log>>

\* Mutant: the cutoff lies one tick further back.
Expired_Late == {s \in DOMAIN store : store[s].idle > TTL + 1}

Expired == {s \in DOMAIN store : store[s].idle > TTL}

\* The cleanup goroutine, on its ticker.
Cleanup ==
    /\ Expired # {}
    /\ Remove(Expired)
    /\ UNCHANGED <<pc, session, age, history, loop, log>>

-----------------------------------------------------------------------------
(* The tool cache.                                                          *)

Found(c, k) == \E i \in 1..Len(c) : c[i].key = k
Others(c, k) == Pick(c, {i \in 1..Len(c) : c[i].key # k})

\* Mutant: a hit does not count as a use.
Promoted_Not(c, e) == c

\* Get, on a hit: the entry moves to the front.
Promoted(c, e) == <<e>> \o Others(c, e.key)

\* Set, after a miss: the least recently used entry makes room.
Stored(c, e) ==
    <<e>> \o (IF Len(c) >= CacheMax THEN SubSeq(c, 1, Len(c) - 1) ELSE c)

\* Mutant: failed calls are cached too.
Cacheable_All(result) == CacheEnabled

Cacheable(result) == CacheEnabled /\ result # Error

\* Execute: an unknown tool is an error, and the tool, its timeout or its circuit
\* breaker may fail any other call.
Results(c) == {Error} \cup ({c} \cap Known)

\* The loop asks for tool call c: from the cache, or else from the registry.
UseTool(r, c) ==
    LET k == KeyOf[c] IN
    \/ /\ CacheEnabled
       /\ \E i \in 1..Len(cache[r]) :
             /\ cache[r][i].key = k
             /\ cache' = [cache EXCEPT ![r] = Promoted(@, cache[r][i])]
             /\ uses' = [uses EXCEPT ![r] = Append(@, cache[r][i])]
    \/ /\ ~CacheEnabled \/ ~Found(cache[r], k)
       /\ \E result \in Results(c) :
             LET e == [key |-> k, of |-> result] IN
             /\ \/ /\ Cacheable(result)
                   /\ cache' = [cache EXCEPT ![r] = Stored(@, e)]
                   /\ uses' = [uses EXCEPT ![r] = Append(@, e)]
                \/ ~Cacheable(result) /\ UNCHANGED <<cache, uses>>

-----------------------------------------------------------------------------
(* React.                                                                   *)

Begin(r) ==
    /\ pc[r] = "idle"
    /\ GetOrCreate(session[r])
    /\ Goto(r, "read")
    /\ UNCHANGED <<session, age, history, loop, lost>>

\* Mutant: the copy has the capacity but not the length of the original.
ReadHistory_Empty(r) ==
    /\ pc[r] = "read"
    /\ Goto(r, "question")
    /\ UNCHANGED <<conversation, session, age, history, loop>>

ReadHistory(r) ==
    /\ pc[r] = "read"
    /\ LET s == session[r] IN
       history' = [history EXCEPT ![r] = IF s \in DOMAIN store THEN store[s].messages ELSE <<>>]
    /\ Goto(r, "question")
    /\ UNCHANGED <<conversation, session, age, loop>>

AddQuestion(r) ==
    /\ pc[r] = "question"
    /\ Add(session[r], Question(r))
    /\ Goto(r, "turn")
    /\ UNCHANGED <<session, age, history, loop, lost>>

\* A turn ends with an answer or with a tool call; after the last turn the loop ends
\* either way.
Turn(r) ==
    /\ pc[r] = "turn"
    /\ turn' = [turn EXCEPT ![r] = @ + 1]
    /\ \/ Goto(r, "answer") /\ UNCHANGED <<cache, uses>>
       \/ /\ \E c \in Calls : UseTool(r, c)
          /\ Goto(r, IF turn[r] + 1 = MaxTurns THEN "answer" ELSE "turn")
    /\ UNCHANGED <<conversation, session, age, history>>

\* done(): the answer is added and the tool cache is discarded.
AddAnswer(r) ==
    /\ pc[r] = "answer"
    /\ Add(session[r], Answer(r))
    /\ Goto(r, "done")
    /\ turn' = [turn EXCEPT ![r] = 0]
    /\ cache' = [cache EXCEPT ![r] = <<>>]
    /\ uses' = [uses EXCEPT ![r] = <<>>]
    /\ age' = [age EXCEPT ![r] = 0]
    /\ history' = [history EXCEPT ![r] = <<>>]
    /\ UNCHANGED <<session, lost>>

\* Time passes; no call of React outlives its deadline.
Tick ==
    /\ \A r \in Running : age[r] < MaxRun
    /\ \/ Running # {} \/ \E s \in DOMAIN store : store[s].idle <= TTL
    /\ age' = [r \in Requests |-> IF r \in Running THEN age[r] + 1 ELSE age[r]]
    /\ store' = [s \in DOMAIN store |->
                   [store[s] EXCEPT !.idle = IF @ <= TTL THEN @ + 1 ELSE @]]
    /\ UNCHANGED <<pc, session, history, loop, lost, log>>

React(r) == ReadHistory(r) \/ AddQuestion(r) \/ Turn(r) \/ AddAnswer(r)

Next ==
    \/ \E r \in Requests : Begin(r) \/ React(r)
    \/ \E s \in Sessions : Delete(s)
    \/ Cleanup \/ Tick

Spec == Init /\ [][Next]_vars

\* A running React goes on, the clock runs and the cleanup's ticker fires.
FairSpec ==
    /\ Spec
    /\ \A r \in Requests : WF_vars(React(r))
    /\ WF_vars(Tick) /\ WF_vars(Cleanup)

-----------------------------------------------------------------------------
(* Properties.                                                              *)

\* An exchange is stored as a whole, question before answer, unless its session was
\* deleted or expired while it ran (GetOrCreate and the two Adds of React).
Position(s, message) == {i \in 1..Len(log[s]) : log[s][i] = message}
ExchangeStored ==
    \A r \in Requests \ lost : pc[r] = "done" =>
        \E i \in Position(session[r], Question(r)), j \in Position(session[r], Answer(r)) : i < j

\* A request is told of every exchange that was finished before it read its history,
\* unless the session was removed meanwhile or MaxHistory newer messages are in it
\* (Messages of the session store, buildHistory).
RemembersFinished ==
    [][\A r \in Requests, q \in Requests \ lost :
         /\ pc[r] = "read" /\ pc'[r] = "question"
         /\ pc[q] = "done" /\ session[q] = session[r]
         => \/ \E i \in 1..Len(history'[r]) : history'[r][i] = Answer(q)
            \/ \A i \in Position(session[q], Answer(q)) : Len(log[session[q]]) >= i + MaxHistory]_vars

\* The cleanup never takes a session away from a running React: GetOrCreate marks it as
\* used and React is shorter than the TTL.
CleanupSparesActive ==
    [][Cleanup => \A r \in Running :
         session[r] \in DOMAIN store => session[r] \in DOMAIN store']_vars

\* When no more requests come every session is forgotten in the end (cleanup).
EverythingExpires == <>[](DOMAIN store = {})

\* A tool cache holds exactly the CacheMax most recently used keys, in order of use.
LastUse(r, k) == {i \in 1..Len(uses[r]) : uses[r][i].key = k /\
                    \A j \in i+1..Len(uses[r]) : uses[r][j].key # k}
UsedAfter(r, k, l) == \A i \in LastUse(r, k), j \in LastUse(r, l) : i > j
CacheIsLRU ==
    \A r \in Requests : LET c == cache[r] IN
        /\ \A i, j \in 1..Len(c) : i < j => c[i].key # c[j].key /\ UsedAfter(r, c[i].key, c[j].key)
        /\ \A i \in 1..Len(c) : LastUse(r, c[i].key) # {}
        /\ \A k \in Keys : ~Found(c, k) /\ LastUse(r, k) # {} =>
              /\ Len(c) = CacheMax
              /\ \A i \in 1..Len(c) : UsedAfter(r, c[i].key, k)

\* What comes out of a tool cache is the result of a call to a registered tool that
\* succeeded in this React and has the same key: errors are never remembered.
HitIsGenuine ==
    \A r \in Requests : \A i \in 1..Len(uses[r]) :
        uses[r][i].of \in Known /\ KeyOf[uses[r][i].of] = uses[r][i].key
=============================================================================
