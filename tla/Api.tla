--------------------------------- MODULE Api ---------------------------------
(***************************************************************************)
(* The HTTP front door: which route is charged to which window             *)
(* (api/handler.go) and the per-client limiter (api/ratelimit.go).         *)
(*                                                                         *)
(* One map holds a sliding window for every client and a second, tighter   *)
(* one for its costly requests; at MaxTracked entries the least recently   *)
(* used one is evicted and its client starts again from an empty window.   *)
(* A request passes through the limiter under its lock, so one request is  *)
(* one step; time passes in ticks, Window of which make a minute.  What    *)
(* requireAuth and the handler answer afterwards changes nothing here.     *)
(*                                                                         *)
(* A header value is the sequence of its comma-separated parts, <<>> if    *)
(* the header is absent, and a client's name is such a value too: <<a>>    *)
(* is the address a.                                                       *)
(***************************************************************************)
EXTENDS Integers, Filter, Functions

CONSTANTS
    Addresses,      \* addresses of peers and of the clients proxies speak for
    Trusted,        \* cfg.TrustedProxies: the peers whose headers are believed
    Empty,          \* the part before the comma of a header that starts with one
    Told,           \* bound: what headers say when they reach the last hop before us
    IPLimit,        \* defaultIPRateLimit
    CompareLimit,   \* compareIPRateLimit
    Window,         \* defaultIPRateWindow, in ticks
    MaxTracked,     \* maxTrackedIPs
    MaxPerTick      \* bound: requests of one window that are served within a tick

ASSUME ApiAssumption ==
    /\ IsFiniteSet(Addresses) /\ Trusted \subseteq Addresses /\ Empty \notin Addresses
    /\ IsFiniteSet(Told) /\ Told \subseteq Seq(Addresses \cup {Empty}) /\ <<>> \in Told
    /\ {IPLimit, CompareLimit, Window, MaxTracked, MaxPerTick} \subseteq Nat \ {0}

VARIABLES
    lru,            \* keys of l.limiters, least recently used first
    hits,           \* sliding windows: a key's served requests by age, none if untracked
    refused,        \* the key of the request that got 429 in this very step, if any
    served,         \* history: requests served under each key, by age
    idle,           \* history: ticks since the last request under the key
    own,            \* history: requests served that came from the key's client, by age
    misled          \* history: ticks since a misnamed request came under the key

apiVars == <<lru, hits, refused, served, idle, own, misled>>

\* Register: the window each limited route is charged to.  The compare limiter also
\* stands in front of all demo controls.
Routes == [chat |-> "ip", chatStream |-> "ip", react |-> "ip",
           compare |-> "compare", demoControl |-> "compare"]

-----------------------------------------------------------------------------
(* Requests, and the client each is charged to.                             *)

\* Where a request comes from, what its headers said on the way, and how it reaches us:
\* directly, or from a trusted proxy that replaces X-Forwarded-For by the client's
\* address, appends to it the address it was called from (hop), or names the client in
\* X-Real-IP and lets X-Forwarded-For through.  Trusted proxies that call on their own
\* account send neither header.
Requests ==
    {r \in [origin : Addresses, peer : Addresses, hop : Addresses, told : Told,
            conduct : {"direct", "replaces", "appends", "realIP"},
            window : Range(Routes)] :
        IF r.conduct = "direct"
        THEN r.peer = r.origin /\ (r.peer \in Trusted => r.told = <<>>)
        ELSE r.peer \in Trusted /\ (r.told = <<>> => r.hop = r.origin)}

\* The two headers as they arrive.
XForwardedFor(r) ==
    CASE r.conduct = "replaces" -> <<r.origin>>
      [] r.conduct = "appends"  -> Append(r.told, r.hop)
      [] OTHER                  -> r.told
XRealIP(r) == IF r.conduct = "realIP" THEN <<r.origin>> ELSE r.told

\* A proxy passed on what somebody before it had written, and that did not start with the
\* client the request comes from.
Misnamed(r) == r.conduct \in {"appends", "realIP"} /\ r.told # <<>> /\ Head(r.told) # r.origin

\* The text before the first comma, the whole value if that is at the very start.
FirstPart(v) == IF Len(v) > 1 /\ Head(v) # Empty THEN <<Head(v)>> ELSE v

\* Mutant: headers are believed whoever sends them.
ClientIPFor_AnyPeer(r) == IF XForwardedFor(r) # <<>> THEN FirstPart(XForwardedFor(r)) ELSE <<r.peer>>

\* clientIPFor: the name a request is charged to.
ClientIPFor(r) ==
    CASE r.peer \in Trusted /\ XForwardedFor(r) # <<>> -> FirstPart(XForwardedFor(r))
      [] r.peer \in Trusted /\ XForwardedFor(r) = <<>> /\ XRealIP(r) # <<>> -> XRealIP(r)
      [] OTHER -> <<r.peer>>

Values == Told \cup {Append(v, a) : v \in Told, a \in Addresses}
Names == {<<a>> : a \in Addresses} \cup {FirstPart(v) : v \in Values \ {<<>>}}
Keys == Names \X {"ip", "compare"}

\* All that the limiter's state depends on: the key a request is charged to, the one its
\* client ought to be charged to, and whether a proxy misnamed it.
Charges == {[to |-> <<ClientIPFor(r), r.window>>, origin |-> <<<<r.origin>>, r.window>>,
             misnamed |-> Misnamed(r)] : r \in Requests}

Limit(k) == IF k[2] = "ip" THEN IPLimit ELSE CompareLimit

Ages == 0..Window - 1
NoHits == [a \in Ages |-> 0]

\* The requests in a ring, each known by its age and its number among those of that age.
InRing(ring) == UNION {{a} \X (1..ring[a]) : a \in Ages}
Total(ring) == Cardinality(InRing(ring))
Count(ring) == [ring EXCEPT ![0] = @ + 1]
Older(ring) == [a \in Ages |-> IF a = 0 THEN 0 ELSE ring[a - 1]]

ApiInit ==
    /\ lru = <<>>
    /\ hits = [k \in Keys |-> NoHits]
    /\ served = [k \in Keys |-> NoHits]
    /\ idle = [k \in Keys |-> Window]
    /\ own = [k \in Keys |-> NoHits]
    /\ misled = [k \in Keys |-> Window]
    /\ refused = {}

-----------------------------------------------------------------------------

Tracked == Range(lru)

\* evictOldestLocked, called when a key is not tracked and the map is full.
EvictOldest == IF Len(lru) >= MaxTracked THEN Tail(lru) ELSE lru

\* Mutant: entries are evicted in the order in which they were created.
Touch_Fifo(k) == IF k \in Tracked THEN lru
                 ELSE Append(IF Len(lru) >= MaxTracked THEN Tail(lru) ELSE lru, k)

\* The map after a request charged to k: k is the most recently used key.
Touch(k) == IF k \in Tracked
            THEN Append(Pick(lru, {i \in DOMAIN lru : lru[i] # k}), k)
            ELSE Append(EvictOldest, k)

\* SlidingWindow.Allow (flowguard/ratelimit).
Allow(k) == Total(hits[k]) < Limit(k)

\* middleware and compareMiddleware: lock, look up or create the entry, Allow, unlock;
\* then the handler or 429.  A refused request is a use of the entry all the same.
Request(c) ==
    LET kept == [j \in Keys |-> IF j \in Range(Touch(c.to)) THEN hits[j] ELSE NoHits]
    IN  /\ lru' = Touch(c.to)
        /\ idle' = [idle EXCEPT ![c.to] = 0]
        /\ misled' = IF c.misnamed THEN [misled EXCEPT ![c.to] = 0] ELSE misled
        /\ \/ /\ Allow(c.to)
              /\ served[c.to][0] < MaxPerTick /\ own[c.origin][0] < MaxPerTick
              /\ hits' = [kept EXCEPT ![c.to] = Count(@)]
              /\ served' = [served EXCEPT ![c.to] = Count(@)]
              /\ own' = [own EXCEPT ![c.origin] = Count(@)]
              /\ refused' = {}
           \/ /\ ~Allow(c.to)
              /\ hits' = kept
              /\ refused' = {c.to}
              /\ UNCHANGED <<served, own>>

Later(t) == IF t < Window THEN t + 1 ELSE Window
Tick ==
    /\ hits' = [k \in Keys |-> Older(hits[k])]
    /\ served' = [k \in Keys |-> Older(served[k])]
    /\ own' = [k \in Keys |-> Older(own[k])]
    /\ idle' = [k \in Keys |-> Later(idle[k])]
    /\ misled' = [k \in Keys |-> Later(misled[k])]
    /\ refused' = {}
    /\ UNCHANGED lru

ApiNext == (\E c \in Charges : Request(c)) \/ Tick

ApiSpec == ApiInit /\ [][ApiNext]_apiVars

-----------------------------------------------------------------------------
(* Properties.                                                              *)

\* Losing an entry to eviction is the only way past a limit, and it takes a crowd: a
\* client is served more than its limit within a window only if more clients than the
\* map can hold were active in that very window (allow, compareMiddleware and
\* evictOldestLocked against "LRU cap to bound memory").
OnlyACrowdOverflows ==
    \A k \in Keys : Total(served[k]) > Limit(k) =>
        Cardinality({j \in Keys : idle[j] < Window}) > MaxTracked

\* Nobody pays for the requests of another: a request is told 429 only if the client it
\* is charged to has itself been served its full limit in the last window (clientIPFor,
\* and one key for each kind of window).  So refusals do not extend the wait: a window
\* later the client is served again.  The one exception is a client under whose name a
\* trusted proxy let somebody else's request through within that window.
RefusedAtOwnLimit ==
    \A k \in refused : Total(own[k]) >= Limit(k) \/ misled[k] < Window
=============================================================================
