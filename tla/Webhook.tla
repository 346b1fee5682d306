------------------------------- MODULE Webhook -------------------------------
(***************************************************************************)
(* Announcing breaker state changes (quality/breaker.go, the callbacks in  *)
(* agent/agent.go) to a webhook (telemetry/webhook.go) that operators set  *)
(* and clear while the service runs (api/handler.go).                      *)
(*                                                                         *)
(* Record starts one goroutine per change, with the states before and      *)
(* after captured under the breaker's lock.  The goroutine reads the URL,  *)
(* then takes a place among MaxInFlight or drops the event, and a second   *)
(* goroutine posts it.  Nothing orders these goroutines, and the timestamp *)
(* an event carries is taken in the first one, so it orders nothing either.*)
(***************************************************************************)
EXTENDS Integers, Sequences, FiniteSets

CONSTANTS
    Models,         \* the breakers that announce: primary, fallback
    MaxInFlight,    \* maxInFlightWebhookFires
    AllowHTTP, AllowPrivate,    \* cfg.Webhook
    None,           \* no URL configured
    MaxChanges      \* bound: state changes in a behaviour

Candidates == [scheme : {"https", "http", "other"},
               host : {"public", "private", "unresolvable", "missing"}]

ASSUME WebhookAssumption ==
    /\ MaxInFlight \in Nat \ {0} /\ MaxChanges \in Nat
    /\ {AllowHTTP, AllowPrivate} \subseteq BOOLEAN
    /\ None \notin Candidates

VARIABLES
    sb,             \* state of each semantic breaker
    url,            \* w.url
    inFlight,       \* places taken in w.sem
    events,         \* the changes announced, oldest first, and what became of each
    clearedAt       \* history: changes announced before the URL was last cleared

webhookVars == <<sb, url, inFlight, events, clearedAt>>

States == {"healthy", "degraded", "failing"}

\* updateState: the changes of state a breaker can make.
Changes == {<<"healthy", "degraded">>, <<"degraded", "healthy">>, <<"healthy", "failing">>,
            <<"degraded", "failing">>, <<"failing", "healthy">>}

Phases == {"spawned", "addressed", "posting", "delivered", "failed", "dropped", "unset"}

Events == [model : Models, prev : States, next : States, phase : Phases]

WebhookTypeOK ==
    /\ sb \in [Models -> States]
    /\ url \in Candidates \cup {None}
    /\ inFlight \in 0..MaxInFlight
    /\ events \in Seq(Events)
    /\ clearedAt \in 0..Len(events)

WebhookInit ==
    /\ sb = [m \in Models |-> "healthy"]
    /\ url = None
    /\ inFlight = 0
    /\ events = <<>>
    /\ clearedAt = 0

\* Record: the state changes under the lock and a goroutine is started for the callback.
Announce(m, change) ==
    /\ Len(events) < MaxChanges
    /\ sb[m] = change[1]
    /\ sb' = [sb EXCEPT ![m] = change[2]]
    /\ events' = Append(events, [model |-> m, prev |-> change[1], next |-> change[2],
                                 phase |-> "spawned"])
    /\ UNCHANGED <<url, inFlight, clearedAt>>

Becomes(i, phase) == events' = [events EXCEPT ![i].phase = phase]

\* Mutant: the callback looks up the state itself instead of being told.
ReadURL_ReadsLate(i) ==
    /\ events[i].phase = "spawned"
    /\ events' = [events EXCEPT ![i].phase = IF url = None THEN "unset" ELSE "addressed",
                                ![i].next = sb[events[i].model]]
    /\ UNCHANGED <<sb, url, inFlight, clearedAt>>

\* Mutant: an event that finds no URL waits for one.
ReadURL_Waits(i) ==
    /\ events[i].phase = "spawned"
    /\ Becomes(i, "addressed")
    /\ UNCHANGED <<sb, url, inFlight, clearedAt>>

\* The callback calls Fire, which reads the URL under its lock; without one nothing is sent.
ReadURL(i) ==
    /\ events[i].phase = "spawned"
    /\ \/ url = None /\ Becomes(i, "unset")
       \/ url # None /\ Becomes(i, "addressed")
    /\ UNCHANGED <<sb, url, inFlight, clearedAt>>

\* Fire goes on to take a place and start the post, or drops the event at the limit.
Fire(i) ==
    /\ events[i].phase = "addressed"
    /\ \/ inFlight >= MaxInFlight /\ Becomes(i, "dropped") /\ UNCHANGED inFlight
       \/ inFlight < MaxInFlight /\ Becomes(i, "posting") /\ inFlight' = inFlight + 1
    /\ UNCHANGED <<sb, url, clearedAt>>

\* Mutant: the place is only given back when the post succeeds.
Post_KeepsPlace(i) ==
    /\ events[i].phase = "posting"
    /\ \/ Becomes(i, "delivered") /\ inFlight' = inFlight - 1
       \/ Becomes(i, "failed") /\ UNCHANGED inFlight
    /\ UNCHANGED <<sb, url, clearedAt>>

\* The posting goroutine ends: delivered or not, within the client's timeout, and its
\* place is free again.
Post(i) ==
    /\ events[i].phase = "posting"
    /\ Becomes(i, "delivered") \/ Becomes(i, "failed")
    /\ inFlight' = inFlight - 1
    /\ UNCHANGED <<sb, url, clearedAt>>

\* isLoopbackOrPrivate: a host that cannot be resolved counts as private.
IsLoopbackOrPrivate(host) == host \in {"private", "unresolvable"}

ValidateWebhookURL(u) ==
    /\ u.scheme \in {"https", "http"}
    /\ u.scheme = "http" => AllowHTTP
    /\ u.host # "missing"
    /\ IsLoopbackOrPrivate(u.host) => AllowPrivate

\* setWebhook; a request that fails validation changes nothing.
SetWebhook(u) ==
    /\ ValidateWebhookURL(u)
    /\ url' = u
    /\ UNCHANGED <<sb, inFlight, events, clearedAt>>

\* clearWebhook
ClearWebhook ==
    /\ url' = None /\ clearedAt' = Len(events)
    /\ UNCHANGED <<sb, inFlight, events>>

WebhookNext ==
    \/ \E m \in Models, c \in Changes : Announce(m, c)
    \/ \E i \in DOMAIN events : ReadURL(i) \/ Fire(i) \/ Post(i)
    \/ \E u \in Candidates : SetWebhook(u)
    \/ ClearWebhook

WebhookSpec == WebhookInit /\ [][WebhookNext]_webhookVars

-----------------------------------------------------------------------------
(* Properties.                                                              *)

EventsOf(m) == {i \in DOMAIN events : events[i].model = m}

\* How often more a state was entered than left, by what the receiver has been told.
Surplus(m, s) ==
    Cardinality({i \in EventsOf(m) : events[i].phase = "delivered" /\ events[i].next = s})
  - Cardinality({i \in EventsOf(m) : events[i].phase = "delivered" /\ events[i].prev = s})

\* Events may arrive in any order and their times do not help, but once all of a model's
\* events have arrived their pairs of states alone tell which state it is in: the start
\* was healthy, and only the current state was entered more often than left (Record
\* captures both states under its lock).
StateReconstructible ==
    \A m \in Models : (\A i \in EventsOf(m) : events[i].phase = "delivered") =>
        \A s \in States :
            s = sb[m] <=> Surplus(m, s) + (IF s = "healthy" THEN 1 ELSE 0) = 1

Posts == {i \in DOMAIN events : events[i].phase = "posting"}

\* Every post that ends, well or badly, gives its place back: the places taken are the
\* posts under way, and there are never more of them than MaxInFlight (the deferred release
\* in Fire's goroutine; "the goroutine count stays bounded under burst").
PlacesMatchPosts ==
    /\ inFlight = Cardinality(Posts)
    /\ inFlight <= MaxInFlight

\* Clearing the URL does not call back the events that have read it, however many they are,
\* but no change made after that is sent anywhere until a URL is set again.
NothingAfterClear ==
    url = None => \A i \in DOMAIN events :
        i > clearedAt => events[i].phase \in {"spawned", "unset"}
=============================================================================
