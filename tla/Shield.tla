------------------------------- MODULE Shield -------------------------------
(***************************************************************************)
(* What AgentShield promises a caller: a request is answered once, by a    *)
(* model or the cache, or it is denied; only a caller that gives up while  *)
(* it queues gets an error.  No quality check has flagged the text, unless *)
(* a hedged call of the primary let one slip past the check: then the      *)
(* caller of that request may see it, and later callers out of the cache.  *)
(***************************************************************************)
CONSTANT Requests

VARIABLES
    status,     \* "idle", "pending", "answered" or "failed"
    reply,      \* the response, once there is one
    slipped     \* the requests for which a text slipped past the quality check

vars == <<status, reply, slipped>>

Nothing == [tier |-> "none", text |-> "none"]
Denial == [tier |-> "degraded", text |-> "none"]
AnswersTo(r) ==
    {a \in [tier : {"primary", "fallback", "cache"}, text : {"good", "unflagged", "flagged"}] :
        a.text = "flagged" => \/ a.tier = "primary" /\ r \in slipped
                              \/ a.tier = "cache" /\ slipped # {}}

Init ==
    /\ status = [r \in Requests |-> "idle"]
    /\ reply = [r \in Requests |-> Nothing]
    /\ slipped = {}

Ask(r) ==
    /\ status[r] = "idle"
    /\ status' = [status EXCEPT ![r] = "pending"]
    /\ UNCHANGED <<reply, slipped>>

Slip(r) ==
    /\ status[r] = "pending"
    /\ slipped' = slipped \cup {r}
    /\ UNCHANGED <<status, reply>>

Respond(r) ==
    /\ status[r] = "pending"
    /\ \/ /\ status' = [status EXCEPT ![r] = "answered"]
          /\ \E a \in AnswersTo(r) \cup {Denial} : reply' = [reply EXCEPT ![r] = a]
       \/ /\ status' = [status EXCEPT ![r] = "failed"]
          /\ UNCHANGED reply
    /\ UNCHANGED slipped

Next == \E r \in Requests : Ask(r) \/ Slip(r) \/ Respond(r)

Spec == Init /\ [][Next]_vars

FairSpec == Spec /\ \A r \in Requests : WF_vars(Respond(r))
=============================================================================
