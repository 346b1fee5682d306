----------------------------- MODULE ChaosStream -----------------------------
(***************************************************************************)
(* The events of the scripted chaos scenario (RunChaos in agent/chaos.go,  *)
(* StartChaos in agent/agent.go) on their way to a client: POST            *)
(* /demo/chaos starts a scenario that nobody watches, GET                  *)
(* /demo/chaos/stream starts one and relays its events (api/handler.go).   *)
(*                                                                         *)
(* What the scenario does to the models is Chaos; here it is only the      *)
(* events it emits, one after the other, into a channel of Buffer.  Every  *)
(* scenario has a channel and a context of its own, so one at a time is    *)
(* followed, until its client is gone too.                                 *)
(***************************************************************************)
EXTENDS Integers, Sequences

VARIABLES
    runner,     \* "idle" | "running" | "ended": RunChaos and its goroutine
    sent,       \* events emitted so far, skipped ones included
    queued,     \* events in the channel
    complete,   \* the last event emitted went into the channel
    over,       \* the context has ended
    watcher,    \* "none" | "loop" | "finished" | "cut": chaosStream
    got         \* events written to the client

chaosStreamVars == <<runner, sent, queued, complete, over, watcher, got>>

\* RunChaos, phase by phase: messages, requests (two events each) and actions.
ScriptPhases ==
    << [log |-> 1, send |-> 2, action |-> 0],     \* baseline
       [log |-> 2, send |-> 2, action |-> 1],     \* kill the primary
       [log |-> 2, send |-> 2, action |-> 1],     \* kill the fallback
       [log |-> 2, send |-> 2, action |-> 1],     \* restore the primary
       [log |-> 1, send |-> 0, action |-> 1] >>   \* restore the fallback

PhaseEvents(i) == ScriptPhases[i].log + 2 * ScriptPhases[i].send + ScriptPhases[i].action

\* All its events, the final "done" included.
Emissions == PhaseEvents(1) + PhaseEvents(2) + PhaseEvents(3) + PhaseEvents(4) + PhaseEvents(5) + 1

\* Mutant: a channel like those of the token streams.
Buffer_Small == 16

\* The channel StartChaos makes.
Buffer == 64

ChaosStreamInit ==
    /\ runner = "idle" /\ watcher = "none"
    /\ sent = 0 /\ queued = 0 /\ got = 0
    /\ complete = TRUE /\ over = FALSE

\* startChaos and chaosStream; while a scenario runs they answer 409.
Start(r) ==
    /\ runner # "running" /\ watcher # "loop"
    /\ runner' = "running" /\ watcher' = r
    /\ sent' = 0 /\ queued' = 0 /\ got' = 0
    /\ complete' = TRUE /\ over' = FALSE

\* emit: into the channel, or nowhere once the context has ended; select picks either
\* when both are possible.
Emit ==
    /\ runner = "running" /\ sent < Emissions
    /\ sent' = sent + 1
    /\ \/ queued < Buffer /\ queued' = queued + 1 /\ complete' = TRUE
       \/ over /\ UNCHANGED queued /\ complete' = FALSE
    /\ UNCHANGED <<runner, over, watcher, got>>

\* RunChaos returns; Done, then the channel is closed.
End ==
    /\ runner = "running" /\ sent = Emissions
    /\ runner' = "ended"
    /\ UNCHANGED <<sent, queued, complete, over, watcher, got>>

\* chaosStream returns, and its deferred cancel() ends the context.
Return ==
    /\ watcher' = IF over THEN "cut" ELSE "finished"
    /\ over' = TRUE

\* The loop of chaosStream: an event, "done" among them, the closed channel or the context.
Receive ==
    /\ watcher = "loop"
    /\ \/ /\ queued > 0
          /\ queued' = queued - 1 /\ got' = got + 1
          /\ \/ sent = Emissions /\ queued = 1 /\ complete /\ Return
             \/ ~(sent = Emissions /\ queued = 1 /\ complete) /\ UNCHANGED <<watcher, over>>
       \/ queued = 0 /\ runner = "ended" /\ Return /\ UNCHANGED <<queued, got>>
       \/ over /\ Return /\ UNCHANGED <<queued, got>>
    /\ UNCHANGED <<runner, sent, complete>>

\* The client leaves or three minutes pass; without a client, the agent is stopped.
Expire ==
    /\ runner = "running" \/ watcher = "loop"
    /\ over' = TRUE
    /\ UNCHANGED <<runner, sent, queued, complete, watcher, got>>

ChaosStreamNext == (\E r \in {"none", "loop"} : Start(r)) \/ Emit \/ End \/ Receive \/ Expire

ChaosStreamSpec == ChaosStreamInit /\ [][ChaosStreamNext]_chaosStreamVars

-----------------------------------------------------------------------------
(* Properties.                                                              *)

\* Nobody need drain the channel ("The caller must drain ch", RunChaos): a scenario that is
\* stuck on a full channel has a client that is still reading, or its context has ended.
\* Else it would hold the only scenario slot, with models killed, until the agent stops.
\* And a client who is not cut off has been told everything.
ScenarioNeedsNoAudience ==
    /\ runner = "running" /\ sent < Emissions /\ queued >= Buffer => over \/ watcher = "loop"
    /\ watcher = "finished" => got = Emissions
=============================================================================
