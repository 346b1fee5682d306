-------------------------------- MODULE Chaos --------------------------------
(***************************************************************************)
(* Kill switches with automatic restore (orchestrator/chaos.go), the HTTP  *)
(* handlers that flip them and the scripted scenario (agent/chaos.go).     *)
(*                                                                         *)
(* Each kind of fault - primary killed, fallback killed, primary degraded  *)
(* - has a flag, a timer slot and a generation counter.  The flag is an    *)
(* atomic written outside c.mu; arming and cancelling the timer run under  *)
(* it.  So Kill and Restore are two steps each, and so is the timer's      *)
(* callback: it checks its generation under the lock and writes the flag   *)
(* after releasing it.  The steps of different goroutines interleave.      *)
(*                                                                         *)
(* Time is counted in ticks and does not pass while a goroutine is between *)
(* two of its steps or a timer is due: those last microseconds, a tick is  *)
(* a fraction of the five-minute timeout.                                  *)
(***************************************************************************)
EXTENDS Integers, FiniteSets, Sequences

CONSTANTS
    Operators,      \* goroutines of /demo handlers and of the scenario
    Slots,          \* "primary", "fallback", "degrade" (absent without a wrapper)
    Timeout,        \* chaosAutoRestoreTimeout, in ticks
    Exclusive,      \* do operators wait for each other on a slot?  (the code does not
                    \* make them: an assumption about how the service is operated)
    MaxGen          \* bound: no Restore or scenario starts that would need a
                    \* generation beyond it

ASSUME TimeoutAssumption == Timeout \in Nat \ {0}
ASSUME MaxGenAssumption == MaxGen \in Nat
ASSUME ExclusiveAssumption == Exclusive \in BOOLEAN
ASSUME SlotsAssumption == {"primary", "fallback"} \subseteq Slots

VARIABLES
    killed,         \* the atomic flag of each slot
    timerSet,       \* is the slot's *time.Timer non-nil?
    gen,            \* generation counter of each slot
    armed,          \* runtime timers still running, as <<slot, generation>>
    queued,         \* callbacks that fired and wait for c.mu
    restoring,      \* callbacks past the check, about to write the flag
    age,            \* age of a slot's running timer
    killAge,        \* history: how long the flag has been set without a break
    pc, target,     \* where each goroutine is, and on which slot
    script,         \* next step of the scenario a goroutine runs, 0 if it runs none
    chaosRunning

vars == <<killed, timerSet, gen, armed, queued, restoring, age, killAge,
          pc, target, script, chaosRunning>>

\* RunChaos: what it does to the flags, in order.
Script == << <<"kill", "primary">>, <<"kill", "fallback">>,
             <<"restore", "primary">>, <<"restore", "fallback">> >>

TypeOK ==
    /\ killed \in [Slots -> BOOLEAN]
    /\ timerSet \in [Slots -> BOOLEAN]
    /\ gen \in [Slots -> Nat]
    /\ armed \subseteq Slots \X Nat
    /\ queued \subseteq Slots \X Nat
    /\ restoring \subseteq Slots \X Nat
    /\ age \in [Slots -> 0..Timeout]
    /\ killAge \in [Slots -> 0..Timeout + 1]
    /\ pc \in [Operators -> {"idle", "schedule", "cancel"}]
    /\ target \in [Operators -> Slots]
    /\ script \in [Operators -> 0..Len(Script) + 1]
    /\ chaosRunning \in BOOLEAN

Init ==
    /\ killed = [s \in Slots |-> FALSE]
    /\ timerSet = [s \in Slots |-> FALSE]
    /\ gen = [s \in Slots |-> 0]
    /\ armed = {} /\ queued = {} /\ restoring = {}
    /\ age = [s \in Slots |-> 0]
    /\ killAge = [s \in Slots |-> 0]
    /\ pc = [o \in Operators |-> "idle"]
    /\ target = [o \in Operators |-> "primary"]
    /\ script = [o \in Operators |-> 0]
    /\ chaosRunning = FALSE

-----------------------------------------------------------------------------
(* Kill and Restore.                                                        *)

\* Generations of s used up, or owed to a Restore under way or ahead in a script.
ToRestore(o, s) ==
    script[o] # 0 /\ \E i \in script[o]..Len(Script) : Script[i] = <<"restore", s>>
Committed(s) ==
    gen[s] + Cardinality({o \in Operators : pc[o] = "cancel" /\ target[o] = s})
           + Cardinality({o \in Operators : ToRestore(o, s)})

\* The assumption on the operators: nobody starts on a slot another is busy with.
Admitted(s) == Exclusive => \A o \in Operators : pc[o] # "idle" => target[o] # s

timers == <<timerSet, gen, armed, queued, restoring, age>>

\* KillPrimary, KillFallback, EnableDegrade: the flag is written ...
StoreKilled(o, s) ==
    /\ Admitted(s)
    /\ killed' = [killed EXCEPT ![s] = TRUE]
    /\ pc' = [pc EXCEPT ![o] = "schedule"]
    /\ target' = [target EXCEPT ![o] = s]
    /\ UNCHANGED <<timers, killAge>>

\* Mutant: arming again moves the deadline.
ScheduleAutoRestore_Rearm(o) ==
    /\ pc[o] = "schedule"
    /\ LET s == target[o]
       IN  /\ timerSet' = [timerSet EXCEPT ![s] = TRUE]
           /\ armed' = armed \cup {<<s, gen[s]>>}
           /\ age' = [age EXCEPT ![s] = 0]
    /\ pc' = [pc EXCEPT ![o] = "idle"]
    /\ UNCHANGED <<killed, gen, queued, restoring, killAge, target, script, chaosRunning>>

\* ... then scheduleAutoRestore, under the lock: a pending timer is kept.
ScheduleAutoRestore(o) ==
    /\ pc[o] = "schedule"
    /\ LET s == target[o]
       IN  \/ /\ timerSet[s]
              /\ UNCHANGED <<timerSet, armed, age>>
           \/ /\ ~timerSet[s]
              /\ timerSet' = [timerSet EXCEPT ![s] = TRUE]
              /\ armed' = armed \cup {<<s, gen[s]>>}
              /\ age' = [age EXCEPT ![s] = 0]
    /\ pc' = [pc EXCEPT ![o] = "idle"]
    /\ UNCHANGED <<killed, gen, queued, restoring, killAge, target, script, chaosRunning>>

\* RestorePrimary, RestoreFallback, DisableDegrade: the flag is cleared ...
StoreRestored(o, s) ==
    /\ Admitted(s)
    /\ killed' = [killed EXCEPT ![s] = FALSE]
    /\ killAge' = [killAge EXCEPT ![s] = 0]
    /\ pc' = [pc EXCEPT ![o] = "cancel"]
    /\ target' = [target EXCEPT ![o] = s]
    /\ UNCHANGED timers

\* Mutant: cancelling does not invalidate a callback that already fired.
CancelTimer_NoGen(o) ==
    /\ pc[o] = "cancel"
    /\ LET s == target[o]
       IN  /\ timerSet' = [timerSet EXCEPT ![s] = FALSE]
           /\ armed' = armed \ {<<s, gen[s]>>}
    /\ pc' = [pc EXCEPT ![o] = "idle"]
    /\ UNCHANGED <<killed, gen, queued, restoring, age, killAge, target, script, chaosRunning>>

\* ... then cancelTimer, under the lock: Stop removes the timer unless it has fired,
\* and the generation moves on.
CancelTimer(o) ==
    /\ pc[o] = "cancel"
    /\ LET s == target[o]
       IN  /\ timerSet' = [timerSet EXCEPT ![s] = FALSE]
           /\ armed' = IF timerSet[s] THEN armed \ {<<s, gen[s]>>} ELSE armed
           /\ gen' = [gen EXCEPT ![s] = @ + 1]
    /\ pc' = [pc EXCEPT ![o] = "idle"]
    /\ UNCHANGED <<killed, queued, restoring, age, killAge, target, script, chaosRunning>>

-----------------------------------------------------------------------------
(* Who calls them.                                                          *)

\* A /demo handler.
Handler(o) ==
    /\ pc[o] = "idle" /\ script[o] = 0
    /\ \E s \in Slots : StoreKilled(o, s) \/ (Committed(s) < MaxGen /\ StoreRestored(o, s))
    /\ UNCHANGED <<script, chaosRunning>>

\* Mutant: the running flag is set without looking at it.
StartChaos_NoCAS(o) ==
    /\ pc[o] = "idle" /\ script[o] = 0
    /\ chaosRunning' = TRUE /\ script' = [script EXCEPT ![o] = 1]
    /\ UNCHANGED <<killed, timers, killAge, pc, target>>

\* StartChaos: TryStart, and the scenario's goroutine begins; when one already
\* runs the caller gets an error and nothing changes.
StartChaos(o) ==
    /\ pc[o] = "idle" /\ script[o] = 0
    /\ \/ /\ ~chaosRunning /\ \A s \in {"primary", "fallback"} : Committed(s) < MaxGen
          /\ chaosRunning' = TRUE /\ script' = [script EXCEPT ![o] = 1]
       \/ chaosRunning /\ UNCHANGED <<chaosRunning, script>>
    /\ UNCHANGED <<killed, timers, killAge, pc, target>>

\* RunChaos: the next kill or restore of the script.  It runs to the end even when
\* its context is cancelled: only its sleeps and events are cut short.
ScriptStep(o) ==
    /\ pc[o] = "idle" /\ script[o] \in 1..Len(Script)
    /\ LET op == Script[script[o]]
       IN  \/ op[1] = "kill" /\ StoreKilled(o, op[2])
           \/ op[1] = "restore" /\ StoreRestored(o, op[2])
    /\ script' = [script EXCEPT ![o] = @ + 1]
    /\ UNCHANGED chaosRunning

\* The deferred Done.
Done(o) ==
    /\ pc[o] = "idle" /\ script[o] = Len(Script) + 1
    /\ chaosRunning' = FALSE /\ script' = [script EXCEPT ![o] = 0]
    /\ UNCHANGED <<killed, timers, killAge, pc, target>>

-----------------------------------------------------------------------------
(* The timers.                                                              *)

\* The runtime starts the callback of a timer that is due.
Fire(s, g) ==
    /\ <<s, g>> \in armed /\ age[s] = Timeout
    /\ armed' = armed \ {<<s, g>>} /\ queued' = queued \cup {<<s, g>>}
    /\ UNCHANGED <<killed, timerSet, gen, restoring, age, killAge, pc, target, script,
                   chaosRunning>>

\* The callback's critical section: a superseded callback is dropped.
CallbackCheck(s, g) ==
    /\ <<s, g>> \in queued
    /\ queued' = queued \ {<<s, g>>}
    /\ \/ gen[s] # g /\ UNCHANGED <<timerSet, restoring>>
       \/ /\ gen[s] = g
          /\ timerSet' = [timerSet EXCEPT ![s] = FALSE]
          /\ restoring' = restoring \cup {<<s, g>>}
    /\ UNCHANGED <<killed, gen, armed, age, killAge, pc, target, script, chaosRunning>>

\* restore(), after the lock was released.
CallbackRestore(s, g) ==
    /\ <<s, g>> \in restoring
    /\ restoring' = restoring \ {<<s, g>>}
    /\ killed' = [killed EXCEPT ![s] = FALSE]
    /\ killAge' = [killAge EXCEPT ![s] = 0]
    /\ UNCHANGED <<timerSet, gen, armed, queued, age, pc, target, script, chaosRunning>>

Quiet ==
    /\ \A o \in Operators : pc[o] = "idle"
    /\ queued = {} /\ restoring = {}
    /\ \A c \in armed : age[c[1]] < Timeout

Running(s) == \E c \in armed : c[1] = s

Tick ==
    /\ Quiet
    /\ \E s \in Slots : Running(s) \/ (killed[s] /\ killAge[s] <= Timeout)
    /\ age' = [s \in Slots |-> IF Running(s) THEN age[s] + 1 ELSE age[s]]
    /\ killAge' = [s \in Slots |-> IF killed[s] /\ killAge[s] <= Timeout
                                   THEN killAge[s] + 1 ELSE killAge[s]]
    /\ UNCHANGED <<killed, timerSet, gen, armed, queued, restoring, pc, target, script,
                   chaosRunning>>

Next ==
    \/ \E o \in Operators : \/ Handler(o) \/ ScheduleAutoRestore(o) \/ CancelTimer(o)
                            \/ StartChaos(o) \/ ScriptStep(o) \/ Done(o)
    \/ \E s \in Slots, g \in 0..MaxGen :
          Fire(s, g) \/ CallbackCheck(s, g) \/ CallbackRestore(s, g)
    \/ Tick

Spec == Init /\ [][Next]_vars

\* A goroutine that entered Kill, Restore, the script or a callback finishes it.
\* Handlers are rate-limited and a step lasts microseconds: there is always a later
\* moment when none is under way, and time passes in such moments however many follow.
Fairness ==
    /\ \A o \in Operators : /\ WF_vars(ScheduleAutoRestore(o)) /\ WF_vars(CancelTimer(o))
                            /\ WF_vars(ScriptStep(o)) /\ WF_vars(Done(o))
    /\ \A s \in Slots, g \in 0..MaxGen :
          WF_vars(Fire(s, g)) /\ WF_vars(CallbackCheck(s, g)) /\ WF_vars(CallbackRestore(s, g))
    /\ []<>(\A o \in Operators : pc[o] = "idle")
    /\ SF_vars(Tick)

FairSpec == Spec /\ Fairness

-----------------------------------------------------------------------------
(* Properties.                                                              *)

\* The generation handshake: a slot holds a timer exactly when one callback that can
\* still act is running or waiting for the lock.  A slot is never wedged by a timer
\* that is gone, and a cancelled callback never comes back to life.
OneLiveTimer ==
    /\ \A s \in Slots : timerSet[s] <=> <<s, gen[s]>> \in armed \cup queued
    /\ armed \cap queued = {}
    /\ \A c \in armed : c[2] = gen[c[1]]
    /\ \A c \in queued : c[2] <= gen[c[1]]

IsRestoring(s) == \E c \in restoring : c[1] = s

\* With operators that wait for each other, a killed model always has something that will
\* restore it: a live timer, a callback about to restore, or a Kill about to arm one.
KilledIsCovered ==
    \A s \in Slots : killed[s] =>
        \/ timerSet[s]
        \/ IsRestoring(s)
        \/ \E o \in Operators : pc[o] = "schedule" /\ target[o] = s

\* Why the bound below holds with such operators: no two are busy with a slot, who is
\* about to cancel has cleared the flag, and a set flag is no older than the running
\* timer unless a callback is about to clear it.
SerialInv ==
    /\ \A o, p \in Operators :
          pc[o] # "idle" /\ pc[p] # "idle" /\ target[o] = target[p] => o = p
    /\ \A o \in Operators : pc[o] = "cancel" => ~killed[target[o]]
    /\ \A s \in Slots :
          /\ ~killed[s] => killAge[s] = 0
          /\ killed[s] /\ <<s, gen[s]>> \in armed => killAge[s] <= age[s] \/ IsRestoring(s)
          /\ \A o \in Operators : killed[s] /\ pc[o] = "schedule" /\ target[o] = s =>
                killAge[s] = 0 \/ timerSet[s] \/ IsRestoring(s)

\* handler.go:95: "the worst-case interruption is 5 minutes regardless of subsequent
\* kills".
KillBounded == \A s \in Slots : killAge[s] <= Timeout

\* A killed model is eventually restored although handlers may kill it again and again.
KillSelfHeals == \A s \in Slots : killed[s] ~> ~killed[s]

\* TryStart and Done: the flag is up exactly while one goroutine runs the scenario.
ScenarioExclusive ==
    /\ chaosRunning <=> \E o \in Operators : script[o] # 0
    /\ \A o, p \in Operators : script[o] # 0 /\ script[p] # 0 => o = p
=============================================================================
