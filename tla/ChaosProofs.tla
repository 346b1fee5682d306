----------------------------- MODULE ChaosProofs -----------------------------
(***************************************************************************)
(* Proofs about the kill switches: the generation handshake for any number *)
(* of concurrent handlers, and the five-minute bound for serialised ones.  *)
(***************************************************************************)
EXTENDS Chaos, TLAPS

\* The steps of RunChaos act on known slots.
LEMMA ScriptSlots ==
  /\ Len(Script) = 4
  /\ \A i \in 1..4 : Script[i][2] \in Slots
  BY SlotsAssumption DEF Script

CInv == TypeOK /\ OneLiveTimer

\* Kill, the flag half: timers are not touched.
LEMMA StoreKilledType ==
  ASSUME TypeOK, NEW o \in Operators, NEW s \in Slots, StoreKilled(o, s)
  PROVE  /\ killed' \in [Slots -> BOOLEAN]
         /\ pc' \in [Operators -> {"idle", "schedule", "cancel"}]
         /\ target' \in [Operators -> Slots]
         /\ UNCHANGED <<timerSet, gen, armed, queued, restoring, age, killAge>>
  BY DEF StoreKilled, TypeOK, timers

\* Restore, the flag half.
LEMMA StoreRestoredType ==
  ASSUME TypeOK, NEW o \in Operators, NEW s \in Slots, StoreRestored(o, s)
  PROVE  /\ killed' \in [Slots -> BOOLEAN]
         /\ killAge' \in [Slots -> 0..Timeout + 1]
         /\ pc' \in [Operators -> {"idle", "schedule", "cancel"}]
         /\ target' \in [Operators -> Slots]
         /\ UNCHANGED <<timerSet, gen, armed, queued, restoring, age>>
  BY TimeoutAssumption DEF StoreRestored, TypeOK, timers

\* A step that leaves the timers alone keeps the handshake.
LEMMA TimersUntouched ==
  ASSUME OneLiveTimer, UNCHANGED <<timerSet, gen, armed, queued>>
  PROVE  OneLiveTimer'
  BY DEF OneLiveTimer

LEMMA HandlerStep ==
  ASSUME CInv, NEW o \in Operators, Handler(o)
  PROVE  CInv'
<1>1. PICK s \in Slots : StoreKilled(o, s) \/ StoreRestored(o, s)
  BY DEF Handler
<1>2. UNCHANGED <<script, chaosRunning>>
  BY DEF Handler
<1>3. CASE StoreKilled(o, s)
  <2>1. TypeOK'
    BY <1>2, <1>3, StoreKilledType DEF CInv, TypeOK
  <2>2. OneLiveTimer'
    BY <1>3, StoreKilledType, TimersUntouched DEF CInv
  <2> QED
    BY <2>1, <2>2 DEF CInv
<1>4. CASE StoreRestored(o, s)
  <2>1. TypeOK'
    BY <1>2, <1>4, StoreRestoredType DEF CInv, TypeOK
  <2>2. OneLiveTimer'
    BY <1>4, StoreRestoredType, TimersUntouched DEF CInv
  <2> QED
    BY <2>1, <2>2 DEF CInv
<1> QED
  BY <1>1, <1>3, <1>4

LEMMA ScriptStepStep ==
  ASSUME CInv, NEW o \in Operators, ScriptStep(o)
  PROVE  CInv'
<1>1. script[o] \in 1..4 /\ script' = [script EXCEPT ![o] = @ + 1] /\ UNCHANGED chaosRunning
  BY ScriptSlots DEF ScriptStep
<1>2. PICK s \in Slots : StoreKilled(o, s) \/ StoreRestored(o, s)
  BY <1>1, ScriptSlots DEF ScriptStep
<1>3. script' \in [Operators -> 0..Len(Script) + 1]
  BY <1>1, ScriptSlots DEF CInv, TypeOK
<1>4. CASE StoreKilled(o, s)
  <2>1. TypeOK'
    BY <1>1, <1>3, <1>4, StoreKilledType DEF CInv, TypeOK
  <2>2. OneLiveTimer'
    BY <1>4, StoreKilledType, TimersUntouched DEF CInv
  <2> QED
    BY <2>1, <2>2 DEF CInv
<1>5. CASE StoreRestored(o, s)
  <2>1. TypeOK'
    BY <1>1, <1>3, <1>5, StoreRestoredType DEF CInv, TypeOK
  <2>2. OneLiveTimer'
    BY <1>5, StoreRestoredType, TimersUntouched DEF CInv
  <2> QED
    BY <2>1, <2>2 DEF CInv
<1> QED
  BY <1>2, <1>4, <1>5

\* Arming: the slot was empty, so no live callback existed.
LEMMA ScheduleStep ==
  ASSUME CInv, NEW o \in Operators, ScheduleAutoRestore(o)
  PROVE  CInv'
<1> DEFINE s == target[o]
<1>0. s \in Slots /\ gen[s] \in Nat
  BY DEF CInv, TypeOK
<1>1. /\ pc' = [pc EXCEPT ![o] = "idle"]
      /\ UNCHANGED <<killed, gen, queued, restoring, killAge, target, script, chaosRunning>>
  BY DEF ScheduleAutoRestore
<1>2. CASE timerSet[s] /\ UNCHANGED <<timerSet, armed, age>>
  <2>1. TypeOK'
    BY <1>1, <1>2 DEF CInv, TypeOK
  <2>2. OneLiveTimer'
    BY <1>1, <1>2, TimersUntouched DEF CInv
  <2> QED
    BY <2>1, <2>2 DEF CInv
<1>3. CASE /\ ~timerSet[s]
           /\ timerSet' = [timerSet EXCEPT ![s] = TRUE]
           /\ armed' = armed \cup {<<s, gen[s]>>}
           /\ age' = [age EXCEPT ![s] = 0]
  <2>1. TypeOK'
    BY <1>0, <1>1, <1>3, TimeoutAssumption DEF CInv, TypeOK
  <2>2. <<s, gen[s]>> \notin armed \cup queued
    BY <1>0, <1>3 DEF CInv, OneLiveTimer
  <2>3. OneLiveTimer'
    BY <1>0, <1>1, <1>3, <2>2 DEF CInv, OneLiveTimer, TypeOK
  <2> QED
    BY <2>1, <2>3 DEF CInv
<1> QED
  BY <1>2, <1>3 DEF ScheduleAutoRestore

\* Cancelling: the running timer is stopped and a fired one is left behind by the
\* generation.
LEMMA CancelStep ==
  ASSUME CInv, NEW o \in Operators, CancelTimer(o)
  PROVE  CInv'
<1> DEFINE s == target[o]
<1>0. s \in Slots /\ gen[s] \in Nat
  BY DEF CInv, TypeOK
<1>1. /\ timerSet' = [timerSet EXCEPT ![s] = FALSE]
      /\ armed' = IF timerSet[s] THEN armed \ {<<s, gen[s]>>} ELSE armed
      /\ gen' = [gen EXCEPT ![s] = @ + 1]
      /\ pc' = [pc EXCEPT ![o] = "idle"]
      /\ UNCHANGED <<killed, queued, restoring, age, killAge, target, script, chaosRunning>>
  BY DEF CancelTimer
<1>2. TypeOK'
  BY <1>0, <1>1 DEF CInv, TypeOK
<1>3. armed' = armed \ {<<s, gen[s]>>}
  BY <1>0, <1>1 DEF CInv, OneLiveTimer
<1>4. \A c \in armed' : c[1] \in Slots /\ c[1] # s /\ c[2] = gen[c[1]]
  BY <1>0, <1>3 DEF CInv, OneLiveTimer, TypeOK
<1>5. \A c \in queued : c[1] \in Slots /\ c[2] \in Nat /\ gen[c[1]] \in Nat /\ c[2] <= gen[c[1]]
  BY DEF CInv, OneLiveTimer, TypeOK
<1>6. /\ gen'[s] = gen[s] + 1 /\ \A r \in Slots : r # s => gen'[r] = gen[r]
      /\ ~timerSet'[s] /\ \A r \in Slots : r # s => timerSet'[r] = timerSet[r]
  BY <1>0, <1>1 DEF CInv, TypeOK
<1>7. \A c \in armed' : c[2] = gen'[c[1]]
  BY <1>4, <1>6
<1>8. \A c \in queued' : c[2] <= gen'[c[1]]
  <2> SUFFICES ASSUME NEW c \in queued PROVE c[2] <= gen'[c[1]]
    BY <1>1
  <2>1. c[1] \in Slots /\ c[2] \in Nat /\ gen[c[1]] \in Nat /\ c[2] <= gen[c[1]]
    BY <1>5
  <2>2. gen'[c[1]] = gen[c[1]] \/ gen'[c[1]] = gen[c[1]] + 1
    BY <1>6, <2>1
  <2> QED
    BY <2>1, <2>2
<1>9. <<s, gen'[s]>> \notin armed' \cup queued'
  <2>1. <<s, gen'[s]>> \notin armed'
    BY <1>4
  <2>2. ASSUME <<s, gen'[s]>> \in queued PROVE FALSE
    <3>1. gen'[s] <= gen[s]
      BY <1>5, <2>2
    <3> QED
      BY <1>0, <1>6, <3>1
  <2> QED
    BY <1>1, <2>1, <2>2
<1>10. \A r \in Slots : timerSet'[r] <=> <<r, gen'[r]>> \in armed' \cup queued'
  <2> SUFFICES ASSUME NEW r \in Slots, r # s
               PROVE  timerSet'[r] <=> <<r, gen'[r]>> \in armed' \cup queued'
    BY <1>6, <1>9
  <2>1. timerSet[r] <=> <<r, gen[r]>> \in armed \cup queued
    BY DEF CInv, OneLiveTimer
  <2>2. <<r, gen[r]>> \in armed' \cup queued' <=> <<r, gen[r]>> \in armed \cup queued
    BY <1>1, <1>3
  <2> QED
    BY <1>6, <2>1, <2>2
<1>11. armed' \cap queued' = {}
  BY <1>1, <1>3 DEF CInv, OneLiveTimer
<1>12. OneLiveTimer'
  BY <1>7, <1>8, <1>10, <1>11 DEF OneLiveTimer
<1> QED
  BY <1>2, <1>12 DEF CInv

LEMMA FireStep ==
  ASSUME CInv, NEW s \in Slots, NEW g \in 0..MaxGen, Fire(s, g)
  PROVE  CInv'
<1>1. /\ <<s, g>> \in armed
      /\ armed' = armed \ {<<s, g>>} /\ queued' = queued \cup {<<s, g>>}
      /\ UNCHANGED <<killed, timerSet, gen, restoring, age, killAge, pc, target, script,
                     chaosRunning>>
  BY DEF Fire
<1>2. TypeOK'
  BY <1>1, MaxGenAssumption DEF CInv, TypeOK
<1>3. g = gen[s] /\ gen[s] \in Nat
  BY <1>1 DEF CInv, OneLiveTimer, TypeOK
<1>4. armed' \cup queued' = armed \cup queued /\ armed' \cap queued' = {}
  BY <1>1 DEF CInv, OneLiveTimer
<1>5. OneLiveTimer'
  BY <1>1, <1>3, <1>4 DEF CInv, OneLiveTimer
<1> QED
  BY <1>2, <1>5 DEF CInv

LEMMA CallbackCheckStep ==
  ASSUME CInv, NEW s \in Slots, NEW g \in 0..MaxGen, CallbackCheck(s, g)
  PROVE  CInv'
<1>1. /\ <<s, g>> \in queued /\ queued' = queued \ {<<s, g>>}
      /\ UNCHANGED <<killed, gen, armed, age, killAge, pc, target, script, chaosRunning>>
  BY DEF CallbackCheck
<1>2. CASE gen[s] # g /\ UNCHANGED <<timerSet, restoring>>
  <2>1. TypeOK'
    BY <1>1, <1>2 DEF CInv, TypeOK
  <2>2. \A r \in Slots : <<r, gen[r]>> \in queued' <=> <<r, gen[r]>> \in queued
    BY <1>1, <1>2
  <2>3. OneLiveTimer'
    BY <1>1, <1>2, <2>2 DEF CInv, OneLiveTimer
  <2> QED
    BY <2>1, <2>3 DEF CInv
<1>3. CASE /\ gen[s] = g /\ timerSet' = [timerSet EXCEPT ![s] = FALSE]
           /\ restoring' = restoring \cup {<<s, g>>}
  <2>1. TypeOK'
    BY <1>1, <1>3, MaxGenAssumption DEF CInv, TypeOK
  <2>2. \A r \in Slots : r # s => (<<r, gen[r]>> \in queued' <=> <<r, gen[r]>> \in queued)
    BY <1>1
  <2>3. <<s, gen[s]>> \notin armed /\ <<s, gen[s]>> \notin queued'
    BY <1>1, <1>3 DEF CInv, OneLiveTimer
  <2>4. \A r \in Slots : timerSet'[r] <=> <<r, gen'[r]>> \in armed' \cup queued'
    BY <1>1, <1>3, <2>2, <2>3 DEF CInv, OneLiveTimer, TypeOK
  <2>5. OneLiveTimer'
    BY <1>1, <2>4 DEF CInv, OneLiveTimer
  <2> QED
    BY <2>1, <2>5 DEF CInv
<1> QED
  BY <1>2, <1>3 DEF CallbackCheck

LEMMA CallbackRestoreStep ==
  ASSUME CInv, NEW s \in Slots, NEW g \in 0..MaxGen, CallbackRestore(s, g)
  PROVE  CInv'
<1>1. TypeOK'
  BY TimeoutAssumption DEF CallbackRestore, CInv, TypeOK
<1>2. OneLiveTimer'
  BY TimersUntouched DEF CallbackRestore, CInv
<1> QED
  BY <1>1, <1>2 DEF CInv

\* Time passes only while every running timer is short of its deadline.
LEMMA TickStep ==
  ASSUME CInv, Tick
  PROVE  CInv'
<1>1. /\ Quiet
      /\ age' = [s \in Slots |-> IF Running(s) THEN age[s] + 1 ELSE age[s]]
      /\ killAge' = [s \in Slots |-> IF killed[s] /\ killAge[s] <= Timeout
                                     THEN killAge[s] + 1 ELSE killAge[s]]
      /\ UNCHANGED <<killed, timerSet, gen, armed, queued, restoring, pc, target, script,
                     chaosRunning>>
  BY DEF Tick
<1>2. Timeout \in Nat
  BY TimeoutAssumption
<1>3. age' \in [Slots -> 0..Timeout]
  <2>1. \A s \in Slots : age[s] \in 0..Timeout /\ (Running(s) => age[s] < Timeout)
    BY <1>1 DEF Quiet, Running, CInv, TypeOK
  <2>2. \A s \in Slots : (IF Running(s) THEN age[s] + 1 ELSE age[s]) \in 0..Timeout
    BY <1>2, <2>1
  <2> QED
    BY <1>1, <2>2
<1>4. killAge' \in [Slots -> 0..Timeout + 1]
  <2>1. \A s \in Slots : killAge[s] \in 0..Timeout + 1
    BY DEF CInv, TypeOK
  <2>2. \A s \in Slots : (IF killed[s] /\ killAge[s] <= Timeout
                          THEN killAge[s] + 1 ELSE killAge[s]) \in 0..Timeout + 1
    BY <1>2, <2>1
  <2> QED
    BY <1>1, <2>2
<1>5. TypeOK'
  BY <1>1, <1>3, <1>4 DEF CInv, TypeOK
<1>6. OneLiveTimer'
  BY <1>1, TimersUntouched DEF CInv
<1> QED
  BY <1>5, <1>6 DEF CInv

\* Starting and ending the scenario touches neither flags nor timers.
LEMMA ScenarioStep ==
  ASSUME CInv, NEW o \in Operators, StartChaos(o) \/ Done(o)
  PROVE  CInv'
<1>1. UNCHANGED <<killed, timerSet, gen, armed, queued, restoring, age, killAge, pc, target>>
  BY DEF StartChaos, Done, timers
<1>2. script' \in [Operators -> 0..Len(Script) + 1] /\ chaosRunning' \in BOOLEAN
  <2>1. script \in [Operators -> 0..5] /\ Len(Script) = 4 /\ chaosRunning \in BOOLEAN
    BY ScriptSlots DEF CInv, TypeOK
  <2>2. /\ script' = script \/ script' = [script EXCEPT ![o] = 1]
           \/ script' = [script EXCEPT ![o] = 0]
        /\ chaosRunning' = chaosRunning \/ chaosRunning' = TRUE \/ chaosRunning' = FALSE
    BY DEF StartChaos, Done
  <2>3. script' \in [Operators -> 0..5]
    BY <2>1, <2>2
  <2>4. Len(Script) + 1 = 5
    BY <2>1
  <2> QED
    BY <2>1, <2>2, <2>3, <2>4, Zenon
<1>3. TypeOK'
  BY <1>1, <1>2 DEF CInv, TypeOK
<1>4. OneLiveTimer'
  BY <1>1, TimersUntouched DEF CInv
<1> QED
  BY <1>3, <1>4 DEF CInv

-----------------------------------------------------------------------------
(* Theorems for any number of operators.                                    *)

\* scheduleAutoRestore, cancelTimer and the callback keep exactly one live timer per
\* occupied slot, whatever handlers, scenario and runtime do concurrently.
THEOREM ChaosHandshake == Spec => [](TypeOK /\ OneLiveTimer)
<1>1. Init => CInv
  <2> SUFFICES ASSUME Init PROVE CInv
    OBVIOUS
  <2>1. TypeOK
    <3>1. /\ killed \in [Slots -> BOOLEAN] /\ timerSet \in [Slots -> BOOLEAN]
          /\ gen \in [Slots -> Nat] /\ target \in [Operators -> Slots]
          /\ pc \in [Operators -> {"idle", "schedule", "cancel"}] /\ chaosRunning \in BOOLEAN
      BY SlotsAssumption DEF Init
    <3>2. /\ age \in [Slots -> 0..Timeout] /\ killAge \in [Slots -> 0..Timeout + 1]
      BY TimeoutAssumption DEF Init
    <3>3. script \in [Operators -> 0..Len(Script) + 1]
      BY ScriptSlots DEF Init
    <3>4. armed \subseteq Slots \X Nat /\ queued \subseteq Slots \X Nat
          /\ restoring \subseteq Slots \X Nat
      BY DEF Init
    <3> QED
      BY <3>1, <3>2, <3>3, <3>4 DEF TypeOK
  <2>2. OneLiveTimer
    BY DEF Init, OneLiveTimer
  <2> QED
    BY <2>1, <2>2 DEF CInv
<1>2. CInv /\ [Next]_vars => CInv'
  <2> SUFFICES ASSUME CInv, [Next]_vars PROVE CInv'
    OBVIOUS
  <2>1. ASSUME NEW o \in Operators,
               Handler(o) \/ ScheduleAutoRestore(o) \/ CancelTimer(o)
               \/ StartChaos(o) \/ ScriptStep(o) \/ Done(o)
        PROVE  CInv'
    BY <2>1, HandlerStep, ScheduleStep, CancelStep, ScenarioStep, ScriptStepStep
  <2>2. ASSUME NEW s \in Slots, NEW g \in 0..MaxGen,
               Fire(s, g) \/ CallbackCheck(s, g) \/ CallbackRestore(s, g)
        PROVE  CInv'
    BY <2>2, FireStep, CallbackCheckStep, CallbackRestoreStep
  <2>3. CASE Tick
    BY <2>3, TickStep
  <2>4. CASE UNCHANGED vars
    BY <2>4 DEF vars, CInv, TypeOK, OneLiveTimer
  <2> QED
    BY <2>1, <2>2, <2>3, <2>4 DEF Next
<1> QED
  BY <1>1, <1>2, PTL DEF Spec, CInv

\* TryStart's compare-and-swap and the deferred Done: one scenario at a time.
THEOREM ChaosScenarioExclusive == Spec => []ScenarioExclusive
<1>1. Init => ScenarioExclusive
  BY DEF Init, ScenarioExclusive
<1>2. TypeOK /\ ScenarioExclusive /\ [Next]_vars => ScenarioExclusive'
  <2> SUFFICES ASSUME TypeOK, ScenarioExclusive, [Next]_vars PROVE ScenarioExclusive'
    OBVIOUS
  <2>1. CASE UNCHANGED <<script, chaosRunning>>
    BY <2>1 DEF ScenarioExclusive
  <2>2. ASSUME NEW o \in Operators, StartChaos(o) PROVE ScenarioExclusive'
    <3>1. CASE UNCHANGED <<script, chaosRunning>>
      BY <2>1, <3>1
    <3>2. CASE ~chaosRunning /\ chaosRunning' = TRUE /\ script' = [script EXCEPT ![o] = 1]
      BY <3>2 DEF TypeOK, ScenarioExclusive
    <3> QED
      BY <2>2, <3>1, <3>2 DEF StartChaos
  <2>3. ASSUME NEW o \in Operators, ScriptStep(o) PROVE ScenarioExclusive'
    <3>1. script[o] \in 1..4 /\ script' = [script EXCEPT ![o] = @ + 1] /\ UNCHANGED chaosRunning
      BY <2>3, ScriptSlots DEF ScriptStep
    <3>2. \A p \in Operators : script'[p] # 0 <=> script[p] # 0
      BY <3>1 DEF TypeOK
    <3> QED
      BY <3>1, <3>2 DEF ScenarioExclusive
  <2>4. ASSUME NEW o \in Operators, Done(o) PROVE ScenarioExclusive'
    <3>1. script[o] # 0 /\ chaosRunning' = FALSE /\ script' = [script EXCEPT ![o] = 0]
      BY <2>4, ScriptSlots DEF Done
    <3>2. \A p \in Operators : script'[p] = 0
      BY <3>1 DEF TypeOK, ScenarioExclusive
    <3> QED
      BY <3>1, <3>2 DEF ScenarioExclusive
  <2>5. ASSUME NEW o \in Operators, Handler(o) \/ ScheduleAutoRestore(o) \/ CancelTimer(o)
        PROVE  ScenarioExclusive'
    BY <2>1, <2>5 DEF Handler, ScheduleAutoRestore, CancelTimer
  <2>6. ASSUME NEW s \in Slots, NEW g \in 0..MaxGen,
               Fire(s, g) \/ CallbackCheck(s, g) \/ CallbackRestore(s, g)
        PROVE  ScenarioExclusive'
    BY <2>1, <2>6 DEF Fire, CallbackCheck, CallbackRestore
  <2>7. CASE Tick
    BY <2>1, <2>7 DEF Tick
  <2>8. CASE UNCHANGED vars
    BY <2>1, <2>8 DEF vars
  <2> QED
    BY <2>2, <2>3, <2>4, <2>5, <2>6, <2>7, <2>8 DEF Next
<1> QED
  BY <1>1, <1>2, ChaosHandshake, PTL DEF Spec

-----------------------------------------------------------------------------
(* The five-minute bound, when kills and restores do not overlap.           *)

SInv == CInv /\ KilledIsCovered /\ SerialInv /\ KillBounded

\* What CInv says of one slot, for use below.
LEMMA SlotTypes ==
  ASSUME CInv, NEW s \in Slots
  PROVE  /\ killed[s] \in BOOLEAN /\ timerSet[s] \in BOOLEAN /\ gen[s] \in Nat
         /\ age[s] \in 0..Timeout /\ killAge[s] \in 0..Timeout + 1 /\ Timeout \in Nat
  BY TimeoutAssumption DEF CInv, TypeOK

\* The flag half of Kill: nobody else is busy with the slot, so a flag that is already
\* set is covered by a timer or a callback.
LEMMA SerialStoreKilled ==
  ASSUME Exclusive, NEW op \in Operators, SInv, NEW s \in Slots, pc[op] = "idle",
         StoreKilled(op, s)
  PROVE  KilledIsCovered' /\ SerialInv' /\ KillBounded'
<1>0. \A o \in Operators : pc[o] # "idle" => target[o] # s /\ o # op
  BY DEF StoreKilled, Admitted
<1>1. /\ killed' = [killed EXCEPT ![s] = TRUE]
      /\ pc' = [pc EXCEPT ![op] = "schedule"] /\ target' = [target EXCEPT ![op] = s]
      /\ UNCHANGED <<timerSet, gen, armed, queued, restoring, age, killAge>>
  BY DEF StoreKilled, timers
<1>2. /\ pc'[op] = "schedule" /\ target'[op] = s /\ killed'[s]
      /\ \A o \in Operators : o # op => pc'[o] = pc[o] /\ target'[o] = target[o]
      /\ \A o \in Operators : target[o] \in Slots
      /\ \A r \in Slots : r # s => killed'[r] = killed[r]
      /\ \A r \in Slots : IsRestoring(r)' <=> IsRestoring(r)
  BY <1>1 DEF SInv, CInv, TypeOK, IsRestoring
<1>3. killed[s] => timerSet[s] \/ IsRestoring(s)
  BY <1>0 DEF SInv, KilledIsCovered
<1>4. KilledIsCovered'
  <2>1. ASSUME NEW r \in Slots, r # s, killed'[r]
        PROVE  \/ timerSet'[r] \/ IsRestoring(r)'
               \/ \E o \in Operators : pc'[o] = "schedule" /\ target'[o] = r
    BY <1>0, <1>1, <1>2, <2>1 DEF SInv, KilledIsCovered
  <2> QED
    BY <1>2, <2>1 DEF KilledIsCovered
<1>5. KillBounded'
  BY <1>1 DEF SInv, KillBounded
<1>6. SerialInv'
  <2>1. ~killed[s] => killAge[s] = 0
    BY DEF SInv, SerialInv
  <2>2. age[s] \in Nat /\ killAge[s] \in Nat
    BY SlotTypes DEF SInv
  <2>3. <<s, gen[s]>> \in armed => killAge[s] <= age[s] \/ IsRestoring(s)
    BY <2>1, <2>2 DEF SInv, SerialInv
  <2>4. killAge[s] = 0 \/ timerSet[s] \/ IsRestoring(s)
    BY <1>3, <2>1
  <2>5. \A o \in Operators : pc'[o] = "cancel" => ~killed'[target'[o]]
    BY <1>0, <1>2 DEF SInv, SerialInv
  <2>6. ASSUME NEW r \in Slots
        PROVE  /\ ~killed'[r] => killAge'[r] = 0
               /\ killed'[r] /\ <<r, gen'[r]>> \in armed' =>
                    killAge'[r] <= age'[r] \/ IsRestoring(r)'
               /\ \A o \in Operators : killed'[r] /\ pc'[o] = "schedule" /\ target'[o] = r =>
                    killAge'[r] = 0 \/ timerSet'[r] \/ IsRestoring(r)'
    <3>1. CASE r = s
      BY <1>1, <1>2, <2>3, <2>4, <3>1
    <3>2. CASE r # s
      BY <1>1, <1>2, <3>2 DEF SInv, SerialInv
    <3> QED
      BY <3>1, <3>2
  <2>7. \A o, p \in Operators :
           pc'[o] # "idle" /\ pc'[p] # "idle" /\ target'[o] = target'[p] => o = p
    BY <1>0, <1>2 DEF SInv, SerialInv
  <2> QED
    BY <2>5, <2>6, <2>7 DEF SerialInv
<1> QED
  BY <1>4, <1>5, <1>6

\* The flag half of Restore.
LEMMA SerialStoreRestored ==
  ASSUME Exclusive, NEW op \in Operators, SInv, NEW s \in Slots, pc[op] = "idle",
         StoreRestored(op, s)
  PROVE  KilledIsCovered' /\ SerialInv' /\ KillBounded'
<1>0. \A o \in Operators : pc[o] # "idle" => target[o] # s /\ o # op
  BY DEF StoreRestored, Admitted
<1>1. /\ killed' = [killed EXCEPT ![s] = FALSE] /\ killAge' = [killAge EXCEPT ![s] = 0]
      /\ pc' = [pc EXCEPT ![op] = "cancel"] /\ target' = [target EXCEPT ![op] = s]
      /\ UNCHANGED <<timerSet, gen, armed, queued, restoring, age>>
  BY DEF StoreRestored, timers
<1>2. /\ pc'[op] = "cancel" /\ target'[op] = s /\ ~killed'[s] /\ killAge'[s] = 0
      /\ \A o \in Operators : o # op => pc'[o] = pc[o] /\ target'[o] = target[o]
      /\ \A o \in Operators : target[o] \in Slots
      /\ \A r \in Slots : r # s => killed'[r] = killed[r] /\ killAge'[r] = killAge[r]
      /\ \A r \in Slots : IsRestoring(r)' <=> IsRestoring(r)
  BY <1>1 DEF SInv, CInv, TypeOK, IsRestoring
<1>4. KilledIsCovered'
  <2>1. ASSUME NEW r \in Slots, r # s, killed'[r]
        PROVE  \/ timerSet'[r] \/ IsRestoring(r)'
               \/ \E o \in Operators : pc'[o] = "schedule" /\ target'[o] = r
    BY <1>0, <1>1, <1>2, <2>1 DEF SInv, KilledIsCovered
  <2> QED
    BY <1>2, <2>1 DEF KilledIsCovered
<1>5. KillBounded'
  BY <1>2, TimeoutAssumption DEF SInv, KillBounded
<1>6. SerialInv'
  <2>1. \A o \in Operators : pc'[o] = "cancel" => ~killed'[target'[o]]
    BY <1>0, <1>2 DEF SInv, SerialInv
  <2>2. ASSUME NEW r \in Slots
        PROVE  /\ ~killed'[r] => killAge'[r] = 0
               /\ killed'[r] /\ <<r, gen'[r]>> \in armed' =>
                    killAge'[r] <= age'[r] \/ IsRestoring(r)'
               /\ \A o \in Operators : killed'[r] /\ pc'[o] = "schedule" /\ target'[o] = r =>
                    killAge'[r] = 0 \/ timerSet'[r] \/ IsRestoring(r)'
    BY <1>1, <1>2 DEF SInv, SerialInv
  <2>3. \A o, p \in Operators :
           pc'[o] # "idle" /\ pc'[p] # "idle" /\ target'[o] = target'[p] => o = p
    BY <1>0, <1>2 DEF SInv, SerialInv
  <2> QED
    BY <2>1, <2>2, <2>3 DEF SerialInv
<1> QED
  BY <1>4, <1>5, <1>6

\* Arming: an empty slot under a set flag means the flag was set just now, or a
\* callback is about to clear it.
LEMMA SerialSchedule ==
  ASSUME NEW op \in Operators, SInv, ScheduleAutoRestore(op)
  PROVE  KilledIsCovered' /\ SerialInv' /\ KillBounded'
<1> DEFINE s == target[op]
<1>0. s \in Slots /\ pc[op] = "schedule"
  BY DEF SInv, CInv, TypeOK, ScheduleAutoRestore
<1>1. /\ pc' = [pc EXCEPT ![op] = "idle"]
      /\ UNCHANGED <<killed, gen, queued, restoring, killAge, target>>
      /\ \/ timerSet[s] /\ UNCHANGED <<timerSet, armed, age>>
         \/ /\ ~timerSet[s] /\ timerSet' = [timerSet EXCEPT ![s] = TRUE]
            /\ armed' = armed \cup {<<s, gen[s]>>} /\ age' = [age EXCEPT ![s] = 0]
  BY DEF ScheduleAutoRestore
<1>2. /\ pc'[op] = "idle" /\ timerSet'[s]
      /\ \A o \in Operators : o # op => pc'[o] = pc[o]
      /\ \A r \in Slots : r # s => timerSet'[r] = timerSet[r] /\ age'[r] = age[r]
      /\ \A r \in Slots : IsRestoring(r)' <=> IsRestoring(r)
      /\ \A r \in Slots : r # s => (<<r, gen[r]>> \in armed' <=> <<r, gen[r]>> \in armed)
  BY <1>0, <1>1 DEF SInv, CInv, TypeOK, IsRestoring
<1> HIDE DEF s
<1>3. KilledIsCovered'
  <2>1. ASSUME NEW r \in Slots, r # s, killed'[r]
        PROVE  \/ timerSet'[r] \/ IsRestoring(r)'
               \/ \E o \in Operators : pc'[o] = "schedule" /\ target'[o] = r
    BY <1>1, <1>2, <2>1 DEF SInv, KilledIsCovered, s
  <2> QED
    BY <1>2, <2>1 DEF KilledIsCovered
<1>4. KillBounded'
  BY <1>1 DEF SInv, KillBounded
<1>5. killed[s] /\ <<s, gen[s]>> \in armed' => killAge[s] <= age'[s] \/ IsRestoring(s)
  <2>1. CASE timerSet[s] /\ UNCHANGED <<timerSet, armed, age>>
    BY <1>0, <2>1 DEF SInv, SerialInv
  <2>2. CASE ~timerSet[s] /\ age' = [age EXCEPT ![s] = 0]
    <3>1. killed[s] => killAge[s] = 0 \/ IsRestoring(s)
      BY <1>0, <2>2 DEF SInv, SerialInv, s
    <3>2. age'[s] = 0
      BY <1>0, <2>2 DEF SInv, CInv, TypeOK
    <3> QED
      BY <3>1, <3>2
  <2> QED
    BY <1>1, <2>1, <2>2
<1>6. SerialInv'
  <2>1. \A o \in Operators : pc'[o] = "cancel" => ~killed'[target'[o]]
    BY <1>1, <1>2 DEF SInv, SerialInv
  <2>2. ASSUME NEW r \in Slots
        PROVE  /\ ~killed'[r] => killAge'[r] = 0
               /\ killed'[r] /\ <<r, gen'[r]>> \in armed' =>
                    killAge'[r] <= age'[r] \/ IsRestoring(r)'
               /\ \A o \in Operators : killed'[r] /\ pc'[o] = "schedule" /\ target'[o] = r =>
                    killAge'[r] = 0 \/ timerSet'[r] \/ IsRestoring(r)'
    <3>1. CASE r = s
      BY <1>0, <1>1, <1>2, <1>5, <3>1 DEF SInv, SerialInv
    <3>2. CASE r # s
      BY <1>1, <1>2, <3>2 DEF SInv, SerialInv
    <3> QED
      BY <3>1, <3>2
  <2>3. \A o, p \in Operators :
           pc'[o] # "idle" /\ pc'[p] # "idle" /\ target'[o] = target'[p] => o = p
    BY <1>1, <1>2 DEF SInv, SerialInv
  <2> QED
    BY <2>1, <2>2, <2>3 DEF SerialInv
<1> QED
  BY <1>3, <1>4, <1>6

\* Cancelling removes only what covered a flag that is already clear.
LEMMA SerialCancel ==
  ASSUME NEW op \in Operators, SInv, CancelTimer(op)
  PROVE  KilledIsCovered' /\ SerialInv' /\ KillBounded'
<1> DEFINE s == target[op]
<1>0. s \in Slots /\ pc[op] = "cancel" /\ ~killed[s]
  BY DEF SInv, CInv, TypeOK, CancelTimer, SerialInv
<1>1. /\ timerSet' = [timerSet EXCEPT ![s] = FALSE]
      /\ armed' = IF timerSet[s] THEN armed \ {<<s, gen[s]>>} ELSE armed
      /\ gen' = [gen EXCEPT ![s] = @ + 1]
      /\ pc' = [pc EXCEPT ![op] = "idle"]
      /\ UNCHANGED <<killed, queued, restoring, age, killAge, target>>
  BY DEF CancelTimer
<1>2. /\ pc'[op] = "idle"
      /\ \A o \in Operators : o # op => pc'[o] = pc[o]
      /\ \A r \in Slots : r # s => timerSet'[r] = timerSet[r] /\ gen'[r] = gen[r]
      /\ \A r \in Slots : IsRestoring(r)' <=> IsRestoring(r)
      /\ armed' \subseteq armed
  BY <1>0, <1>1 DEF SInv, CInv, TypeOK, IsRestoring
<1> HIDE DEF s
<1>3. KilledIsCovered'
  <2>1. ASSUME NEW r \in Slots, killed'[r]
        PROVE  \/ timerSet'[r] \/ IsRestoring(r)'
               \/ \E o \in Operators : pc'[o] = "schedule" /\ target'[o] = r
    <3>1. r # s /\ killed[r]
      BY <1>0, <1>1, <2>1
    <3> QED
      BY <1>0, <1>1, <1>2, <3>1 DEF SInv, KilledIsCovered
  <2> QED
    BY <2>1 DEF KilledIsCovered
<1>4. KillBounded'
  BY <1>1 DEF SInv, KillBounded
<1>5. SerialInv'
  <2>1. \A o \in Operators : pc'[o] = "cancel" => ~killed'[target'[o]]
    BY <1>1, <1>2 DEF SInv, SerialInv
  <2>2. ASSUME NEW r \in Slots
        PROVE  /\ ~killed'[r] => killAge'[r] = 0
               /\ killed'[r] /\ <<r, gen'[r]>> \in armed' =>
                    killAge'[r] <= age'[r] \/ IsRestoring(r)'
               /\ \A o \in Operators : killed'[r] /\ pc'[o] = "schedule" /\ target'[o] = r =>
                    killAge'[r] = 0 \/ timerSet'[r] \/ IsRestoring(r)'
    <3>1. CASE r = s
      BY <1>0, <1>1, <3>1 DEF SInv, SerialInv
    <3>2. CASE r # s
      BY <1>1, <1>2, <3>2 DEF SInv, SerialInv
    <3> QED
      BY <3>1, <3>2
  <2>3. \A o, p \in Operators :
           pc'[o] # "idle" /\ pc'[p] # "idle" /\ target'[o] = target'[p] => o = p
    BY <1>1, <1>2 DEF SInv, SerialInv
  <2> QED
    BY <2>1, <2>2, <2>3 DEF SerialInv
<1> QED
  BY <1>3, <1>4, <1>5

\* A timer that fires leaves the set of running ones; nothing else moves.
LEMMA SerialFire ==
  ASSUME SInv, NEW s \in Slots, NEW g \in 0..MaxGen, Fire(s, g)
  PROVE  KilledIsCovered' /\ SerialInv' /\ KillBounded'
<1>1. /\ armed' \subseteq armed
      /\ UNCHANGED <<killed, timerSet, gen, restoring, age, killAge, pc, target>>
  BY DEF Fire
<1>2. \A r \in Slots : IsRestoring(r)' <=> IsRestoring(r)
  BY <1>1 DEF IsRestoring
<1>3. KilledIsCovered'
  BY <1>1, <1>2 DEF SInv, KilledIsCovered
<1>4. KillBounded'
  BY <1>1 DEF SInv, KillBounded
<1>5. SerialInv'
  BY <1>1, <1>2 DEF SInv, SerialInv
<1> QED
  BY <1>3, <1>4, <1>5

\* A callback that empties the slot takes over the duty to restore.
LEMMA SerialCheck ==
  ASSUME SInv, NEW s \in Slots, NEW g \in 0..MaxGen, CallbackCheck(s, g)
  PROVE  KilledIsCovered' /\ SerialInv' /\ KillBounded'
<1>1. UNCHANGED <<killed, gen, armed, age, killAge, pc, target>>
  BY DEF CallbackCheck
<1>2. \A r \in Slots : IsRestoring(r) => IsRestoring(r)'
  BY DEF CallbackCheck, IsRestoring
<1>3. \A r \in Slots : timerSet[r] => timerSet'[r] \/ IsRestoring(r)'
  <2>1. CASE UNCHANGED timerSet
    BY <2>1
  <2>2. CASE timerSet' = [timerSet EXCEPT ![s] = FALSE] /\ restoring' = restoring \cup {<<s, g>>}
    <3>1. IsRestoring(s)'
      <4>1. <<s, g>> \in restoring' /\ <<s, g>>[1] = s
        BY <2>2
      <4> QED
        BY <4>1, Zenon DEF IsRestoring
    <3>2. \A r \in Slots : r # s => timerSet'[r] = timerSet[r]
      BY <2>2 DEF SInv, CInv, TypeOK
    <3> QED
      BY <3>1, <3>2
  <2> QED
    BY <2>1, <2>2 DEF CallbackCheck
<1>4. KilledIsCovered'
  BY <1>1, <1>2, <1>3 DEF SInv, KilledIsCovered
<1>5. KillBounded'
  BY <1>1 DEF SInv, KillBounded
<1>6. SerialInv'
  BY <1>1, <1>2, <1>3 DEF SInv, SerialInv
<1> QED
  BY <1>4, <1>5, <1>6

\* restore() clears the flag of its own slot only.
LEMMA SerialRestore ==
  ASSUME SInv, NEW s \in Slots, NEW g \in 0..MaxGen, CallbackRestore(s, g)
  PROVE  KilledIsCovered' /\ SerialInv' /\ KillBounded'
<1>1. /\ restoring' = restoring \ {<<s, g>>}
      /\ killed' = [killed EXCEPT ![s] = FALSE] /\ killAge' = [killAge EXCEPT ![s] = 0]
      /\ UNCHANGED <<timerSet, gen, armed, queued, age, pc, target>>
  BY DEF CallbackRestore
<1>2. /\ ~killed'[s] /\ killAge'[s] = 0
      /\ \A r \in Slots : r # s => killed'[r] = killed[r] /\ killAge'[r] = killAge[r]
  BY <1>1 DEF SInv, CInv, TypeOK
<1>3. \A r \in Slots : r # s => (IsRestoring(r)' <=> IsRestoring(r))
  BY <1>1 DEF IsRestoring
<1>4. KilledIsCovered'
  BY <1>1, <1>2, <1>3 DEF SInv, KilledIsCovered
<1>5. KillBounded'
  BY <1>2, TimeoutAssumption DEF SInv, KillBounded
<1>6. \A o \in Operators : pc'[o] = "cancel" => ~killed'[target'[o]]
  BY <1>1, <1>2 DEF SInv, SerialInv, CInv, TypeOK
<1>7. SerialInv'
  BY <1>1, <1>2, <1>3, <1>6 DEF SInv, SerialInv
<1> QED
  BY <1>4, <1>5, <1>7

\* When time passes, a set flag is covered by a running timer that is at least as old.
LEMMA SerialTick ==
  ASSUME SInv, Tick
  PROVE  KilledIsCovered' /\ SerialInv' /\ KillBounded'
<1>1. /\ Quiet
      /\ age' = [s \in Slots |-> IF Running(s) THEN age[s] + 1 ELSE age[s]]
      /\ killAge' = [s \in Slots |-> IF killed[s] /\ killAge[s] <= Timeout
                                     THEN killAge[s] + 1 ELSE killAge[s]]
      /\ UNCHANGED <<killed, timerSet, gen, armed, queued, restoring, pc, target>>
  BY DEF Tick
<1>2. /\ \A o \in Operators : pc[o] = "idle"
      /\ queued = {} /\ restoring = {} /\ \A s \in Slots : ~IsRestoring(s) /\ ~IsRestoring(s)'
  BY <1>1 DEF Quiet, IsRestoring
<1>3. ASSUME NEW s \in Slots, killed[s]
      PROVE  /\ <<s, gen[s]>> \in armed /\ Running(s) /\ age[s] < Timeout
             /\ killAge[s] <= age[s]
             /\ killAge'[s] = killAge[s] + 1 /\ age'[s] = age[s] + 1
             /\ killAge'[s] <= Timeout /\ killAge'[s] <= age'[s]
  <2>1. timerSet[s]
    BY <1>2, <1>3 DEF SInv, KilledIsCovered
  <2>2. <<s, gen[s]>> \in armed
    BY <1>2, <2>1 DEF SInv, CInv, OneLiveTimer
  <2>3. Running(s) /\ age[s] < Timeout
    BY <1>1, <2>2 DEF Running, Quiet
  <2>4. killAge[s] <= age[s]
    BY <1>2, <1>3, <2>2 DEF SInv, SerialInv
  <2>5. age[s] \in Nat /\ killAge[s] \in Nat /\ Timeout \in Nat
    BY SlotTypes DEF SInv
  <2>6. killAge[s] <= Timeout
    BY <2>3, <2>4, <2>5
  <2>7. killAge'[s] = killAge[s] + 1 /\ age'[s] = age[s] + 1
    BY <1>1, <1>3, <2>3, <2>6
  <2> QED
    BY <2>2, <2>3, <2>4, <2>5, <2>7
<1>4. \A s \in Slots : ~killed[s] => killAge'[s] = killAge[s]
  BY <1>1
<1>5. KillBounded'
  BY <1>3, <1>4 DEF SInv, KillBounded
<1>6. KilledIsCovered'
  BY <1>1, <1>3 DEF SInv, CInv, OneLiveTimer, KilledIsCovered
<1>7. SerialInv'
  BY <1>1, <1>2, <1>3, <1>4 DEF SInv, SerialInv
<1> QED
  BY <1>5, <1>6, <1>7

\* As long as operators wait for each other on a slot, a killed or degraded model is
\* always on its way back and no fault outlasts chaosAutoRestoreTimeout, however often it
\* is repeated and however many operators there are.
THEOREM ChaosSerialBound ==
  ASSUME Exclusive
  PROVE  Spec => [](KilledIsCovered /\ SerialInv /\ KillBounded)
<1>1. Init => KilledIsCovered /\ SerialInv /\ KillBounded
  BY TimeoutAssumption DEF Init, KilledIsCovered, SerialInv, KillBounded
<1>2. CInv /\ KilledIsCovered /\ SerialInv /\ KillBounded /\ [Next]_vars
        => (KilledIsCovered /\ SerialInv /\ KillBounded)'
  <2> SUFFICES ASSUME SInv, [Next]_vars PROVE KilledIsCovered' /\ SerialInv' /\ KillBounded'
    BY DEF SInv
  <2>1. ASSUME NEW op \in Operators, Handler(op)
        PROVE  KilledIsCovered' /\ SerialInv' /\ KillBounded'
    <3>1. PICK s \in Slots : StoreKilled(op, s) \/ StoreRestored(op, s)
      BY <2>1 DEF Handler
    <3>2. pc[op] = "idle"
      BY <2>1 DEF Handler
    <3> QED
      BY <3>1, <3>2, SerialStoreKilled, SerialStoreRestored
  <2>2. ASSUME NEW op \in Operators, ScriptStep(op)
        PROVE  KilledIsCovered' /\ SerialInv' /\ KillBounded'
    <3>1. script[op] \in 1..4 /\ pc[op] = "idle"
      BY <2>2, ScriptSlots DEF ScriptStep
    <3>2. PICK s \in Slots : StoreKilled(op, s) \/ StoreRestored(op, s)
      BY <2>2, <3>1, ScriptSlots DEF ScriptStep
    <3> QED
      BY <3>1, <3>2, SerialStoreKilled, SerialStoreRestored
  <2>3. ASSUME NEW op \in Operators, ScheduleAutoRestore(op)
        PROVE  KilledIsCovered' /\ SerialInv' /\ KillBounded'
    BY <2>3, SerialSchedule
  <2>4. ASSUME NEW op \in Operators, CancelTimer(op)
        PROVE  KilledIsCovered' /\ SerialInv' /\ KillBounded'
    BY <2>4, SerialCancel
  <2>5. CASE UNCHANGED <<killed, timerSet, gen, armed, queued, restoring, age, killAge,
                         pc, target>>
    BY <2>5 DEF SInv, KilledIsCovered, SerialInv, KillBounded, IsRestoring
  <2>6. ASSUME NEW op \in Operators, StartChaos(op) \/ Done(op)
        PROVE  KilledIsCovered' /\ SerialInv' /\ KillBounded'
    BY <2>5, <2>6 DEF StartChaos, Done, timers
  <2>7. ASSUME NEW s \in Slots, NEW g \in 0..MaxGen,
               Fire(s, g) \/ CallbackCheck(s, g) \/ CallbackRestore(s, g)
        PROVE  KilledIsCovered' /\ SerialInv' /\ KillBounded'
    BY <2>7, SerialFire, SerialCheck, SerialRestore
  <2>8. CASE Tick
    BY <2>8, SerialTick
  <2>9. CASE UNCHANGED vars
    BY <2>5, <2>9 DEF vars
  <2> QED
    BY <2>1, <2>2, <2>3, <2>4, <2>6, <2>7, <2>8, <2>9 DEF Next
<1>3. Spec => []CInv
  BY ChaosHandshake, PTL DEF CInv
<1> QED
  BY <1>1, <1>2, <1>3, PTL DEF Spec
=============================================================================
