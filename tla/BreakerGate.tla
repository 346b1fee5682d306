----------------------------- MODULE BreakerGate -----------------------------
(***************************************************************************)
(* What a semantic breaker promises its callers, whatever its window, its  *)
(* thresholds and its clock do: it is closed or open; while it is open one *)
(* caller at a time takes the probe slot; any reported answer frees the    *)
(* slot; and it closes only after RecoverySamples good answers with no bad *)
(* one in between.  SemanticBreaker implements this, Orchestrator uses it. *)
(***************************************************************************)
EXTENDS Naturals

CONSTANT RecoverySamples

VARIABLE gate       \* [open, probing, streak]

Closed == [open |-> FALSE, probing |-> FALSE, streak |-> 0]
Opened(n) == [open |-> TRUE, probing |-> FALSE, streak |-> n]

\* A caller may take the probe slot, if the cooldown is over.
MayProbe(g) == g.open /\ ~g.probing
AfterProbe(g) == [open |-> TRUE, probing |-> TRUE, streak |-> g.streak]

\* What a reported answer can lead to: any answer may open a closed breaker; a bad,
\* a mediocre and a good answer differ in what they do to an open one.
AfterReport(g) ==
    IF ~g.open THEN {Closed, Opened(0)}
    ELSE {Opened(0), Opened(g.streak),
          IF g.streak + 1 >= RecoverySamples THEN Closed ELSE Opened(g.streak + 1)}

Init == gate = Closed

Next ==
    \/ MayProbe(gate) /\ gate' = AfterProbe(gate)
    \/ gate' \in AfterReport(gate)

Spec == Init /\ [][Next]_gate
=============================================================================
