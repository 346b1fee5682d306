-------------------------------- MODULE Rings --------------------------------
(***************************************************************************)
(* The ring buffers of the system: latency windows (telemetry/latency.go), *)
(* the score history (memory/score_history.go) and the evaluator's window  *)
(* of answer lengths (quality/evaluator.go) are the same structure, a      *)
(* fixed array, the next index and a flag set when the index wraps round.  *)
(***************************************************************************)
EXTENDS Integers, Sequences, FiniteSets

EmptyRing(n) == [slots |-> [i \in 0..n - 1 |-> 0], idx |-> 0, filled |-> FALSE]

Capacity(ring) == Cardinality(DOMAIN ring.slots)

\* Mutant: the ring is never marked as full.
RingPut_NeverFull(ring, v) ==
    [slots |-> [ring.slots EXCEPT ![ring.idx] = v],
     idx |-> (ring.idx + 1) % Capacity(ring), filled |-> FALSE]

\* Record: overwrite the oldest slot.
RingPut(ring, v) ==
    LET next == (ring.idx + 1) % Capacity(ring)
    IN  [slots |-> [ring.slots EXCEPT ![ring.idx] = v],
         idx |-> next, filled |-> ring.filled \/ next = 0]

RingLen(ring) == IF ring.filled THEN Capacity(ring) ELSE ring.idx

\* ScoreHistory.Snapshot: the values in the order they were recorded.
RingInOrder(ring) ==
    LET from == IF ring.filled THEN ring.idx ELSE 0
    IN  [i \in 1..RingLen(ring) |-> ring.slots[(from + i - 1) % Capacity(ring)]]

\* What a ring of n should hold: the last n values put into it.
LastOf(n, seq, v) == LET all == Append(seq, v) IN IF Len(all) > n THEN Tail(all) ELSE all
=============================================================================
