------------------------------- MODULE MCChaos -------------------------------
(* Model-checking instances of Chaos.                                       *)
EXTENDS Chaos, TLC

\* Goroutines are interchangeable (used only where no liveness is checked).
Symmetry == Permutations(Operators)
=============================================================================
