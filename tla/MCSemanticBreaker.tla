-------------------------- MODULE MCSemanticBreaker --------------------------
(* Model-checking instances of SemanticBreaker: Breaker.cfg gives goroutines *)
(* that may lose their call, BreakerProbeLeak.cfg asks what follows from it.  *)
EXTENDS SemanticBreaker
=============================================================================
