-------------------------- MODULE MCCircuitBreaker --------------------------
(* CircuitBreaker for TLC: callers run the same code and may be permuted.  *)
EXTENDS CircuitBreaker, TLC

Symmetry == Permutations(Callers)
=============================================================================
