-------------------------- MODULE MCCircuitBreaker ---------------------------
(* A small instance of CircuitBreaker for TLC. *)
EXTENDS CircuitBreaker, TLC

CONSTANTS c1, c2, c3, c4

FourCallers == {c1, c2, c3, c4}
Symmetry == Permutations(Callers)

=============================================================================
