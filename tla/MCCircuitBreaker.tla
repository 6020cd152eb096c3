-------------------------- MODULE MCCircuitBreaker --------------------------
(***************************************************************************)
(* CircuitBreaker on small instances.                                      *)
(***************************************************************************)
EXTENDS CircuitBreaker, TLC

\* Requests are interchangeable: no action or invariant tells them apart.
Symmetry == Permutations(Request)
=============================================================================
