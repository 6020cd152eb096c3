--------------------------- MODULE MCRateLimiter ---------------------------
(***************************************************************************)
(* RateLimiter on small instances.                                         *)
(***************************************************************************)
EXTENDS RateLimiter

\* Every worker's clock agrees with Redis'.
InStep == [w \in Worker |-> 0]
=============================================================================
