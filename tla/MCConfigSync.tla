--------------------------- MODULE MCConfigSync ---------------------------
(***************************************************************************)
(* ConfigSync on small instances.                                          *)
(***************************************************************************)
EXTENDS ConfigSync, TLC

\* Nothing tells one id, handler, admin worker or gateway from another.
Symmetry == Permutations(Id) \union Permutations(Handler)
              \union Permutations(Admin) \union Permutations(Gateway)
=============================================================================
