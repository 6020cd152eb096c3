--------------------------- MODULE MCRouteHistory ---------------------------
(* Two ids and two contents: every rename, conflict and restored content.  *)
EXTENDS RouteHistory, TLC

CONSTANTS a, b, c, d

MCId == {a, b}
MCContent == {c, d}
MCSizes == 0..2
MCLimits == -1..3

MCSymmetry == Permutations(MCId) \union Permutations(MCContent)
=============================================================================
