---------------------------- MODULE MCAdminKeys ----------------------------
(* Two admin workers, as docker-compose.yaml runs them, one bootstrap key  *)
(* and one that a rotation creates, for good or to expire.                 *)
EXTENDS AdminKeys, TLC

CONSTANTS w1, w2, boot, k1

MCWorker == {w1, w2}
MCKey == {boot, k1}
MCBootstrap == {boot}
MCLifetime == {0, 1}

MCSymmetry == Permutations(MCWorker)
=============================================================================
