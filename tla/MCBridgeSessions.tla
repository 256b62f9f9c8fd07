-------------------------- MODULE MCBridgeSessions --------------------------
(* Two Atoms, two claims and three connections: one bridge can reconnect    *)
(* while its old session lives, and another can replace it.                 *)
EXTENDS BridgeSessions, TLC

CONSTANTS b1, b2, k1, k2, c1, c2, c3

MCBridge == {b1, b2}
MCClaim == {k1, k2}
MCConn == {c1, c2, c3}
IdSymmetry == Permutations(MCBridge) \cup Permutations(MCClaim) \cup Permutations(MCConn)
=============================================================================
