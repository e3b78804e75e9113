---------------------------- MODULE MCPoolCaches ----------------------------
(* One task that scans and trades, one that verifies the same coin.        *)
EXTENDS PoolCaches
CONSTANTS scanner, verifier
=============================================================================
