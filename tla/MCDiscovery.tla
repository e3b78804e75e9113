----------------------------- MODULE MCDiscovery -----------------------------
(* Discovery of one coin; the addresses of all others are OtherSwap's.      *)
EXTENDS Discovery
CONSTANT c1
=============================================================================
