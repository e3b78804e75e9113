------------------------------ MODULE MCWsolWrap ------------------------------
(* WsolWrap with amounts of a few lamports: eight of them make a SOL, so   *)
(* that every balance but zero is mistaken for a large one.                *)
EXTENDS WsolWrap

MCInvestments == {2}
MCCosts == {1, 3}
=============================================================================
