--------------------------- MODULE MCStreamCache ---------------------------
(* Two accounts of the subscribed programs. *)
EXTENDS StreamCache

CONSTANTS pool, bins

MCAccounts == {pool, bins}
=============================================================================
