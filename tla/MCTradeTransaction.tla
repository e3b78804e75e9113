--------------------------- MODULE MCTradeTransaction -------------------------
(* TradeTransaction on a small instance: each plan in both directions, and *)
(* the router on each exchange as first and as second leg.                 *)
EXTENDS TradeTransaction

Plan(p, b, s, f, fit) ==
  [plan |-> p, buy |-> b, sell |-> s, amount |-> 2, est |-> 2, floor |-> f,
   solFloor |-> 1, fits |-> fit]

MCMsgs ==
  { Plan("routed", "pumpswap", "dlmm", 2, TRUE), Plan("routed", "dlmm", "pumpswap", 1, TRUE),
    Plan("routed", "cpmm", "whirlpool", 0, TRUE), Plan("routed", "whirlpool", "cpmm", 1, FALSE),
    Plan("amm", "pumpswap", "dlmm", 1, TRUE), Plan("amm", "dlmm", "pumpswap", 1, TRUE),
    Plan("curve", "curve", "dlmm", 1, TRUE), Plan("curve", "dlmm", "curve", 1, TRUE) }
MCStock == {1}
MCRefills == {1}
=============================================================================
