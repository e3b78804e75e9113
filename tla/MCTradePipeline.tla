---------------------------- MODULE MCTradePipeline ---------------------------
(* TradePipeline on small instances: one kind of opportunity, trades that  *)
(* win, or fail and pay the fee, or fail at a larger loss.                 *)
EXTENDS TradePipeline

MCOpps == { [net |-> 1, invest |-> 1] }
MCPnls == {-3, -1, 1, 2}
MCFewPnls == {-1, 1, 2}
MCTwoOutcomes == { [ok |-> TRUE, pnl |-> 2], [ok |-> FALSE, pnl |-> -1] }
MCFailures == { [ok |-> FALSE, pnl |-> -3] }
MCOneOutcome == { [ok |-> TRUE, pnl |-> 2] }
=============================================================================
