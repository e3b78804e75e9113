----------------------------- MODULE MCRiskTracker ----------------------------
(* RiskTracker on a small instance: one opportunity that passes, one below *)
(* the profit threshold, one above the investment cap.                     *)
EXTENDS RiskTracker

MCOpps == { [net |-> 1, invest |-> 1], [net |-> 0, invest |-> 1],
            [net |-> 1, invest |-> 3] }
MCPnls == {-3, -1, 2}
=============================================================================
