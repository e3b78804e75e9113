----------------------------- MODULE MCRouteLayout -----------------------------
(* Small instances of RouteLayout. *)
EXTENDS RouteLayout

(* Every coin there is; few lookup tables, in different orders. *)
AllCoins == Coin
MCTables ==
  { <<>>, <<"lb_pair", "reserve_x", "tokenkeg">>, <<"tokenkeg", "dlmm_event_auth", "lb_pair">> }

(* Fewer coins where the tip multiplies the states. *)
PlainCoins == {c \in Coin : c.bitmap /\ c.bins \in {0, 2}}
=============================================================================
