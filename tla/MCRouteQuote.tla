---------------------------- MODULE MCRouteQuote ----------------------------
(* RouteQuote on a small instance: a pool at four prices  and a nearly     *)
(* empty one on each exchange; bins at three prices, some with one side    *)
(* empty.                                                                  *)
EXTENDS RouteQuote

Holding(s, m, b) == [sol |-> s, meme |-> m, bins |-> b]
Bin(x, y) == [x |-> x, y |-> y]

Wide == Holding(700, 500, <<Bin(0, 90), Bin(150, 200), Bin(120, 60)>>)
Thin == Holding(700, 500, <<Bin(200, 120), Bin(40, 30)>>)
Bare == Holding(700, 500, <<Bin(0, 120), Bin(90, 0)>>)

MCPools ==
  [v \in Venue |->
     IF v = "dlmm" THEN {Wide, Thin, Bare}
     ELSE {Holding(900, 900, <<>>), Holding(930, 900, <<>>), Holding(1430, 930, <<>>),
           Holding(500, 1900, <<>>), Holding(2, 0, <<>>)}]

Opp(i, n, x) == [inv |-> i, net |-> n, solX |-> x, fee |-> 20]
MCOffers == {Opp(400, 20, TRUE), Opp(120, 90, TRUE), Opp(120, 20, FALSE), Opp(3, 1, TRUE)}
=============================================================================
