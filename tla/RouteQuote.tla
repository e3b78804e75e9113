------------------------------ MODULE RouteQuote ------------------------------
(***************************************************************************)
(* From an opportunity to the end of its routed transaction: the twelve    *)
(* builders of executor/atomic read the two pools, some from the chain and *)
(* some from a cache, quote both legs and refuse or send; the pools move   *)
(* meanwhile; the router program runs on the pools as it finds them.  The  *)
(* exchanges are external: they swap as the client's formulas assume.      *)
(* Amounts are lamports and token units; RouteLayout says which of these   *)
(* transactions have accounts the exchanges accept.                        *)
(***************************************************************************)
EXTENDS SwapMath

CONSTANTS
  Pools,      (* [Venue -> set of the states of a pool there]              *)
  Offers,     (* opportunities: see Offer                                  *)
  PumpFee,    (* pumpswap_fee_bps                                          *)
  OrcaRate,   (* fee_rate of the Whirlpool pool                            *)
  Slippage,   (* slippage_tolerance_bps                                    *)
  Cu,         (* compute_cu_cost_sol                                       *)
  Threshold,  (* min_profit_threshold_sol                                  *)
  MaxMoves    (* bound: changes of the pools                               *)

Venue == {"pump", "cpmm", "orca", "dlmm"}
Leg == {"buy", "sell"}
Unread == -2

(* What a pool holds.  bins, in the order of their ids, is empty but for   *)
(* DLMM, where sol and meme are the totals of the cached pair.             *)
Pool == [sol : Nat, meme : Nat, bins : Seq([x : Nat, y : Nat])]

Offer ==
  [ inv  : Nat \ {0},   (* investment_lamports, opp.investment_sol         *)
    net  : Int,         (* opp.net_profit_sol                              *)
    solX : BOOLEAN,     (* token_x of the DLMM pair is SOL                 *)
    fee  : 0 .. Bps ]   (* opp.dlmm_fee_bps                                *)

ASSUME QuoteConstants ==
  /\ Pools \in [Venue -> SUBSET Pool]
  /\ Offers \subseteq Offer
  /\ PumpFee \in Nat /\ OrcaRate \in 0 .. Ppm /\ Slippage \in Nat
  /\ Cu \in Nat /\ Threshold \in Nat \ {0} /\ MaxMoves \in Nat

(***************************************************************************)
(* The builders.  cap: how the investment is cut to a third of a pool,     *)
(* "third" leaving it alone when that pool is empty; guess: a sale the     *)
(* bins cannot price is taken to bring half the tokens in lamports; half:  *)
(* the quote must keep half the profit the scanner saw.                    *)
(***************************************************************************)
Plain(b, s) == [buy |-> b, sell |-> s, cap |-> "none", guess |-> FALSE, half |-> FALSE]

PumpToDlmm == [Plain("pump", "dlmm") EXCEPT !.cap = "third"]
DlmmToPump == [Plain("dlmm", "pump") EXCEPT !.cap = "third of the sale", !.half = TRUE]
CpmmToOrca == Plain("cpmm", "orca")
OrcaToCpmm == [Plain("orca", "cpmm") EXCEPT !.cap = "third"]
PumpToCpmm == [Plain("pump", "cpmm") EXCEPT !.cap = "least"]
CpmmToPump == Plain("cpmm", "pump")
DlmmToOrca == Plain("dlmm", "orca")
OrcaToDlmm == [Plain("orca", "dlmm") EXCEPT !.cap = "least", !.guess = TRUE]
PumpToOrca == [Plain("pump", "orca") EXCEPT !.cap = "least"]
OrcaToPump == [Plain("orca", "pump") EXCEPT !.cap = "least"]
CpmmToDlmm == [Plain("cpmm", "dlmm") EXCEPT !.guess = TRUE]
DlmmToCpmm == Plain("dlmm", "cpmm")

Builders ==
  { PumpToDlmm, DlmmToPump, CpmmToOrca, OrcaToCpmm, PumpToCpmm, CpmmToPump,
    DlmmToOrca, OrcaToDlmm, PumpToOrca, OrcaToPump, CpmmToDlmm, DlmmToCpmm }

VARIABLES
  builder,   (* the builder of the opportunity's pair of exchanges         *)
  offer,     (* the opportunity                                            *)
  pool,      (* [Leg -> Pool]: the pools on the chain                      *)
  cached,    (* [Leg -> Pool]: the pools as the caches last saw them       *)
  read,      (* [Leg -> Pool or Unread parts]: what the builder has read   *)
  quote,     (* the amounts of the transaction, NoQuote before             *)
  outcome,   (* "open", "refused", "sent", "reverted" or "landed"          *)
  net,       (* lamports the router's legs brought, less the investment    *)
  moves,     (* changes of the pools so far                                *)
  past       (* history: [Leg -> states of the pool since the start]       *)

vars == <<builder, offer, pool, cached, read, quote, outcome, net, moves, past>>

Venued(leg) == builder[leg]
NoQuote == [inv |-> 0, floor |-> 0, sol |-> 0, guessed |-> FALSE]
NotRead == [sol |-> Unread, meme |-> Unread, bins |-> <<>>]

-----------------------------------------------------------------------------
(* One leg's output by the client's formulas.  The sides of the pool are   *)
(* chosen by the leg; xToY of the bins by the leg and the pair's order.    *)
(* Broken variants stand before the definition they would replace.         *)
XToY(leg) == (leg = "buy") <=> offer.solX

LegOutOneWay(leg, p, a) ==
  CASE Venued(leg) = "pump" -> CheckedEstimate(p.sol, p.meme, a, PumpFee)
    [] Venued(leg) = "cpmm" -> CheckedCp(p.sol, p.meme, a, CpmmRate)
    [] Venued(leg) = "orca" -> CheckedCp(p.sol, p.meme, a, OrcaRate)
    [] Venued(leg) = "dlmm" -> DlmmOut(p.bins, a, XToY(leg), offer.fee)

LegOut(leg, p, a) ==
  LET ri == IF leg = "buy" THEN p.sol ELSE p.meme
      ro == IF leg = "buy" THEN p.meme ELSE p.sol
  IN  CASE Venued(leg) = "pump" -> CheckedEstimate(ri, ro, a, PumpFee)
        [] Venued(leg) = "cpmm" -> CheckedCp(ri, ro, a, CpmmRate)
        [] Venued(leg) = "orca" -> CheckedCp(ri, ro, a, OrcaRate)
        [] Venued(leg) = "dlmm" -> DlmmOut(p.bins, a, XToY(leg), offer.fee)

Least(a, b) == IF a =< b THEN a ELSE b

Capped ==
  LET third(leg) == read[leg].sol \div 3
      cut(leg) == IF read[leg].sol > 0 THEN Least(offer.inv, third(leg)) ELSE offer.inv
  IN  CASE builder.cap = "none" -> offer.inv
        [] builder.cap = "third" -> cut("buy")
        [] builder.cap = "third of the sale" -> cut("sell")
        [] builder.cap = "least" ->
             Least(offer.inv, IF third("buy") = 0 THEN 1 ELSE third("buy"))

(* "conservative second leg": the sale is priced on the floor of the buy.  *)
SecondLegOfEstimate(est, floor) == est
SecondLeg(est, floor) == floor

(* Both legs, the second on the floor of the first; None refuses.          *)
TheQuote ==
  LET est == LegOut("buy", read["buy"], Capped)
      floor == Slipped(est, Capped, read["buy"].sol, Slippage)
      sale == LegOut("sell", read["sell"], SecondLeg(est, floor))
      guessed == builder.guess /\ sale = 0
      priced == est # None /\ sale # None
      empty == \/ Venued("buy") = "dlmm" /\ est = 0
               \/ Venued("sell") = "dlmm" /\ sale = 0 /\ ~builder.guess
  IN  IF ~priced \/ empty THEN {}
      ELSE {[inv |-> Capped, floor |-> floor, guessed |-> guessed,
             sol |-> IF guessed THEN floor \div 2 ELSE sale]}

(* The freshness check: against the whole investment of the opportunity.   *)
FreshNetFree(q) == q.sol - offer.inv
FreshNetInverted(q) == offer.inv - q.sol - Cu
FreshNet(q) == q.sol - offer.inv - Cu
Fresh(q) ==
  /\ FreshNet(q) >= Threshold
  /\ builder.half => 2 * FreshNet(q) >= offer.net

-----------------------------------------------------------------------------
Init ==
  /\ builder \in Builders /\ offer \in Offers
  /\ pool \in [Leg -> UNION {Pools[v] : v \in Venue}]
  /\ \A leg \in Leg : pool[leg] \in Pools[Venued(leg)]
  /\ cached = pool
  /\ read = [leg \in Leg |-> NotRead]
  /\ quote = NoQuote /\ outcome = "open" /\ net = 0 /\ moves = 0
  /\ past = [leg \in Leg |-> {pool[leg]}]

Pending == outcome \in {"open", "sent"}

(* Others trade in a pool.                                                 *)
Move(leg) ==
  /\ Pending /\ moves < MaxMoves
  /\ \E p \in Pools[Venued(leg)] \ {pool[leg]} :
       /\ pool' = [pool EXCEPT ![leg] = p]
       /\ past' = [past EXCEPT ![leg] = @ \union {p}]
  /\ moves' = moves + 1
  /\ UNCHANGED <<builder, offer, cached, read, quote, outcome, net>>

(* A cache is refreshed.                                                   *)
Learn(leg) ==
  /\ Pending /\ cached[leg] # pool[leg]
  /\ cached' = [cached EXCEPT ![leg] = pool[leg]]
  /\ UNCHANGED <<builder, offer, pool, read, quote, outcome, net, moves, past>>

Reading == outcome = "open"

(* PumpSwap: the two vaults are read by two requests, in any order.        *)
ReadVault(leg, side) ==
  /\ Reading /\ Venued(leg) = "pump" /\ read[leg][side] = Unread
  /\ read' = [read EXCEPT ![leg][side] = pool[leg][side]]
  /\ UNCHANGED <<builder, offer, pool, cached, quote, outcome, net, moves, past>>

(* DLMM: the bins are fetched, the rest of the pair comes from the cache.  *)
ReadBins(leg) ==
  /\ Reading /\ Venued(leg) = "dlmm" /\ read[leg] = NotRead
  /\ read' = [read EXCEPT ![leg] = [cached[leg] EXCEPT !.bins = pool[leg].bins]]
  /\ UNCHANGED <<builder, offer, pool, cached, quote, outcome, net, moves, past>>

(* CPMM and Whirlpool: the reserves come from the cache.                   *)
FromCache(leg) ==
  /\ Reading /\ Venued(leg) \in {"cpmm", "orca"} /\ read[leg] = NotRead
  /\ read' = [read EXCEPT ![leg] = cached[leg]]
  /\ UNCHANGED <<builder, offer, pool, cached, quote, outcome, net, moves, past>>

Ready == \A leg \in Leg : Unread \notin {read[leg].sol, read[leg].meme}

(* A read, a lookup table or the compilation fails: the builder bails.     *)
Fail ==
  /\ Reading
  /\ outcome' = "refused"
  /\ UNCHANGED <<builder, offer, pool, cached, read, quote, net, moves, past>>

Send ==
  /\ Reading /\ Ready
  /\ \E q \in TheQuote : Fresh(q) /\ quote' = q
  /\ outcome' = "sent"
  /\ UNCHANGED <<builder, offer, pool, cached, read, net, moves, past>>

Refuse ==
  /\ Reading /\ Ready
  /\ ~\E q \in TheQuote : Fresh(q)
  /\ outcome' = "refused"
  /\ UNCHANGED <<builder, offer, pool, cached, read, quote, net, moves, past>>

-----------------------------------------------------------------------------
Bought == LegOut("buy", pool["buy"], quote.inv)
Sold == LegOut("sell", pool["sell"], Bought)

(* What DLMM's bins cannot take stays with the wallet; the other exchanges *)
(* take all they are offered.                                              *)
Untaken(leg, a) ==
  IF Venued(leg) = "dlmm" THEN DlmmFill(pool[leg].bins, a, XToY(leg), offer.fee).left ELSE 0

Spent == quote.inv - Untaken("buy", quote.inv)

(* The floor reaches the exchange but for DLMM, which is called with 1.    *)
BuyFloor == IF Venued("buy") = "dlmm" \/ quote.floor = 0 THEN 1 ELSE quote.floor

(* The handler: a zero amount, either exchange, tokens left over and a net *)
(* below min_profit = 1 fail the transaction.                              *)
Served ==
  /\ quote.inv > 0
  /\ Bought >= BuyFloor
  /\ Sold >= 1 /\ Untaken("sell", Bought) = 0
  /\ Sold - Spent >= 1

Land ==
  /\ outcome = "sent"
  /\ outcome' = IF Served THEN "landed" ELSE "reverted"
  /\ net' = IF Served THEN Sold - Spent ELSE 0
  /\ UNCHANGED <<builder, offer, pool, cached, read, quote, moves, past>>

Next ==
  \/ \E leg \in Leg :
       \/ Move(leg) \/ Learn(leg) \/ ReadBins(leg) \/ FromCache(leg)
       \/ \E side \in {"sol", "meme"} : ReadVault(leg, side)
  \/ Fail \/ Send \/ Refuse \/ Land

Spec == Init /\ [][Next]_vars

-----------------------------------------------------------------------------
(* The pool a leg meets is the one its quote was made on.                  *)
AsRead(leg) ==
  IF Venued(leg) = "dlmm" THEN pool[leg].bins = read[leg].bins ELSE pool[leg] = read[leg]

Constant(leg) == Venued(leg) # "dlmm"
Done == outcome \in {"landed", "reverted"}

(* If the chain did not move between the reads and the transaction, a sent *)
(* transaction lands and brings the profit the freshness check asked for:  *)
(* the cap, the slippage and the two legs' roundings never promise more    *)
(* than the exchanges give.  (A sale the bins cannot take whole reverts,   *)
(* and a guessed sale promises nothing.)                                   *)
HonouredAsRead ==
  Done /\ ~quote.guessed /\ AsRead("buy") /\ AsRead("sell")
    => \/ outcome = "landed" /\ net >= Threshold + Cu
       \/ outcome = "reverted" /\ Untaken("sell", Bought) > 0

(* "conservative second leg": the sale is quoted on the floor of the buy,  *)
(* so however the first pool moved, a transaction that lands on the second *)
(* pool as it was read brings the profit asked for.  DLMM buys have no     *)
(* floor on the chain.                                                     *)
ConservativeSecondLeg ==
  outcome = "landed" /\ ~quote.guessed /\ Constant("buy") /\ AsRead("sell")
    => net >= Threshold + Cu

(* A quote is sent only when tokens cost more SOL in the second pool than  *)
(* in the first, as they were read: no mix of fees, caps and roundings, or *)
(* of the two sides of a pool, makes a profit of two equal prices.         *)
ProfitFromSpread ==
  outcome \in {"sent", "landed", "reverted"} /\ Constant("buy") /\ Constant("sell")
    => read["sell"].sol * read["buy"].meme > read["buy"].sol * read["sell"].meme

(* Whatever the pools hold, a transaction is sent with an amount, a floor  *)
(* and a sale above zero, the amounts the router and the exchanges refuse. *)
EmptyNeverSent ==
  outcome \in {"sent", "landed", "reverted"} => quote.inv > 0 /\ quote.floor > 0 /\ quote.sol > 0

(* helpers.rs:36: "Combined pool read: returns metadata + fresh reserves   *)
(* in one `get_account` call": the reserves a builder quotes on were once  *)
(* the pool's, together.                                                   *)
ReadAtOnce ==
  \A leg \in Leg :
    Venued(leg) = "pump" /\ Unread \notin {read[leg].sol, read[leg].meme}
      => \E p \in past[leg] : p.sol = read[leg].sol /\ p.meme = read[leg].meme
=============================================================================
