------------------------------ MODULE AtomicTrade -----------------------------
(***************************************************************************)
(* What an arbitrage transaction promises its wallet, whatever it is made  *)
(* of: it happens in one step.  It fails and costs its fee; or it goes     *)
(* through the on-chain router and gains MinProfit before fee and tip,     *)
(* leaving no token behind; or it goes to the exchanges directly and loses *)
(* at most MaxLoss before fee and tip.  Worth counts native and wrapped    *)
(* SOL and the deposits of the wallet's token accounts.                    *)
(***************************************************************************)
EXTENDS Integers

CONSTANTS  (* all natural *)
  Fee,        (* most a landed transaction is charged                      *)
  Tip,        (* most it pays as a tip                                     *)
  MinProfit,  (* min_profit_lamports of the router instruction             *)
  MaxLoss,    (* most a direct trade may lose: slippage and deposits       *)
  Funds       (* worth of the wallet at the start                          *)

VARIABLES
  worth,   (* worth of the wallet                                          *)
  stock,   (* tokens it holds                                              *)
  charged, (* transactions that only cost their fee                        *)
  gained,  (* routed trades that went through                              *)
  risked   (* direct trades that went through                              *)

tradeVars == <<worth, stock, charged, gained, risked>>

Init ==
  /\ worth = Funds
  /\ stock \in Nat
  /\ charged = 0
  /\ gained = 0
  /\ risked = 0

(* It failed, or only moved SOL into the wrapped account. *)
Charged ==
  /\ worth' = worth - Fee
  /\ charged' = charged + 1
  /\ UNCHANGED <<stock, gained, risked>>

Routed ==
  /\ worth' \in Int
  /\ worth' >= worth - Fee - Tip + MinProfit
  /\ gained' = gained + 1
  /\ UNCHANGED <<stock, charged, risked>>

Direct ==
  /\ worth' \in Int
  /\ worth' >= worth - Fee - Tip - MaxLoss
  /\ stock' \in Nat
  /\ risked' = risked + 1
  /\ UNCHANGED <<charged, gained>>

Next == Charged \/ Routed \/ Direct

Spec == Init /\ [][Next]_tradeVars

(* The wallet is worth at least what it started with, plus the profits the *)
(* router enforced, less the costs of each transaction and the slippage of *)
(* the direct trades.                                                      *)
WorthBounded ==
  worth >= Funds - charged * Fee
                 + gained * (MinProfit - Fee - Tip)
                 - risked * (MaxLoss + Fee + Tip)
=============================================================================
