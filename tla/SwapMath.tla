------------------------------- MODULE SwapMath -------------------------------
(***************************************************************************)
(* The swap arithmetic of the client (simulator, generic_route.rs) and of  *)
(* the router program (programs/arbitrage/src/pricing).  Amounts are raw   *)
(* u64 units; the code computes in u128, where no product of these values  *)
(* overflows, so integers stand for it.  Every division rounds down.       *)
(***************************************************************************)
EXTENDS Integers, Sequences

Bps == 10000
Ppm == 1000000                        (* SWAP_FEE_DENOM                    *)
CpmmRate == 2500                      (* CPMM_DEFAULT_TRADE_FEE_RATE       *)

None == -1                            (* Option::None                      *)
NonZero(x) == IF x = 0 THEN None ELSE x

Curve(ri, ro, a) == (ro * a) \div (ri + a)

(* PumpSwap's fee is added to the denominator, that of Raydium CPMM and of *)
(* Orca is taken from the numerator.                                       *)
AddedFee(a, bps) == (a * Bps) \div (Bps + bps)
TakenFee(a, rate) == (a * (Ppm - rate)) \div Ppm

(* simulator::checked_estimate_swap_output                                 *)
CheckedEstimate(ri, ro, a, bps) ==
  IF a = 0 THEN 0
  ELSE IF AddedFee(a, bps) = 0 THEN None
  ELSE NonZero(Curve(ri, ro, AddedFee(a, bps)))

(* checked_cp_swap_output                                                  *)
CheckedCp(ri, ro, a, rate) ==
  IF a = 0 \/ ro = 0 THEN 0
  ELSE IF rate > Ppm THEN None
  ELSE IF TakenFee(a, rate) = 0 THEN None
  ELSE NonZero(Curve(ri, ro, TakenFee(a, rate)))

(* pricing::cpmm_swap_output of the router program, which no handler calls *)
RouterEstimate(ri, ro, a, bps) ==
  IF 0 \in {a, ri, ro} \/ AddedFee(a, bps) = 0 THEN None
  ELSE NonZero(Curve(ri, ro, AddedFee(a, bps)))

(***************************************************************************)
(* DLMM: the bins, listed in the order of their ids, are filled in the     *)
(* direction of the price, each in proportion to what it holds; a bin that *)
(* lacks a token is passed over, what the bins cannot take is dropped.     *)
(* A bin is [x, y].                                                        *)
(***************************************************************************)
In(bin, xToY) == IF xToY THEN bin.x ELSE bin.y
Gives(bin, xToY) == IF xToY THEN bin.y ELSE bin.x

InOrder(bins, xToY) ==
  [n \in 1 .. Len(bins) |-> bins[IF xToY THEN Len(bins) + 1 - n ELSE n]]

Filled(s, in, gives) ==
  LET take == IF s.left =< in THEN s.left ELSE in
  IN  IF 0 \in {in, gives} THEN s
      ELSE [left |-> s.left - take, out |-> s.out + (gives * take) \div in]

DlmmFill(bins, a, xToY, bps) ==
  LET fill[n \in 0 .. Len(bins)] ==
        IF n = 0 THEN [left |-> (a * (Bps - bps)) \div Bps, out |-> 0]
        ELSE LET bin == InOrder(bins, xToY)[n]
             IN  Filled(fill[n - 1], In(bin, xToY), Gives(bin, xToY))
  IN  fill[Len(bins)]

DlmmOut(bins, a, xToY, bps) == DlmmFill(bins, a, xToY, bps).out

(***************************************************************************)
(* compute_effective_slippage: the tolerance is taken once, or one and a   *)
(* half times above 0.1 % of the reserve, or twice and a half above 1 %.   *)
(***************************************************************************)
HalfSteps(a, reserve) ==
  IF reserve = 0 THEN 2
  ELSE IF 100 * a > reserve THEN 5
  ELSE IF 1000 * a > reserve THEN 3 ELSE 2

Slipped(out, a, reserve, bps) ==
  LET kept == 2 * Bps - bps * HalfSteps(a, reserve)
  IN  IF kept < 0 THEN 0 ELSE (out * kept) \div (2 * Bps)
=============================================================================
