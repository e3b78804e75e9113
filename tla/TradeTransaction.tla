--------------------------- MODULE TradeTransaction ---------------------------
(***************************************************************************)
(* One arbitrage transaction after another, instruction by instruction, as *)
(* the builders of executor/atomic compose them and the router program     *)
(* (programs/arbitrage) runs its part.  A transaction is atomic: a failure *)
(* anywhere gives the wallet back, less the fee.  The steps are those      *)
(* between which the code's own checks read balances.  The exchanges are   *)
(* external: they take at most what they are offered and give at least the *)
(* minimum they are asked for.  Amounts are lamports and token units.      *)
(***************************************************************************)
EXTENDS Integers

CONSTANTS
  Msgs,       (* transactions the builders may produce, see Message        *)
  Fee,        (* base and priority fee of a transaction                    *)
  Tip,        (* JITO_TIP_LAMPORTS, or 0 with sender_enabled off           *)
  Rent,       (* deposit of a token account                                *)
  MinProfit,  (* min_profit_lamports: every builder passes 1               *)
  MaxLoss,    (* most a direct trade may lose                              *)
  Prefund,    (* three times max_single_investment_sol                     *)
  Funds,      (* worth of the wallet at the start                          *)
  Stock,      (* tokens it may hold at the start                           *)
  Refills,    (* amounts ensure_wsol_balance may wrap                      *)
  MaxPay,     (* bound: most an exchange gives                             *)
  MaxTxs      (* bound: transactions that land                             *)

(* plan "routed": the router program, on two of its four exchanges;        *)
(*      "amm": PumpSwap and DLMM called directly;                          *)
(*      "curve": a Pump.fun bonding curve and DLMM called directly.        *)
Venue == {"pumpswap", "dlmm", "cpmm", "whirlpool", "curve"}

Message ==
  [ plan     : {"routed", "amm", "curve"},
    buy      : Venue,
    sell     : Venue,
    amount   : Nat,        (* investment_lamports                          *)
    est      : Nat,        (* estimated token output of the buy            *)
    floor    : Nat,        (* min_meme_out: the estimate less slippage     *)
    solFloor : Nat,        (* min_sol_out of a direct plan                 *)
    fits     : BOOLEAN ]   (* the sections pass the program's checks       *)

(* The two legs are on different exchanges; the slippage of a direct plan, *)
(* with the deposits an exchange may have it make, is at most MaxLoss.     *)
ASSUME Transactions ==
  /\ Msgs \subseteq Message
  /\ \A m \in Msgs : m.buy # m.sell /\ m.floor =< m.est
  /\ \A m \in Msgs : m.plan # "routed" => m.amount + Rent =< m.solFloor + MaxLoss
  /\ Fee \in Nat /\ Tip \in Nat /\ Rent \in Nat
  /\ MinProfit \in Nat /\ MaxLoss \in Nat
  /\ Prefund \in Nat /\ Funds \in Nat
  /\ Stock \subseteq Nat /\ Refills \subseteq Nat
  /\ MaxPay \in Nat /\ MaxTxs \in Nat

VARIABLES
  native,    (* lamports of the wallet                                     *)
  wsol,      (* amount in its wrapped SOL account                          *)
  meme,      (* amount in its token account                                *)
  wsolAta,   (* whether the wrapped SOL account exists                     *)
  memeAta,   (* whether the token account exists                           *)
  saved,     (* the wallet before the transaction                          *)
  pc,        (* the next instruction, or step of the router                *)
  msg,       (* the transaction                                            *)
  pre,       (* the router's pre_aggregate and meme_before                 *)
  received,  (* its meme_received                                          *)
  charged, gained, risked  (* history: see AtomicTrade                     *)

wallet == <<native, wsol, meme, wsolAta, memeAta>>
history == <<charged, gained, risked>>
vars == <<wallet, saved, pc, msg, pre, received, history>>

Wallet == [native |-> native, wsol |-> wsol, meme |-> meme,
           wsolAta |-> wsolAta, memeAta |-> memeAta]

Deposit(exists) == IF exists THEN Rent ELSE 0

(* accounting::aggregate_sol_balance *)
Aggregate(w) == w.native + w.wsol
Worth(w) == Aggregate(w) + Deposit(w.wsolAta) + Deposit(w.memeAta)

Landed == charged + gained + risked

NoMsg == [plan |-> "amm", buy |-> "pumpswap", sell |-> "dlmm", amount |-> 0,
          est |-> 0, floor |-> 0, solFloor |-> 0, fits |-> FALSE]

Init ==
  /\ wsolAta \in BOOLEAN
  /\ memeAta \in BOOLEAN
  /\ wsol \in IF wsolAta THEN {0, Prefund} ELSE {0}
  /\ meme \in IF memeAta THEN Stock \cup {0} ELSE {0}
  /\ native = Funds - wsol - Deposit(wsolAta) - Deposit(memeAta)
  /\ native >= 0
  /\ saved = Wallet
  /\ pc = "idle"
  /\ msg = NoMsg
  /\ pre = [aggregate |-> 0, meme |-> 0]
  /\ received = 0
  /\ charged = 0 /\ gained = 0 /\ risked = 0

-----------------------------------------------------------------------------
(* The runtime *)

(* Broken variants, below, stand before the definition they would replace: *)
(* each is a slip the properties at the end must notice.                   *)

(* A transfer the wallet cannot pay fails. *)
Affordable(cost) == native >= cost

Start(m) ==
  /\ pc = "idle"
  /\ Landed < MaxTxs
  /\ Affordable(Fee)
  /\ saved' = Wallet
  /\ native' = native - Fee
  /\ msg' = m
  /\ pc' = "accounts"
  /\ UNCHANGED <<wsol, meme, wsolAta, memeAta, pre, received, history>>

(* An error anywhere: everything is undone but the fee. *)
Abort ==
  /\ native' = saved.native - Fee
  /\ wsol' = saved.wsol
  /\ meme' = saved.meme
  /\ wsolAta' = saved.wsolAta
  /\ memeAta' = saved.memeAta
  /\ pc' = "idle"
  /\ charged' = charged + 1
  /\ UNCHANGED <<saved, msg, pre, received, gained, risked>>

-----------------------------------------------------------------------------
(* The instructions before the swaps.  Direct plans create both accounts,  *)
(* and the AMM ones wrap the investment; a routed plan creates only the    *)
(* token's and spends what is wrapped already.                             *)

OpensWsol(m) == m.plan # "routed"
Wraps(m) == m.plan = "amm"

Opening ==
  (IF OpensWsol(msg) /\ ~wsolAta THEN Rent ELSE 0) + (IF memeAta THEN 0 ELSE Rent)
Wrapped == IF Wraps(msg) THEN msg.amount ELSE 0

OpenAccounts ==
  /\ pc = "accounts"
  /\ Affordable(Opening + Wrapped)
  /\ native' = native - Opening - Wrapped
  /\ wsol' = wsol + Wrapped
  /\ wsolAta' = (wsolAta \/ OpensWsol(msg))
  /\ memeAta' = TRUE
  /\ pc' = IF msg.plan = "routed" THEN "enter" ELSE "buy"
  /\ UNCHANGED <<meme, saved, msg, pre, received, history>>

CannotOpen ==
  /\ pc = "accounts"
  /\ ~Affordable(Opening + Wrapped)
  /\ Abort

-----------------------------------------------------------------------------
(* The router up to its first CPI: amounts, sections, snapshots; a missing *)
(* wrapped SOL account has no data to read an amount from.                 *)

Acceptable(m) ==
  /\ m.amount > 0
  /\ MinProfit > 0
  /\ m.fits
  /\ wsolAta

Enter ==
  /\ pc = "enter"
  /\ Acceptable(msg)
  /\ pre' = [aggregate |-> Aggregate(Wallet), meme |-> meme]
  /\ pc' = "buy"
  /\ UNCHANGED <<wallet, saved, msg, received, history>>

EnterFails ==
  /\ pc = "enter"
  /\ ~Acceptable(msg)
  /\ Abort

-----------------------------------------------------------------------------
(* The first leg *)

(* The router's call of DLMM always asks for 1. *)
BuyFloor(m) == IF m.plan = "routed" /\ m.buy = "dlmm" THEN 1 ELSE m.floor

(* A bonding curve is paid in native SOL, the others in wrapped.  PumpSwap *)
(* and the curve may open an account at the wallet's expense.              *)
Buy(paid, out, opened) ==
  /\ pc = "buy"
  /\ paid =< msg.amount
  /\ out >= BuyFloor(msg)
  /\ opened = 0 \/ msg.buy \in {"pumpswap", "curve"}
  /\ IF msg.buy = "curve"
       THEN /\ Affordable(paid + opened)
            /\ native' = native - paid - opened
            /\ wsol' = wsol
       ELSE /\ wsol >= paid /\ Affordable(opened)
            /\ native' = native - opened
            /\ wsol' = wsol - paid
  /\ meme' = meme + out
  /\ pc' = IF msg.plan = "routed" THEN "read" ELSE "sell"
  /\ UNCHANGED <<wsolAta, memeAta, saved, msg, pre, received, history>>

(* An exchange refuses: price, liquidity, balance, accounts. *)
Refused ==
  /\ pc \in {"buy", "sell"}
  /\ Abort

ReceivedAll == meme

(* meme_after_buy less meme_before *)
Received == meme - pre.meme

ReadReceived ==
  /\ pc = "read"
  /\ Received > 0
  /\ received' = Received
  /\ pc' = "sell"
  /\ UNCHANGED <<wallet, saved, msg, pre, history>>

NothingReceived ==
  /\ pc = "read"
  /\ Received =< 0
  /\ Abort

-----------------------------------------------------------------------------
(* The second leg *)

(* The router sells what it received; a direct plan fixes the amount when  *)
(* it is built: the least the buy may give or, with a curve, the estimate. *)
Offered(m) ==
  CASE m.plan = "routed" -> received
    [] m.plan = "amm" -> m.floor
    [] m.plan = "curve" -> m.est

SellFloor(m) == IF m.plan = "routed" THEN 1 ELSE m.solFloor

(* A Whirlpool may take only part of the offer. *)
Taken(m) == IF m.sell = "whirlpool" THEN 0 .. Offered(m) ELSE {Offered(m)}

Sell(sold, paid) ==
  /\ pc = "sell"
  /\ sold \in Taken(msg)
  /\ sold =< meme
  /\ paid >= SellFloor(msg)
  /\ meme' = meme - sold
  /\ IF msg.sell = "curve"
       THEN native' = native + paid /\ wsol' = wsol
       ELSE wsol' = wsol + paid /\ native' = native
  /\ pc' = CASE msg.plan = "routed" -> "post"
             [] msg.plan = "amm" -> "close"
             [] msg.plan = "curve" -> "tip"
  /\ UNCHANGED <<wsolAta, memeAta, saved, msg, pre, received, history>>

-----------------------------------------------------------------------------
(* After the swaps *)

ProfitableGross == Aggregate(Wallet) - pre.aggregate >= 0
NoShortage == meme >= pre.meme

(* net_sol, a checked difference, is at least the minimal profit. *)
Profitable == Aggregate(Wallet) - pre.aggregate >= MinProfit
NoResidue == meme = pre.meme

Post ==
  /\ pc = "post"
  /\ Profitable
  /\ NoResidue
  /\ pc' = "tip"
  /\ UNCHANGED <<wallet, saved, msg, pre, received, history>>

PostFails ==
  /\ pc = "post"
  /\ ~(Profitable /\ NoResidue)
  /\ Abort

(* close_wsol_ata_ix: balance and deposit return to the wallet. *)
Close ==
  /\ pc = "close"
  /\ native' = native + wsol + Deposit(wsolAta)
  /\ wsol' = 0
  /\ wsolAta' = FALSE
  /\ pc' = "tip"
  /\ UNCHANGED <<meme, memeAta, saved, msg, pre, received, history>>

(* The tip is the last instruction; with it the transaction is committed. *)
Commit ==
  /\ pc = "tip"
  /\ Affordable(Tip)
  /\ native' = native - Tip
  /\ pc' = "idle"
  /\ IF msg.plan = "routed"
       THEN gained' = gained + 1 /\ risked' = risked
       ELSE risked' = risked + 1 /\ gained' = gained
  /\ UNCHANGED <<wsol, meme, wsolAta, memeAta, saved, msg, pre, received, charged>>

CannotTip ==
  /\ pc = "tip"
  /\ ~Affordable(Tip)
  /\ Abort

-----------------------------------------------------------------------------
(* Between trades *)

(* A wrap of ensure_wsol_balance lands; it does not create the account. *)
Refill(amount) ==
  /\ pc = "idle"
  /\ Landed < MaxTxs
  /\ wsolAta
  /\ Affordable(amount + Fee)
  /\ native' = native - amount - Fee
  /\ wsol' = wsol + amount
  /\ charged' = charged + 1
  /\ UNCHANGED <<meme, wsolAta, memeAta, saved, pc, msg, pre, received, gained, risked>>

(* The process restarts and finds the account, or cannot fund it. *)
Restart ==
  /\ pc = "idle"
  /\ UNCHANGED vars

(* It restarts without the account and creates and funds it. *)
RestartFunds ==
  /\ pc = "idle"
  /\ Landed < MaxTxs
  /\ ~wsolAta
  /\ Affordable(Rent + Prefund + Fee)
  /\ native' = native - Rent - Prefund - Fee
  /\ wsol' = Prefund
  /\ wsolAta' = TRUE
  /\ charged' = charged + 1
  /\ UNCHANGED <<meme, memeAta, saved, pc, msg, pre, received, gained, risked>>

Next ==
  \/ \E m \in Msgs : Start(m)
  \/ OpenAccounts
  \/ CannotOpen
  \/ Enter
  \/ EnterFails
  \/ \E paid, out \in 0 .. MaxPay, opened \in {0, Rent} : Buy(paid, out, opened)
  \/ Refused
  \/ ReadReceived
  \/ NothingReceived
  \/ \E sold, paid \in 0 .. MaxPay : Sell(sold, paid)
  \/ Post
  \/ PostFails
  \/ Close
  \/ Commit
  \/ CannotTip
  \/ \E amount \in Refills : Refill(amount)
  \/ Restart
  \/ RestartFunds

Spec == Init /\ [][Next]_vars
-----------------------------------------------------------------------------
(* Properties *)

(* Balances, and what the router remembers of them, are amounts: a failure *)
(* or a cost the wallet cannot bear never leaves a negative one.           *)
TypeOK ==
  /\ native \in Nat /\ wsol \in Nat /\ meme \in Nat
  /\ wsolAta \in BOOLEAN /\ memeAta \in BOOLEAN
  /\ saved \in [native : Nat, wsol : Nat, meme : Nat, wsolAta : BOOLEAN, memeAta : BOOLEAN]
  /\ pc \in {"idle", "accounts", "enter", "buy", "read", "sell", "post", "close", "tip"}
  /\ msg \in Message
  /\ pre \in [aggregate : Nat, meme : Nat]
  /\ received \in Nat
  /\ charged \in Nat /\ gained \in Nat /\ risked \in Nat

(* Tokens the wallet already held are not sold: the router offers only     *)
(* what it received, an AMM plan at most what the buy is sure to give.     *)
(* (A curve plan offers its estimate and may sell older tokens.)           *)
HeldStaysHeld ==
  pc # "idle" /\ msg.plan # "curve" => meme >= saved.meme

(* Every transaction is one step of AtomicTrade, seen when it is over: the *)
(* checks after the swaps, the floors of the direct plans and the undoing  *)
(* of failures together bound what any mix of transactions can cost.       *)
Visible == IF pc = "idle" THEN Wallet ELSE saved

Atomic == INSTANCE AtomicTrade WITH
  worth <- Worth(Visible),
  stock <- Visible.meme

IsAtomic == Atomic!Spec
WorthIsBounded == Atomic!WorthBounded

(* What main_loop.rs:456 says of the wrapped SOL account: "ATA doesn't     *)
(* exist yet - will be created by first TX's ATA create IX".  Refuted: an  *)
(* AMM plan closes the account and a routed plan does not create it, so    *)
(* routed trades fail from then on.                                        *)
AccountIsCreated == pc \in {"enter", "buy"} => wsolAta
=============================================================================
