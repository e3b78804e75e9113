------------------------- MODULE TradeTransactionProofs -----------------------
(***************************************************************************)
(* Theorems about a trade's transaction: what it does to the wallet        *)
(* (TradeTransaction), and, in the second half, how its accounts are laid  *)
(* out (RouteLayout).                                                      *)
(*                                                                         *)
(* TradeTransaction implements AtomicTrade for every set of transactions   *)
(* and every cost.  Between its first step and its last a transaction is   *)
(* invisible; the invariant carries what is known of the wallet from one   *)
(* check to the next, so that the last step can be matched with one of the *)
(* three outcomes of AtomicTrade.                                          *)
(***************************************************************************)
EXTENDS TradeTransaction, RouteLayout, SequenceTheorems, TLAPS

Deposits == Deposit(wsolAta) + Deposit(memeAta)

Running == pc # "idle"
ByRouter == msg.plan = "routed"

(* The wallet could pay its fee, the transaction is one of the builders',  *)
(* and only the plan that has a step reaches it.                           *)
Started ==
  Running =>
    /\ saved.native >= Fee
    /\ msg \in Msgs
    /\ pc \in {"enter", "read", "post"} => ByRouter
    /\ pc = "close" => msg.plan = "amm"

(* Opening accounts and wrapping move SOL and lose none. *)
Untouched ==
  pc \in {"accounts", "enter", "buy"} =>
    /\ Worth(Wallet) = Worth(saved) - Fee
    /\ meme = saved.meme

(* The router's snapshot is the wallet's worth without its deposits, which *)
(* the swaps leave alone.                                                  *)
Snapshot ==
  ByRouter /\ pc \in {"buy", "read", "sell", "post"} =>
    /\ pre.aggregate + Deposits = Worth(saved) - Fee
    /\ pre.meme = saved.meme

(* What the router offers is what it received. *)
Tokens ==
  /\ ByRouter /\ pc \in {"read", "post"} => meme >= saved.meme
  /\ ByRouter /\ pc = "sell" => meme = saved.meme + received
  /\ msg.plan = "amm" /\ pc = "sell" => meme >= saved.meme + msg.floor
  /\ msg.plan = "amm" /\ pc \in {"close", "tip"} => meme >= saved.meme

(* A direct plan risks its investment until the sale returns the minimum.  *)
AtRisk ==
  ~ByRouter =>
    /\ pc = "sell" => Worth(Wallet) >= Worth(saved) - Fee - msg.amount - Rent
    /\ pc \in {"close", "tip"} => Worth(Wallet) >= Worth(saved) - Fee - MaxLoss

(* What the router's last checks have established. *)
Checked ==
  ByRouter /\ pc = "tip" =>
    /\ Worth(Wallet) >= Worth(saved) - Fee + MinProfit
    /\ meme = saved.meme

IInv == TypeOK /\ Started /\ Untouched /\ Snapshot /\ Tokens /\ AtRisk /\ Checked

Undo == Abort /\ Running

-----------------------------------------------------------------------------

(* The worth of the wallet is its balances and its deposits. *)
LEMMA WorthNow ==
  ASSUME TypeOK
  PROVE  /\ Worth(Wallet) = native + wsol + Deposits
         /\ Worth(saved) \in Int
         /\ Deposits \in Nat
<1>1. Deposit(wsolAta) \in Nat /\ Deposit(memeAta) \in Nat
      /\ Deposit(saved.wsolAta) \in Nat /\ Deposit(saved.memeAta) \in Nat
  BY Transactions DEF Deposit
<1>2. Wallet.native = native /\ Wallet.wsol = wsol /\ Wallet.wsolAta = wsolAta
      /\ Wallet.memeAta = memeAta
  BY DEF Wallet
<1>3. native + wsol \in Nat /\ saved.native + saved.wsol \in Nat
  BY DEF TypeOK
<1>4. Worth(Wallet) = native + wsol + Deposit(wsolAta) + Deposit(memeAta)
  BY <1>2 DEF Worth, Aggregate
<1> QED
  BY <1>1, <1>3, <1>4 DEF Worth, Aggregate, Deposits

(* The same after a step. *)
LEMMA WorthNext ==
  ASSUME TypeOK'
  PROVE  Worth(Wallet)' = native' + wsol' + Deposits' /\ Deposits' \in Nat
<1>1. Deposit(wsolAta)' \in Nat /\ Deposit(memeAta)' \in Nat
  BY Transactions DEF Deposit
<1>2. Wallet'.native = native' /\ Wallet'.wsol = wsol' /\ Wallet'.wsolAta = wsolAta'
      /\ Wallet'.memeAta = memeAta'
  BY DEF Wallet
<1>3. native' \in Nat /\ wsol' \in Nat
  BY DEF TypeOK
<1>4. Worth(Wallet)' = native' + wsol' + Deposit(wsolAta)' + Deposit(memeAta)'
  BY <1>2 DEF Worth, Aggregate, Deposit
<1> QED
  BY <1>1, <1>3, <1>4 DEF Deposits

(* The initial wallet satisfies the invariant. *)
LEMMA InitInv == Init => IInv
<1> SUFFICES ASSUME Init PROVE IInv
  OBVIOUS
<1>1. wsol \in Nat /\ meme \in Nat /\ native \in Nat
  BY Transactions DEF Init, Deposit
<1>2. saved \in [native : Nat, wsol : Nat, meme : Nat, wsolAta : BOOLEAN, memeAta : BOOLEAN]
  BY <1>1 DEF Init, Wallet
<1>3. msg \in Message
  BY DEF Init, NoMsg, Message, Venue
<1>4. TypeOK
  BY <1>1, <1>2, <1>3 DEF TypeOK, Init
<1> QED
  BY <1>4 DEF IInv, Init, Started, Running, Untouched, Snapshot, Tokens, AtRisk, Checked

(* Undoing a transaction leaves the wallet it found, less the fee. *)
LEMMA UndoInv == ASSUME IInv, Undo PROVE IInv'
<1>1. TypeOK'
  <2>1. saved.native - Fee \in Nat
    BY Transactions DEF IInv, TypeOK, Started, Undo
  <2>2. UNCHANGED <<saved, msg, pre, received, gained, risked>> /\ pc' = "idle"
        /\ charged' = charged + 1
    BY DEF Undo, Abort
  <2>3. native' \in Nat /\ wsol' \in Nat /\ meme' \in Nat
    BY <2>1 DEF IInv, TypeOK, Undo, Abort
  <2>4. wsolAta' \in BOOLEAN /\ memeAta' \in BOOLEAN
    BY DEF IInv, TypeOK, Undo, Abort
  <2> QED
    BY <2>2, <2>3, <2>4 DEF IInv, TypeOK
<1>2. pc' = "idle"
  BY DEF Undo, Abort
<1> QED
  BY <1>1, <1>2 DEF IInv, Started, Running, Untouched, Snapshot, Tokens, AtRisk, Checked

(* A failing step is the undoing of a running transaction. *)
LEMMA Failures ==
  ASSUME CannotOpen \/ EnterFails \/ Refused \/ NothingReceived \/ PostFails \/ CannotTip
  PROVE Undo
BY DEF CannotOpen, EnterFails, Refused, NothingReceived, PostFails, CannotTip, Undo, Running

LEMMA StartInv == ASSUME IInv, NEW m \in Msgs, Start(m) PROVE IInv'
<1>1. saved' = Wallet /\ native' = native - Fee /\ msg' = m /\ pc' = "accounts"
      /\ UNCHANGED <<wsol, meme, wsolAta, memeAta, pre, received, history>> /\ native >= Fee
  BY DEF Start, Affordable
<1>2. saved' \in [native : Nat, wsol : Nat, meme : Nat, wsolAta : BOOLEAN, memeAta : BOOLEAN]
  BY <1>1 DEF Wallet, IInv, TypeOK
<1>3. TypeOK'
  BY <1>1, <1>2, Transactions DEF IInv, TypeOK, history
<1>4. Started'
  BY <1>1 DEF Started, Running, ByRouter, Wallet
<1>5. Untouched'
  BY <1>1, Transactions DEF Untouched, Worth, Aggregate, Wallet, Deposit, IInv, TypeOK
<1> QED
  BY <1>1, <1>3, <1>4, <1>5 DEF IInv, Snapshot, Tokens, AtRisk, Checked

LEMMA OpenInv == ASSUME IInv, OpenAccounts PROVE IInv'
<1>1. msg \in Msgs /\ msg.amount \in Nat /\ Rent \in Nat
  BY Transactions DEF OpenAccounts, IInv, Started, Running, TypeOK, Message
<1>2. native' = native - Opening - Wrapped /\ wsol' = wsol + Wrapped
      /\ wsolAta' = (wsolAta \/ OpensWsol(msg)) /\ memeAta' = TRUE /\ native >= Opening + Wrapped
      /\ UNCHANGED <<meme, saved, msg, pre, received, history>> /\ pc = "accounts"
      /\ pc' = IF msg.plan = "routed" THEN "enter" ELSE "buy"
  BY DEF OpenAccounts, Affordable
<1>3. Opening \in Nat /\ Wrapped \in Nat
  BY <1>1 DEF Opening, Wrapped
<1>4. native' \in Nat /\ wsol' \in Nat
  BY <1>2, <1>3 DEF IInv, TypeOK
<1>5. TypeOK'
  BY <1>2, <1>4 DEF IInv, TypeOK, history
<1>6. Worth(Wallet)' = Worth(Wallet)
  <2>1. Deposits' = Opening + Deposits
    <3>1. memeAta' = TRUE /\ wsolAta' = (wsolAta \/ OpensWsol(msg))
      BY <1>2
    <3>2. Deposit(memeAta)' = Rent
      BY <3>1 DEF Deposit
    <3>3. Rent = (IF memeAta THEN 0 ELSE Rent) + Deposit(memeAta)
      BY <1>1 DEF Deposit
    <3>4. Deposit(wsolAta)'
            = (IF OpensWsol(msg) /\ ~wsolAta THEN Rent ELSE 0) + Deposit(wsolAta)
      <4>1. wsolAta' <=> (wsolAta \/ OpensWsol(msg))
        BY <3>1
      <4>2. CASE wsolAta
        <5>1. Deposit(wsolAta)' = Rent /\ Deposit(wsolAta) = Rent
          BY <4>1, <4>2 DEF Deposit
        <5>2. (IF OpensWsol(msg) /\ ~wsolAta THEN Rent ELSE 0) = 0
          BY <4>2
        <5> QED
          BY <1>1, <5>1, <5>2
      <4>3. CASE ~wsolAta /\ OpensWsol(msg)
        <5>1. Deposit(wsolAta)' = Rent /\ Deposit(wsolAta) = 0
          BY <4>1, <4>3 DEF Deposit
        <5> QED
          BY <1>1, <4>3, <5>1
      <4>4. CASE ~wsolAta /\ ~OpensWsol(msg)
        <5>1. Deposit(wsolAta)' = 0 /\ Deposit(wsolAta) = 0
          BY <4>1, <4>4 DEF Deposit
        <5> QED
          BY <4>4, <5>1
      <4> QED
        BY <4>2, <4>3, <4>4
    <3>5. Deposit(wsolAta) \in Nat /\ Deposit(memeAta) \in Nat
          /\ (IF OpensWsol(msg) /\ ~wsolAta THEN Rent ELSE 0) \in Nat
          /\ (IF memeAta THEN 0 ELSE Rent) \in Nat
      BY <1>1 DEF Deposit
    <3> QED
      BY <3>2, <3>3, <3>4, <3>5 DEF Deposits, Opening
  <2>2. Worth(Wallet) = native + wsol + Deposits /\ Deposits \in Nat
    BY WorthNow DEF IInv
  <2>3. Worth(Wallet)' = native' + wsol' + Deposits'
    BY <1>5, WorthNext
  <2>4. native \in Nat /\ wsol \in Nat
    BY DEF IInv, TypeOK
  <2> QED
    BY <1>2, <1>3, <2>1, <2>2, <2>3, <2>4
<1>7. Untouched'
  BY <1>2, <1>6 DEF IInv, Untouched, Worth, Aggregate
<1>8. Started'
  BY <1>2 DEF IInv, Started, Running, ByRouter
<1> QED
  BY <1>2, <1>5, <1>7, <1>8 DEF IInv, Snapshot, Tokens, AtRisk, Checked, ByRouter

LEMMA EnterInv == ASSUME IInv, Enter PROVE IInv'
<1>1. pre' = [aggregate |-> native + wsol, meme |-> meme] /\ pc = "enter" /\ pc' = "buy"
      /\ UNCHANGED <<wallet, saved, msg, received, history>>
  BY DEF Enter, Aggregate, Wallet
<1>2. TypeOK'
  BY <1>1 DEF IInv, TypeOK, wallet, history
<1>3. Started'
  BY <1>1 DEF IInv, Started, Running, ByRouter
<1>4. Untouched'
  BY <1>1 DEF IInv, Untouched, Worth, Aggregate, Wallet, wallet, Deposit
<1>5. Worth(Wallet) = native + wsol + Deposits /\ Deposits \in Nat
  BY WorthNow DEF IInv
<1>7. pre'.aggregate + Deposits = Worth(saved) - Fee /\ meme = saved.meme
  BY <1>1, <1>5 DEF IInv, Untouched, TypeOK
<1>8. Snapshot'
  BY <1>1, <1>7 DEF Snapshot, wallet, Deposits, Deposit, Worth, Aggregate
<1> QED
  BY <1>1, <1>2, <1>3, <1>4, <1>8 DEF IInv, Tokens, AtRisk, Checked

LEMMA BuyInv ==
  ASSUME IInv, NEW paid \in Nat, NEW out \in Nat, NEW opened \in {0, Rent},
         Buy(paid, out, opened)
  PROVE IInv'
<1>1. msg \in Msgs /\ msg.amount \in Nat /\ msg.floor \in Nat /\ Rent \in Nat /\ Fee \in Nat
  BY Transactions DEF Buy, IInv, Started, Running, TypeOK, Message
<1>2. native' \in Nat /\ wsol' \in Nat /\ meme' = meme + out /\ paid =< msg.amount
      /\ native' + wsol' = native + wsol - paid - opened
  BY <1>1 DEF Buy, Affordable, IInv, TypeOK
<1>3. pc = "buy" /\ pc' = (IF msg.plan = "routed" THEN "read" ELSE "sell")
      /\ UNCHANGED <<wsolAta, memeAta, saved, msg, pre, received, history>>
      /\ out >= BuyFloor(msg)
  BY DEF Buy
<1>4. TypeOK'
  BY <1>2, <1>3 DEF IInv, TypeOK, history
<1>5. Started'
  BY <1>3 DEF IInv, Started, Running, ByRouter
<1>6. Snapshot'
  BY <1>3 DEF IInv, Snapshot, ByRouter, Deposits, Deposit, Worth, Aggregate
<1>7. Tokens'
  <2>1. meme' >= saved.meme /\ saved.meme \in Nat
    BY <1>2, <1>3 DEF IInv, Untouched, TypeOK
  <2>2. msg.plan = "amm" => out >= msg.floor
    BY <1>3 DEF BuyFloor
  <2>3. msg.plan = "amm" => meme' >= saved.meme + msg.floor
    BY <1>1, <1>2, <1>3, <2>1, <2>2 DEF IInv, Untouched, TypeOK
  <2> QED
    BY <1>3, <2>1, <2>3 DEF Tokens, ByRouter
<1>8. AtRisk'
  <2>1. Worth(Wallet)' = native' + wsol' + Deposits' /\ Deposits' = Deposits
    BY <1>3, <1>4, WorthNext DEF Deposits, Deposit
  <2>2. Worth(Wallet) = native + wsol + Deposits /\ Deposits \in Nat
    BY WorthNow DEF IInv
  <2>3. native \in Nat /\ wsol \in Nat
    BY DEF IInv, TypeOK
  <2>4. Worth(Wallet)' >= Worth(Wallet) - msg.amount - Rent
    <3>1. opened \in Nat /\ opened =< Rent
      BY <1>1
    <3>2. Worth(Wallet)' = native + wsol - paid - opened + Deposits
      BY <1>2, <2>1
    <3> QED
      BY <1>1, <1>2, <2>2, <2>3, <3>1, <3>2
  <2>5. Worth(Wallet) \in Int /\ Worth(Wallet) = Worth(saved) - Fee
    BY <1>3, <2>2, <2>3 DEF IInv, Untouched
  <2>6. Worth(saved)' = Worth(saved)
    BY <1>3 DEF Worth, Aggregate, Deposit
  <2>7. Worth(Wallet)' >= Worth(saved) - Fee - msg.amount - Rent
    BY <2>4, <2>5
  <2> QED
    BY <1>3, <2>6, <2>7 DEF AtRisk, ByRouter
<1> QED
  BY <1>3, <1>4, <1>5, <1>6, <1>7, <1>8 DEF IInv, Untouched, Checked, ByRouter

LEMMA ReadInv == ASSUME IInv, ReadReceived PROVE IInv'
<1>1. pc = "read" /\ pc' = "sell" /\ received' = meme - pre.meme /\ received' > 0
      /\ UNCHANGED <<wallet, saved, msg, pre, history>>
  BY DEF ReadReceived, Received
<1>2. ByRouter /\ pre.meme = saved.meme /\ saved.meme \in Nat /\ meme \in Nat
  BY <1>1 DEF IInv, Started, Running, Snapshot, TypeOK
<1>3. TypeOK'
  BY <1>1, <1>2 DEF IInv, TypeOK, wallet, history
<1>4. Started'
  BY <1>1 DEF IInv, Started, Running, ByRouter
<1>5. Snapshot'
  BY <1>1 DEF IInv, Snapshot, ByRouter, Deposits, Deposit, Worth, Aggregate, wallet
<1>6. Tokens'
  BY <1>1, <1>2 DEF Tokens, ByRouter, wallet
<1> QED
  BY <1>1, <1>2, <1>3, <1>4, <1>5, <1>6 DEF IInv, Untouched, AtRisk, Checked, ByRouter

LEMMA SellInv ==
  ASSUME IInv, NEW sold \in Nat, NEW paid \in Nat, Sell(sold, paid) PROVE IInv'
<1>1. msg \in Msgs /\ msg.amount \in Nat /\ msg.floor \in Nat /\ msg.solFloor \in Nat
      /\ Rent \in Nat /\ Fee \in Nat /\ MaxLoss \in Nat
      /\ msg.plan \in {"routed", "amm", "curve"}
  BY Transactions DEF Sell, IInv, Started, Running, TypeOK, Message
<1>2. pc = "sell" /\ sold \in Taken(msg) /\ sold =< meme /\ meme' = meme - sold
      /\ paid >= SellFloor(msg)
      /\ UNCHANGED <<wsolAta, memeAta, saved, msg, pre, received, history>>
  BY DEF Sell
<1>3. pc' = (CASE msg.plan = "routed" -> "post" [] msg.plan = "amm" -> "close"
               [] msg.plan = "curve" -> "tip")
  BY DEF Sell
<1>4. native' \in Nat /\ wsol' \in Nat /\ native' + wsol' = native + wsol + paid
  BY DEF Sell, IInv, TypeOK
<1>5. meme' \in Nat
  BY <1>2 DEF IInv, TypeOK
<1>6. TypeOK'
  BY <1>1, <1>2, <1>3, <1>4, <1>5 DEF IInv, TypeOK, history
<1>7. Started'
  BY <1>1, <1>2, <1>3 DEF IInv, Started, Running, ByRouter
<1>8. Snapshot'
  BY <1>1, <1>2, <1>3 DEF IInv, Snapshot, ByRouter, Deposits, Deposit, Worth, Aggregate
<1>9. Tokens'
  <2>1. ByRouter => sold =< received
    BY <1>2 DEF Taken, Offered, ByRouter, IInv, TypeOK
  <2>2. msg.plan = "amm" => sold =< msg.floor
    BY <1>1, <1>2 DEF Taken, Offered
  <2>3. ByRouter \/ msg.plan = "amm" => meme' >= saved.meme
    BY <1>1, <1>2, <2>1, <2>2 DEF IInv, Tokens, TypeOK
  <2> QED
    BY <1>1, <1>2, <1>3, <2>3 DEF Tokens, ByRouter
<1>10. AtRisk'
  <2>1. Worth(Wallet)' = native' + wsol' + Deposits' /\ Deposits' = Deposits
    BY <1>2, <1>6, WorthNext DEF Deposits, Deposit
  <2>2. Worth(Wallet) = native + wsol + Deposits /\ Deposits \in Nat
    BY WorthNow DEF IInv
  <2>3. native \in Nat /\ wsol \in Nat
    BY DEF IInv, TypeOK
  <2>4. Worth(Wallet)' = Worth(Wallet) + paid /\ Worth(Wallet) \in Int
    <3>1. Worth(Wallet)' = native + wsol + paid + Deposits
      BY <1>4, <2>1
    <3> QED
      BY <2>2, <2>3, <3>1
  <2>5. Worth(saved) \in Int /\ Worth(saved)' = Worth(saved)
    BY <1>1, <1>2 DEF Worth, Aggregate, Deposit, IInv, TypeOK
  <2>6. ~ByRouter => paid >= msg.solFloor /\ msg.amount + Rent =< msg.solFloor + MaxLoss
    BY <1>1, <1>2, Transactions DEF SellFloor, ByRouter
  <2>7. ~ByRouter => Worth(Wallet)' >= Worth(saved) - Fee - MaxLoss
    BY <1>1, <1>2, <2>4, <2>5, <2>6 DEF IInv, AtRisk
  <2> QED
    BY <1>1, <1>2, <1>3, <2>5, <2>7 DEF AtRisk, ByRouter
<1> QED
  BY <1>1, <1>2, <1>3, <1>6, <1>7, <1>8, <1>9, <1>10 DEF IInv, Untouched, Checked, ByRouter

LEMMA PostInv == ASSUME IInv, Post PROVE IInv'
<1>1. pc = "post" /\ pc' = "tip" /\ Profitable /\ meme = pre.meme
      /\ UNCHANGED <<wallet, saved, msg, pre, received, history>>
  BY DEF Post, NoResidue
<1>2. native + wsol - pre.aggregate >= MinProfit
  <2>1. Aggregate(Wallet) = native + wsol
    BY DEF Aggregate, Wallet
  <2>2. Aggregate(Wallet) - pre.aggregate >= MinProfit
    BY <1>1 DEF Profitable
  <2>3. native \in Nat /\ wsol \in Nat /\ pre.aggregate \in Nat /\ MinProfit \in Nat
    BY Transactions DEF IInv, TypeOK
  <2> QED
    BY <2>1, <2>2, <2>3
<1>3. ByRouter /\ pre.meme = saved.meme /\ pre.aggregate + Deposits = Worth(saved) - Fee
  BY <1>1 DEF IInv, Started, Running, Snapshot
<1>4. TypeOK'
  BY <1>1 DEF IInv, TypeOK, wallet, history
<1>5. Started'
  BY <1>1 DEF IInv, Started, Running, ByRouter
<1>6. Worth(saved) \in Int /\ Worth(saved)' = Worth(saved) /\ Deposits \in Nat
  BY <1>1, WorthNow DEF Worth, Aggregate, Deposit, IInv
<1>7. Worth(Wallet)' = native + wsol + Deposits
  BY <1>1, <1>4, WorthNext DEF wallet, Deposits, Deposit
<1>8. native \in Nat /\ wsol \in Nat /\ pre.aggregate \in Nat
  BY DEF IInv, TypeOK
<1>9. Worth(Wallet)' >= Worth(saved) - Fee + MinProfit
  BY <1>2, <1>3, <1>6, <1>7, <1>8, Transactions
<1>10. Checked'
  BY <1>1, <1>3, <1>6, <1>9 DEF Checked, wallet
<1> QED
  BY <1>1, <1>3, <1>4, <1>5, <1>10 DEF IInv, Untouched, Snapshot, Tokens, AtRisk, ByRouter

LEMMA CloseInv == ASSUME IInv, Close PROVE IInv'
<1>1. pc = "close" /\ pc' = "tip" /\ native' = native + wsol + Deposit(wsolAta) /\ wsol' = 0
      /\ wsolAta' = FALSE /\ UNCHANGED <<meme, memeAta, saved, msg, pre, received, history>>
  BY DEF Close
<1>2. msg.plan = "amm" /\ Deposit(wsolAta) \in Nat
  BY <1>1, Transactions DEF IInv, Started, Running, Deposit
<1>3. TypeOK'
  <2>1. native' \in Nat /\ wsol' \in Nat
    BY <1>1, <1>2 DEF IInv, TypeOK
  <2>2. wsolAta' \in BOOLEAN /\ pc' \in {"close", "tip"}
    BY <1>1
  <2> QED
    BY <1>1, <2>1, <2>2 DEF IInv, TypeOK, history
<1>4. Started'
  BY <1>1 DEF IInv, Started, Running, ByRouter
<1>5. Worth(Wallet)' = Worth(Wallet) /\ Worth(saved)' = Worth(saved)
  BY <1>1, Transactions DEF Worth, Aggregate, Wallet, Deposit, IInv, TypeOK
<1>6. AtRisk'
  BY <1>1, <1>2, <1>5 DEF IInv, AtRisk, ByRouter
<1>7. Tokens'
  BY <1>1, <1>2 DEF IInv, Tokens, ByRouter
<1> QED
  BY <1>1, <1>2, <1>3, <1>4, <1>6, <1>7 DEF IInv, Untouched, Snapshot, Checked, ByRouter

LEMMA CommitInv == ASSUME IInv, Commit PROVE IInv'
<1>1. pc' = "idle" /\ native' = native - Tip /\ native >= Tip
      /\ UNCHANGED <<wsol, meme, wsolAta, memeAta, saved, msg, pre, received, charged>>
  BY DEF Commit, Affordable
<1>2. gained' \in Nat /\ risked' \in Nat
  BY DEF Commit, IInv, TypeOK
<1>3. native' \in Nat
  BY <1>1, Transactions DEF IInv, TypeOK
<1>4. TypeOK'
  BY <1>1, <1>2, <1>3 DEF IInv, TypeOK
<1> QED
  BY <1>1, <1>4 DEF IInv, Started, Running, Untouched, Snapshot, Tokens, AtRisk, Checked

LEMMA IdleInv ==
  ASSUME IInv, RestartFunds \/ \E amount \in Refills : Refill(amount) PROVE IInv'
<1>1. pc = "idle" /\ pc' = "idle"
      /\ UNCHANGED <<meme, memeAta, saved, msg, pre, received, gained, risked>>
      /\ charged' = charged + 1
  BY DEF RestartFunds, Refill
<1>2. native' \in Nat /\ wsol' \in Nat /\ wsolAta' \in BOOLEAN
  <2>1. CASE RestartFunds
    <3>1. native' = native - Rent - Prefund - Fee /\ native >= Rent + Prefund + Fee
          /\ wsol' = Prefund /\ wsolAta' = TRUE
      BY <2>1 DEF RestartFunds, Affordable
    <3>2. native' \in Nat
      BY <3>1, Transactions DEF IInv, TypeOK
    <3> QED
      BY <3>1, <3>2, Transactions
  <2>2. CASE \E amount \in Refills : Refill(amount)
    <3>1. PICK amount \in Refills : Refill(amount)
      BY <2>2
    <3>2. native' = native - amount - Fee /\ native >= amount + Fee /\ wsol' = wsol + amount
          /\ wsolAta' = wsolAta
      BY <3>1 DEF Refill, Affordable
    <3>3. native' \in Nat /\ wsol' \in Nat
      BY <3>2, Transactions DEF IInv, TypeOK
    <3>4. wsolAta' \in BOOLEAN
      BY <3>2 DEF IInv, TypeOK
    <3> QED
      BY <3>3, <3>4
  <2> QED
    BY <2>1, <2>2
<1>3. TypeOK'
  BY <1>1, <1>2 DEF IInv, TypeOK
<1> QED
  BY <1>1, <1>3 DEF IInv, Started, Running, Untouched, Snapshot, Tokens, AtRisk, Checked

(* Stuttering, and a restart that finds the account. *)
LEMMA StutterInv == ASSUME IInv, UNCHANGED vars PROVE IInv'
<1>1. TypeOK'
  BY DEF IInv, TypeOK, vars, wallet, history
<1>2. Worth(Wallet)' = Worth(Wallet) /\ Worth(saved)' = Worth(saved)
  BY DEF Worth, Aggregate, Wallet, Deposit, vars, wallet
<1>3. Deposits' = Deposits
  BY DEF Deposits, Deposit, vars, wallet
<1>4. Started' /\ Tokens'
  BY DEF IInv, Started, Running, ByRouter, Tokens, vars, wallet
<1>5. Untouched' /\ AtRisk' /\ Checked'
  BY <1>2 DEF IInv, Untouched, AtRisk, Checked, ByRouter, vars, wallet
<1>6. Snapshot'
  BY <1>2, <1>3 DEF IInv, Snapshot, ByRouter, vars, wallet
<1> QED
  BY <1>1, <1>4, <1>5, <1>6 DEF IInv

(* The invariant holds at every step of every transaction. *)
THEOREM Inductive == Spec => []IInv
<1>1. IInv /\ [Next]_vars => IInv'
  <2> SUFFICES ASSUME IInv, [Next]_vars PROVE IInv'
    OBVIOUS
  <2>1. CASE \E m \in Msgs : Start(m)
    BY <2>1, StartInv
  <2>2. CASE OpenAccounts
    BY <2>2, OpenInv
  <2>3. CASE CannotOpen \/ EnterFails \/ Refused \/ NothingReceived \/ PostFails \/ CannotTip
    BY <2>3, Failures, UndoInv
  <2>4. CASE Enter
    BY <2>4, EnterInv
  <2>5. CASE \E paid, out \in 0 .. MaxPay, opened \in {0, Rent} : Buy(paid, out, opened)
    <3>1. PICK paid, out \in 0 .. MaxPay, opened \in {0, Rent} : Buy(paid, out, opened)
      BY <2>5
    <3>2. paid \in Nat /\ out \in Nat
      BY Transactions
    <3> QED
      BY <3>1, <3>2, BuyInv
  <2>6. CASE ReadReceived
    BY <2>6, ReadInv
  <2>7. CASE \E sold, paid \in 0 .. MaxPay : Sell(sold, paid)
    <3>1. PICK sold, paid \in 0 .. MaxPay : Sell(sold, paid)
      BY <2>7
    <3>2. sold \in Nat /\ paid \in Nat
      BY Transactions
    <3> QED
      BY <3>1, <3>2, SellInv
  <2>8. CASE Post
    BY <2>8, PostInv
  <2>9. CASE Close
    BY <2>9, CloseInv
  <2>10. CASE Commit
    BY <2>10, CommitInv
  <2>11. CASE RestartFunds \/ \E amount \in Refills : Refill(amount)
    BY <2>11, IdleInv
  <2>12. CASE Restart \/ UNCHANGED vars
    BY <2>12, StutterInv DEF Restart
  <2> QED
    BY <2>1, <2>2, <2>3, <2>4, <2>5, <2>6, <2>7, <2>8, <2>9, <2>10, <2>11, <2>12 DEF Next
<1> QED
  BY InitInv, <1>1, PTL DEF Spec

(* Balances stay natural numbers, whatever fails and whenever. *)
THEOREM TypeCorrect == Spec => []TypeOK
<1>1. IInv => TypeOK
  BY DEF IInv
<1> QED
  BY <1>1, Inductive, PTL

(* Neither the router nor an AMM plan sells tokens the wallet held before. *)
THEOREM HeldTokens == Spec => []HeldStaysHeld
<1>1. IInv => HeldStaysHeld
  <2> SUFFICES ASSUME IInv, pc # "idle", msg.plan # "curve" PROVE meme >= saved.meme
    BY DEF HeldStaysHeld
  <2>1. msg.plan \in {"routed", "amm", "curve"} /\ msg.floor \in Nat /\ received \in Nat
        /\ meme \in Nat /\ saved.meme \in Nat
    BY DEF IInv, TypeOK, Message
  <2>2. CASE pc \in {"accounts", "enter", "buy"}
    BY <2>1, <2>2 DEF IInv, Untouched
  <2>3. CASE pc \in {"read", "post"}
    BY <2>3 DEF IInv, Started, Running, Tokens
  <2>4. CASE pc = "sell"
    BY <2>1, <2>4 DEF IInv, Tokens, ByRouter
  <2>5. CASE pc \in {"close", "tip"}
    BY <2>1, <2>5 DEF IInv, Started, Running, Tokens, Checked, ByRouter
  <2> QED
    BY <2>2, <2>3, <2>4, <2>5 DEF IInv, TypeOK
<1> QED
  BY <1>1, Inductive, PTL

-----------------------------------------------------------------------------
(* Refinement *)

(* A missing account holds nothing, and the swaps run with it open. *)
Empty ==
  /\ ~wsolAta => wsol = 0
  /\ ~saved.wsolAta => saved.wsol = 0
  /\ pc \in {"buy", "read", "sell", "post", "close"} => wsolAta

(* Nothing but a swap or a wrap fills the wrapped SOL account, and both need it. *)
THEOREM EmptyHolds == Spec => []Empty
<1>1. Init => Empty
  BY DEF Init, Empty, Wallet
<1>2. Empty /\ [Next]_vars => Empty'
  <2> SUFFICES ASSUME Empty, [Next]_vars PROVE Empty'
    OBVIOUS
  <2>1. CASE \E m \in Msgs : Start(m)
    BY <2>1 DEF Empty, Start, Wallet
  <2>2. CASE OpenAccounts
    <3>1. pc' \in {"enter", "buy"} /\ (pc' = "buy" => OpensWsol(msg)) /\ saved' = saved
          /\ (wsolAta' <=> wsolAta \/ OpensWsol(msg)) /\ wsol' = wsol + Wrapped
      BY <2>2 DEF OpenAccounts, OpensWsol
    <3>2. ~wsolAta' => wsol = 0 /\ Wrapped = 0
      BY <3>1 DEF Empty, Wrapped, Wraps, OpensWsol
    <3>3. ~wsolAta' => wsol' = 0
      BY <3>1, <3>2
    <3> QED
      BY <3>1, <3>3 DEF Empty
  <2>3. CASE CannotOpen \/ EnterFails \/ Refused \/ NothingReceived \/ PostFails \/ CannotTip
    BY <2>3 DEF CannotOpen, EnterFails, Refused, NothingReceived, PostFails, CannotTip, Abort, Empty
  <2>4. CASE Enter
    BY <2>4 DEF Enter, Acceptable, Empty, wallet
  <2>5. CASE \E paid, out \in 0 .. MaxPay, opened \in {0, Rent} : Buy(paid, out, opened)
    BY <2>5 DEF Buy, Empty
  <2>6. CASE ReadReceived
    BY <2>6 DEF ReadReceived, Empty, wallet
  <2>7. CASE \E sold, paid \in 0 .. MaxPay : Sell(sold, paid)
    BY <2>7 DEF Sell, Empty
  <2>8. CASE Post
    BY <2>8 DEF Post, Empty, wallet
  <2>9. CASE Close
    BY <2>9 DEF Close, Empty
  <2>10. CASE Commit
    BY <2>10 DEF Commit, Empty
  <2>11. CASE RestartFunds
    BY <2>11 DEF RestartFunds, Empty
  <2>12. CASE \E amount \in Refills : Refill(amount)
    BY <2>12 DEF Refill, Empty
  <2>13. CASE Restart \/ UNCHANGED vars
    BY <2>13 DEF Restart, Empty, vars, wallet
  <2> QED
    BY <2>1, <2>2, <2>3, <2>4, <2>5, <2>6, <2>7, <2>8, <2>9, <2>10, <2>11, <2>12, <2>13 DEF Next
<1> QED
  BY <1>1, <1>2, PTL DEF Spec

(* What AtomicTrade sees of the wallet when no transaction runs. *)
LEMMA SeenIdle ==
  ASSUME IInv, pc = "idle"
  PROVE  Worth(Visible) = native + wsol + Deposits /\ Visible.meme = meme
<1>1. Visible = Wallet
  BY DEF Visible
<1>2. Wallet.meme = meme
  BY DEF Wallet
<1> QED
  BY <1>1, <1>2, WorthNow DEF IInv

LEMMA SeenIdleNext ==
  ASSUME IInv', pc' = "idle"
  PROVE  Worth(Visible)' = native' + wsol' + Deposits' /\ Visible.meme' = meme'
<1>1. Visible' = Wallet'
  BY DEF Visible
<1>2. Wallet'.meme = meme'
  BY DEF Wallet
<1>3. Worth(Visible)' = Worth(Wallet)'
  BY <1>1 DEF Worth, Aggregate, Deposit
<1> QED
  BY <1>1, <1>2, <1>3, WorthNext DEF IInv

LEMMA SeenRunning ==
  ASSUME pc # "idle" PROVE Worth(Visible) = Worth(saved) /\ Visible.meme = saved.meme
BY DEF Visible

(* The inner steps, and the first, show nothing. *)
LEMMA HiddenStep ==
  ASSUME pc # "idle", pc' # "idle", saved' = saved, UNCHANGED history
  PROVE  UNCHANGED Atomic!tradeVars
<1>1. Visible' = saved /\ Visible = saved
  BY DEF Visible
<1>2. Worth(Visible)' = Worth(Visible) /\ Visible'.meme = Visible.meme
  BY <1>1 DEF Worth, Aggregate, Deposit
<1> QED
  BY <1>2 DEF Atomic!tradeVars, history

LEMMA StartHidden ==
  ASSUME NEW m \in Msgs, Start(m) PROVE UNCHANGED Atomic!tradeVars
<1>1. Visible' = Wallet /\ Visible = Wallet /\ UNCHANGED history
  BY DEF Visible, Start
<1>2. Worth(Visible)' = Worth(Visible) /\ Visible'.meme = Visible.meme
  BY <1>1 DEF Worth, Aggregate, Deposit
<1> QED
  BY <1>1, <1>2 DEF Atomic!tradeVars, history

(* A failure is seen as a charge. *)
LEMMA UndoSeen == ASSUME IInv, Undo PROVE Atomic!Charged
<1>1. pc # "idle" /\ pc' = "idle" /\ native' = saved.native - Fee /\ wsol' = saved.wsol
      /\ meme' = saved.meme /\ wsolAta' = saved.wsolAta /\ memeAta' = saved.memeAta
      /\ charged' = charged + 1 /\ UNCHANGED <<gained, risked>>
  BY DEF Undo, Abort, Running
<1>2. IInv'
  BY UndoInv
<1>3. Worth(Visible)' = native' + wsol' + Deposits' /\ Visible.meme' = meme'
  BY <1>1, <1>2, SeenIdleNext
<1>4. Worth(Visible) = Worth(saved) /\ Visible.meme = saved.meme
  BY <1>1, SeenRunning
<1>5. Deposits' = Deposit(saved.wsolAta) + Deposit(saved.memeAta)
  BY <1>1 DEF Deposits, Deposit
<1>6. Worth(saved) = saved.native + saved.wsol + Deposit(saved.wsolAta) + Deposit(saved.memeAta)
  BY DEF Worth, Aggregate
<1>7. saved.native \in Nat /\ saved.wsol \in Nat /\ Fee \in Nat
      /\ Deposit(saved.wsolAta) \in Nat /\ Deposit(saved.memeAta) \in Nat
  BY Transactions DEF IInv, TypeOK, Deposit
<1>8. Worth(Visible)' = Worth(saved) - Fee
  BY <1>1, <1>3, <1>5, <1>6, <1>7
<1>9. Worth(Visible)' = Worth(Visible) - Fee
  BY <1>4, <1>8
<1> QED
  BY <1>1, <1>3, <1>4, <1>9 DEF Atomic!Charged

(* A wrap moves SOL, and creating the account moves its deposit. *)
LEMMA IdleSeen ==
  ASSUME IInv, Empty, RestartFunds \/ \E amount \in Refills : Refill(amount)
  PROVE  Atomic!Charged
<1>1. pc = "idle" /\ pc' = "idle" /\ charged' = charged + 1
      /\ UNCHANGED <<meme, memeAta, saved, gained, risked>>
  BY DEF RestartFunds, Refill
<1>2. IInv'
  BY IdleInv
<1>3. Worth(Visible)' = native' + wsol' + Deposits' /\ Visible.meme' = meme'
  BY <1>1, <1>2, SeenIdleNext
<1>4. Worth(Visible) = native + wsol + Deposits /\ Visible.meme = meme
  BY <1>1, SeenIdle
<1>5. native \in Nat /\ wsol \in Nat /\ Fee \in Nat /\ Rent \in Nat /\ Prefund \in Nat
      /\ Deposit(wsolAta) \in Nat /\ Deposit(memeAta) \in Nat
  BY Transactions DEF IInv, TypeOK, Deposit
<1>6. Deposits = Deposit(wsolAta) + Deposit(memeAta)
  BY DEF Deposits
<1>7. native' + wsol' + Deposits' = native + wsol + Deposits - Fee
  <2>1. CASE RestartFunds
    <3>1. native' = native - Rent - Prefund - Fee /\ wsol' = Prefund /\ wsolAta' = TRUE
          /\ ~wsolAta
      BY <2>1 DEF RestartFunds
    <3>2. wsol = 0
      BY <3>1 DEF Empty
    <3>3. Deposit(wsolAta) = 0
      BY <3>1 DEF Deposit
    <3>4. Deposits' = Rent + Deposit(memeAta)
      BY <1>1, <3>1 DEF Deposits, Deposit
    <3> QED
      BY <1>5, <1>6, <3>1, <3>2, <3>3, <3>4
  <2>2. CASE \E amount \in Refills : Refill(amount)
    <3>1. PICK amount \in Refills : Refill(amount)
      BY <2>2
    <3>2. native' = native - amount - Fee /\ wsol' = wsol + amount /\ wsolAta' = wsolAta
          /\ amount \in Nat
      BY <3>1, Transactions DEF Refill
    <3>3. Deposits' = Deposits
      BY <1>1, <3>2 DEF Deposits, Deposit
    <3> QED
      BY <1>5, <1>6, <3>2, <3>3
  <2> QED
    BY <2>1, <2>2
<1>8. Worth(Visible)' = Worth(Visible) - Fee
  <2>1. Worth(Visible)' = native + wsol + Deposits - Fee
    BY <1>3, <1>7
  <2>2. Worth(Visible) = native + wsol + Deposits
    BY <1>4
  <2>3. native \in Int /\ wsol \in Int /\ Deposits \in Int /\ Fee \in Int
    BY <1>5, <1>6
  <2>4. Worth(Visible) - Fee = native + wsol + Deposits - Fee
    BY <2>2, <2>3
  <2> QED
    BY <2>1, <2>4
<1> QED
  BY <1>1, <1>3, <1>4, <1>8 DEF Atomic!Charged

(* A commit is seen as a routed trade, bounded by the router's last check, *)
(* or as a direct one, bounded by its floors.                              *)
LEMMA CommitSeen == ASSUME IInv, Commit PROVE Atomic!Routed \/ Atomic!Direct
<1>1. pc = "tip" /\ pc' = "idle" /\ native' = native - Tip
      /\ UNCHANGED <<wsol, meme, wsolAta, memeAta, saved, msg, charged>>
  BY DEF Commit
<1>2. IInv'
  BY CommitInv
<1>3. Worth(Visible)' = native' + wsol' + Deposits' /\ Visible.meme' = meme'
  BY <1>1, <1>2, SeenIdleNext
<1>4. Worth(Visible) = Worth(saved) /\ Visible.meme = saved.meme
  BY <1>1, SeenRunning
<1>5. Worth(Wallet) = native + wsol + Deposits /\ Worth(saved) \in Int /\ Deposits \in Nat
  BY WorthNow DEF IInv
<1>6. native \in Nat /\ wsol \in Nat /\ meme' \in Nat /\ Tip \in Nat /\ Fee \in Nat
      /\ MinProfit \in Nat /\ MaxLoss \in Nat
  BY <1>2, Transactions DEF IInv, TypeOK
<1>7. Deposits' = Deposits
  BY <1>1 DEF Deposits, Deposit
<1>8. Worth(Visible)' = Worth(Wallet) - Tip /\ Worth(Visible)' \in Int /\ Worth(Wallet) \in Int
  BY <1>1, <1>3, <1>5, <1>6, <1>7
<1>9. CASE ByRouter
  <2>1. Worth(Wallet) >= Worth(saved) - Fee + MinProfit /\ meme = saved.meme
    BY <1>1, <1>9 DEF IInv, Checked
  <2>2. Worth(Visible)' >= Worth(Visible) - Fee - Tip + MinProfit
    BY <1>4, <1>5, <1>6, <1>8, <2>1
  <2>3. gained' = gained + 1 /\ risked' = risked
    BY <1>9 DEF Commit, ByRouter
  <2> QED
    BY <1>1, <1>3, <1>4, <1>8, <2>1, <2>2, <2>3 DEF Atomic!Routed
<1>10. CASE ~ByRouter
  <2>1. Worth(Wallet) >= Worth(saved) - Fee - MaxLoss
    BY <1>1, <1>10 DEF IInv, AtRisk
  <2>2. Worth(Visible)' >= Worth(Visible) - Fee - Tip - MaxLoss
    BY <1>4, <1>5, <1>6, <1>8, <2>1
  <2>3. risked' = risked + 1 /\ gained' = gained
    BY <1>10 DEF Commit, ByRouter
  <2> QED
    BY <1>1, <1>3, <1>6, <1>8, <2>2, <2>3 DEF Atomic!Direct
<1> QED
  BY <1>9, <1>10

(* Every step is a step of AtomicTrade, or shows nothing. *)
LEMMA StepSeen ==
  ASSUME IInv, Empty, [Next]_vars PROVE [Atomic!Next]_(Atomic!tradeVars)
<1>1. CASE \E m \in Msgs : Start(m)
  BY <1>1, StartHidden
<1>2. CASE CannotOpen \/ EnterFails \/ Refused \/ NothingReceived \/ PostFails \/ CannotTip
  BY <1>2, Failures, UndoSeen DEF Atomic!Next
<1>3. CASE OpenAccounts \/ Enter \/ ReadReceived \/ Post \/ Close
  BY <1>3, HiddenStep DEF OpenAccounts, Enter, ReadReceived, Post, Close
<1>4. CASE \E paid, out \in 0 .. MaxPay, opened \in {0, Rent} : Buy(paid, out, opened)
  <2>1. pc = "buy" /\ pc' \in {"read", "sell"} /\ saved' = saved /\ UNCHANGED history
    BY <1>4 DEF Buy
  <2> QED
    BY <2>1, HiddenStep
<1>5. CASE \E sold, paid \in 0 .. MaxPay : Sell(sold, paid)
  <2>1. msg.plan \in {"routed", "amm", "curve"}
    BY DEF IInv, TypeOK, Message
  <2>2. pc = "sell" /\ pc' \in {"post", "close", "tip"} /\ saved' = saved /\ UNCHANGED history
    BY <1>5, <2>1 DEF Sell
  <2> QED
    BY <2>2, HiddenStep
<1>6. CASE Commit
  BY <1>6, CommitSeen DEF Atomic!Next
<1>7. CASE RestartFunds \/ \E amount \in Refills : Refill(amount)
  BY <1>7, IdleSeen DEF Atomic!Next
<1>8. CASE Restart \/ UNCHANGED vars
  <2>1. UNCHANGED vars
    BY <1>8 DEF Restart
  <2>2. Visible' = Visible
    BY <2>1 DEF Visible, Wallet, vars, wallet
  <2>3. Worth(Visible)' = Worth(Visible)
    BY <2>2 DEF Worth, Aggregate, Deposit
  <2> QED
    BY <2>1, <2>2, <2>3 DEF Atomic!tradeVars, vars, history
<1> QED
  BY <1>1, <1>2, <1>3, <1>4, <1>5, <1>6, <1>7, <1>8 DEF Next

LEMMA InitSeen == Init => Atomic!Init
<1> SUFFICES ASSUME Init PROVE Atomic!Init
  OBVIOUS
<1>1. IInv /\ pc = "idle" /\ charged = 0 /\ gained = 0 /\ risked = 0
  BY InitInv DEF Init
<1>2. Worth(Visible) = native + wsol + Deposits /\ Visible.meme = meme
  BY <1>1, SeenIdle
<1>3. native = Funds - wsol - Deposit(wsolAta) - Deposit(memeAta)
  BY DEF Init
<1>4. wsol \in Nat /\ meme \in Nat /\ Funds \in Nat
      /\ Deposit(wsolAta) \in Nat /\ Deposit(memeAta) \in Nat
  BY <1>1, Transactions DEF IInv, TypeOK, Deposit
<1>5. Worth(Visible) = Funds
  BY <1>2, <1>3, <1>4 DEF Deposits
<1> QED
  BY <1>1, <1>2, <1>4, <1>5 DEF Atomic!Init

(* Whatever it is made of, a transaction is a single step of AtomicTrade. *)
THEOREM RefinesAtomic == Spec => IsAtomic
<1>1. IInv /\ Empty /\ [Next]_vars => [Atomic!Next]_(Atomic!tradeVars)
  BY StepSeen
<1> QED
  BY InitSeen, <1>1, Inductive, EmptyHolds, PTL DEF Spec, IsAtomic, Atomic!Spec

-----------------------------------------------------------------------------
(* The bound on the losses *)

LEMMA OneMore == ASSUME NEW n \in Nat, NEW c \in Int PROVE (n + 1) * c = n * c + c
OBVIOUS

(* A step of AtomicTrade moves the worth by no more than its counter moves *)
(* the bound.                                                              *)
LEMMA BoundStep ==
  ASSUME IInv, IInv', WorthIsBounded, [Atomic!Next]_(Atomic!tradeVars)
  PROVE  WorthIsBounded'
<1> DEFINE worth == Worth(Visible)
           gain == MinProfit - Fee - Tip
           loss == MaxLoss + Fee + Tip
<1>1. Fee \in Nat /\ Tip \in Nat /\ MinProfit \in Nat /\ MaxLoss \in Nat /\ Funds \in Nat
      /\ gain \in Int /\ loss \in Int
  BY Transactions
<1>2. charged \in Nat /\ gained \in Nat /\ risked \in Nat
  BY DEF IInv, TypeOK
<1>3. worth \in Int
  BY WorthNow DEF IInv, Visible, TypeOK
<1>4. charged * Fee \in Int /\ gained * gain \in Int /\ risked * loss \in Int
  BY <1>1, <1>2
<1>5. worth >= Funds - charged * Fee + gained * gain - risked * loss
  BY DEF WorthIsBounded, Atomic!WorthBounded
<1>6. SUFFICES worth' >= Funds - charged' * Fee + gained' * gain - risked' * loss
  BY DEF WorthIsBounded, Atomic!WorthBounded
<1>7. CASE Atomic!Charged
  <2>1. worth' = worth - Fee /\ charged' = charged + 1 /\ gained' = gained /\ risked' = risked
    BY <1>7 DEF Atomic!Charged
  <2>2. charged' * Fee = charged * Fee + Fee
    BY <1>1, <1>2, <2>1, OneMore
  <2> HIDE DEF worth, gain, loss
  <2> QED
    BY <1>1, <1>3, <1>4, <1>5, <2>1, <2>2
<1>8. CASE Atomic!Routed
  <2>1. worth' \in Int /\ worth' >= worth - Fee - Tip + MinProfit
        /\ gained' = gained + 1 /\ charged' = charged /\ risked' = risked
    BY <1>8 DEF Atomic!Routed
  <2>2. gained' * gain = gained * gain + gain
    BY <1>1, <1>2, <2>1, OneMore
  <2>3. worth' >= worth + gain
    BY <1>1, <1>3, <2>1
  <2> HIDE DEF worth, gain, loss
  <2> QED
    BY <1>1, <1>3, <1>4, <1>5, <2>1, <2>2, <2>3
<1>9. CASE Atomic!Direct
  <2>1. worth' \in Int /\ worth' >= worth - Fee - Tip - MaxLoss
        /\ risked' = risked + 1 /\ charged' = charged /\ gained' = gained
    BY <1>9 DEF Atomic!Direct
  <2>2. risked' * loss = risked * loss + loss
    BY <1>1, <1>2, <2>1, OneMore
  <2>3. worth' >= worth - loss
    BY <1>1, <1>3, <2>1
  <2> HIDE DEF worth, gain, loss
  <2> QED
    BY <1>1, <1>3, <1>4, <1>5, <2>1, <2>2, <2>3
<1>10. CASE UNCHANGED Atomic!tradeVars
  <2>1. worth' = worth /\ charged' = charged /\ gained' = gained /\ risked' = risked
    BY <1>10 DEF Atomic!tradeVars
  <2> HIDE DEF worth, gain, loss
  <2> QED
    BY <1>5, <2>1
<1> QED
  BY <1>7, <1>8, <1>9, <1>10 DEF Atomic!Next

(* No mix of transactions costs more than its fees, tips and slippage, and *)
(* each routed trade that goes through adds MinProfit.                     *)
THEOREM Bounded == Spec => []WorthIsBounded
<1>1. Init => WorthIsBounded
  <2> SUFFICES ASSUME Init PROVE WorthIsBounded
    OBVIOUS
  <2>1. Worth(Visible) = Funds /\ charged = 0 /\ gained = 0 /\ risked = 0
    BY InitSeen DEF Atomic!Init
  <2>2. Fee \in Nat /\ MinProfit - Fee - Tip \in Int /\ MaxLoss + Fee + Tip \in Int
        /\ Funds \in Nat
    BY Transactions
  <2>3. Worth(Visible) >= Funds - 0 * Fee + 0 * (MinProfit - Fee - Tip)
                                - 0 * (MaxLoss + Fee + Tip)
    BY <2>1, <2>2
  <2> QED
    BY <2>1, <2>3 DEF WorthIsBounded, Atomic!WorthBounded
<1>2. IInv /\ IInv' /\ Empty /\ [Next]_vars /\ WorthIsBounded => WorthIsBounded'
  BY StepSeen, BoundStep
<1> QED
  BY <1>1, <1>2, Inductive, EmptyHolds, PTL DEF Spec

-----------------------------------------------------------------------------
(* The sections of the two dedicated routes.  All but a few places of a    *)
(* section are fixed, so a section is reasoned about as one sequence, and  *)
(* an instruction as three.                                                *)

(* The accounts a dedicated route may name: of those that sign only the    *)
(* wallet is among them.                                                   *)
Name ==
  { "wallet", "user_sol_ata", "user_meme_ata", "sol_mint", "meme_mint", "tokenkeg", "token22",
    "pumpswap", "pump_pool", "global_config", "pool_base", "pool_quote", "fee_recipient",
    "fee_ata", "system", "ata_program", "pump_event_auth", "vault_ata", "vault_auth",
    "global_vol", "user_vol", "fee_config", "fee_program", "cashback_ata", "pool_v2",
    "buyback", "buyback_ata", "dlmm", "lb_pair", "bitmap", "reserve_x", "reserve_y",
    "dlmm_oracle", "memo", "dlmm_event_auth", "bin1", "bin2", "bin3", "bin4", "bin5" }

(* Where the parts of a sequence of three are found in it. *)
LEMMA Parts ==
  ASSUME NEW N, NEW a \in Seq(N), NEW b \in Seq(N), NEW d \in Seq(N),
         NEW k, k = a \o b \o d
  PROVE  /\ k \in Seq(N)
         /\ Len(k) = Len(a) + Len(b) + Len(d)
         /\ \A i \in 1 .. Len(a) : k[i] = a[i]
         /\ \A i \in 1 .. Len(b) : k[Len(a) + i] = b[i]
         /\ \A i \in 1 .. Len(d) : k[Len(a) + Len(b) + i] = d[i]
  BY SMTT(30)

LEMMA Cuts ==
  ASSUME NEW N, NEW a \in Seq(N), NEW b \in Seq(N), NEW d \in Seq(N),
         NEW k, k = a \o b \o d
  PROVE  /\ SubSeq(k, Len(a) + 1, Len(a) + Len(b)) = b
         /\ SubSeq(k, Len(a) + Len(b) + 1, Len(a) + Len(b) + Len(d)) = d
         /\ \A i \in 1 .. Len(b) + 1 :
              SubSeq(k, Len(a) + i, Len(a) + Len(b)) = SubSeq(b, i, Len(b))
         /\ \A i \in 1 .. Len(d) + 1 :
              SubSeq(k, Len(a) + Len(b) + i, Len(a) + Len(b) + Len(d)) = SubSeq(d, i, Len(d))
  BY SMTT(30)

LEMMA Joins ==
  ASSUME NEW N, NEW a \in Seq(N), NEW b \in Seq(N)
  PROVE  a \o b \in Seq(N)
  BY ConcatProperties

LEMMA JoinKeeps ==
  ASSUME NEW N, NEW a \in Seq(N), NEW b \in Seq(N)
  PROVE  /\ Len(a \o b) = Len(a) + Len(b)
         /\ Len(a) > 0 => (a \o b)[1] = a[1]
  <1>1. Len(a \o b) = Len(a) + Len(b)
    BY ConcatProperties
  <1>2. ASSUME Len(a) > 0
        PROVE  (a \o b)[1] = a[1]
    <2>1. 1 \in 1 .. Len(a) + Len(b) /\ 1 =< Len(a)
      BY <1>2
    <2>. QED
      BY <2>1, ConcatProperties
  <1>. QED
    BY <1>1, <1>2

LEMMA CoinTyped ==
  ASSUME NEW c \in Coin
  PROVE  /\ c.prog \in {"tokenkeg", "token22"}
         /\ BuyRemaining(c) \in 2 .. 4
         /\ SellRemaining(c) \in 2 .. 5
         /\ BinsKept(c) \in 0 .. 5
         /\ c.bins = 0 <=> BinsKept(c) = 0
  BY DEF Coin, BuyRemaining, SellRemaining, Count, BinsKept, Least

LEMMA Pieces ==
  ASSUME NEW c \in Coin
  PROVE  /\ PumpHead(c) \in Seq(Name)
         /\ Buyback \in Seq(Name)
         /\ <<"global_vol", "user_vol", "fee_config", "fee_program">> \in Seq(Name)
         /\ <<"fee_config", "fee_program">> \in Seq(Name)
         /\ Optional(c.cashback, <<"cashback_ata">>) \in Seq(Name)
         /\ Optional(c.cashback, <<"cashback_ata", "user_vol">>) \in Seq(Name)
         /\ Optional(c.creator, <<"pool_v2">>) \in Seq(Name)
  <1>1. PumpHead(c) \in Seq(Name)
    BY DEF PumpHead, Coin, Name
  <1>2. Buyback \in Seq(Name) /\ <<"fee_config", "fee_program">> \in Seq(Name)
    BY DEF Buyback, Name
  <1>3. <<"global_vol", "user_vol", "fee_config", "fee_program">> \in Seq(Name)
    BY DEF Name
  <1>4. /\ Optional(c.cashback, <<"cashback_ata">>) \in Seq(Name)
        /\ Optional(c.cashback, <<"cashback_ata", "user_vol">>) \in Seq(Name)
        /\ Optional(c.creator, <<"pool_v2">>) \in Seq(Name)
    <2>1. /\ <<>> \in Seq(Name) /\ <<"cashback_ata">> \in Seq(Name)
          /\ <<"pool_v2">> \in Seq(Name) /\ <<"cashback_ata", "user_vol">> \in Seq(Name)
      BY DEF Name
    <2>. QED
      BY <2>1 DEF Optional
  <1>. QED
    BY <1>1, <1>2, <1>3, <1>4

(* What PumpSwap wants of a leg is what the client lays out for it: the    *)
(* two lists are written down in different places, in a different order of *)
(* their optional parts.                                                   *)
LEMMA PumpIsWanted ==
  ASSUME NEW c \in Coin
  PROVE  /\ PumpBuy(c) = PumpWants("buy", c)
         /\ PumpSell(c) = PumpWants("sell", c)
  <1>1. PumpBuy(c) = PumpWants("buy", c)
    BY SMTT(60) DEF PumpBuy, PumpHead, Buyback, Optional, PumpWants, Coin
  <1>2. PumpSell(c) = PumpWants("sell", c)
    BY SMTT(60) DEF PumpSell, PumpHead, Buyback, Optional, PumpWants, Coin
  <1>. QED
    BY <1>1, <1>2

LEMMA BuySection ==
  ASSUME NEW c \in Coin
  PROVE  /\ PumpBuy(c) \in Seq(Name)
         /\ Len(PumpBuy(c)) = 23 + BuyRemaining(c)
  <1>. DEFINE s == PumpHead(c) \o <<"global_vol", "user_vol", "fee_config", "fee_program">>
              t == s \o Optional(c.cashback, <<"cashback_ata">>)
              u == t \o Optional(c.creator, <<"pool_v2">>)
  <1>1. s \in Seq(Name)
    BY Joins, Pieces
  <1>2. t \in Seq(Name)
    BY <1>1, Joins, Pieces
  <1>3. u \in Seq(Name)
    BY <1>2, Joins, Pieces
  <1>4. u \o Buyback \in Seq(Name)
    BY <1>3, Joins, Pieces
  <1>5. Len(PumpBuy(c)) = 23 + BuyRemaining(c)
    BY SMTT(60) DEF PumpBuy, PumpHead, Buyback, Optional, Coin, BuyRemaining, Count
  <1>. QED
    BY <1>4, <1>5 DEF PumpBuy

LEMMA SellSection ==
  ASSUME NEW c \in Coin
  PROVE  /\ PumpSell(c) \in Seq(Name)
         /\ Len(PumpSell(c)) = 21 + SellRemaining(c)
  <1>. DEFINE s == PumpHead(c) \o <<"fee_config", "fee_program">>
              t == s \o Optional(c.cashback, <<"cashback_ata", "user_vol">>)
              u == t \o Optional(c.creator, <<"pool_v2">>)
  <1>1. s \in Seq(Name)
    BY Joins, Pieces
  <1>2. t \in Seq(Name)
    BY <1>1, Joins, Pieces
  <1>3. u \in Seq(Name)
    BY <1>2, Joins, Pieces
  <1>4. u \o Buyback \in Seq(Name)
    BY <1>3, Joins, Pieces
  <1>5. Len(PumpSell(c)) = 21 + SellRemaining(c)
    BY SMTT(60) DEF PumpSell, PumpHead, Buyback, Optional, Coin, SellRemaining, Count
  <1>. QED
    BY <1>4, <1>5 DEF PumpSell

(* The places of a PumpSwap section that a leg, or the other leg, reads.   *)
PumpPlaces(s, c) ==
  /\ s[1] = "pump_pool" /\ s[2] = "wallet" /\ s[3] = "global_config"
  /\ s[4] = "meme_mint" /\ s[5] = "sol_mint"
  /\ s[6] = "user_meme_ata" /\ s[7] = "user_sol_ata"
  /\ s[8] = "pool_base" /\ s[9] = "pool_quote" /\ s[11] = "fee_ata"
  /\ s[12] = c.prog /\ s[13] = "tokenkeg" /\ s[14] = "system" /\ s[15] = "ata_program"
  /\ s[16] = "pump_event_auth" /\ s[17] = "pumpswap" /\ s[18] = "vault_ata"

LEMMA PumpPlaced ==
  ASSUME NEW c \in Coin
  PROVE  /\ PumpPlaces(PumpBuy(c), c)
         /\ PumpBuy(c)[21] = "user_vol"
         /\ PumpBuy(c)[22] = "fee_config" /\ PumpBuy(c)[23] = "fee_program"
         /\ PumpPlaces(PumpSell(c), c)
         /\ PumpSell(c)[20] = "fee_config" /\ PumpSell(c)[21] = "fee_program"
  <1>1. PumpPlaces(PumpBuy(c), c)
    BY SMTT(60) DEF PumpPlaces, PumpBuy, PumpHead, Buyback, Optional, Coin
  <1>2. PumpPlaces(PumpSell(c), c)
    BY SMTT(60) DEF PumpPlaces, PumpSell, PumpHead, Buyback, Optional, Coin
  <1>3. /\ PumpBuy(c)[21] = "user_vol"
        /\ PumpBuy(c)[22] = "fee_config" /\ PumpBuy(c)[23] = "fee_program"
    BY SMTT(60) DEF PumpBuy, PumpHead, Buyback, Optional, Coin
  <1>4. PumpSell(c)[20] = "fee_config" /\ PumpSell(c)[21] = "fee_program"
    BY SMTT(60) DEF PumpSell, PumpHead, Buyback, Optional, Coin
  <1>. QED
    BY <1>1, <1>2, <1>3, <1>4

LEMMA BinsAre ==
  ASSUME NEW c \in Coin
  PROVE  Bins(c) \in Seq({"bin1", "bin2", "bin3", "bin4", "bin5"})
  BY DEF Bins, BinsKept, Least, Coin

LEMMA DlmmTyped ==
  ASSUME NEW c \in Coin
  PROVE  /\ DlmmSection(c) \in Seq(Name)
         /\ Len(DlmmSection(c)) = 9 + BinsKept(c)
  BY SMTT(60) DEF DlmmSection, DlmmFixed, Bins, BinsKept, Least, Coin, Name

LEMMA DlmmIs ==
  ASSUME NEW c \in Coin
  PROVE  /\ SubSeq(DlmmSection(c), 10, 9 + BinsKept(c)) = Bins(c)
         /\ LET d == DlmmSection(c)
            IN /\ d[1] = "dlmm" /\ d[2] = "lb_pair"
               /\ d[3] = IF c.bitmap THEN "bitmap" ELSE "dlmm"
               /\ d[4] = "reserve_x" /\ d[5] = "reserve_y" /\ d[6] = "dlmm_oracle"
               /\ d[7] = "dlmm" /\ d[8] = "memo" /\ d[9] = "dlmm_event_auth"
  <1>1. SubSeq(DlmmSection(c), 10, 9 + BinsKept(c)) = Bins(c)
    BY SMTT(60) DEF DlmmSection, DlmmFixed, Bins, BinsKept, Least, Coin
  <1>2. LET d == DlmmSection(c)
        IN /\ d[1] = "dlmm" /\ d[2] = "lb_pair"
           /\ d[3] = IF c.bitmap THEN "bitmap" ELSE "dlmm"
           /\ d[4] = "reserve_x" /\ d[5] = "reserve_y" /\ d[6] = "dlmm_oracle"
           /\ d[7] = "dlmm" /\ d[8] = "memo" /\ d[9] = "dlmm_event_auth"
    BY SMTT(60) DEF DlmmSection, DlmmFixed, Bins, BinsKept, Least, Coin
  <1>. QED
    BY <1>1, <1>2

LEMMA SharedIs ==
  /\ Shared \in Seq(Name) /\ Len(Shared) = 3
  /\ Shared[1] = "wallet" /\ Shared[2] = "user_sol_ata" /\ Shared[3] = "user_meme_ata"
  BY DEF Shared, Name

-----------------------------------------------------------------------------
(* An instruction of a dedicated route, read back by position *)

(* The accounts of section s start at accounts[b]. *)
Lies(s, b) == \A i \in 1 .. Len(s) : ix.keys[b + i] = s[i]

(* The accounts of an instruction are three sections. *)
Sections(a, s, t) == ix.keys = a \o s \o t

LEMMA LaidOut ==
  ASSUME NEW N, NEW a \in Seq(N), NEW s \in Seq(N), NEW t \in Seq(N), Sections(a, s, t)
  PROVE  /\ ix.keys \in Seq(N)
         /\ Size = Len(a) + Len(s) + Len(t)
         /\ Lies(a, 0)
         /\ Lies(s, Len(a))
         /\ Lies(t, Len(a) + Len(s))
         /\ Slice(Len(a), Len(s)) = s
         /\ Slice(Len(a) + Len(s), Len(t)) = t
         /\ \A i \in 0 .. Len(s) :
              Slice(Len(a) + i, Len(s) - i) = SubSeq(s, i + 1, Len(s))
         /\ \A i \in 0 .. Len(t) :
              Slice(Len(a) + Len(s) + i, Len(t) - i) = SubSeq(t, i + 1, Len(t))
  <1>. DEFINE k == ix.keys
  <1>1. Len(a) \in Nat /\ Len(s) \in Nat /\ Len(t) \in Nat
    OBVIOUS
  <1>2. /\ k \in Seq(N)
        /\ Len(k) = Len(a) + Len(s) + Len(t)
        /\ \A i \in 1 .. Len(a) : k[i] = a[i]
        /\ \A i \in 1 .. Len(s) : k[Len(a) + i] = s[i]
        /\ \A i \in 1 .. Len(t) : k[Len(a) + Len(s) + i] = t[i]
    BY Parts DEF Sections
  <1>3. /\ SubSeq(k, Len(a) + 1, Len(a) + Len(s)) = s
        /\ SubSeq(k, Len(a) + Len(s) + 1, Len(a) + Len(s) + Len(t)) = t
        /\ \A i \in 1 .. Len(s) + 1 :
              SubSeq(k, Len(a) + i, Len(a) + Len(s)) = SubSeq(s, i, Len(s))
        /\ \A i \in 1 .. Len(t) + 1 :
              SubSeq(k, Len(a) + Len(s) + i, Len(a) + Len(s) + Len(t)) = SubSeq(t, i, Len(t))
    BY Cuts DEF Sections
  <1>4. Lies(a, 0) /\ Lies(s, Len(a)) /\ Lies(t, Len(a) + Len(s))
    BY <1>1, <1>2 DEF Lies
  <1>5. ASSUME NEW i \in 0 .. Len(s)
        PROVE  Slice(Len(a) + i, Len(s) - i) = SubSeq(s, i + 1, Len(s))
    <2>1. /\ i + 1 \in 1 .. Len(s) + 1
          /\ Len(a) + (i + 1) = (Len(a) + i) + 1
          /\ (Len(a) + i) + (Len(s) - i) = Len(a) + Len(s)
      BY <1>1
    <2>2. SubSeq(k, Len(a) + (i + 1), Len(a) + Len(s)) = SubSeq(s, i + 1, Len(s))
      BY <1>3, <2>1
    <2>. QED
      BY <2>1, <2>2 DEF Slice
  <1>6. ASSUME NEW i \in 0 .. Len(t)
        PROVE  Slice(Len(a) + Len(s) + i, Len(t) - i) = SubSeq(t, i + 1, Len(t))
    <2>1. /\ i + 1 \in 1 .. Len(t) + 1
          /\ Len(a) + Len(s) + (i + 1) = (Len(a) + Len(s) + i) + 1
          /\ (Len(a) + Len(s) + i) + (Len(t) - i) = Len(a) + Len(s) + Len(t)
      BY <1>1
    <2>2. SubSeq(k, Len(a) + Len(s) + (i + 1), Len(a) + Len(s) + Len(t)) = SubSeq(t, i + 1, Len(t))
      BY <1>3, <2>1
    <2>. QED
      BY <2>1, <2>2 DEF Slice
  <1>. QED
    BY <1>1, <1>2, <1>3, <1>4, <1>5, <1>6 DEF Slice, Size

(* What the program finds where a PumpSwap section lies. *)
LEMMA PumpNamed ==
  ASSUME NEW c \in Coin, NEW s, NEW b \in Nat, PumpPlaces(s, c),
         \A i \in 0 .. 17 : At(b + i) = s[i + 1]
  PROVE  /\ At(b + 0) = "pump_pool" /\ At(b + 1) = "wallet" /\ At(b + 2) = "global_config"
         /\ At(b + 3) = "meme_mint" /\ At(b + 4) = "sol_mint"
         /\ At(b + 5) = "user_meme_ata" /\ At(b + 6) = "user_sol_ata"
         /\ At(b + 7) = "pool_base" /\ At(b + 8) = "pool_quote" /\ At(b + 10) = "fee_ata"
         /\ At(b + 11) = c.prog /\ At(b + 12) = "tokenkeg"
         /\ At(b + 13) = "system" /\ At(b + 14) = "ata_program"
         /\ At(b + 15) = "pump_event_auth" /\ At(b + 16) = "pumpswap"
         /\ At(b + 17) = "vault_ata"
  BY DEF PumpPlaces

LEMMA PumpSeen ==
  ASSUME NEW c \in Coin, NEW s, NEW b \in Nat,
         Len(s) \in Nat, Len(s) >= 18, PumpPlaces(s, c), Lies(s, b)
  PROVE  /\ PumpChecks(b)
         /\ At(b + 3) = "meme_mint" /\ At(b + 4) = "sol_mint"
         /\ At(b + 11) = c.prog /\ At(b + 12) = "tokenkeg"
         /\ At(b + 13) = "system" /\ At(b + 14) = "ata_program"
         /\ {At(b + i) : i \in {0, 1, 5, 6, 7, 8, 10, 17}} \subseteq Writes
  <1>1. \A i \in 0 .. 17 : At(b + i) = s[i + 1]
    <2>. SUFFICES ASSUME NEW i \in 0 .. 17
                  PROVE  At(b + i) = s[i + 1]
      OBVIOUS
    <2>1. i + 1 \in 1 .. Len(s) /\ (b + i) + 1 = b + (i + 1)
      OBVIOUS
    <2>. QED
      BY <2>1 DEF At, Lies
  <1>2. /\ At(b + 0) = "pump_pool" /\ At(b + 1) = "wallet" /\ At(b + 2) = "global_config"
        /\ At(b + 3) = "meme_mint" /\ At(b + 4) = "sol_mint"
        /\ At(b + 5) = "user_meme_ata" /\ At(b + 6) = "user_sol_ata"
        /\ At(b + 7) = "pool_base" /\ At(b + 8) = "pool_quote" /\ At(b + 10) = "fee_ata"
        /\ At(b + 11) = c.prog /\ At(b + 12) = "tokenkeg"
        /\ At(b + 13) = "system" /\ At(b + 14) = "ata_program"
        /\ At(b + 15) = "pump_event_auth" /\ At(b + 16) = "pumpswap"
        /\ At(b + 17) = "vault_ata"
    BY <1>1, PumpNamed, Zenon
  <1>. HIDE DEF At
  <1>3. {At(b + i) : i \in {0, 1, 5, 6, 7, 8, 10, 17}} \subseteq Writes
    BY <1>2 DEF Writes
  <1>. QED
    BY <1>2, <1>3 DEF PumpChecks

(* The same of the DLMM section. *)
LEMMA DlmmSeen ==
  ASSUME NEW c \in Coin, NEW b \in Nat, Lies(DlmmSection(c), b)
  PROVE  /\ At(b) = "dlmm" /\ At(b + 1) = "lb_pair"
         /\ At(b + 2) = IF c.bitmap THEN "bitmap" ELSE "dlmm"
         /\ At(b + 3) = "reserve_x" /\ At(b + 4) = "reserve_y"
         /\ At(b + 5) = "dlmm_oracle" /\ At(b + 6) = "dlmm"
         /\ At(b + 7) = "memo" /\ At(b + 8) = "dlmm_event_auth"
  <1>1. \A i \in 0 .. 8 : At(b + i) = DlmmSection(c)[i + 1]
    <2>. SUFFICES ASSUME NEW i \in 0 .. 8
                  PROVE  At(b + i) = DlmmSection(c)[i + 1]
      OBVIOUS
    <2>1. i + 1 \in 1 .. Len(DlmmSection(c)) /\ (b + i) + 1 = b + (i + 1)
      <3>1. BinsKept(c) \in Nat /\ Len(DlmmSection(c)) = 9 + BinsKept(c)
        BY CoinTyped, DlmmTyped
      <3>. QED
        BY <3>1
    <2>. QED
      BY <2>1 DEF At, Lies
  <1>. HIDE DEF At
  <1>2. At(b + 0) = At(b)
    OBVIOUS
  <1>. QED
    BY <1>1, <1>2, DlmmIs, SMTT(30)

(* The CPI to DLMM names the accounts of the section in another order, and *)
(* takes mints and token programs from PumpSwap's.                         *)
LEMMA DlmmServed ==
  ASSUME coin \in Coin, NEW b \in Nat, NEW p \in Nat, NEW leg \in {"buy", "sell"},
         ix.data.n35 = BinsKept(coin),
         At(0) = "wallet" /\ At(1) = "user_sol_ata" /\ At(2) = "user_meme_ata",
         Lies(DlmmSection(coin), b),
         Slice(b + 9, BinsKept(coin)) = Bins(coin),
         At(p + 3) = "meme_mint" /\ At(p + 4) = "sol_mint",
         At(p + 11) = coin.prog /\ At(p + 12) = "tokenkeg"
  PROVE  Accepts("dlmm", leg, DlmmCallDedicated(b, leg, p))
  <1>1. /\ At(b) = "dlmm" /\ At(b + 1) = "lb_pair"
        /\ At(b + 2) = IF coin.bitmap THEN "bitmap" ELSE "dlmm"
        /\ At(b + 3) = "reserve_x" /\ At(b + 4) = "reserve_y"
        /\ At(b + 5) = "dlmm_oracle" /\ At(b + 6) = "dlmm"
        /\ At(b + 7) = "memo" /\ At(b + 8) = "dlmm_event_auth"
    BY DlmmSeen
  <1>. DEFINE call == DlmmCallDedicated(b, leg, p)
  <1>. HIDE DEF At, Slice
  <1>2. call.keys = DlmmWants(leg, coin)
    <2>1. CASE coin.solIsX /\ leg = "buy"
      BY <1>1, <2>1 DEF DlmmCallDedicated, DlmmCall, DlmmWants, UserAta, In, Out, Other, X, Y,
         Ata, Mint, Program
    <2>2. CASE coin.solIsX /\ leg = "sell"
      BY <1>1, <2>2 DEF DlmmCallDedicated, DlmmCall, DlmmWants, UserAta, In, Out, Other, X, Y,
         Ata, Mint, Program
    <2>3. CASE ~coin.solIsX /\ leg = "buy"
      BY <1>1, <2>3 DEF DlmmCallDedicated, DlmmCall, DlmmWants, UserAta, In, Out, Other, X, Y,
         Ata, Mint, Program
    <2>4. CASE ~coin.solIsX /\ leg = "sell"
      BY <1>1, <2>4 DEF DlmmCallDedicated, DlmmCall, DlmmWants, UserAta, In, Out, Other, X, Y,
         Ata, Mint, Program
    <2>. QED
      BY <2>1, <2>2, <2>3, <2>4
  <1>3. call.writes \subseteq Writes
    <2>1. Keys(Bins(coin)) \subseteq {"bin1", "bin2", "bin3", "bin4", "bin5"}
      BY BinsAre DEF Keys
    <2>2. {At(b + i) : i \in 1 .. 6} \subseteq Writes
      <3>. SUFFICES ASSUME NEW i \in 1 .. 6
                    PROVE  At(b + i) \in Writes
        OBVIOUS
      <3>1. i = 1 \/ i = 2 \/ i = 3 \/ i = 4 \/ i = 5 \/ i = 6
        OBVIOUS
      <3>. QED
        BY <1>1, <3>1 DEF Writes
    <2>3. call.writes = {At(b + i) : i \in 1 .. 6} \cup {At(1), At(2)} \cup Keys(Bins(coin))
      BY DEF DlmmCallDedicated, DlmmCall
    <2>4. {At(1), At(2)} \subseteq Writes /\ Keys(Bins(coin)) \subseteq Writes
      BY <2>1 DEF Writes
    <2>. QED
      BY <2>2, <2>3, <2>4
  <1>. QED
    BY <1>2, <1>3 DEF Accepts, Wants

(* An instruction with the PumpSwap section first. *)
LEMMA PumpFirst ==
  ASSUME coin \in Coin,
         ix.keys = PumpToDlmm(coin).keys, ix.data = PumpToDlmm(coin).data
  PROVE  /\ SellBase = PumpToDlmm(coin).sell
         /\ coin.bins > 0 => PumpToDlmmChecks
         /\ Accepts("pumpswap", "buy", BuyCall)
         /\ Accepts("dlmm", "sell", SellCall)
         /\ Keys(ix.keys) \cap Signs = {"wallet"}
  <1>. DEFINE s == PumpBuy(coin)
              d == DlmmSection(coin)
              n == BuyRemaining(coin)
              m == BinsKept(coin)
              base == 26 + n
  <1>1. Sections(Shared, s, d)
    BY DEF PumpToDlmm, Sections
  <1>2. /\ ix.data.disc = "pump_to_dlmm"
        /\ ix.data.n34 = n /\ ix.data.n35 = m
    BY DEF PumpToDlmm
  <1>3. n \in 2 .. 4 /\ m \in 0 .. 5 /\ (coin.bins > 0 => m > 0) /\ base \in Nat
    BY CoinTyped DEF Coin
  <1>4. SellBase = base /\ SellBase = PumpToDlmm(coin).sell
    <2>1. Len(Shared \o s) = 3 + (23 + n)
      <3>1. Len(Shared \o s) = Len(Shared) + Len(s)
        BY SharedIs, BuySection, ConcatProperties, Zenon
      <3>. QED
        BY <3>1, SharedIs, BuySection
    <2>. QED
      BY <1>2, <1>3, <2>1 DEF SellBase, BuyBase, PumpToDlmm
  <1>5. Len(Shared) = 3 /\ Len(s) = 23 + n /\ Len(d) = 9 + m
    BY SharedIs, BuySection, DlmmTyped
  <1>7. Shared \in Seq(Name) /\ s \in Seq(Name) /\ d \in Seq(Name)
    BY SharedIs, BuySection, DlmmTyped
  <1>. HIDE DEF s, d
  <1>6. /\ ix.keys \in Seq(Name)
        /\ Size = 3 + (23 + n) + (9 + m)
        /\ Lies(Shared, 0) /\ Lies(s, 3) /\ Lies(d, base)
        /\ Slice(3, 23 + n) = s
        /\ Slice(base + 9, m) = SubSeq(d, 10, 9 + m)
    <2>1. /\ ix.keys \in Seq(Name)
          /\ Size = Len(Shared) + Len(s) + Len(d)
          /\ Lies(Shared, 0) /\ Lies(s, Len(Shared)) /\ Lies(d, Len(Shared) + Len(s))
          /\ Slice(Len(Shared), Len(s)) = s
          /\ \A i \in 0 .. Len(d) :
               Slice(Len(Shared) + Len(s) + i, Len(d) - i) = SubSeq(d, i + 1, Len(d))
      BY <1>1, <1>7, LaidOut
    <2>2. 9 \in 0 .. Len(d)
      BY <1>3, <1>5
    <2>3. Slice(Len(Shared) + Len(s) + 9, Len(d) - 9) = SubSeq(d, 9 + 1, Len(d))
      BY <2>1, <2>2
    <2>4. Len(Shared) + Len(s) = base /\ Len(d) - 9 = m
      BY <1>3, <1>5
    <2>. QED
      BY <1>5, <2>1, <2>3, <2>4
  <1>8. At(0) = "wallet" /\ At(1) = "user_sol_ata" /\ At(2) = "user_meme_ata"
    BY <1>6, SharedIs DEF At, Lies
  <1>9. PumpPlaces(s, coin) /\ s[21] = "user_vol" /\ s[22] = "fee_config" /\ s[23] = "fee_program"
    BY PumpPlaced DEF s
  <1>10. /\ PumpChecks(3)
         /\ At(3 + 3) = "meme_mint" /\ At(3 + 4) = "sol_mint"
         /\ At(3 + 11) = coin.prog /\ At(3 + 12) = "tokenkeg"
         /\ At(3 + 13) = "system" /\ At(3 + 14) = "ata_program"
         /\ {At(3 + i) : i \in {0, 1, 5, 6, 7, 8, 10, 17}} \subseteq Writes
    <2>1. Len(s) \in Nat /\ Len(s) >= 18
      BY <1>3, <1>5
    <2>. QED
      BY <1>6, <1>9, <2>1, PumpSeen
  <1>11. At(3 + 20) = "user_vol" /\ At(3 + 21) = "fee_config" /\ At(3 + 22) = "fee_program"
    <2>1. 21 \in 1 .. 23 + n /\ 22 \in 1 .. 23 + n /\ 23 \in 1 .. 23 + n
      BY <1>3
    <2>2. /\ ix.keys[3 + 21] = "user_vol" /\ ix.keys[3 + 22] = "fee_config"
          /\ ix.keys[3 + 23] = "fee_program"
      BY <1>5, <1>6, <1>9, <2>1 DEF Lies
    <2>3. (3 + 20) + 1 = 3 + 21 /\ (3 + 21) + 1 = 3 + 22 /\ (3 + 22) + 1 = 3 + 23
      OBVIOUS
    <2>. QED
      BY <2>2, <2>3 DEF At
  <1>12. Lies(DlmmSection(coin), base)
    BY <1>6 DEF d
  <1>13. /\ At(base) = "dlmm" /\ At(base + 1) = "lb_pair"
         /\ At(base + 5) = "dlmm_oracle"
         /\ At(base + 7) = "memo" /\ At(base + 8) = "dlmm_event_auth"
    BY <1>3, <1>12, DlmmSeen
  <1>14. Slice(base + 9, m) = Bins(coin)
    BY <1>6, DlmmIs DEF d
  <1>15. coin.bins > 0 => PumpToDlmmChecks
    <2>. SUFFICES ASSUME coin.bins > 0 PROVE PumpToDlmmChecks
      OBVIOUS
    <2>1. ix.data.n34 =< 5 /\ ix.data.n35 \in 1 .. 6
      BY <1>2, <1>3
    <2>2. Size >= SellBase + 9 + ix.data.n35
      <3>1. Size = 3 + (23 + n) + (9 + m)
        BY <1>6, Zenon
      <3>. QED
        BY <1>2, <1>3, <1>4, <3>1
    <2>3. PumpStrict(BuyBase, 22, 21)
      <3>1. PumpStrict(3, 22, 21)
        BY <1>10, <1>11, Zenon DEF PumpStrict
      <3>. QED
        BY <3>1 DEF BuyBase
    <2>4. DlmmChecks(SellBase, ix.data.n35)
      BY <1>4, <1>13, <2>1 DEF DlmmChecks
    <2>. QED
      BY <2>1, <2>2, <2>3, <2>4 DEF PumpToDlmmChecks
  <1>16. Accepts("pumpswap", "buy", BuyCall)
    <2>1. BuyCall = PumpCall(3, 23, n, {0, 1, 5, 6, 7, 8, 10, 17, 20})
      BY <1>2 DEF BuyCall, PumpBuyCall, BuyBase
    <2>2. BuyCall.keys = PumpWants("buy", coin)
      BY <1>6, <2>1, PumpIsWanted DEF PumpCall, s
    <2>3. BuyCall.writes \subseteq Writes
      <3>1. At(3 + 20) \in Writes
        BY <1>11 DEF Writes
      <3>. QED
        BY <1>10, <2>1, <3>1 DEF PumpCall
    <2>. QED
      BY <2>2, <2>3 DEF Accepts, Wants
  <1>17. Accepts("dlmm", "sell", SellCall)
    <2>1. SellCall = DlmmCallDedicated(base, "sell", 3)
      BY <1>2, <1>4 DEF SellCall, BuyBase
    <2>2. base \in Nat /\ 3 \in Nat /\ "sell" \in {"buy", "sell"}
      BY <1>3
    <2>3. Accepts("dlmm", "sell", DlmmCallDedicated(base, "sell", 3))
      BY <1>2, <1>8, <1>10, <1>12, <1>14, <2>2, DlmmServed
    <2>. QED
      BY <2>1, <2>3
  <1>18. Keys(ix.keys) \cap Signs = {"wallet"}
    <2>1. Keys(ix.keys) \subseteq Name
      BY <1>6 DEF Keys
    <2>2. "wallet" \in Keys(ix.keys)
      <3>1. 1 \in 1 .. Len(ix.keys) /\ ix.keys[1] = "wallet"
        BY <1>3, <1>6, <1>8 DEF At, Size
      <3>. QED
        BY <3>1 DEF Keys
    <2>. QED
      BY <2>1, <2>2 DEF Name, Signs
  <1>. QED
    BY <1>4, <1>15, <1>16, <1>17, <1>18

(* An instruction with the DLMM section first. *)
LEMMA DlmmFirst ==
  ASSUME coin \in Coin,
         ix.keys = DlmmToPump(coin).keys, ix.data = DlmmToPump(coin).data
  PROVE  /\ SellBase = DlmmToPump(coin).sell
         /\ coin.bins > 0 => DlmmToPumpChecks
         /\ Accepts("dlmm", "buy", BuyCall)
         /\ Accepts("pumpswap", "sell", SellCall)
         /\ Keys(ix.keys) \cap Signs = {"wallet"}
  <1>. DEFINE s == PumpSell(coin)
              d == DlmmSection(coin)
              n == SellRemaining(coin)
              m == BinsKept(coin)
              base == 12 + m
  <1>1. Sections(Shared, d, s)
    BY DEF DlmmToPump, DlmmToPumpWith, Sections
  <1>2. /\ ix.data.disc = "dlmm_to_pump"
        /\ ix.data.n34 = n /\ ix.data.n35 = m
    BY DEF DlmmToPump, DlmmToPumpWith
  <1>3. n \in 2 .. 5 /\ m \in 0 .. 5 /\ (coin.bins > 0 => m > 0) /\ base \in Nat
    BY CoinTyped DEF Coin
  <1>4. SellBase = base /\ SellBase = DlmmToPump(coin).sell
    <2>1. Len(Shared \o d) = 3 + (9 + m)
      <3>1. Len(Shared \o d) = Len(Shared) + Len(d)
        BY SharedIs, DlmmTyped, ConcatProperties, Zenon
      <3>. QED
        BY <3>1, SharedIs, DlmmTyped
    <2>. QED
      BY <1>2, <1>3, <2>1 DEF SellBase, BuyBase, DlmmToPump, DlmmToPumpWith
  <1>5. Len(Shared) = 3 /\ Len(s) = 21 + n /\ Len(d) = 9 + m
    BY SharedIs, SellSection, DlmmTyped
  <1>6. Shared \in Seq(Name) /\ s \in Seq(Name) /\ d \in Seq(Name)
    BY SharedIs, SellSection, DlmmTyped
  <1>. HIDE DEF s, d
  <1>7. /\ ix.keys \in Seq(Name)
        /\ Size = 3 + (9 + m) + (21 + n)
        /\ Lies(Shared, 0) /\ Lies(d, 3) /\ Lies(s, base)
        /\ Slice(3 + 9, m) = SubSeq(d, 10, 9 + m)
        /\ Slice(base, 21 + n) = s
    <2>1. /\ ix.keys \in Seq(Name)
          /\ Size = Len(Shared) + Len(d) + Len(s)
          /\ Lies(Shared, 0) /\ Lies(d, Len(Shared)) /\ Lies(s, Len(Shared) + Len(d))
          /\ Slice(Len(Shared) + Len(d), Len(s)) = s
          /\ \A i \in 0 .. Len(d) :
               Slice(Len(Shared) + i, Len(d) - i) = SubSeq(d, i + 1, Len(d))
      BY <1>1, <1>6, LaidOut
    <2>2. 9 \in 0 .. Len(d)
      BY <1>3, <1>5
    <2>3. Slice(Len(Shared) + 9, Len(d) - 9) = SubSeq(d, 9 + 1, Len(d))
      BY <2>1, <2>2
    <2>4. Len(Shared) + Len(d) = base /\ Len(d) - 9 = m
      BY <1>3, <1>5
    <2>. QED
      BY <1>5, <2>1, <2>3, <2>4
  <1>8. At(0) = "wallet" /\ At(1) = "user_sol_ata" /\ At(2) = "user_meme_ata"
    BY <1>7, SharedIs DEF At, Lies
  <1>9. PumpPlaces(s, coin) /\ s[20] = "fee_config" /\ s[21] = "fee_program"
    BY PumpPlaced DEF s
  <1>10. /\ PumpChecks(base)
         /\ At(base + 3) = "meme_mint" /\ At(base + 4) = "sol_mint"
         /\ At(base + 11) = coin.prog /\ At(base + 12) = "tokenkeg"
         /\ At(base + 13) = "system" /\ At(base + 14) = "ata_program"
         /\ {At(base + i) : i \in {0, 1, 5, 6, 7, 8, 10, 17}} \subseteq Writes
    <2>1. Len(s) \in Nat /\ Len(s) >= 18
      BY <1>3, <1>5
    <2>. QED
      BY <1>3, <1>7, <1>9, <2>1, PumpSeen
  <1>11. At(base + 19) = "fee_config" /\ At(base + 20) = "fee_program"
    <2>1. 20 \in 1 .. 21 + n /\ 21 \in 1 .. 21 + n
      BY <1>3
    <2>2. ix.keys[base + 20] = "fee_config" /\ ix.keys[base + 21] = "fee_program"
      BY <1>5, <1>7, <1>9, <2>1 DEF Lies
    <2>3. (base + 19) + 1 = base + 20 /\ (base + 20) + 1 = base + 21
      BY <1>3
    <2>. QED
      BY <2>2, <2>3 DEF At
  <1>12. Lies(DlmmSection(coin), 3)
    BY <1>7 DEF d
  <1>13. /\ At(3) = "dlmm" /\ At(3 + 1) = "lb_pair"
         /\ At(3 + 5) = "dlmm_oracle"
         /\ At(3 + 7) = "memo" /\ At(3 + 8) = "dlmm_event_auth"
    BY <1>12, DlmmSeen
  <1>14. Slice(3 + 9, m) = Bins(coin)
    BY <1>7, DlmmIs DEF d
  <1>15. coin.bins > 0 => DlmmToPumpChecks
    <2>. SUFFICES ASSUME coin.bins > 0 PROVE DlmmToPumpChecks
      OBVIOUS
    <2>1. ix.data.n34 =< 5 /\ ix.data.n35 \in 1 .. 6
      BY <1>2, <1>3
    <2>2. Size >= SellBase + 21 + ix.data.n34
      <3>1. Size = 3 + (9 + m) + (21 + n)
        BY <1>7, Zenon
      <3>. QED
        BY <1>2, <1>3, <1>4, <3>1
    <2>3. PumpStrict(SellBase, 20, 19)
      <3>1. PumpStrict(base, 20, 19)
        BY <1>10, <1>11, Zenon DEF PumpStrict
      <3>. QED
        BY <1>4, <3>1
    <2>4. DlmmChecks(BuyBase, ix.data.n35)
      BY <1>13, <2>1 DEF DlmmChecks, BuyBase
    <2>. QED
      BY <2>1, <2>2, <2>3, <2>4 DEF DlmmToPumpChecks
  <1>16. Accepts("pumpswap", "sell", SellCall)
    <2>1. SellCall = PumpCall(base, 21, n, {0, 1, 5, 6, 7, 8, 10, 17})
      BY <1>2, <1>4 DEF SellCall, PumpSellCall
    <2>2. SellCall.keys = PumpWants("sell", coin)
      BY <1>7, <2>1, PumpIsWanted DEF PumpCall, s
    <2>3. SellCall.writes \subseteq Writes
      BY <1>10, <2>1 DEF PumpCall
    <2>. QED
      BY <2>2, <2>3 DEF Accepts, Wants
  <1>17. Accepts("dlmm", "buy", BuyCall)
    <2>1. BuyCall = DlmmCallDedicated(3, "buy", base)
      BY <1>2, <1>4 DEF BuyCall, BuyBase
    <2>2. base \in Nat /\ 3 \in Nat /\ "buy" \in {"buy", "sell"}
      BY <1>3
    <2>3. Accepts("dlmm", "buy", DlmmCallDedicated(3, "buy", base))
      BY <1>2, <1>8, <1>10, <1>12, <1>14, <2>2, DlmmServed
    <2>. QED
      BY <2>1, <2>3
  <1>18. Keys(ix.keys) \cap Signs = {"wallet"}
    <2>1. Keys(ix.keys) \subseteq Name
      BY <1>7 DEF Keys
    <2>2. "wallet" \in Keys(ix.keys)
      <3>1. 1 \in 1 .. Len(ix.keys) /\ ix.keys[1] = "wallet"
        BY <1>3, <1>7, <1>8 DEF At, Size
      <3>. QED
        BY <3>1 DEF Keys
    <2>. QED
      BY <2>1, <2>2 DEF Name, Signs
  <1>. QED
    BY <1>4, <1>15, <1>16, <1>17, <1>18

-----------------------------------------------------------------------------
(* The generic route *)

(* All accounts but the bin array that is never sent.                      *)
Everyone ==
  Name \cup { "cpmm", "cpmm_auth", "amm_config", "cpmm_pool", "cpmm_sol_vault",
              "cpmm_meme_vault", "whirlpool", "wp_auth", "wp_pool", "wp_vault_a",
              "wp_vault_b", "tick1", "tick2", "tick3", "wp_oracle" }

LEMMA Widens ==
  ASSUME NEW s \in Seq(Name)
  PROVE  s \in Seq(Everyone)
  BY DEF Everyone

LEMMA GenericDlmmIs ==
  ASSUME NEW c \in Coin
  PROVE  /\ GenericDlmm(c) \in Seq(Everyone)
         /\ Len(GenericDlmm(c)) = 13 + BinsKept(c)
         /\ GenericDlmm(c)[1] = "dlmm"
  <1>. DEFINE f == DlmmFixed(c)
              g == <<Mint[X(c)], Mint[Y(c)], "tokenkeg", c.prog>>
  <1>1. f \in Seq(Name) /\ Len(f) = 9 /\ f[1] = "dlmm"
    BY DEF DlmmFixed, Name
  <1>2. g \in Seq(Name) /\ Len(g) = 4
    BY CoinTyped DEF Mint, X, Y, Other, Name
  <1>3. Bins(c) \in Seq(Name) /\ Len(Bins(c)) = BinsKept(c)
    BY DEF Bins, BinsKept, Least, Coin, Name
  <1>. HIDE DEF f, g
  <1>4. f \o g \o Bins(c) \in Seq(Name)
    BY <1>1, <1>2, <1>3, Joins
  <1>5. /\ Len(f \o g \o Bins(c)) = 9 + 4 + BinsKept(c)
        /\ (f \o g \o Bins(c))[1] = "dlmm"
    <2>. DEFINE fg == f \o g
    <2>1. fg \in Seq(Name) /\ Len(fg) = 9 + 4 /\ fg[1] = "dlmm"
      <3>1. f \in Seq(Name) /\ g \in Seq(Name) /\ Len(f) > 0
        BY <1>1, <1>2
      <3>2. fg \in Seq(Name) /\ Len(fg) = Len(f) + Len(g) /\ fg[1] = f[1]
        BY <3>1, Joins, JoinKeeps
      <3>. QED
        BY <1>1, <1>2, <3>2
    <2>. HIDE DEF fg
    <2>2. Len(fg \o Bins(c)) = 9 + 4 + BinsKept(c) /\ (fg \o Bins(c))[1] = "dlmm"
      <3>1. fg \in Seq(Name) /\ Bins(c) \in Seq(Name) /\ Len(fg) > 0
        BY <1>3, <2>1
      <3>2. Len(fg \o Bins(c)) = Len(fg) + Len(Bins(c)) /\ (fg \o Bins(c))[1] = fg[1]
        BY <3>1, JoinKeeps
      <3>. QED
        BY <1>3, <2>1, <3>2
    <2>. QED
      BY <2>2 DEF fg
  <1>6. GenericDlmm(c) = f \o g \o Bins(c)
    BY DEF GenericDlmm, f, g
  <1>7. BinsKept(c) \in Nat
    BY CoinTyped
  <1>. QED
    BY <1>4, <1>5, <1>6, <1>7, Widens

(* A section's length is the one the program's table has for a first leg,  *)
(* with the count that is sent; its exchange is where Identify looks.      *)
LEMMA GenericSections ==
  ASSUME NEW c \in Coin, NEW ex \in Exchange, NEW leg \in {"buy", "sell"}
  PROVE  /\ GenericSection(ex, leg, c) \in Seq(Everyone)
         /\ leg = "buy" =>
              Len(GenericSection(ex, leg, c)) = FixedLen(ex) + RemainingSent(ex, c)
         /\ ex # "pumpswap" => GenericSection(ex, leg, c)[1] = ex
         /\ leg = "buy" /\ ex = "pumpswap" =>
              /\ GenericSection(ex, leg, c)[1] = "pump_pool"
              /\ GenericSection(ex, leg, c)[17] = "pumpswap"
  <1>. DEFINE g == GenericSection(ex, leg, c)
  <1>1. CASE ex = "pumpswap" /\ leg = "buy"
    <2>1. g = PumpBuy(c)
      BY <1>1 DEF GenericSection
    <2>2. FixedLen(ex) = 23 /\ RemainingSent(ex, c) = BuyRemaining(c)
      BY <1>1 DEF FixedLen, RemainingSent
    <2>3. g[1] = "pump_pool" /\ g[17] = "pumpswap"
      BY <2>1, PumpPlaced DEF PumpPlaces
    <2>. QED
      BY <1>1, <2>1, <2>2, <2>3, BuySection, Widens
  <1>2. CASE ex = "pumpswap" /\ leg = "sell"
    <2>1. g = PumpSell(c) \o <<"system", "system">>
      BY <1>2 DEF GenericSection, GenericPumpSell
    <2>2. <<"system", "system">> \in Seq(Name)
      BY DEF Name
    <2>3. g \in Seq(Name)
      BY <2>1, <2>2, SellSection, Joins
    <2>. QED
      BY <1>2, <2>3, Widens
  <1>3. CASE ex = "dlmm"
    <2>1. g = GenericDlmm(c)
      BY <1>3 DEF GenericSection
    <2>2. FixedLen(ex) = 13 /\ RemainingSent(ex, c) = BinsKept(c)
      BY <1>3 DEF FixedLen, RemainingSent
    <2>. QED
      BY <1>3, <2>1, <2>2, GenericDlmmIs
  <1>4. CASE ex = "cpmm"
    <2>1. /\ Cpmm(In(leg), Out(leg)) \in Seq(Everyone)
          /\ Len(Cpmm(In(leg), Out(leg))) = 13
          /\ Cpmm(In(leg), Out(leg))[1] = "cpmm"
      BY DEF Cpmm, In, Out, Other, Ata, Mint, CpmmVault, Everyone, Name
    <2>2. FixedLen(ex) = 13 /\ RemainingSent(ex, c) = 0
      BY <1>4 DEF FixedLen, RemainingSent
    <2>3. g = Cpmm(In(leg), Out(leg))
      BY <1>4 DEF GenericSection
    <2>. HIDE DEF g
    <2>4. /\ g \in Seq(Everyone) /\ g[1] = ex
          /\ Len(g) = FixedLen(ex) + RemainingSent(ex, c)
      BY <1>4, <2>1, <2>2, <2>3
    <2>. QED
      BY <1>4, <2>4 DEF g
  <1>5. CASE ex = "whirlpool"
    <2>1. /\ Whirlpool(In(leg), Out(leg)) \in Seq(Everyone)
          /\ Len(Whirlpool(In(leg), Out(leg))) = 12
          /\ Whirlpool(In(leg), Out(leg))[1] = "whirlpool"
      BY DEF Whirlpool, In, Out, Other, Ata, Everyone, Name
    <2>2. FixedLen(ex) = 12 /\ RemainingSent(ex, c) = 0
      BY <1>5 DEF FixedLen, RemainingSent
    <2>3. g = Whirlpool(In(leg), Out(leg))
      BY <1>5 DEF GenericSection
    <2>. HIDE DEF g
    <2>4. /\ g \in Seq(Everyone) /\ g[1] = ex
          /\ Len(g) = FixedLen(ex) + RemainingSent(ex, c)
      BY <1>5, <2>1, <2>2, <2>3
    <2>. QED
      BY <1>5, <2>4 DEF g
  <1>. QED
    BY <1>1, <1>2, <1>3, <1>4, <1>5 DEF Exchange

(* The program finds the second section of a generic route: it recognizes  *)
(* the first exchange by a program id at one of two places, and adds up.   *)
LEMMA GenericFound ==
  ASSUME coin \in Coin, route \in Route,
         ix.keys = Generic(route, coin).keys, ix.data = Generic(route, coin).data
  PROVE  SellBase = Generic(route, coin).sell
  <1>. DEFINE g == GenericSection(route.buy, "buy", coin)
              h == GenericSection(route.sell, "sell", coin)
              n == RemainingSent(route.buy, coin)
  <1>1. route.buy \in Exchange /\ route.sell \in Exchange
    BY DEF Route
  <1>2. Sections(Shared, g, h)
    BY DEF Generic, Sections
  <1>3. ix.data.disc = "route" /\ ix.data.n34 = n
    BY DEF Generic
  <1>4. Generic(route, coin).sell = Len(Shared \o g)
    BY DEF Generic
  <1>5. g \in Seq(Everyone) /\ h \in Seq(Everyone) /\ Shared \in Seq(Everyone)
    BY <1>1, GenericSections, SharedIs, Widens
  <1>6. /\ Len(g) = FixedLen(route.buy) + n
        /\ route.buy # "pumpswap" => g[1] = route.buy
        /\ route.buy = "pumpswap" => g[1] = "pump_pool" /\ g[17] = "pumpswap"
    BY <1>1, GenericSections
  <1>7. n \in Nat /\ FixedLen(route.buy) \in 12 .. 23
        /\ (route.buy = "pumpswap" => FixedLen(route.buy) = 23)
    BY <1>1, CoinTyped DEF RemainingSent, FixedLen, Exchange
  <1>. HIDE DEF g, h, n
  <1>8. Len(Shared \o g) = 3 + Len(g)
    <2>1. Len(Shared \o g) = Len(Shared) + Len(g)
      BY <1>5, ConcatProperties
    <2>. QED
      BY <2>1, SharedIs
  <1>9. Lies(g, 3) /\ Size = 3 + Len(g) + Len(h) /\ Len(h) \in Nat
    <2>1. Lies(g, Len(Shared)) /\ Size = Len(Shared) + Len(g) + Len(h)
      BY <1>2, <1>5, LaidOut
    <2>. QED
      BY <1>5, <2>1, SharedIs
  <1>10. BuyKind = route.buy
    <2>1. At(3) = g[1] /\ 3 < Size
      <3>1. 1 \in 1 .. Len(g) /\ 3 + 1 = 4
        BY <1>6, <1>7
      <3>. QED
        BY <1>6, <1>7, <1>9, <3>1 DEF Lies, At
    <2>2. CASE route.buy # "pumpswap"
      BY <1>1, <1>6, <2>1, <2>2 DEF BuyKind, BuyBase, Identify
    <2>3. CASE route.buy = "pumpswap"
      <3>1. 17 \in 1 .. Len(g) /\ (3 + 16) + 1 = 3 + 17 /\ 3 + 16 < Size
        BY <1>6, <1>7, <1>9, <2>3
      <3>2. At(3 + 16) = "pumpswap"
        BY <1>6, <1>9, <2>3, <3>1 DEF Lies, At
      <3>3. At(3) \notin Exchange /\ At(3 + 16) \in Exchange
        BY <1>6, <2>1, <2>3, <3>2 DEF Exchange
      <3>. HIDE DEF At
      <3>. QED
        BY <2>1, <2>3, <3>1, <3>2, <3>3 DEF BuyKind, BuyBase, Identify
    <2>. QED
      BY <2>2, <2>3
  <1>11. SellBase = 3 + FixedLen(route.buy) + n
    BY <1>3, <1>10 DEF SellBase, BuyBase
  <1>. QED
    BY <1>4, <1>6, <1>7, <1>8, <1>11

-----------------------------------------------------------------------------
(* From the builder to the exchanges *)

(* What a later step may rely on: nothing but the list of accounts changes *)
(* after the instruction is built, and nobody has refused what the         *)
(* property says nobody refuses.                                           *)
AsPlanned ==
  /\ route \in Route /\ coin \in Coins
  /\ stage = "built" => ix = Instruction(route, coin)
  /\ stage \in {"built", "compiled", "signed", "checked", "bought", "done"} =>
       /\ ix.data = Instruction(route, coin).data
       /\ ix.sell = Instruction(route, coin).sell
  /\ DedicatedIsServed

(* A dedicated instruction with the keys and data it was built with.       *)
LEMMA DedicatedServed ==
  ASSUME route \in Route, coin \in Coin, Dedicated(route),
         ix.keys = Instruction(route, coin).keys, ix.data = Instruction(route, coin).data
  PROVE  /\ SellBase = Instruction(route, coin).sell
         /\ Keys(ix.keys) \cap Signs = {"wallet"}
         /\ coin.bins > 0 =>
              CASE ix.data.disc = "pump_to_dlmm" -> PumpToDlmmChecks
                [] ix.data.disc = "dlmm_to_pump" -> DlmmToPumpChecks
                [] ix.data.disc = "route" -> GenericChecks
         /\ Accepts(route.buy, "buy", BuyCall)
         /\ Accepts(route.sell, "sell", SellCall)
  <1>1. CASE route.buy = "pumpswap"
    <2>1. route.sell = "dlmm"
      BY <1>1 DEF Dedicated
    <2>2. Instruction(route, coin) = PumpToDlmm(coin)
      BY <1>1 DEF Instruction
    <2>3. ix.data.disc = "pump_to_dlmm"
      BY <2>2 DEF PumpToDlmm
    <2>. QED
      BY <1>1, <2>1, <2>2, <2>3, PumpFirst
  <1>2. CASE route.buy # "pumpswap"
    <2>1. route.buy = "dlmm" /\ route.sell = "pumpswap"
      BY <1>2 DEF Dedicated
    <2>2. Instruction(route, coin) = DlmmToPump(coin)
      BY <1>2 DEF Instruction
    <2>3. ix.data.disc = "dlmm_to_pump"
      BY <2>2 DEF DlmmToPump, DlmmToPumpWith
    <2>. QED
      BY <2>1, <2>2, <2>3, DlmmFirst
  <1>. QED
    BY <1>1, <1>2

LEMMA CoinsAre == \A c \in Coins : c \in Coin
  BY CoinsAreCoins

LEMMA LayoutStarts == LayoutInit => AsPlanned
  BY DEF LayoutInit, AsPlanned, DedicatedIsServed

(* A refusal other than the ones the property allows would be one of       *)
(* something DedicatedServed says is accepted.                             *)
LEMMA NotRefused ==
  ASSUME AsPlanned, NEW who, Refuse(who),
         Dedicated(route) /\ ix.keys = Instruction(route, coin).keys /\ who # "panic"
           => coin.bins = 0 /\ who = "router"
  PROVE  AsPlanned'
  <1>1. /\ stage' = "refused" /\ by' = who
        /\ route' = route /\ coin' = coin /\ ix' = ix
    BY DEF Refuse
  <1>2. DedicatedIsServed'
    BY <1>1 DEF DedicatedIsServed, AsBuilt, Dedicated, Instruction
  <1>. QED
    BY <1>1, <1>2 DEF AsPlanned

LEMMA GoesOn ==
  ASSUME AsPlanned, NEW next, Go(next),
         stage \in {"built", "compiled", "signed", "checked", "bought", "done"},
         next # "refused", next # "built"
  PROVE  AsPlanned'
  <1>1. /\ stage' = next /\ route' = route /\ coin' = coin /\ ix' = ix /\ by' = by
    BY DEF Go
  <1>2. DedicatedIsServed'
    BY <1>1 DEF DedicatedIsServed
  <1>. QED
    BY <1>1, <1>2 DEF AsPlanned

LEMMA BuildKeeps ==
  ASSUME AsPlanned, Build \/ CannotBuild
  PROVE  AsPlanned'
  <1>1. CASE Build
    <2>1. /\ stage' = "built" /\ ix' = Instruction(route, coin)
          /\ route' = route /\ coin' = coin
      BY <1>1 DEF Build
    <2>2. ix' = Instruction(route, coin)'
      BY <2>1
    <2>. QED
      BY <2>1, <2>2 DEF AsPlanned, DedicatedIsServed
  <1>2. CASE CannotBuild
    <2>1. ~Dedicated(route)
      BY <1>2 DEF CannotBuild, Buildable, Dedicated
    <2>2. Refuse("client")
      BY <1>2 DEF CannotBuild
    <2>. QED
      BY <2>1, <2>2, NotRefused
  <1>. QED
    BY <1>1, <1>2

LEMMA CompileKeeps ==
  ASSUME AsPlanned,
         Compile \/ \E table \in Tables : CompileWithTip(table) \/ CannotReread(table)
  PROVE  AsPlanned'
  <1>1. CASE Compile
    BY <1>1, GoesOn DEF Compile
  <1>2. ASSUME NEW table \in Tables, CompileWithTip(table)
        PROVE  AsPlanned'
    <2>1. /\ stage = "built" /\ stage' = "compiled"
          /\ route' = route /\ coin' = coin
      BY <1>2 DEF CompileWithTip
    <2>2. PICK keys : ix' = [ix EXCEPT !.keys = keys]
      BY <1>2 DEF CompileWithTip
    <2>3. ix = Instruction(route, coin)
      BY <2>1 DEF AsPlanned
    <2>4. ix'.data = ix.data /\ ix'.sell = ix.sell
      BY <2>2, <2>3 DEF Instruction, PumpToDlmm, DlmmToPump, DlmmToPumpWith, Generic
    <2>. QED
      BY <2>1, <2>3, <2>4 DEF AsPlanned, DedicatedIsServed
  <1>3. ASSUME NEW table \in Tables, CannotReread(table)
        PROVE  AsPlanned'
    <2>1. Refuse("panic")
      BY <1>3 DEF CannotReread
    <2>. QED
      BY <2>1, NotRefused
  <1>. QED
    BY <1>1, <1>2, <1>3

LEMMA SignKeeps ==
  ASSUME AsPlanned, Sign
  PROVE  AsPlanned'
  <1>1. stage = "compiled"
    BY DEF Sign
  <1>2. CASE Go("signed")
    BY <1>1, <1>2, GoesOn
  <1>3. CASE Keys(ix.keys) \cap Signs # {"wallet"} /\ Refuse("client")
    <2>1. ~(Dedicated(route) /\ ix.keys = Instruction(route, coin).keys)
      BY <1>1, <1>3, CoinsAre, DedicatedServed DEF AsPlanned
    <2>. QED
      BY <1>3, <2>1, NotRefused
  <1>. QED
    BY <1>2, <1>3 DEF Sign

LEMMA CheckKeeps ==
  ASSUME AsPlanned, Check
  PROVE  AsPlanned'
  <1>1. stage = "signed"
    BY DEF Check
  <1>2. CASE Go("checked")
    BY <1>1, <1>2, GoesOn
  <1>3. CASE /\ Refuse("router")
             /\ ~CASE ix.data.disc = "pump_to_dlmm" -> PumpToDlmmChecks
                   [] ix.data.disc = "dlmm_to_pump" -> DlmmToPumpChecks
                   [] ix.data.disc = "route" -> GenericChecks
    <2>1. ASSUME Dedicated(route), ix.keys = Instruction(route, coin).keys
          PROVE  coin.bins = 0
      <3>1. ~(coin.bins > 0)
        BY <1>1, <1>3, <2>1, CoinsAre, DedicatedServed DEF AsPlanned
      <3>2. coin.bins \in 0 .. 6
        BY CoinsAre DEF AsPlanned, Coin
      <3>. QED
        BY <3>1, <3>2
    <2>. QED
      BY <1>3, <2>1, NotRefused
  <1>. QED
    BY <1>2, <1>3 DEF Check

LEMMA LegKeeps ==
  ASSUME AsPlanned, BuyLeg \/ SellLeg
  PROVE  AsPlanned'
  <1>1. stage \in {"checked", "bought"}
    BY DEF BuyLeg, SellLeg
  <1>2. CASE Go("bought") \/ Go("done")
    BY <1>1, <1>2, GoesOn
  <1>3. CASE \/ Refuse("buy leg") /\ ~Accepts(route.buy, "buy", BuyCall)
             \/ Refuse("sell leg") /\ ~Accepts(route.sell, "sell", SellCall)
    <2>1. ~(Dedicated(route) /\ ix.keys = Instruction(route, coin).keys)
      BY <1>1, <1>3, CoinsAre, DedicatedServed DEF AsPlanned
    <2>. QED
      BY <1>3, <2>1, NotRefused
  <1>. QED
    BY <1>2, <1>3 DEF BuyLeg, SellLeg

LEMMA LayoutNextKeeps == AsPlanned /\ [LayoutNext]_layoutVars => AsPlanned'
  <1>. SUFFICES ASSUME AsPlanned, [LayoutNext]_layoutVars PROVE AsPlanned'
    OBVIOUS
  <1>1. CASE Build \/ CannotBuild
    BY <1>1, BuildKeeps
  <1>2. CASE Compile \/ \E table \in Tables : CompileWithTip(table) \/ CannotReread(table)
    BY <1>2, CompileKeeps
  <1>3. CASE Sign
    BY <1>3, SignKeeps
  <1>4. CASE Check
    BY <1>4, CheckKeeps
  <1>5. CASE BuyLeg \/ SellLeg
    BY <1>5, LegKeeps
  <1>6. CASE UNCHANGED layoutVars
    <2>1. /\ stage' = stage /\ by' = by /\ route' = route /\ coin' = coin /\ ix' = ix
      BY <1>6 DEF layoutVars
    <2>. QED
      BY <2>1 DEF AsPlanned, DedicatedIsServed, AsBuilt, Dedicated, Instruction
  <1>. QED
    BY <1>1, <1>2, <1>3, <1>4, <1>5, <1>6 DEF LayoutNext, Finished

(* From the builder to the last CPI, whatever the lookup table holds, the  *)
(* instruction keeps its data and the place of its second section.         *)
THEOREM LayoutInductive == LayoutSpec => []AsPlanned
  BY LayoutStarts, LayoutNextKeeps, PTL DEF LayoutSpec

(* Client and router agree about the account lists of both dedicated       *)
(* routes, for any coins, lookup tables and orders of the looked up keys:  *)
(* unless recompilation has changed the list, only a pair without bin      *)
(* arrays is refused, by the router's checks.                              *)
THEOREM DedicatedRoutesServed == LayoutSpec => []DedicatedIsServed
  <1>1. AsPlanned => DedicatedIsServed
    BY DEF AsPlanned
  <1>. QED
    BY <1>1, LayoutInductive, PTL

(* The router finds the second section of every route, dedicated or        *)
(* generic, where the client put it.                                       *)
THEOREM SecondSectionFound == LayoutSpec => []SectionsFound
  <1>1. AsPlanned => SectionsFound
    <2>. SUFFICES ASSUME AsPlanned, stage = "signed", AsBuilt
                  PROVE  SellBase = ix.sell
      BY DEF SectionsFound
    <2>1. /\ route \in Route /\ coin \in Coin
          /\ ix.keys = Instruction(route, coin).keys
          /\ ix.data = Instruction(route, coin).data
          /\ ix.sell = Instruction(route, coin).sell
      BY CoinsAre DEF AsPlanned, AsBuilt
    <2>2. CASE Dedicated(route)
      BY <2>1, <2>2, DedicatedServed
    <2>3. CASE ~Dedicated(route)
      <3>1. Instruction(route, coin) = Generic(route, coin)
        BY <2>3 DEF Instruction
      <3>. QED
        BY <2>1, <3>1, GenericFound
    <2>. QED
      BY <2>2, <2>3
  <1>. QED
    BY <1>1, LayoutInductive, PTL

(* The amount at offset 24 is never tokens where the router takes lamports,*)
(* nor the reverse.                                                        *)
THEOREM FloorsKeepTheirUnit == LayoutSpec => []FloorInItsUnit
  <1>1. AsPlanned => FloorInItsUnit
    <2>. SUFFICES ASSUME AsPlanned, stage = "checked"
                  PROVE  ix.data.floor \in FloorUnit
      BY DEF FloorInItsUnit
    <2>1. ix.data = Instruction(route, coin).data
      BY DEF AsPlanned
    <2>. QED
      BY <2>1 DEF FloorUnit, Instruction, PumpToDlmm, DlmmToPump, DlmmToPumpWith, Generic
  <1>. QED
    BY <1>1, LayoutInductive, PTL
=============================================================================
