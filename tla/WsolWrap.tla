-------------------------------- MODULE WsolWrap -------------------------------
(***************************************************************************)
(* Runtime replenishment of the wallet's wrapped SOL (ensure_wsol_balance  *)
(* in main_loop.rs): before a trade is built the event loop reads the WSOL *)
(* account and, if it is short, sends a wrap without waiting for it.  The  *)
(* static flag WRAP_IN_FLIGHT is meant to keep wraps from overlapping; a   *)
(* spawned timer clears it.  Wraps and trades land when the network        *)
(* pleases, and take their fees from the same balance.  Balances are as a  *)
(* read shows them: blocks that are abandoned later are not modelled here. *)
(* All amounts are lamports.                                               *)
(***************************************************************************)
EXTENDS Integers

CONSTANTS
  Scale,        (* 1_000_000_000: lamports in a SOL                        *)
  Investments,  (* investments of the opportunities                        *)
  MaxSingle,    (* risk.max_single_investment_sol                          *)
  FeeKeep,      (* 100_000: left for fees                                  *)
  WrapFee,      (* 5_000: the fee of a wrap's own transaction              *)
  Costs,        (* what a trade may take from the native balance: fee and  *)
                (* tip, rent of new accounts, an investment paid in SOL    *)
  MinWrap,      (* 50_000_000: a smaller wrap is not worth its fee         *)
  Funds,        (* native balance at the start                             *)
  MaxWraps,     (* bound: wraps sent in a behaviour                        *)
  MaxTrades     (* bound: trades that land in a behaviour                  *)

ASSUME WrapConfig ==
  /\ Scale \in Nat /\ Scale > 1
  /\ Investments \subseteq Nat
  /\ MaxSingle \in Nat
  /\ FeeKeep \in Nat /\ WrapFee \in Nat /\ Costs \subseteq Nat
  /\ MinWrap \in Nat /\ MinWrap > 0
  /\ Funds \in Nat /\ Funds >= FeeKeep
  /\ MaxWraps \in Nat
  /\ MaxTrades \in Nat

VARIABLES
  pc,       (* the await at which ensure_wsol_balance stands, or "idle"    *)
  invest,   (* the investment it was called with                           *)
  seen,     (* the balance of the WSOL account as the code understands it  *)
  have,     (* the native balance as it was read                           *)
  want,     (* the amount to wrap                                          *)
  answer,   (* why the last call returned                                  *)
  flag,     (* WRAP_IN_FLIGHT                                              *)
  timers,   (* spawned tasks that will clear it                            *)
  wraps,    (* the network's view of each wrap: [st, amount]               *)
  sent,     (* wraps sent so far                                           *)
  overlap,  (* history: a wrap rests on a balance read while another flew  *)
  stale,    (* history: so does the balance read last                      *)
  native,   (* balance of the wallet                                       *)
  wsol,     (* balance of its WSOL account                                 *)
  ata,      (* whether that account exists                                 *)
  trades,   (* trades landed so far                                        *)
  spent,    (* history: what trades and fees have taken from native        *)
  readAt,   (* history: spent when the native balance was read last        *)
  mark      (* history: spent when the balance behind the wrap claimed     *)
            (* last was read                                               *)

call == <<pc, invest, seen, have, want, answer>>
guard == <<flag, timers>>
sends == <<wraps, sent, overlap>>
wallet == <<native, wsol, ata, trades, spent>>
reads == <<stale, readAt, mark>>
vars == <<call, guard, sends, wallet, reads>>

Wraps == 1 .. MaxWraps
Unsent == [st |-> "unsent", amount |-> 0]
InFlight == {w \in Wraps : wraps[w].st = "flying"}

Lesser(a, b) == IF a < b THEN a ELSE b

Init ==
  /\ pc = "idle" /\ invest = 0 /\ seen = 0 /\ have = 0 /\ want = 0 /\ answer = "none"
  /\ flag = FALSE /\ timers = 0
  /\ wraps = [w \in Wraps |-> Unsent] /\ sent = 0 /\ overlap = FALSE
  /\ native = Funds /\ trades = 0
  /\ spent = 0 /\ readAt = 0 /\ mark = 0 /\ stale = FALSE
  /\ ata \in BOOLEAN
  /\ wsol \in IF ata THEN 0 .. 3 * MaxSingle ELSE {0}

-----------------------------------------------------------------------------
(* ensure_wsol_balance.  It returns TRUE, and the opportunity is skipped,  *)
(* only with the answer "wrapped".                                         *)

Return(why) == pc' = "idle" /\ answer' = why

Call(i) ==
  /\ pc = "idle"
  /\ pc' = "read"
  /\ invest' = i
  /\ UNCHANGED <<seen, have, want, answer, guard, sends, wallet, reads>>

(* No such account, or no answer. *)
ReadFails ==
  /\ pc = "read"
  /\ Return("unread")
  /\ UNCHANGED <<invest, seen, have, want, guard, sends, wallet, reads>>

(* The amount the node reports is in lamports already; the code takes it   *)
(* for SOL and converts it.                                                *)
AsLamports(amount) == amount * Scale

(* The investment and a buffer of two maximal ones. *)
Required == invest + 2 * MaxSingle

ReadWsol ==
  /\ pc = "read"
  /\ ata
  /\ seen' = AsLamports(wsol)
  /\ IF seen' >= Required
       THEN Return("enough")
       ELSE pc' = "deficit" /\ UNCHANGED answer
  /\ UNCHANGED <<invest, have, want, guard, sends, wallet, reads>>

(* The native balance next; a failed read counts as none. *)
ReadNative ==
  /\ pc = "deficit"
  /\ have' \in {0, native}
  /\ pc' = "balance"
  /\ stale' = (InFlight # {})
  /\ readAt' = spent
  /\ UNCHANGED <<invest, seen, want, answer, guard, sends, wallet, mark>>

(* Slips that the properties below must notice precede, here and further   *)
(* down, the definition they would replace.                                *)
WholeBalance(balance) == balance

(* saturating_sub of what is kept for fees. *)
Spare(balance) == IF balance < FeeKeep THEN 0 ELSE balance - FeeKeep

WrapAmount(balance) == Lesser(Required - seen, Spare(balance))

(* Once the balance has arrived the decision takes no further await.       *)
Decide ==
  /\ pc = "balance"
  /\ want' = WrapAmount(have)
  /\ UNCHANGED <<invest, seen, have, wallet, stale, readAt, timers, wraps, sent>>

TooSmall ==
  /\ Decide
  /\ want' < MinWrap
  /\ Return("small")
  /\ UNCHANGED <<flag, overlap, mark>>

ClaimAlways == TRUE

(* WRAP_IN_FLIGHT.swap(true) finds it clear. *)
Claimable == ~flag

Claim ==
  /\ Decide
  /\ want' >= MinWrap
  /\ Claimable
  /\ flag' = TRUE
  /\ pc' = "hash"
  /\ overlap' = (overlap \/ stale)
  /\ mark' = readAt
  /\ UNCHANGED answer

AlreadyClaimed ==
  /\ Decide
  /\ want' >= MinWrap
  /\ ~Claimable
  /\ Return("busy")
  /\ UNCHANGED <<flag, overlap, mark>>

(* get_latest_blockhash fails: the early return leaves the flag set. *)
HashFails ==
  /\ pc = "hash"
  /\ Return("nohash")
  /\ UNCHANGED <<invest, seen, have, want, guard, sends, wallet, reads>>

HashArrives ==
  /\ pc = "hash"
  /\ pc' = "send"
  /\ UNCHANGED <<invest, seen, have, want, answer, guard, sends, wallet, reads>>

Deliver ==
  /\ sent < MaxWraps
  /\ sent' = sent + 1
  /\ wraps' = [wraps EXCEPT ![sent + 1] = [st |-> "flying", amount |-> want]]
  /\ UNCHANGED overlap

SendAccepted ==
  /\ pc = "send"
  /\ Deliver
  /\ timers' = timers + 1
  /\ Return("wrapped")
  /\ UNCHANGED <<invest, seen, have, want, flag, wallet, reads>>

(* The wrap may be on its way all the same. *)
SendFails ==
  /\ pc = "send"
  /\ Deliver \/ UNCHANGED sends
  /\ flag' = FALSE
  /\ Return("unsent")
  /\ UNCHANGED <<invest, seen, have, want, timers, wallet, reads>>

(* Ten seconds after the send, whatever became of the wrap. *)
TimerFires ==
  /\ timers > 0
  /\ timers' = timers - 1
  /\ flag' = FALSE
  /\ UNCHANGED <<call, sends, wallet, reads>>

-----------------------------------------------------------------------------
(* The network *)

Conclude(w, end) ==
  /\ wraps[w].st = "flying"
  /\ wraps' = [wraps EXCEPT ![w].st = end]
  /\ UNCHANGED <<call, guard, sent, overlap, ata, trades, reads>>

(* The fee is due before anything is transferred. *)
Land(w) ==
  /\ Conclude(w, "landed")
  /\ ata /\ native >= wraps[w].amount + WrapFee
  /\ native' = native - wraps[w].amount - WrapFee
  /\ spent' = spent + WrapFee
  /\ wsol' = wsol + wraps[w].amount

(* It is included but fails, at the price of its fee ... *)
Revert(w) ==
  /\ Conclude(w, "dead")
  /\ native >= WrapFee
  /\ native' = native - WrapFee
  /\ spent' = spent + WrapFee
  /\ UNCHANGED wsol

(* ... or is never included. *)
Expire(w) ==
  /\ Conclude(w, "dead")
  /\ UNCHANGED <<native, spent, wsol>>

(* A trade changes the WSOL balance and has its costs; one of the legacy   *)
(* builders closes the account behind itself.                              *)
Trade(cost) ==
  /\ trades < MaxTrades
  /\ ata
  /\ native >= cost
  /\ trades' = trades + 1
  /\ spent' = spent + cost
  /\ \/ wsol' \in 0 .. wsol + 1 /\ native' = native - cost /\ UNCHANGED ata
     \/ native' = native - cost + wsol /\ wsol' = 0 /\ ata' = FALSE
  /\ UNCHANGED <<call, guard, sends, reads>>

EnsureStep ==
  \/ ReadFails
  \/ ReadWsol
  \/ ReadNative
  \/ TooSmall
  \/ Claim
  \/ AlreadyClaimed
  \/ HashFails
  \/ HashArrives
  \/ SendAccepted
  \/ SendFails

Next ==
  \/ \E i \in Investments : Call(i)
  \/ EnsureStep
  \/ TimerFires
  \/ \E w \in Wraps : Land(w) \/ Revert(w) \/ Expire(w)
  \/ \E cost \in Costs : Trade(cost)

Spec == Init /\ [][Next]_vars

(* Tokio polls the task of the event loop and fires its timers. *)
FairSpec == Spec /\ WF_vars(EnsureStep) /\ WF_vars(TimerFires)

-----------------------------------------------------------------------------
(* Properties *)

(* Every amount ensure_wsol_balance handles is a natural number: none of   *)
(* its u64 subtractions goes below zero, whatever the balances are.        *)
TypeOK ==
  /\ pc \in {"idle", "read", "deficit", "balance", "hash", "send"}
  /\ invest \in Nat /\ seen \in Nat /\ have \in Nat /\ want \in Nat
  /\ answer \in {"none", "unread", "enough", "small", "busy", "nohash", "wrapped", "unsent"}
  /\ flag \in BOOLEAN /\ timers \in Nat
  /\ wraps \in [Wraps -> [st : {"unsent", "flying", "landed", "dead"}, amount : Nat]]
  /\ sent \in 0 .. MaxWraps /\ overlap \in BOOLEAN
  /\ native \in Nat /\ wsol \in Nat /\ ata \in BOOLEAN /\ trades \in 0 .. MaxTrades
  /\ stale \in BOOLEAN /\ spent \in Nat /\ readAt \in Nat /\ mark \in Nat

Busy == pc \in {"hash", "send"}

(* The flag has one holder: the call that is preparing a wrap, or the      *)
(* timer of the wrap sent last, never both, so a timer cannot clear the    *)
(* flag under a later call that has claimed it.                            *)
OneHolder ==
  /\ timers =< 1
  /\ Busy => flag /\ timers = 0
  /\ timers = 1 => flag

(* No wrap digs into the reserve for fees: what is missing from it was     *)
(* taken by fees and trades after the balance was read that the latest     *)
(* wrap rests on, the wrap's own fee included; unless that balance was     *)
(* read while the wrap before it was in flight and could still spend it.   *)
FeesKept == overlap \/ native + (spent - mark) >= FeeKeep

(* What main_loop.rs:503 says: a wrap that does not land is made up for,   *)
(* "the next event retries the balance check".  Refuted: after a failed    *)
(* blockhash fetch the flag stays set and no later call ever wraps.        *)
FlagIsReleased == flag ~> ~flag

(* What main_loop.rs:434 says: "ensure WSOL ATA has enough balance for the *)
(* investment".  Refuted: a balance of a few lamports counts as billions.  *)
EnoughIsEnough ==
  [][pc = "read" /\ pc' = "idle" /\ answer' = "enough" => wsol >= invest]_vars
=============================================================================
