------------------------------ MODULE RiskLimits ------------------------------
(***************************************************************************)
(* The runtime risk tracker of the bot (src/src/risk/mod.rs) as operators  *)
(* on one record: the body of the mutex that the event loop and the        *)
(* confirmation task share.  Amounts of SOL are integers in some smallest  *)
(* unit; the code's f64 rounding is not modelled.                          *)
(***************************************************************************)
EXTENDS Integers

CONSTANTS
  MinProfit,      (* risk.min_profit_threshold_sol                         *)
  MaxInvestment,  (* risk.max_single_investment_sol                        *)
  MaxDailyLoss,   (* risk.max_daily_loss_sol                               *)
  Cooldown        (* BREAKER_COOLDOWN_SECS, in ticks of the clock          *)

(* What config::validate_config enforces at startup, and a cooldown that    *)
(* is an unsigned number of seconds.                                       *)
ASSUME RiskConfig ==
  /\ MinProfit \in Int /\ MinProfit > 0
  /\ MaxInvestment \in Int /\ MaxInvestment > 0
  /\ MaxDailyLoss \in Int /\ MaxDailyLoss > 0
  /\ Cooldown \in Nat

(* breaker_triggered_at = None.  A trip instant is represented by the time *)
(* elapsed since it, which saturates at Cooldown: no test looks further.   *)
NoTrip == -1

Tracker ==
  [ currentDate   : Nat,
    dailyPnl      : Int,
    attempted     : Nat,
    pending       : Nat,
    succeeded     : Nat,
    failedOnchain : Nat,
    totalPnl      : Int,
    failedFee     : Nat,
    breaker       : BOOLEAN,
    sinceTrip     : NoTrip .. Cooldown ]

(* RiskTracker::new(): nothing is loaded from disk. *)
NewTracker(today) ==
  [ currentDate |-> today, dailyPnl |-> 0, attempted |-> 0, pending |-> 0,
    succeeded |-> 0, failedOnchain |-> 0, totalPnl |-> 0, failedFee |-> 0,
    breaker |-> FALSE, sinceTrip |-> NoTrip ]

OverLimit(pnl) == pnl < -MaxDailyLoss

(* Broken variants, here and below, stand before the definition they would *)
(* replace: each is a slip the properties of RiskTracker must notice.      *)
TripOnce(rt) == IF rt.breaker THEN rt ELSE [rt EXCEPT !.breaker = TRUE, !.sinceTrip = 0]

(* Trip, or re-arm, the breaker: the timestamp is always rewritten. *)
Trip(rt) == [rt EXCEPT !.breaker = TRUE, !.sinceTrip = 0]

-----------------------------------------------------------------------------
(* check_limits *)

BlockedForGood(rt) == rt.breaker

(* The early returns: the breaker is on and its cooldown is still running. *)
Blocked(rt) == rt.breaker /\ rt.sinceTrip < Cooldown

ReopenKeepsLoss(rt) ==
  IF rt.breaker THEN [rt EXCEPT !.breaker = FALSE, !.sinceTrip = NoTrip] ELSE rt

(* Cooldown over: the breaker opens again and the daily loss is forgotten. *)
Reopen(rt) ==
  IF rt.breaker
    THEN [rt EXCEPT !.breaker = FALSE, !.sinceTrip = NoTrip, !.dailyPnl = 0]
    ELSE rt

RollOverKeepsOutcomes(rt, today) ==
  IF rt.currentDate = today
    THEN rt
    ELSE [rt EXCEPT !.currentDate = today, !.dailyPnl = 0, !.attempted = 0, !.pending = 0]

(* First check of a new day: everything but total_net_profit_sol and the   *)
(* breaker restarts.                                                       *)
RollOver(rt, today) ==
  IF rt.currentDate = today
    THEN rt
    ELSE [NewTracker(today) EXCEPT !.totalPnl  = rt.totalPnl,
                                   !.breaker   = rt.breaker,
                                   !.sinceTrip = rt.sinceTrip]

WithinSize(opp) == opp.net >= MinProfit /\ opp.invest =< MaxInvestment

(* The projected-loss test at the end of check_limits. *)
ProjectedLoss(rt, opp, today) ==
  /\ ~Blocked(rt)
  /\ WithinSize(opp)
  /\ OverLimit(RollOver(Reopen(rt), today).dailyPnl + opp.net)

(* The tracker check_limits leaves behind ... *)
CheckLimits(rt, opp, today) ==
  IF Blocked(rt) THEN rt
  ELSE IF ProjectedLoss(rt, opp, today) THEN Trip(RollOver(Reopen(rt), today))
  ELSE RollOver(Reopen(rt), today)

PassesSizeOnly(rt, opp, today) == WithinSize(opp) /\ ~ProjectedLoss(rt, opp, today)

(* ... and the answer it returns. *)
PassesLimits(rt, opp, today) ==
  ~Blocked(rt) /\ WithinSize(opp) /\ ~ProjectedLoss(rt, opp, today)

-----------------------------------------------------------------------------
(* The other operations on the tracker *)

RecordSubmitted(rt) ==
  [rt EXCEPT !.attempted = @ + 1, !.pending = @ + 1]

RejectedUndoesSubmit(rt) == [rt EXCEPT !.attempted = @ + 1, !.pending = @ - 1]

(* A rejected submission only bumps trades_attempted (main_loop.rs). *)
RecordRejected(rt) == [rt EXCEPT !.attempted = @ + 1]

BookedUnsaturated(rt, pnl, ok) ==
  [rt EXCEPT !.pending  = @ - 1,
             !.dailyPnl = @ + pnl,
             !.totalPnl = @ + pnl]

(* record_confirmation before its last line, check_circuit_breaker. *)
Booked(rt, pnl, ok) ==
  [rt EXCEPT !.pending       = IF @ = 0 THEN 0 ELSE @ - 1,
             !.succeeded     = IF ok THEN @ + 1 ELSE @,
             !.failedOnchain = IF ok THEN @ ELSE @ + 1,
             !.failedFee     = IF ~ok /\ pnl < 0 THEN @ - pnl ELSE @,
             !.dailyPnl      = @ + pnl,
             !.totalPnl      = @ + pnl]

RecordWithoutCheck(rt, pnl, ok) == Booked(rt, pnl, ok)

RecordConfirmation(rt, pnl, ok) ==
  LET booked == Booked(rt, pnl, ok)
  IN  IF OverLimit(booked.dailyPnl) THEN Trip(booked) ELSE booked
=============================================================================
