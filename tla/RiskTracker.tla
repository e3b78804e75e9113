------------------------------ MODULE RiskTracker -----------------------------
(***************************************************************************)
(* The risk tracker under its two callers.  The event loop checks one      *)
(* opportunity, releases the lock for the whole of fetch, build and        *)
(* simulate, and only then submits; the confirmation task books outcomes   *)
(* whenever the chain reports them.  Days pass, the clock runs, and the    *)
(* process may restart, which forgets the tracker.                         *)
(***************************************************************************)
EXTENDS RiskLimits

CONSTANTS
  Opps,       (* opportunities the scanner may return: [net, invest]       *)
  Pnls,       (* PnL of a trade the chain reports                          *)
  WorstLoss,  (* no trade loses more than this                             *)
  MaxTries,   (* bound: submissions in a behaviour                         *)
  MaxDay      (* bound: days that pass                                     *)

ASSUME Workload ==
  /\ Opps \subseteq [net : Int, invest : Int]
  /\ Pnls \subseteq Int
  /\ WorstLoss \in Nat
  /\ \A p \in Pnls : p >= -WorstLoss
  /\ MaxTries \in Nat
  /\ MaxDay \in Nat

VARIABLES
  rt,        (* the tracker behind the mutex                               *)
  today,     (* Utc::now().date_naive()                                    *)
  approved,  (* an opportunity has passed check_limits and is being built  *)
  open,      (* trades handed to the confirmation task and not yet booked  *)
  tries,     (* submissions so far                                         *)
  dayPnl,    (* history: PnL this process booked since midnight            *)
  tripOut,   (* history: exposure at the moment the breaker tripped        *)
  carried,   (* history: trades open when the counters were last reset     *)
  quiet      (* history: ticks since a booking left the day over its limit *)

vars == <<rt, today, approved, open, tries, dayPnl, tripOut, carried, quiet>>

(* An elapsed time one tick later; NoTrip stays NoTrip. *)
Older(t) == IF t = NoTrip \/ t >= Cooldown THEN t ELSE t + 1

(* Trades whose outcome may still be booked. *)
Exposure == open + (IF approved THEN 1 ELSE 0)

Init ==
  /\ today = 0
  /\ rt = NewTracker(today)
  /\ approved = FALSE
  /\ open = 0
  /\ tries = 0
  /\ dayPnl = 0
  /\ tripOut = 0
  /\ carried = 0
  /\ quiet = Cooldown

-----------------------------------------------------------------------------
(* The event loop *)

Check(opp) ==
  /\ ~approved
  /\ rt' = CheckLimits(rt, opp, today)
  /\ approved' = PassesLimits(rt, opp, today)
  /\ carried' = IF rt'.currentDate # rt.currentDate THEN open ELSE carried
  /\ UNCHANGED <<today, open, tries, dayPnl, tripOut, quiet>>

(* Stale, underfunded, unbuildable or failing in simulation: skipped. *)
Abandon ==
  /\ approved
  /\ approved' = FALSE
  /\ UNCHANGED <<rt, today, open, tries, dayPnl, tripOut, carried, quiet>>

Submit ==
  /\ approved
  /\ tries < MaxTries
  /\ approved' = FALSE
  /\ open' = open + 1
  /\ tries' = tries + 1
  /\ rt' = RecordSubmitted(rt)
  /\ UNCHANGED <<today, dayPnl, tripOut, carried, quiet>>

SubmitFails ==
  /\ approved
  /\ tries < MaxTries
  /\ approved' = FALSE
  /\ tries' = tries + 1
  /\ rt' = RecordRejected(rt)
  /\ UNCHANGED <<today, open, dayPnl, tripOut, carried, quiet>>

-----------------------------------------------------------------------------
(* The confirmation task *)

Book(pnl, ok) ==
  /\ open > 0
  /\ open' = open - 1
  /\ rt' = RecordConfirmation(rt, pnl, ok)
  /\ dayPnl' = dayPnl + pnl
  /\ tripOut' = IF rt.breaker THEN tripOut ELSE Exposure
  /\ quiet' = IF OverLimit(rt'.dailyPnl) THEN 0 ELSE quiet
  /\ UNCHANGED <<today, approved, tries, carried>>

(* Confirmations that are evicted are never booked. *)
Drop(n) ==
  /\ n \in 1 .. open
  /\ open' = open - n
  /\ UNCHANGED <<rt, today, approved, tries, dayPnl, tripOut, carried, quiet>>

-----------------------------------------------------------------------------
(* Time and restarts *)

Tick ==
  /\ rt.sinceTrip # NoTrip \/ quiet < Cooldown
  /\ rt' = [rt EXCEPT !.sinceTrip = Older(@)]
  /\ quiet' = Older(quiet)
  /\ UNCHANGED <<today, approved, open, tries, dayPnl, tripOut, carried>>

NextDay ==
  /\ today < MaxDay
  /\ today' = today + 1
  /\ dayPnl' = 0
  /\ UNCHANGED <<rt, approved, open, tries, tripOut, carried, quiet>>

Restart ==
  /\ rt' = NewTracker(today)
  /\ approved' = FALSE
  /\ open' = 0
  /\ tripOut' = 0
  /\ carried' = 0
  /\ quiet' = Cooldown
  /\ dayPnl' = 0
  /\ UNCHANGED <<today, tries>>

Next ==
  \/ \E opp \in Opps : Check(opp)
  \/ Abandon
  \/ Submit
  \/ SubmitFails
  \/ \E pnl \in Pnls, ok \in BOOLEAN : Book(pnl, ok)
  \/ \E n \in 1 .. open : Drop(n)
  \/ Tick
  \/ NextDay
  \/ Restart

Spec == Init /\ [][Next]_vars

(* The clock runs, swap events keep arriving, and the loop finishes what   *)
(* it began: each of its awaits has a timeout.                             *)
Fairness ==
  /\ WF_vars(Tick)
  /\ WF_vars(\E opp \in Opps : Check(opp))
  /\ WF_vars(Abandon \/ Submit \/ SubmitFails)

FairSpec == Spec /\ Fairness

-----------------------------------------------------------------------------
(* Properties *)

(* The record behind the mutex and the bookkeeping around it have their    *)
(* types; in particular trades_pending, a saturating u32, stays natural.   *)
TypeOK ==
  /\ rt \in Tracker
  /\ today \in Nat
  /\ approved \in BOOLEAN
  /\ open \in Nat
  /\ tries \in Nat
  /\ dayPnl \in Int
  /\ tripOut \in Nat
  /\ carried \in Nat
  /\ quiet \in 0 .. Cooldown

(* While the breaker is off the daily loss is within its limit, whatever   *)
(* order checks, confirmations, midnights and cooldowns come in: the test  *)
(* after record_confirmation is never skipped by another path that moves   *)
(* daily_pnl_sol or clears the breaker.                                    *)
LossTripsBreaker == ~rt.breaker => ~OverLimit(rt.dailyPnl)

(* A tripped breaker always carries its timestamp, so check_limits never   *)
(* reaches the branch that would block trading for ever, and a cleared     *)
(* breaker carries none.                                                   *)
BreakerIsTimed == rt.breaker <=> rt.sinceTrip # NoTrip

(* Releasing the lock between check and submit means losses go on being    *)
(* booked after the breaker trips, but never more than the exposure at the *)
(* trip: the overshoot is at most WorstLoss for each trade booked since.   *)
OvershootBounded ==
  rt.breaker =>
    /\ Exposure =< tripOut
    /\ rt.dailyPnl >= -MaxDailyLoss - WorstLoss * (tripOut - Exposure)

(* The day's counters account for every trade: a confirmation that arrives *)
(* after midnight belongs to a trade carried over the counters' reset, and *)
(* outcomes plus open trades never exceed attempts plus those.             *)
OutcomesAccounted ==
  rt.succeeded + rt.failedOnchain + open =< rt.attempted + carried

(* The projected-loss branch of check_limits is dead code: with a positive *)
(* profit threshold and the breaker off, no accepted opportunity projects  *)
(* the day beyond its limit.                                               *)
ProjectedLossIsDead ==
  \A opp \in Opps : ~ProjectedLoss(rt, opp, today)

(* The breaker opens again only after a whole cooldown in which no booking *)
(* left the day over its limit: every such booking re-arms it.  The other  *)
(* way out is a restart, which forgets it.                                 *)
ReopensOnlyAfterQuiet ==
  [][rt.breaker /\ ~rt'.breaker => quiet = Cooldown \/ Restart]_vars

(* The breaker never stops the bot for good. *)
BreakerReopens == rt.breaker ~> ~rt.breaker

(* What config.example.toml:44 says: "Maximum daily loss cap (SOL) -       *)
(* auto-stop when triggered".  Refuted: the cooldown sets daily_pnl_sol to *)
(* zero, so a day that is over its cap approves trades again.              *)
DailyCapStops == [][approved' /\ ~approved => ~OverLimit(dayPnl)]_vars
=============================================================================
