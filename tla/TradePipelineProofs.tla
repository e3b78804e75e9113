-------------------------- MODULE TradePipelineProofs -------------------------
(***************************************************************************)
(* Proofs about the risk tracker, for every configuration, every set of    *)
(* opportunities and every set of outcomes that meet the assumptions, and  *)
(* about the pipeline.                                                     *)
(*                                                                         *)
(* The pipeline is the tracker's environment: every step it takes is a     *)
(* step of RiskTracker or leaves the tracker alone, so what is proved of   *)
(* the tracker under arbitrary callers holds of it under the real ones.    *)
(*                                                                         *)
(* The rest is about the trades between the event loop, the confirmation   *)
(* task and the trades table.  Three inductive invariants carry it, each   *)
(* relative to the ones before it:                                         *)
(*                                                                         *)
(*   Typed       types, and the indices of process_statuses;               *)
(*   Landed      rows, answers and the history of the chain fit together;  *)
(*   QueuedOnce  if no transaction equals the one before it: each trade is *)
(*               queued once, and the totals add up.                       *)
(*                                                                         *)
(* Typed and Landed are unconditional, and so are the two theorems that    *)
(* rest on them, BookedWhatLanded and PipelineImplementsLedger; the latter *)
(* uses QueuedOnce only to show that a ledger without repeated trades is   *)
(* the strict one.                                                         *)
(***************************************************************************)
EXTENDS TradePipeline, FiniteSetTheorems, SequenceTheorems, TLAPS

-----------------------------------------------------------------------------
(* The risk tracker under arbitrary callers.                               *)

(* The inductive invariant.  LossTripsBreaker alone is not preserved by    *)
(* Tick (a timestamp without a breaker) or by Check (it needs the breaker  *)
(* to be off after a reopening); OvershootBounded needs both.              *)
IInv ==
  /\ TypeOK
  /\ BreakerIsTimed
  /\ LossTripsBreaker
  /\ OvershootBounded
  /\ OutcomesAccounted
  /\ rt.breaker => rt.sinceTrip = quiet

(* Updating one field of a tracker leaves a tracker: the operations below  *)
(* are chains of such updates.                                             *)
LEMMA FieldUpdate ==
  ASSUME NEW r \in Tracker
  PROVE  /\ \A v \in Int : [r EXCEPT !.dailyPnl = v] \in Tracker
         /\ \A v \in Int : [r EXCEPT !.totalPnl = v] \in Tracker
         /\ \A v \in Nat : [r EXCEPT !.attempted = v] \in Tracker
         /\ \A v \in Nat : [r EXCEPT !.pending = v] \in Tracker
         /\ \A v \in Nat : [r EXCEPT !.succeeded = v] \in Tracker
         /\ \A v \in Nat : [r EXCEPT !.failedOnchain = v] \in Tracker
         /\ \A v \in Nat : [r EXCEPT !.failedFee = v] \in Tracker
         /\ \A v \in BOOLEAN : [r EXCEPT !.breaker = v] \in Tracker
         /\ \A v \in NoTrip .. Cooldown : [r EXCEPT !.sinceTrip = v] \in Tracker
  BY DEF Tracker

LEMMA NewTrackerType ==
  ASSUME NEW d \in Nat
  PROVE  NewTracker(d) \in Tracker
  BY RiskConfig DEF NewTracker, Tracker, NoTrip

LEMMA TripType ==
  ASSUME NEW r \in Tracker
  PROVE  Trip(r) \in Tracker
  <1>. DEFINE r1 == [r EXCEPT !.breaker = TRUE]
  <1>1. r1 \in Tracker
    BY FieldUpdate
  <1>2. 0 \in NoTrip .. Cooldown
    BY RiskConfig DEF NoTrip
  <1>3. Trip(r) = [r1 EXCEPT !.sinceTrip = 0]
    BY DEF Trip
  <1>. HIDE DEF r1
  <1>. QED
    BY <1>1, <1>2, <1>3, FieldUpdate

LEMMA ReopenType ==
  ASSUME NEW r \in Tracker
  PROVE  Reopen(r) \in Tracker
  <1>. DEFINE r1 == [r EXCEPT !.breaker = FALSE]
              r2 == [r1 EXCEPT !.sinceTrip = NoTrip]
              r3 == [r2 EXCEPT !.dailyPnl = 0]
  <1>1. r1 \in Tracker
    BY FieldUpdate
  <1>2. NoTrip \in NoTrip .. Cooldown
    BY RiskConfig DEF NoTrip
  <1>3. Reopen(r) = IF r.breaker THEN r3 ELSE r
    BY DEF Reopen
  <1>. HIDE DEF r1
  <1>4. r2 \in Tracker
    BY <1>1, <1>2, FieldUpdate
  <1>. HIDE DEF r2
  <1>5. r3 \in Tracker
    BY <1>4, FieldUpdate
  <1>. QED
    BY <1>3, <1>5

LEMMA RollOverType ==
  ASSUME NEW r \in Tracker, NEW d \in Nat
  PROVE  RollOver(r, d) \in Tracker
  <1>. DEFINE r0 == NewTracker(d)
              r1 == [r0 EXCEPT !.totalPnl = r.totalPnl]
              r2 == [r1 EXCEPT !.breaker = r.breaker]
              r3 == [r2 EXCEPT !.sinceTrip = r.sinceTrip]
  <1>1. /\ r.totalPnl \in Int
        /\ r.breaker \in BOOLEAN
        /\ r.sinceTrip \in NoTrip .. Cooldown
    BY DEF Tracker
  <1>2. RollOver(r, d) = IF r.currentDate = d THEN r ELSE r3
    BY DEF RollOver
  <1>3. r0 \in Tracker
    BY NewTrackerType
  <1>. HIDE DEF r0
  <1>4. r1 \in Tracker
    BY <1>1, <1>3, FieldUpdate
  <1>. HIDE DEF r1
  <1>5. r2 \in Tracker
    BY <1>1, <1>4, FieldUpdate
  <1>. HIDE DEF r2
  <1>6. r3 \in Tracker
    BY <1>1, <1>5, FieldUpdate
  <1>. QED
    BY <1>2, <1>6

LEMMA CheckType ==
  ASSUME NEW r \in Tracker, NEW opp \in Opps, NEW d \in Nat
  PROVE  CheckLimits(r, opp, d) \in Tracker
  <1>1. RollOver(Reopen(r), d) \in Tracker
    BY ReopenType, RollOverType
  <1>2. Trip(RollOver(Reopen(r), d)) \in Tracker
    BY <1>1, TripType
  <1>. QED
    BY <1>1, <1>2 DEF CheckLimits

LEMMA SubmittedType ==
  ASSUME NEW r \in Tracker
  PROVE  RecordSubmitted(r) \in Tracker /\ RecordRejected(r) \in Tracker
  <1>. DEFINE r1 == [r EXCEPT !.attempted = r.attempted + 1]
              r2 == [r1 EXCEPT !.pending = r.pending + 1]
  <1>1. r.attempted + 1 \in Nat /\ r.pending + 1 \in Nat
    BY DEF Tracker
  <1>2. r1 \in Tracker
    BY <1>1, FieldUpdate
  <1>3. RecordRejected(r) = r1 /\ RecordSubmitted(r) = r2
    BY DEF RecordRejected, RecordSubmitted, Tracker
  <1>. HIDE DEF r1
  <1>4. r2 \in Tracker
    BY <1>1, <1>2, FieldUpdate
  <1>. QED
    BY <1>2, <1>3, <1>4

LEMMA BookedType ==
  ASSUME NEW r \in Tracker, NEW pnl \in Int, NEW ok \in BOOLEAN
  PROVE  Booked(r, pnl, ok) \in Tracker
  <1>. DEFINE p  == IF r.pending = 0 THEN 0 ELSE r.pending - 1
              s  == IF ok THEN r.succeeded + 1 ELSE r.succeeded
              f  == IF ok THEN r.failedOnchain ELSE r.failedOnchain + 1
              fee == IF ~ok /\ pnl < 0 THEN r.failedFee - pnl ELSE r.failedFee
              r1 == [r EXCEPT !.pending = p]
              r2 == [r1 EXCEPT !.succeeded = s]
              r3 == [r2 EXCEPT !.failedOnchain = f]
              r4 == [r3 EXCEPT !.failedFee = fee]
              r5 == [r4 EXCEPT !.dailyPnl = r.dailyPnl + pnl]
              r6 == [r5 EXCEPT !.totalPnl = r.totalPnl + pnl]
  <1>1. Booked(r, pnl, ok) = r6
    BY DEF Booked, Tracker
  <1>2. p \in Nat /\ s \in Nat /\ f \in Nat /\ fee \in Nat
    BY DEF Tracker
  <1>3. r.dailyPnl + pnl \in Int /\ r.totalPnl + pnl \in Int
    BY DEF Tracker
  <1>. HIDE DEF p, s, f, fee
  <1>4. r1 \in Tracker
    BY <1>2, FieldUpdate
  <1>. HIDE DEF r1
  <1>5. r2 \in Tracker
    BY <1>2, <1>4, FieldUpdate
  <1>. HIDE DEF r2
  <1>6. r3 \in Tracker
    BY <1>2, <1>5, FieldUpdate
  <1>. HIDE DEF r3
  <1>7. r4 \in Tracker
    BY <1>2, <1>6, FieldUpdate
  <1>. HIDE DEF r4
  <1>8. r5 \in Tracker
    BY <1>3, <1>7, FieldUpdate
  <1>. HIDE DEF r5
  <1>9. r6 \in Tracker
    BY <1>3, <1>8, FieldUpdate
  <1>. QED
    BY <1>1, <1>9

LEMMA ConfirmationType ==
  ASSUME NEW r \in Tracker, NEW pnl \in Int, NEW ok \in BOOLEAN
  PROVE  RecordConfirmation(r, pnl, ok) \in Tracker
  BY BookedType, TripType DEF RecordConfirmation

-----------------------------------------------------------------------------
(* What the operations do to the fields the invariants read.               *)

LEMMA ReopenFields ==
  ASSUME NEW r \in Tracker
  PROVE  /\ Reopen(r).currentDate = r.currentDate
         /\ Reopen(r).attempted = r.attempted
         /\ Reopen(r).succeeded = r.succeeded
         /\ Reopen(r).failedOnchain = r.failedOnchain
         /\ Reopen(r).breaker = FALSE
         /\ Reopen(r).sinceTrip = IF r.breaker THEN NoTrip ELSE r.sinceTrip
         /\ Reopen(r).dailyPnl = IF r.breaker THEN 0 ELSE r.dailyPnl
  BY DEF Reopen, Tracker

LEMMA RollOverFields ==
  ASSUME NEW r \in Tracker, NEW d \in Nat
  PROVE  /\ RollOver(r, d).currentDate = d
         /\ RollOver(r, d).breaker = r.breaker
         /\ RollOver(r, d).sinceTrip = r.sinceTrip
         /\ RollOver(r, d).dailyPnl = IF r.currentDate = d THEN r.dailyPnl ELSE 0
         /\ RollOver(r, d).attempted = IF r.currentDate = d THEN r.attempted ELSE 0
         /\ RollOver(r, d).succeeded = IF r.currentDate = d THEN r.succeeded ELSE 0
         /\ RollOver(r, d).failedOnchain
              = IF r.currentDate = d THEN r.failedOnchain ELSE 0
  BY DEF RollOver, NewTracker, Tracker

LEMMA ConfirmationFields ==
  ASSUME NEW r \in Tracker, NEW pnl \in Int, NEW ok \in BOOLEAN
  PROVE  LET c == RecordConfirmation(r, pnl, ok) IN
         /\ c.dailyPnl = r.dailyPnl + pnl
         /\ c.attempted = r.attempted
         /\ c.succeeded + c.failedOnchain = r.succeeded + r.failedOnchain + 1
         /\ OverLimit(c.dailyPnl) => c.breaker /\ c.sinceTrip = 0
         /\ ~OverLimit(c.dailyPnl) => c.breaker = r.breaker /\ c.sinceTrip = r.sinceTrip
  <1>. DEFINE b == Booked(r, pnl, ok)
  <1>1. /\ b.dailyPnl = r.dailyPnl + pnl
        /\ b.attempted = r.attempted
        /\ b.succeeded + b.failedOnchain = r.succeeded + r.failedOnchain + 1
        /\ b.breaker = r.breaker
        /\ b.sinceTrip = r.sinceTrip
    BY DEF Booked, Tracker
  <1>2. b \in Tracker
    BY BookedType
  <1>3. RecordConfirmation(r, pnl, ok) = IF OverLimit(b.dailyPnl) THEN Trip(b) ELSE b
    BY DEF RecordConfirmation
  <1>. HIDE DEF b
  <1>4. /\ Trip(b).dailyPnl = b.dailyPnl
        /\ Trip(b).attempted = b.attempted
        /\ Trip(b).succeeded = b.succeeded
        /\ Trip(b).failedOnchain = b.failedOnchain
        /\ Trip(b).breaker = TRUE
        /\ Trip(b).sinceTrip = 0
    BY <1>2 DEF Trip, Tracker
  <1>. QED
    BY <1>1, <1>3, <1>4

(* The projected-loss branch cannot be taken while an open breaker means a *)
(* day within its limit: net_profit_sol is at least the positive threshold *)
(* and can only raise the projection.                                      *)
LEMMA NoProjectedLoss ==
  ASSUME NEW r \in Tracker, NEW opp \in Opps, NEW d \in Nat,
         ~r.breaker => ~OverLimit(r.dailyPnl)
  PROVE  ~ProjectedLoss(r, opp, d)
  <1>. DEFINE day == RollOver(Reopen(r), d)
  <1>1. r.dailyPnl \in Int
    BY DEF Tracker
  <1>2. day.dailyPnl = 0 \/ (~r.breaker /\ day.dailyPnl = r.dailyPnl)
    <2>1. Reopen(r).dailyPnl = 0 \/ (~r.breaker /\ Reopen(r).dailyPnl = r.dailyPnl)
      BY ReopenFields DEF Tracker
    <2>2. \/ day.dailyPnl = 0
          \/ day.dailyPnl = Reopen(r).dailyPnl
      BY ReopenType, RollOverFields
    <2>. QED
      BY <2>1, <2>2
  <1>3. day.dailyPnl \in Int /\ ~OverLimit(day.dailyPnl)
    BY <1>1, <1>2, RiskConfig DEF OverLimit
  <1>4. opp.net \in Int
    BY Workload
  <1>. HIDE DEF day
  <1>5. opp.net >= MinProfit => ~OverLimit(day.dailyPnl + opp.net)
    BY <1>3, <1>4, RiskConfig DEF OverLimit
  <1>. QED
    BY <1>5 DEF ProjectedLoss, WithinSize, day

(* What a check leaves behind, given that it projects no loss.             *)
LEMMA CheckFields ==
  ASSUME NEW r \in Tracker, NEW opp \in Opps, NEW d \in Nat,
         ~r.breaker => ~OverLimit(r.dailyPnl)
  PROVE  LET c == CheckLimits(r, opp, d) IN
         \/ c = r /\ Blocked(r)
         \/ /\ ~Blocked(r)
            /\ c.breaker = FALSE
            /\ c.sinceTrip = IF r.breaker THEN NoTrip ELSE r.sinceTrip
            /\ c.dailyPnl = 0 \/ (~r.breaker /\ c.dailyPnl = r.dailyPnl)
            /\ \/ /\ c.currentDate = r.currentDate
                  /\ c.attempted = r.attempted
                  /\ c.succeeded = r.succeeded
                  /\ c.failedOnchain = r.failedOnchain
               \/ /\ c.currentDate # r.currentDate
                  /\ c.attempted = 0 /\ c.succeeded = 0 /\ c.failedOnchain = 0
  <1>. DEFINE o == Reopen(r)
              c == RollOver(o, d)
  <1>1. ~ProjectedLoss(r, opp, d)
    BY NoProjectedLoss
  <1>2. CheckLimits(r, opp, d) = IF Blocked(r) THEN r ELSE c
    BY <1>1 DEF CheckLimits
  <1>3. /\ o \in Tracker
        /\ o.currentDate = r.currentDate
        /\ o.attempted = r.attempted
        /\ o.succeeded = r.succeeded
        /\ o.failedOnchain = r.failedOnchain
        /\ o.breaker = FALSE
        /\ o.sinceTrip = IF r.breaker THEN NoTrip ELSE r.sinceTrip
        /\ o.dailyPnl = 0 \/ (~r.breaker /\ o.dailyPnl = r.dailyPnl)
    BY ReopenType, ReopenFields DEF Tracker
  <1>. HIDE DEF o
  <1>4. /\ c.currentDate = d
        /\ c.breaker = o.breaker
        /\ c.sinceTrip = o.sinceTrip
        /\ c.dailyPnl = IF o.currentDate = d THEN o.dailyPnl ELSE 0
        /\ c.attempted = IF o.currentDate = d THEN o.attempted ELSE 0
        /\ c.succeeded = IF o.currentDate = d THEN o.succeeded ELSE 0
        /\ c.failedOnchain = IF o.currentDate = d THEN o.failedOnchain ELSE 0
    BY <1>3, RollOverFields
  <1>. HIDE DEF c
  <1>5. CASE o.currentDate = d
    BY <1>2, <1>3, <1>4, <1>5
  <1>6. CASE o.currentDate # d
    BY <1>2, <1>3, <1>4, <1>6
  <1>. QED
    BY <1>5, <1>6

-----------------------------------------------------------------------------
(* The invariant is inductive: one lemma for each kind of step.            *)

LEMMA InitIInv == Init => IInv
  <1>. SUFFICES ASSUME Init PROVE IInv
    OBVIOUS
  <1>1. rt \in Tracker
    BY NewTrackerType DEF Init
  <1>2. /\ rt.breaker = FALSE /\ rt.sinceTrip = NoTrip /\ rt.dailyPnl = 0
        /\ rt.attempted = 0 /\ rt.succeeded = 0 /\ rt.failedOnchain = 0
    BY DEF Init, NewTracker
  <1>3. TypeOK
    <2>1. approved \in BOOLEAN
      BY DEF Init
    <2>2. /\ today \in Nat /\ open \in Nat /\ tries \in Nat /\ dayPnl \in Int
          /\ tripOut \in Nat /\ carried \in Nat /\ quiet \in 0 .. Cooldown
      BY RiskConfig DEF Init
    <2>. QED
      BY <1>1, <2>1, <2>2 DEF TypeOK
  <1>4. BreakerIsTimed /\ LossTripsBreaker /\ OvershootBounded
    BY <1>2, RiskConfig DEF BreakerIsTimed, LossTripsBreaker, OvershootBounded, OverLimit
  <1>5. OutcomesAccounted
    BY <1>2 DEF Init, OutcomesAccounted
  <1>. QED
    BY <1>2, <1>3, <1>4, <1>5 DEF IInv

LEMMA CheckStep ==
  ASSUME IInv, NEW opp \in Opps, Check(opp)
  PROVE  IInv'
  <1>. DEFINE c == CheckLimits(rt, opp, today)
  <1>1. /\ rt \in Tracker /\ today \in Nat /\ ~approved /\ approved \in BOOLEAN
        /\ rt' = c
        /\ carried' = IF c.currentDate # rt.currentDate THEN open ELSE carried
        /\ UNCHANGED <<today, open, tries, dayPnl, tripOut, quiet>>
    BY DEF IInv, TypeOK, Check
  <1>2. ~rt.breaker => ~OverLimit(rt.dailyPnl)
    BY DEF IInv, LossTripsBreaker
  <1>3. c \in Tracker
    BY <1>1, CheckType
  <1>4. ~ProjectedLoss(rt, opp, today)
    BY <1>1, <1>2, NoProjectedLoss
  <1>5. approved' \in BOOLEAN
    BY DEF Check, PassesLimits, Blocked, WithinSize, ProjectedLoss
  <1>6. TypeOK'
    BY <1>1, <1>3, <1>5 DEF IInv, TypeOK
  <1>7. CASE c = rt /\ Blocked(rt)
    <2>1. ~approved'
      BY <1>7 DEF Check, PassesLimits
    <2>2. rt' = rt /\ carried' = carried
      BY <1>1, <1>7
    <2>3. Exposure' = Exposure
      BY <1>1, <2>1 DEF Exposure
    <2>. QED
      BY <1>1, <1>6, <2>2, <2>3
      DEF IInv, BreakerIsTimed, LossTripsBreaker, OvershootBounded, OutcomesAccounted
  <1>8. CASE ~Blocked(rt)
    <2>. HIDE DEF c
    <2>1. /\ c.breaker = FALSE
          /\ c.sinceTrip = IF rt.breaker THEN NoTrip ELSE rt.sinceTrip
          /\ c.dailyPnl = 0 \/ (~rt.breaker /\ c.dailyPnl = rt.dailyPnl)
          /\ \/ /\ c.currentDate = rt.currentDate
                /\ c.attempted = rt.attempted
                /\ c.succeeded = rt.succeeded
                /\ c.failedOnchain = rt.failedOnchain
             \/ /\ c.currentDate # rt.currentDate
                /\ c.attempted = 0 /\ c.succeeded = 0 /\ c.failedOnchain = 0
      BY <1>1, <1>2, <1>8, CheckFields DEF c
    <2>2. BreakerIsTimed'
      BY <1>1, <2>1 DEF IInv, BreakerIsTimed
    <2>3. ~OverLimit(0)
      BY RiskConfig DEF OverLimit
    <2>4. LossTripsBreaker'
      BY <1>1, <1>2, <2>1, <2>3 DEF LossTripsBreaker
    <2>5. OvershootBounded'
      BY <1>1, <2>1 DEF OvershootBounded
    <2>6. OutcomesAccounted'
      BY <1>1, <2>1 DEF IInv, TypeOK, OutcomesAccounted, Tracker
    <2>. QED
      BY <1>1, <1>6, <2>1, <2>2, <2>4, <2>5, <2>6 DEF IInv
  <1>. QED
    BY <1>1, <1>2, <1>7, <1>8, CheckFields

(* Leaving the build pipeline never raises the exposure.                   *)
LEMMA PipelineStep ==
  ASSUME IInv, Abandon \/ Submit \/ SubmitFails \/ \E n \in 1 .. open : Drop(n)
  PROVE  IInv'
  <1>1. rt \in Tracker /\ approved \in BOOLEAN /\ open \in Nat
    BY DEF IInv, TypeOK
  <1>2. rt' = rt \/ rt' = RecordSubmitted(rt) \/ rt' = RecordRejected(rt)
    BY DEF Abandon, Submit, SubmitFails, Drop
  <1>3. rt' \in Tracker
    BY <1>1, <1>2, SubmittedType
  <1>4. /\ rt'.breaker = rt.breaker
        /\ rt'.sinceTrip = rt.sinceTrip
        /\ rt'.dailyPnl = rt.dailyPnl
        /\ rt'.succeeded = rt.succeeded
        /\ rt'.failedOnchain = rt.failedOnchain
    BY <1>1, <1>2 DEF RecordSubmitted, RecordRejected, Tracker
  <1>5. UNCHANGED <<today, dayPnl, tripOut, quiet, carried>>
    BY DEF Abandon, Submit, SubmitFails, Drop
  <1>6. TypeOK'
    <2>1. TypeOK
      BY DEF IInv
    <2>2. approved' \in BOOLEAN
      BY <2>1 DEF TypeOK, Abandon, Submit, SubmitFails, Drop
    <2>3. open' \in Nat /\ tries' \in Nat
      BY <2>1 DEF TypeOK, Abandon, Submit, SubmitFails, Drop
    <2>. QED
      BY <1>3, <1>5, <2>1, <2>2, <2>3 DEF TypeOK
  <1>7. BreakerIsTimed' /\ LossTripsBreaker' /\ (rt'.breaker => rt'.sinceTrip = quiet')
    BY <1>4, <1>5 DEF IInv, BreakerIsTimed, LossTripsBreaker
  <1>8. Exposure \in Int /\ \E n \in Nat : Exposure' = Exposure - n
    <2>1. CASE Abandon \/ SubmitFails
      BY <1>1, <2>1 DEF Abandon, SubmitFails, Exposure
    <2>2. CASE Submit
      BY <1>1, <2>2 DEF Submit, Exposure
    <2>3. CASE \E n \in 1 .. open : Drop(n)
      <3>1. PICK n \in 1 .. open : Drop(n)
        BY <2>3
      <3>. QED
        BY <1>1, <3>1 DEF Drop, Exposure
    <2>. QED
      BY <2>1, <2>2, <2>3
  <1>9. OvershootBounded'
    <2>1. SUFFICES ASSUME rt.breaker
                   PROVE  /\ Exposure' =< tripOut
                          /\ rt.dailyPnl >= -MaxDailyLoss - WorstLoss * (tripOut - Exposure')
      BY <1>4, <1>5 DEF OvershootBounded
    <2>2. /\ Exposure =< tripOut
          /\ rt.dailyPnl >= -MaxDailyLoss - WorstLoss * (tripOut - Exposure)
      BY <2>1 DEF IInv, OvershootBounded
    <2>3. tripOut \in Int /\ rt.dailyPnl \in Int
      BY <1>1 DEF IInv, TypeOK, Tracker
    <2>4. PICK n \in Nat : Exposure' = Exposure - n
      BY <1>8
    <2>5. \A a, b \in Int : WorstLoss * (a + b) = WorstLoss * a + WorstLoss * b
      BY Workload
    <2>6. \A a \in Int : WorstLoss * a \in Int
      BY Workload
    <2>7. WorstLoss * n >= 0
      BY Workload
    <2>8. tripOut - Exposure' = (tripOut - Exposure) + n
      BY <1>8, <2>3, <2>4
    <2>9. WorstLoss * (tripOut - Exposure')
            = WorstLoss * (tripOut - Exposure) + WorstLoss * n
      <3>1. tripOut - Exposure \in Int
        BY <1>8, <2>3
      <3>2. WorstLoss * ((tripOut - Exposure) + n)
              = WorstLoss * (tripOut - Exposure) + WorstLoss * n
        BY <2>4, <2>5, <3>1
      <3>. QED
        BY <2>8, <3>2
    <2>10. WorstLoss * (tripOut - Exposure) \in Int /\ WorstLoss * n \in Int
      BY <1>8, <2>3, <2>4, <2>6
    <2>. QED
      BY <1>8, <2>2, <2>3, <2>4, <2>7, <2>9, <2>10, RiskConfig
  <1>10. OutcomesAccounted'
    <2>1. /\ open \in Nat /\ carried \in Nat
          /\ rt.succeeded + rt.failedOnchain + open =< rt.attempted + carried
      BY DEF IInv, TypeOK, OutcomesAccounted
    <2>2. CASE Submit \/ SubmitFails
      <3>1. rt'.attempted = rt.attempted + 1
        BY <1>1, <2>2 DEF Submit, SubmitFails, RecordSubmitted, RecordRejected, Tracker
      <3>2. open' = open \/ open' = open + 1
        BY <2>2 DEF Submit, SubmitFails
      <3>. QED
        BY <1>1, <1>4, <1>5, <2>1, <3>1, <3>2 DEF OutcomesAccounted, Tracker
    <2>3. CASE Abandon \/ \E n \in 1 .. open : Drop(n)
      <3>1. rt' = rt /\ open' \in Nat /\ open' =< open
        BY <2>1, <2>3 DEF Abandon, Drop
      <3>. QED
        BY <1>1, <1>5, <2>1, <3>1 DEF OutcomesAccounted, Tracker
    <2>. QED
      BY <2>2, <2>3
  <1>. QED
    BY <1>4, <1>5, <1>6, <1>7, <1>9, <1>10 DEF IInv

LEMMA BookStep ==
  ASSUME IInv, NEW pnl \in Pnls, NEW ok \in BOOLEAN, Book(pnl, ok)
  PROVE  IInv'
  <1>. DEFINE c == RecordConfirmation(rt, pnl, ok)
  <1>1. /\ rt \in Tracker /\ pnl \in Int /\ pnl >= -WorstLoss /\ WorstLoss \in Nat
        /\ rt' = c /\ open > 0 /\ open' = open - 1 /\ open \in Nat
        /\ tripOut' = IF rt.breaker THEN tripOut ELSE Exposure
        /\ quiet' = IF OverLimit(rt'.dailyPnl) THEN 0 ELSE quiet
        /\ approved' = approved /\ carried' = carried
    BY Workload DEF IInv, TypeOK, Book
  <1>2. c \in Tracker
    BY <1>1, ConfirmationType
  <1>3. /\ c.dailyPnl = rt.dailyPnl + pnl
        /\ c.attempted = rt.attempted
        /\ c.succeeded + c.failedOnchain = rt.succeeded + rt.failedOnchain + 1
        /\ OverLimit(c.dailyPnl) => c.breaker /\ c.sinceTrip = 0
        /\ ~OverLimit(c.dailyPnl) => c.breaker = rt.breaker /\ c.sinceTrip = rt.sinceTrip
    BY <1>1, ConfirmationFields
  <1>. HIDE DEF c
  <1>4. Exposure \in Nat /\ Exposure' = Exposure - 1 /\ Exposure > 0
    BY <1>1 DEF Exposure
  <1>5. TypeOK'
    BY <1>1, <1>2, <1>4, RiskConfig DEF IInv, TypeOK, Book
  <1>6. BreakerIsTimed' /\ LossTripsBreaker' /\ (rt'.breaker => rt'.sinceTrip = quiet')
    BY <1>1, <1>3 DEF IInv, BreakerIsTimed, LossTripsBreaker, NoTrip
  <1>7. OvershootBounded'
    <2>. SUFFICES ASSUME rt'.breaker
                  PROVE  /\ Exposure' =< tripOut'
                         /\ rt'.dailyPnl >= -MaxDailyLoss - WorstLoss * (tripOut' - Exposure')
      BY DEF OvershootBounded
    <2>1. rt.dailyPnl \in Int /\ rt'.dailyPnl = rt.dailyPnl + pnl
      BY <1>1, <1>3 DEF Tracker
    <2>2. \A a \in Int : WorstLoss * (a + 1) = WorstLoss * a + WorstLoss
      BY <1>1
    <2>3. \A a \in Int : WorstLoss * a \in Int
      BY <1>1
    <2>4. CASE rt.breaker
      <3>1. /\ tripOut' = tripOut /\ tripOut \in Nat /\ Exposure =< tripOut
            /\ rt.dailyPnl >= -MaxDailyLoss - WorstLoss * (tripOut - Exposure)
        BY <1>1, <2>4 DEF IInv, TypeOK, OvershootBounded
      <3>2. tripOut' - Exposure' = (tripOut - Exposure) + 1
        BY <1>4, <3>1
      <3>3. WorstLoss * (tripOut' - Exposure')
              = WorstLoss * (tripOut - Exposure) + WorstLoss
        BY <1>4, <2>2, <3>1, <3>2
      <3>4. WorstLoss * (tripOut - Exposure) \in Int
        BY <1>4, <2>3, <3>1
      <3>. QED
        BY <1>1, <1>4, <2>1, <3>1, <3>3, <3>4, RiskConfig
    <2>5. CASE ~rt.breaker
      <3>1. tripOut' = Exposure /\ rt.dailyPnl >= -MaxDailyLoss
        BY <1>1, <2>1, <2>5, RiskConfig DEF IInv, LossTripsBreaker, OverLimit
      <3>2. tripOut' - Exposure' = 1
        BY <1>4, <3>1
      <3>3. WorstLoss * (tripOut' - Exposure') = WorstLoss
        BY <1>1, <3>2
      <3>. QED
        BY <1>1, <1>4, <2>1, <3>1, <3>3, RiskConfig
    <2>. QED
      BY <2>4, <2>5
  <1>8. OutcomesAccounted'
    <2>1. rt.succeeded + rt.failedOnchain + open =< rt.attempted + carried
      BY DEF IInv, OutcomesAccounted
    <2>. QED
      BY <1>1, <1>2, <1>3, <2>1 DEF IInv, TypeOK, OutcomesAccounted, Tracker
  <1>. QED
    BY <1>5, <1>6, <1>7, <1>8 DEF IInv

LEMMA ClockStep ==
  ASSUME IInv, Tick \/ NextDay
  PROVE  IInv'
  <1>1. CASE Tick
    <2>1. /\ rt \in Tracker /\ quiet \in 0 .. Cooldown
          /\ rt' = [rt EXCEPT !.sinceTrip = Older(rt.sinceTrip)]
          /\ quiet' = Older(quiet)
          /\ UNCHANGED <<today, approved, open, tries, dayPnl, tripOut, carried>>
      BY <1>1 DEF IInv, TypeOK, Tick
    <2>2. \A t \in NoTrip .. Cooldown :
            /\ Older(t) \in NoTrip .. Cooldown
            /\ t = NoTrip <=> Older(t) = NoTrip
      BY RiskConfig DEF Older, NoTrip
    <2>3. quiet' \in 0 .. Cooldown
      BY <2>1, RiskConfig DEF Older, NoTrip
    <2>4. rt.sinceTrip \in NoTrip .. Cooldown
      BY <2>1 DEF Tracker
    <2>5. /\ rt'.sinceTrip = Older(rt.sinceTrip)
          /\ rt'.breaker = rt.breaker
          /\ rt'.dailyPnl = rt.dailyPnl
          /\ rt'.attempted = rt.attempted
          /\ rt'.succeeded = rt.succeeded
          /\ rt'.failedOnchain = rt.failedOnchain
      BY <2>1 DEF Tracker
    <2>6. rt' \in Tracker
      BY <2>1, <2>2, <2>4, FieldUpdate
    <2>7. TypeOK'
      BY <2>1, <2>3, <2>6 DEF IInv, TypeOK
    <2>8. Exposure' = Exposure
      BY <2>1 DEF Exposure
    <2>9. BreakerIsTimed' /\ (rt'.breaker => rt'.sinceTrip = quiet')
      BY <2>1, <2>2, <2>4, <2>5 DEF IInv, BreakerIsTimed
    <2>10. LossTripsBreaker' /\ OvershootBounded' /\ OutcomesAccounted'
      BY <2>1, <2>5, <2>8
      DEF IInv, LossTripsBreaker, OvershootBounded, OutcomesAccounted
    <2>. QED
      BY <2>7, <2>9, <2>10 DEF IInv
  <1>2. CASE NextDay
    <2>1. TypeOK'
      BY <1>2 DEF IInv, TypeOK, NextDay
    <2>. QED
      BY <1>2, <2>1
      DEF IInv, NextDay, Exposure, BreakerIsTimed, LossTripsBreaker,
          OvershootBounded, OutcomesAccounted
  <1>. QED
    BY <1>1, <1>2

LEMMA RestartStep ==
  ASSUME IInv, Restart
  PROVE  IInv'
  <1>1. /\ rt' = NewTracker(today) /\ today \in Nat /\ today' = today
        /\ approved' = FALSE /\ open' = 0 /\ carried' = 0 /\ tripOut' = 0
        /\ quiet' = Cooldown /\ dayPnl' = 0 /\ tries' = tries /\ tries \in Nat
    BY DEF IInv, TypeOK, Restart
  <1>2. rt' \in Tracker
    BY <1>1, NewTrackerType
  <1>3. /\ rt'.breaker = FALSE /\ rt'.sinceTrip = NoTrip /\ rt'.dailyPnl = 0
        /\ rt'.attempted = 0 /\ rt'.succeeded = 0 /\ rt'.failedOnchain = 0
    BY <1>1 DEF NewTracker
  <1>4. TypeOK'
    <2>1. approved' \in BOOLEAN
      BY <1>1
    <2>2. /\ today' \in Nat /\ open' \in Nat /\ tries' \in Nat /\ dayPnl' \in Int
          /\ tripOut' \in Nat /\ carried' \in Nat /\ quiet' \in 0 .. Cooldown
      BY <1>1, RiskConfig
    <2>. QED
      BY <1>2, <2>1, <2>2 DEF TypeOK
  <1>5. BreakerIsTimed' /\ LossTripsBreaker' /\ OvershootBounded'
    BY <1>3, RiskConfig DEF BreakerIsTimed, LossTripsBreaker, OvershootBounded, OverLimit
  <1>6. OutcomesAccounted'
    BY <1>1, <1>3 DEF OutcomesAccounted
  <1>. QED
    BY <1>3, <1>4, <1>5, <1>6 DEF IInv

LEMMA NextIInv == IInv /\ [Next]_vars => IInv'
  <1>. SUFFICES ASSUME IInv, [Next]_vars PROVE IInv'
    OBVIOUS
  <1>1. CASE UNCHANGED vars
    BY <1>1
    DEF vars, IInv, TypeOK, Exposure, BreakerIsTimed, LossTripsBreaker,
        OvershootBounded, OutcomesAccounted
  <1>2. CASE Next
    BY <1>2, CheckStep, PipelineStep, BookStep, ClockStep, RestartStep DEF Next
  <1>. QED
    BY <1>1, <1>2

(* Every step of the two callers, the clock and a restart keeps the        *)
(* strengthened invariant.                                                 *)
THEOREM Inductive == Spec => []IInv
  BY InitIInv, NextIInv, PTL DEF Spec

-----------------------------------------------------------------------------
(* The results.                                                            *)

(* Every handler of risk/mod.rs keeps the tracker well formed.             *)
THEOREM TypeCorrect == Spec => []TypeOK
  <1>1. IInv => TypeOK
    BY DEF IInv
  <1>. QED
    BY <1>1, Inductive, PTL

(* check_limits and record_confirmation never leave the day over its loss  *)
(* limit with the breaker off.                                             *)
THEOREM LossAlwaysTrips == Spec => []LossTripsBreaker
  <1>1. IInv => LossTripsBreaker
    BY DEF IInv
  <1>. QED
    BY <1>1, Inductive, PTL

(* A tripped breaker can always be timed out by check_limits.              *)
THEOREM BreakerAlwaysTimed == Spec => []BreakerIsTimed
  <1>1. IInv => BreakerIsTimed
    BY DEF IInv
  <1>. QED
    BY <1>1, Inductive, PTL

(* However many trades are in flight when record_confirmation trips the    *)
(* breaker, the day overshoots its limit by at most the worst loss of each.*)
THEOREM Overshoot == Spec => []OvershootBounded
  <1>1. IInv => OvershootBounded
    BY DEF IInv
  <1>. QED
    BY <1>1, Inductive, PTL

(* The counters printed at shutdown account for every outcome, midnight    *)
(* resets included.                                                        *)
THEOREM Accounted == Spec => []OutcomesAccounted
  <1>1. IInv => OutcomesAccounted
    BY DEF IInv
  <1>. QED
    BY <1>1, Inductive, PTL

(* The projected-loss branch of check_limits is unreachable.               *)
THEOREM DeadBranch == Spec => []ProjectedLossIsDead
  <1>1. IInv => ProjectedLossIsDead
    BY NoProjectedLoss DEF IInv, TypeOK, LossTripsBreaker, ProjectedLossIsDead
  <1>. QED
    BY <1>1, Inductive, PTL

(* The breaker reopens only after a full cooldown without an over-limit    *)
(* booking, or by a restart.                                               *)
THEOREM QuietReopening == Spec => ReopensOnlyAfterQuiet
  <1>1. ASSUME IInv, [Next]_vars
        PROVE  [rt.breaker /\ ~rt'.breaker => quiet = Cooldown \/ Restart]_vars
    <2>1. SUFFICES ASSUME rt.breaker, ~rt'.breaker, ~Restart
                   PROVE  quiet = Cooldown
      BY DEF vars
    <2>2. rt \in Tracker /\ today \in Nat /\ quiet = rt.sinceTrip
      BY <1>1, <2>1 DEF IInv, TypeOK
    <2>3. Next
      BY <1>1, <2>1 DEF vars
    <2>4. ASSUME NEW opp \in Opps, Check(opp)
          PROVE  rt.sinceTrip >= Cooldown
      <3>1. ~Blocked(rt)
        BY <2>1, <2>4 DEF Check, CheckLimits
      <3>. QED
        BY <2>1, <2>2, <3>1, RiskConfig DEF Blocked, Tracker, NoTrip
    <2>5. ASSUME NEW pnl \in Pnls, NEW ok \in BOOLEAN, Book(pnl, ok)
          PROVE  FALSE
      <3>1. rt' = RecordConfirmation(rt, pnl, ok) /\ pnl \in Int
        BY <2>5, Workload DEF Book
      <3>. QED
        BY <2>1, <2>2, <3>1, ConfirmationFields
    <2>6. ASSUME \/ Abandon \/ Submit \/ SubmitFails \/ Tick \/ NextDay
                 \/ \E n \in 1 .. open : Drop(n)
          PROVE  FALSE
      <3>1. \/ rt' = rt \/ rt' = RecordSubmitted(rt) \/ rt' = RecordRejected(rt)
            \/ rt' = [rt EXCEPT !.sinceTrip = Older(rt.sinceTrip)]
        BY <2>6 DEF Abandon, Submit, SubmitFails, Drop, Tick, NextDay
      <3>. QED
        BY <2>1, <2>2, <3>1 DEF RecordSubmitted, RecordRejected, Tracker
    <2>7. rt.sinceTrip >= Cooldown
      BY <2>1, <2>3, <2>4, <2>5, <2>6 DEF Next
    <2>. QED
      BY <1>1, <2>2, <2>7, RiskConfig DEF IInv, TypeOK
  <1>. QED
    BY <1>1, Inductive, PTL DEF Spec, ReopensOnlyAfterQuiet

-----------------------------------------------------------------------------
(* The pipeline uses the tracker as RiskTracker allows.                    *)

LEMMA EndRoundSimulates ==
  ASSUME NEW remaining, EndRound(remaining)
  PROVE  [Next]_vars
  BY DEF EndRound, Next, Drop

LEMMA LoopSimulates ==
  ASSUME Loop
  PROVE  [Next]_vars
  <1>1. ASSUME NEW opp \in Opps, Consider(opp)
        PROVE  [Next]_vars
    BY <1>1 DEF Consider, Next
  <1>2. CASE Skip \/ RecordAccepted \/ RecordFailure
    BY <1>2 DEF Skip, RecordAccepted, RecordFailure, Next
  <1>3. CASE JitoAccepts \/ JitoFails \/ RpcAccepts \/ RpcFails
    BY <1>3 DEF JitoAccepts, JitoFails, RpcAccepts, RpcFails, Sending
  <1>. QED
    BY <1>1, <1>2, <1>3 DEF Loop

LEMMA TaskSimulates ==
  ASSUME Task
  PROVE  [Next]_vars
  <1>1. CASE Collect
    <2>1. (\E all : EndRound(all)) \/ UNCHANGED vars
      BY <1>1 DEF Collect
    <2>. QED
      BY <2>1, EndRoundSimulates
  <1>2. CASE QueryFails \/ FinishRound
    BY <1>2, EndRoundSimulates DEF QueryFails, FinishRound
  <1>3. CASE QueryAnswers \/ PassOver
    BY <1>3 DEF QueryAnswers, PassOver
  <1>4. ASSUME NEW pnl \in Pnls, NEW ok \in BOOLEAN, Confirm(pnl, ok)
        PROVE  [Next]_vars
    <2>1. Book(pnl, ok)
      BY <1>4 DEF Confirm
    <2>. QED
      BY <2>1 DEF Next
  <1>. QED
    BY <1>1, <1>2, <1>3, <1>4 DEF Task

LEMMA PipelineSimulates == [PipelineNext]_allVars => [Next]_vars
  <1>. SUFFICES ASSUME [PipelineNext]_allVars PROVE [Next]_vars
    OBVIOUS
  <1>1. CASE UNCHANGED allVars
    BY <1>1 DEF allVars
  <1>2. CASE Loop
    BY <1>2, LoopSimulates
  <1>3. CASE Network
    BY <1>3 DEF Network, Land, Finalize, Forget, Reorg, Expire, OnlyChain
  <1>4. CASE Task
    BY <1>4, TaskSimulates
  <1>5. CASE Clock \/ Crash
    BY <1>5 DEF Clock, Crash, Next
  <1>. QED
    BY <1>1, <1>2, <1>3, <1>4, <1>5 DEF PipelineNext

(* The event loop and the confirmation task use the risk tracker only as   *)
(* RiskTracker allows.                                                     *)
THEOREM PipelineRefinesTracker == PipelineSpec => Spec
  <1>1. PipelineInit => Init
    BY DEF PipelineInit
  <1>. QED
    BY <1>1, PipelineSimulates, PTL DEF PipelineSpec, Spec

(* So the whole pipeline never trades with the day over its loss limit and *)
(* the breaker off, and overshoots by at most the exposure at the trip.    *)
THEOREM PipelineLossBounded == PipelineSpec => [](LossTripsBreaker /\ OvershootBounded)
  BY PipelineRefinesTracker, LossAlwaysTrips, Overshoot, PTL

-----------------------------------------------------------------------------
(* Induction over the natural numbers, for sets: what the definitions by   *)
(* recursion of TradePipeline compute is proved with it.                   *)

LEMMA LeastElement ==
  ASSUME NEW T, T \subseteq Nat, T # {}
  PROVE  \E n \in T : \A m \in T : n =< m
  <1>. DEFINE R == OpToRel(<, Nat)
  <1>1. IsWellFoundedOn(R, Nat)
    BY NatLessThanWellFounded
  <1>2. \A x, y \in Nat : y < x => <<y, x>> \in R
    <2>1. R = {ss \in Nat \X Nat : ss[1] < ss[2]}
      BY DEF OpToRel
    <2>. HIDE DEF R
    <2>. SUFFICES ASSUME NEW x \in Nat, NEW y \in Nat, y < x PROVE <<y, x>> \in R
      OBVIOUS
    <2>2. <<y, x>> \in Nat \X Nat /\ <<y, x>>[1] = y /\ <<y, x>>[2] = x
      OBVIOUS
    <2>. QED
      BY <2>1, <2>2
  <1>. HIDE DEF R
  <1>3. PICK x \in T : \A y \in T : <<y, x>> \notin R
    BY <1>1, WFMin
  <1>4. \A y \in T : x =< y
    <2>. TAKE y \in T
    <2>1. x \in Nat /\ y \in Nat
      OBVIOUS
    <2>2. ~(y < x)
      BY <1>2, <1>3, <2>1
    <2>. QED
      BY <2>1, <2>2
  <1>. QED
    BY <1>4

(* Stated for a set instead of a predicate, and only up to a bound.        *)
LEMMA BoundedInduction ==
  ASSUME NEW m \in Nat, NEW S,
         0 \in S, \A n \in 0 .. m - 1 : n \in S => n + 1 \in S
  PROVE  0 .. m \subseteq S
  <1>. SUFFICES ASSUME (0 .. m) \ S # {} PROVE FALSE
    OBVIOUS
  <1>. DEFINE Out == (0 .. m) \ S
  <1>1. Out \subseteq Nat /\ Out # {}
    OBVIOUS
  <1>. HIDE DEF Out
  <1>2. PICK n \in Out : \A k \in Out : n =< k
    BY <1>1, LeastElement
  <1>. USE DEF Out
  <1>3. n \in 1 .. m /\ n - 1 \in 0 .. m - 1 /\ n - 1 + 1 = n
    BY <1>2
  <1>4. n - 1 \in S
    BY <1>2, <1>3
  <1>. QED
    BY <1>2, <1>3, <1>4

-----------------------------------------------------------------------------
(* Operators of the pipeline.                                              *)

LEMMA SwapRemoveProps ==
  ASSUME NEW S, NEW t \in Seq(S), NEW i \in 1 .. Len(t)
  PROVE  /\ SwapRemove(t, i) \in Seq(S)
         /\ Len(SwapRemove(t, i)) = Len(t) - 1
         /\ \A j \in 1 .. Len(t) - 1 :
              SwapRemove(t, i)[j] = IF j = i THEN t[Len(t)] ELSE t[j]
  <1>1. Len(t) \in Nat /\ \A j \in 1 .. Len(t) : t[j] \in S
    BY LenProperties, ElementOfSeq
  <1>. DEFINE n == Len(t) - 1
              f == SubSeq(t, 1, n)
  <1>2. /\ f \in Seq(S)
        /\ Len(f) = n
        /\ \A j \in 1 .. n : f[j] = t[j]
    <2>1. n \in Nat /\ \A j \in 1 .. n : t[j] \in S
      BY <1>1
    <2>. HIDE DEF n
    <2>2. /\ SubSeq(t, 1, n) \in Seq(S)
          /\ Len(SubSeq(t, 1, n)) = IF 1 <= n THEN n - 1 + 1 ELSE 0
          /\ \A j \in 1 .. n - 1 + 1 : SubSeq(t, 1, n)[j] = t[1 + j - 1]
      BY <2>1, SubSeqProperties
    <2>3. /\ n - 1 + 1 = n
          /\ \A j \in 1 .. n : 1 + j - 1 = j
          /\ (IF 1 <= n THEN n ELSE 0) = n
      BY <2>1
    <2>4. \A j \in 1 .. n : f[j] = t[j]
      BY <2>2, <2>3
    <2>. QED
      BY <2>2, <2>3, <2>4
  <1>. HIDE DEF f
  <1>3. CASE i = Len(t)
    <2>1. SwapRemove(t, i) = f
      BY <1>3 DEF SwapRemove, Front, f
    <2>. QED
      BY <1>1, <1>2, <1>3, <2>1
  <1>4. CASE i # Len(t)
    <2>1. SwapRemove(t, i) = [f EXCEPT ![i] = t[Len(t)]]
      BY <1>4 DEF SwapRemove, Front, ReplaceAt, Last, f
    <2>2. i \in 1 .. Len(f) /\ t[Len(t)] \in S
      BY <1>1, <1>2, <1>4
    <2>. QED
      BY <1>1, <1>2, <2>1, <2>2, ExceptSeq
  <1>. QED
    BY <1>3, <1>4

(* The list left when the last n of the indices have been removed.         *)
Left(s, is) ==
  CHOOSE left : left = [n \in 0 .. Len(is) |->
    IF n = 0 THEN s ELSE SwapRemove(left[n - 1], is[Len(is) + 1 - n])]

LEMMA LeftDef ==
  ASSUME NEW s, NEW is, Len(is) \in Nat
  PROVE  /\ RemoveProcessed(s, is) = Left(s, is)[Len(is)]
         /\ Left(s, is)[0] = s
         /\ \A n \in 1 .. Len(is) :
              Left(s, is)[n] = SwapRemove(Left(s, is)[n - 1], is[Len(is) + 1 - n])
  <1>. DEFINE m == Len(is)
              Step(t, n) == SwapRemove(t, is[m + 1 - n])
              Upto(k, f) == f = [n \in 0 .. k |-> IF n = 0 THEN s ELSE Step(f[n - 1], n)]
              S == {k \in Nat : \E f : Upto(k, f)}
  <1>. HIDE DEF Step
  <1>1. 0 .. m \subseteq S
    <2>1. 0 \in S
      <3>1. Upto(0, [n \in 0 .. 0 |-> s])
        OBVIOUS
      <3>. QED
        BY <3>1
    <2>2. ASSUME NEW k \in 0 .. m - 1, k \in S
          PROVE  k + 1 \in S
      <3>1. PICK f : Upto(k, f)
        BY <2>2
      <3>. DEFINE g == [n \in 0 .. k + 1 |-> IF n = k + 1 THEN Step(f[k], n) ELSE f[n]]
      <3>2. k \in Nat
        OBVIOUS
      <3>3. \A n \in 0 .. k : g[n] = f[n]
        BY <3>2
      <3>4. \A n \in 0 .. k + 1 : g[n] = IF n = 0 THEN s ELSE Step(g[n - 1], n)
        <4>. TAKE n \in 0 .. k + 1
        <4>1. CASE n = k + 1
          BY <3>2, <3>3, <4>1
        <4>2. CASE n \in 0 .. k
          BY <3>1, <3>2, <3>3, <4>2
        <4>. QED
          BY <3>2, <4>1, <4>2
      <3>5. Upto(k + 1, g)
        BY <3>4
      <3>. HIDE DEF g, Upto
      <3>6. \E h : Upto(k + 1, h)
        BY <3>5
      <3>. QED
        BY <3>2, <3>6
    <2>. HIDE DEF S
    <2>. QED
      BY <2>1, <2>2, BoundedInduction
  <1>2. \E f : Upto(m, f)
    BY <1>1
  <1>3. Upto(m, Left(s, is))
    BY <1>2, Zenon DEF Left, Step
  <1>4. RemoveProcessed(s, is) = Left(s, is)[m]
    BY DEF RemoveProcessed, Left
  <1>. HIDE DEF m
  <1>5. m \in Nat
    BY DEF m
  <1>6. \A n \in 0 .. m : Left(s, is)[n] = IF n = 0 THEN s ELSE Step(Left(s, is)[n - 1], n)
    BY <1>3
  <1>. QED
    BY <1>4, <1>5, <1>6 DEF Step, m

Increasing(is) == \A j, k \in 1 .. Len(is) : j < k => is[j] < is[k]
Distinct(s) == \A i, j \in 1 .. Len(s) : i # j => s[i] # s[j]

(* Removing from the back never moves an entry that is still to be removed *)
(* and never runs past the end of the list.                                *)
LEMMA LeftShape ==
  ASSUME NEW S, NEW s \in Seq(S), NEW is \in Seq(1 .. Len(s)), Increasing(is),
         NEW n \in 0 .. Len(is)
  PROVE  /\ Left(s, is)[n] \in Seq(S)
         /\ Len(Left(s, is)[n]) = Len(s) - n
         /\ n < Len(is) => /\ is[Len(is) - n] =< Len(s) - n
                           /\ \A j \in 1 .. is[Len(is) - n] : Left(s, is)[n][j] = s[j]
  <1>. DEFINE m == Len(is)
              t == Left(s, is)
              Shape(k) == /\ t[k] \in Seq(S)
                          /\ Len(t[k]) = Len(s) - k
                          /\ k < m => /\ is[m - k] =< Len(s) - k
                                      /\ \A j \in 1 .. is[m - k] : t[k][j] = s[j]
              T == {k \in 0 .. m : Shape(k)}
  <1>. HIDE DEF t
  <1>1. /\ m \in Nat /\ Len(s) \in Nat
        /\ \A k \in 1 .. m : is[k] \in 1 .. Len(s)
    BY LenProperties, ElementOfSeq
  <1>. HIDE DEF m
  <1>2. /\ t[0] = s
        /\ \A k \in 1 .. m : t[k] = SwapRemove(t[k - 1], is[m + 1 - k])
    BY <1>1, LeftDef DEF t, m
  <1>3. 0 \in T
    <2>1. 0 < m => is[m - 0] =< Len(s) - 0
      BY <1>1
    <2>. QED
      BY <1>1, <1>2, <2>1
  <1>4. ASSUME NEW k \in 0 .. m - 1, k \in T
        PROVE  k + 1 \in T
    <2>. DEFINE r == is[m - k]
    <2>1. Shape(k) /\ k < m /\ k + 1 \in 0 .. m /\ m - k \in 1 .. m
      <3>. HIDE DEF Shape
      <3>. QED
        BY <1>1, <1>4
    <2>2. t[k] \in Seq(S) /\ Len(t[k]) = Len(s) - k /\ r \in 1 .. Len(t[k])
      BY <1>1, <2>1
    <2>3. t[k + 1] = SwapRemove(t[k], r)
      <3>1. k + 1 \in 1 .. m /\ k + 1 - 1 = k /\ m + 1 - (k + 1) = m - k
        BY <1>1
      <3>. QED
        BY <1>2, <3>1
    <2>4. /\ t[k + 1] \in Seq(S)
          /\ Len(t[k + 1]) = Len(s) - (k + 1)
          /\ \A j \in 1 .. Len(s) - (k + 1) : j < r => t[k + 1][j] = t[k][j]
      <3>. HIDE DEF r
      <3>1. /\ t[k + 1] \in Seq(S)
            /\ Len(t[k + 1]) = Len(t[k]) - 1
            /\ \A j \in 1 .. Len(t[k]) - 1 :
                 t[k + 1][j] = IF j = r THEN t[k][Len(t[k])] ELSE t[k][j]
        <4>1. /\ SwapRemove(t[k], r) \in Seq(S)
              /\ Len(SwapRemove(t[k], r)) = Len(t[k]) - 1
              /\ \A j \in 1 .. Len(t[k]) - 1 :
                   SwapRemove(t[k], r)[j] = IF j = r THEN t[k][Len(t[k])] ELSE t[k][j]
          BY <2>2, SwapRemoveProps
        <4>. QED
          BY <2>3, <4>1, Zenon
      <3>2. Len(t[k]) - 1 = Len(s) - (k + 1) /\ r \in Int
        BY <1>1, <2>2
      <3>3. \A j \in Int : j < r => j # r
        BY <3>2
      <3>. QED
        BY <3>1, <3>2, <3>3
    <2>5. ASSUME k + 1 < m
          PROVE  /\ is[m - (k + 1)] =< Len(s) - (k + 1)
                 /\ \A j \in 1 .. is[m - (k + 1)] : t[k + 1][j] = s[j]
      <3>. DEFINE q == is[m - (k + 1)]
      <3>1. m - (k + 1) \in 1 .. m /\ m - (k + 1) < m - k
        BY <1>1, <2>5
      <3>2. q < r /\ q \in 1 .. Len(s) /\ r =< Len(s) - k /\ r \in Int
        <4>1. q \in 1 .. Len(s) /\ r \in 1 .. Len(s)
          BY <1>1, <2>1, <3>1
        <4>2. q < r
          BY <2>1, <3>1 DEF Increasing, m
        <4>3. r =< Len(s) - k
          BY <2>1
        <4>. QED
          BY <4>1, <4>2, <4>3
      <3>. HIDE DEF q, r
      <3>3. q =< Len(s) - (k + 1)
        BY <1>1, <3>2
      <3>4. \A j \in 1 .. q : j \in 1 .. Len(s) - (k + 1) /\ j < r /\ j \in 1 .. r
        BY <1>1, <3>2, <3>3
      <3>5. \A j \in 1 .. r : t[k][j] = s[j]
        BY <2>1 DEF r
      <3>6. \A j \in 1 .. q : t[k + 1][j] = s[j]
        BY <2>4, <3>4, <3>5
      <3>. QED
        BY <3>3, <3>6 DEF q
    <2>. QED
      BY <2>1, <2>4, <2>5
  <1>5. 0 .. m \subseteq T
    <2>. HIDE DEF T
    <2>. QED
      BY <1>1, <1>3, <1>4, BoundedInduction
  <1>. QED
    BY <1>5 DEF t, m

(* Exactly the entries at the other indices are left, in some order.       *)
LEMMA RemoveProcessedProps ==
  ASSUME NEW S, NEW s \in Seq(S), NEW is \in Seq(1 .. Len(s)), Increasing(is)
  PROVE  /\ RemoveProcessed(s, is) \in Seq(S)
         /\ Len(RemoveProcessed(s, is)) = Len(s) - Len(is)
         /\ Distinct(s) =>
              /\ Distinct(RemoveProcessed(s, is))
              /\ {RemoveProcessed(s, is)[j] : j \in 1 .. Len(RemoveProcessed(s, is))}
                   = {s[i] : i \in 1 .. Len(s) \ {is[k] : k \in 1 .. Len(is)}}
  <1>. DEFINE m == Len(is)
              t == Left(s, is)
              Gone(k) == {is[h] : h \in m + 1 - k .. m}
              Kept(k) == {s[i] : i \in 1 .. Len(s) \ Gone(k)}
              Perm(k) == /\ Distinct(t[k])
                         /\ {t[k][j] : j \in 1 .. Len(t[k])} = Kept(k)
              T == {k \in 0 .. m : Perm(k)}
  <1>. HIDE DEF t
  <1>1. /\ m \in Nat /\ Len(s) \in Nat
        /\ \A k \in 1 .. m : is[k] \in 1 .. Len(s)
    BY LenProperties, ElementOfSeq
  <1>2. /\ RemoveProcessed(s, is) = t[m]
        /\ t[0] = s
        /\ \A k \in 1 .. m : t[k] = SwapRemove(t[k - 1], is[m + 1 - k])
    BY <1>1, LeftDef DEF t
  <1>3. ASSUME NEW k \in 0 .. m
        PROVE  /\ t[k] \in Seq(S)
               /\ Len(t[k]) = Len(s) - k
               /\ k < m => /\ is[m - k] =< Len(s) - k
                           /\ \A j \in 1 .. is[m - k] : t[k][j] = s[j]
    BY LeftShape DEF t
  <1>. HIDE DEF m
  <1>4. ASSUME Distinct(s)
        PROVE  Perm(m)
    <2>1. 0 \in T
      <3>1. m + 1 - 0 .. m = {} /\ 0 \in 0 .. m
        BY <1>1
      <3>2. Kept(0) = {s[i] : i \in 1 .. Len(s)}
        BY <3>1
      <3>. QED
        BY <1>2, <1>4, <3>1, <3>2
    <2>2. ASSUME NEW k \in 0 .. m - 1, k \in T
          PROVE  k + 1 \in T
      <3>. DEFINE r == is[m - k]
                  l == Len(t[k])
                  u == t[k + 1]
      <3>1. k \in 0 .. m /\ k + 1 \in 0 .. m /\ k < m /\ m - k \in 1 .. m /\ Perm(k)
        <4>. HIDE DEF Perm
        <4>. QED
          BY <1>1, <2>2
      <3>2. /\ t[k] \in Seq(S) /\ l = Len(s) - k /\ l \in Nat
            /\ r \in 1 .. l /\ t[k][r] = s[r] /\ r \in 1 .. Len(s)
        <4>1. r \in 1 .. Len(s) /\ r =< Len(s) - k /\ \A j \in 1 .. r : t[k][j] = s[j]
          BY <1>1, <1>3, <3>1
        <4>2. t[k] \in Seq(S) /\ l = Len(s) - k
          BY <1>3, <3>1
        <4>3. l \in Nat /\ r \in 1 .. l
          BY <1>1, <3>1, <4>1, <4>2
        <4>4. r \in 1 .. r
          BY <4>1
        <4>. QED
          BY <4>1, <4>2, <4>3, <4>4
      <3>3. u = SwapRemove(t[k], r)
        <4>1. k + 1 \in 1 .. m /\ k + 1 - 1 = k /\ m + 1 - (k + 1) = m - k
          BY <1>1
        <4>. QED
          BY <1>2, <4>1
      <3>4. /\ Len(u) = l - 1
            /\ \A j \in 1 .. l - 1 : u[j] = IF j = r THEN t[k][l] ELSE t[k][j]
        <4>. HIDE DEF r
        <4>1. /\ Len(SwapRemove(t[k], r)) = l - 1
              /\ \A j \in 1 .. l - 1 :
                   SwapRemove(t[k], r)[j] = IF j = r THEN t[k][l] ELSE t[k][j]
          BY <3>2, SwapRemoveProps
        <4>. QED
          BY <3>3, <4>1, Zenon
      <3>5. Gone(k + 1) = Gone(k) \cup {r}
        <4>1. \A j \in Int : j \in m + 1 - (k + 1) .. m <=> j \in m + 1 - k .. m \/ j = m - k
          BY <1>1, <3>1
        <4>2. m + 1 - (k + 1) .. m = (m + 1 - k .. m) \cup {m - k}
          BY <1>1, <3>1, <4>1
        <4>. QED
          BY <4>2
      <3>. HIDE DEF r, l, u, Gone
      <3>6. {t[k][j] : j \in 1 .. l} = Kept(k)
        BY <3>1 DEF l
      <3>7. \A i, j \in 1 .. l : i # j => t[k][i] # t[k][j]
        BY <3>1 DEF Distinct, l
      <3>8. Distinct(u)
        <4>. SUFFICES ASSUME NEW i \in 1 .. l - 1, NEW j \in 1 .. l - 1, i # j
                      PROVE  u[i] # u[j]
          BY <3>4 DEF Distinct
        <4>1. i \in 1 .. l /\ j \in 1 .. l /\ l \in 1 .. l /\ i # l /\ j # l
          BY <3>2
        <4>. QED
          BY <3>4, <3>7, <4>1
      <3>9. {u[j] : j \in 1 .. l - 1} = {t[k][j] : j \in 1 .. l \ {r}}
        <4>1. ASSUME NEW j \in 1 .. l - 1
              PROVE  \E i \in 1 .. l \ {r} : u[j] = t[k][i]
          <5>1. CASE j = r
            <6>1. l \in 1 .. l \ {r}
              BY <3>2, <4>1, <5>1
            <6>. QED
              BY <3>4, <5>1, <6>1
          <5>2. CASE j # r
            <6>1. j \in 1 .. l \ {r}
              BY <3>2, <4>1, <5>2
            <6>. QED
              BY <3>4, <5>2, <6>1
          <5>. QED
            BY <5>1, <5>2
        <4>2. ASSUME NEW i \in 1 .. l \ {r}
              PROVE  \E j \in 1 .. l - 1 : u[j] = t[k][i]
          <5>1. CASE i = l
            <6>1. r \in 1 .. l - 1
              BY <3>2, <4>2, <5>1
            <6>. QED
              BY <3>4, <5>1, <6>1
          <5>2. CASE i # l
            <6>1. i \in 1 .. l - 1 /\ i # r
              BY <3>2, <4>2, <5>2
            <6>. QED
              BY <3>4, <6>1
          <5>. QED
            BY <5>1, <5>2
        <4>3. {u[j] : j \in 1 .. l - 1} \subseteq {t[k][j] : j \in 1 .. l \ {r}}
          BY <4>1, Zenon
        <4>4. {t[k][j] : j \in 1 .. l \ {r}} \subseteq {u[j] : j \in 1 .. l - 1}
          BY <4>2, Zenon
        <4>. QED
          BY <4>3, <4>4, Zenon
      <3>10. {t[k][j] : j \in 1 .. l \ {r}} = {t[k][j] : j \in 1 .. l} \ {t[k][r]}
        BY <3>2, <3>7
      <3>11. Kept(k + 1) = Kept(k) \ {s[r]}
        <4>1. \A i, j \in 1 .. Len(s) : i # j => s[i] # s[j]
          BY <1>4 DEF Distinct
        <4>. QED
          BY <3>2, <3>5, <4>1
      <3>12. Perm(k + 1)
        BY <3>2, <3>4, <3>6, <3>8, <3>9, <3>10, <3>11 DEF u
      <3>. QED
        BY <3>1, <3>12
    <2>3. 0 .. m \subseteq T
      <3>. HIDE DEF T
      <3>. QED
        BY <1>1, <2>1, <2>2, BoundedInduction
    <2>. HIDE DEF Perm
    <2>. QED
      BY <1>1, <2>3
  <1>5. Gone(m) = {is[k] : k \in 1 .. m}
    BY <1>1
  <1>6. /\ RemoveProcessed(s, is) \in Seq(S)
        /\ Len(RemoveProcessed(s, is)) = Len(s) - m
    <2>1. m \in 0 .. m
      BY <1>1
    <2>. QED
      BY <1>2, <1>3, <2>1
  <1>7. Kept(m) = {s[i] : i \in 1 .. Len(s) \ {is[k] : k \in 1 .. m}}
    BY <1>5, Zenon
  <1>. HIDE DEF Kept
  <1>8. Distinct(s) =>
          /\ Distinct(RemoveProcessed(s, is))
          /\ {RemoveProcessed(s, is)[j] : j \in 1 .. Len(RemoveProcessed(s, is))} = Kept(m)
    BY <1>2, <1>4, Zenon
  <1>. QED
    BY <1>6, <1>7, <1>8, Zenon DEF m

(* Whether or not entries are alike, what is left was not to be removed.   *)
LEMMA RemoveProcessedLeaves ==
  ASSUME NEW S, NEW s \in Seq(S), NEW is \in Seq(1 .. Len(s)), Increasing(is)
  PROVE  \A j \in 1 .. Len(s) - Len(is) :
           \E i \in 1 .. Len(s) : /\ RemoveProcessed(s, is)[j] = s[i]
                                 /\ \A h \in 1 .. Len(is) : is[h] # i
  <1>. DEFINE m == Len(is)
              t == Left(s, is)
              Gone(k) == {is[h] : h \in m + 1 - k .. m}
              From(k, j) == \E i \in j .. Len(s) : t[k][j] = s[i] /\ i \notin Gone(k)
              T == {k \in 0 .. m : \A j \in 1 .. Len(s) - k : From(k, j)}
  <1>. HIDE DEF t
  <1>1. /\ m \in Nat /\ Len(s) \in Nat
        /\ \A k \in 1 .. m : is[k] \in 1 .. Len(s)
    BY LenProperties, ElementOfSeq
  <1>2. /\ RemoveProcessed(s, is) = t[m]
        /\ t[0] = s
        /\ \A k \in 1 .. m : t[k] = SwapRemove(t[k - 1], is[m + 1 - k])
    BY <1>1, LeftDef DEF t
  <1>3. ASSUME NEW k \in 0 .. m
        PROVE  /\ t[k] \in Seq(S)
               /\ Len(t[k]) = Len(s) - k
               /\ k < m => /\ is[m - k] =< Len(s) - k
                           /\ \A j \in 1 .. is[m - k] : t[k][j] = s[j]
    BY LeftShape DEF t
  <1>4. \A j, k \in 1 .. m : j < k => is[j] < is[k]
    BY DEF Increasing
  <1>. HIDE DEF m
  <1>5. 0 \in T
    <2>1. m + 1 - 0 .. m = {} /\ 0 \in 0 .. m
      BY <1>1
    <2>2. \A j \in 1 .. Len(s) - 0 : j \in j .. Len(s)
      BY <1>1
    <2>. QED
      BY <1>2, <2>1, <2>2
  <1>6. ASSUME NEW k \in 0 .. m - 1, k \in T
        PROVE  k + 1 \in T
    <2>. DEFINE r == is[m - k]
                l == Len(t[k])
                u == t[k + 1]
    <2>1. /\ k \in 0 .. m /\ k + 1 \in 0 .. m /\ k < m /\ m - k \in 1 .. m
          /\ \A j \in 1 .. Len(s) - k : From(k, j)
      <3>. HIDE DEF From
      <3>. QED
        BY <1>1, <1>6
    <2>2. /\ t[k] \in Seq(S) /\ l = Len(s) - k /\ l \in Nat
          /\ r \in 1 .. l /\ r \in 1 .. Len(s)
          /\ \A j \in 1 .. r : t[k][j] = s[j]
      <3>1. r \in 1 .. Len(s) /\ r =< Len(s) - k /\ \A j \in 1 .. r : t[k][j] = s[j]
        BY <1>1, <1>3, <2>1
      <3>2. t[k] \in Seq(S) /\ l = Len(s) - k
        BY <1>3, <2>1
      <3>. QED
        BY <1>1, <2>1, <3>1, <3>2
    <2>3. u = SwapRemove(t[k], r)
      <3>1. k + 1 \in 1 .. m /\ k + 1 - 1 = k /\ m + 1 - (k + 1) = m - k
        BY <1>1
      <3>. QED
        BY <1>2, <3>1
    <2>4. \A j \in 1 .. l - 1 : u[j] = IF j = r THEN t[k][l] ELSE t[k][j]
      <3>. HIDE DEF r
      <3>1. \A j \in 1 .. l - 1 :
              SwapRemove(t[k], r)[j] = IF j = r THEN t[k][l] ELSE t[k][j]
        BY <2>2, SwapRemoveProps
      <3>. QED
        BY <2>3, <3>1, Zenon
    <2>5. Gone(k + 1) = Gone(k) \cup {r}
      <3>1. \A j \in Int : j \in m + 1 - (k + 1) .. m <=> j \in m + 1 - k .. m \/ j = m - k
        BY <1>1, <2>1
      <3>2. m \in Nat /\ k \in Nat
        BY <1>1
      <3>3. m + 1 - (k + 1) .. m = (m + 1 - k .. m) \cup {m - k}
        BY <3>1, <3>2
      <3>4. is[m - k] = r
        OBVIOUS
      <3>. HIDE DEF r
      <3>. QED
        BY <3>3, <3>4
    <2>6. \A g \in Gone(k) : g > r /\ g \in Nat
      <3>. SUFFICES ASSUME NEW h \in m + 1 - k .. m PROVE is[h] > r /\ is[h] \in Nat
        OBVIOUS
      <3>1. h \in 1 .. m /\ m - k < h
        BY <1>1, <2>1
      <3>2. is[m - k] < is[h] /\ is[h] \in 1 .. Len(s)
        BY <1>1, <1>4, <2>1, <3>1
      <3>. QED
        BY <2>2, <3>2
    <2>. HIDE DEF r, l, u, Gone
    <2>7. ASSUME NEW j \in 1 .. l - 1
          PROVE  \E i \in j .. Len(s) : u[j] = s[i] /\ i \notin Gone(k) /\ i # r
      <3>1. CASE j < r
        <4>1. j \in j .. Len(s) /\ j \in 1 .. r /\ j # r
          BY <2>2, <3>1
        <4>2. j \notin Gone(k)
          BY <2>2, <2>6, <3>1
        <4>. QED
          BY <2>2, <2>4, <4>1, <4>2
      <3>2. CASE j = r
        <4>1. l \in 1 .. Len(s) - k
          BY <2>2
        <4>2. PICK i \in l .. Len(s) : t[k][l] = s[i] /\ i \notin Gone(k)
          BY <2>1, <4>1
        <4>3. i \in j .. Len(s) /\ i # r
          BY <2>2, <3>2, <4>2
        <4>. QED
          BY <2>4, <3>2, <4>2, <4>3
      <3>3. CASE j > r
        <4>1. j \in 1 .. Len(s) - k
          BY <2>2
        <4>2. PICK i \in j .. Len(s) : t[k][j] = s[i] /\ i \notin Gone(k)
          BY <2>1, <4>1
        <4>3. i # r /\ j # r
          BY <2>2, <3>3, <4>2
        <4>. QED
          BY <2>4, <4>2, <4>3
      <3>. QED
        BY <2>2, <3>1, <3>2, <3>3
    <2>8. Len(s) - (k + 1) = l - 1
      BY <1>1, <2>2
    <2>9. \A j \in 1 .. Len(s) - (k + 1) : From(k + 1, j)
      BY <2>5, <2>7, <2>8 DEF u
    <2>. HIDE DEF From
    <2>. QED
      BY <2>1, <2>9
  <1>7. 0 .. m \subseteq T
    <2>. HIDE DEF T
    <2>. QED
      BY <1>1, <1>5, <1>6, BoundedInduction
  <1>8. \A j \in 1 .. Len(s) - m : From(m, j)
    <2>. HIDE DEF From
    <2>. QED
      BY <1>1, <1>7
  <1>9. Gone(m) = {is[h] : h \in 1 .. m}
    BY <1>1
  <1>10. \A j \in 1 .. Len(s) - m : \A i \in j .. Len(s) : i \in 1 .. Len(s)
    BY <1>1
  <1>. HIDE DEF Gone
  <1>11. ASSUME NEW j \in 1 .. Len(s) - m
         PROVE  \E i \in 1 .. Len(s) : /\ RemoveProcessed(s, is)[j] = s[i]
                                      /\ \A h \in 1 .. m : is[h] # i
    <2>1. PICK i \in j .. Len(s) : t[m][j] = s[i] /\ i \notin Gone(m)
      BY <1>8
    <2>2. i \in 1 .. Len(s) /\ RemoveProcessed(s, is)[j] = s[i]
      BY <1>2, <1>10, <2>1
    <2>3. \A h \in 1 .. m : is[h] # i
      BY <1>9, <2>1
    <2>. QED
      BY <2>2, <2>3
  <1>. QED
    BY <1>11 DEF m

(* The signatures found among the first n entries.                         *)
Parsed(s) ==
  CHOOSE parsed : parsed = [n \in 0 .. Len(s) |->
    IF n = 0 THEN <<>>
    ELSE IF s[n].parses THEN Append(parsed[n - 1], s[n].sig)
    ELSE parsed[n - 1]]

LEMMA ParsedDef ==
  ASSUME NEW s, Len(s) \in Nat
  PROVE  /\ ParsedSigs(s) = Parsed(s)[Len(s)]
         /\ Parsed(s)[0] = <<>>
         /\ \A n \in 1 .. Len(s) :
              Parsed(s)[n] = IF s[n].parses THEN Append(Parsed(s)[n - 1], s[n].sig)
                                            ELSE Parsed(s)[n - 1]
  <1>. DEFINE m == Len(s)
              Step(t, n) == IF s[n].parses THEN Append(t, s[n].sig) ELSE t
              Upto(k, f) == f = [n \in 0 .. k |-> IF n = 0 THEN <<>> ELSE Step(f[n - 1], n)]
              S == {k \in Nat : \E f : Upto(k, f)}
  <1>. HIDE DEF Step
  <1>1. 0 .. m \subseteq S
    <2>1. 0 \in S
      <3>1. Upto(0, [n \in 0 .. 0 |-> <<>>])
        OBVIOUS
      <3>. QED
        BY <3>1
    <2>2. ASSUME NEW k \in 0 .. m - 1, k \in S
          PROVE  k + 1 \in S
      <3>1. PICK f : Upto(k, f)
        BY <2>2
      <3>. DEFINE g == [n \in 0 .. k + 1 |-> IF n = k + 1 THEN Step(f[k], n) ELSE f[n]]
      <3>2. k \in Nat
        OBVIOUS
      <3>3. \A n \in 0 .. k : g[n] = f[n]
        BY <3>2
      <3>4. \A n \in 0 .. k + 1 : g[n] = IF n = 0 THEN <<>> ELSE Step(g[n - 1], n)
        <4>. TAKE n \in 0 .. k + 1
        <4>1. CASE n = k + 1
          BY <3>2, <3>3, <4>1
        <4>2. CASE n \in 0 .. k
          BY <3>1, <3>2, <3>3, <4>2
        <4>. QED
          BY <3>2, <4>1, <4>2
      <3>5. Upto(k + 1, g)
        BY <3>4
      <3>. HIDE DEF g, Upto
      <3>6. \E h : Upto(k + 1, h)
        BY <3>5
      <3>. QED
        BY <3>2, <3>6
    <2>. HIDE DEF S
    <2>. QED
      BY <2>1, <2>2, BoundedInduction
  <1>2. \E f : Upto(m, f)
    BY <1>1
  <1>3. Upto(m, Parsed(s))
    BY <1>2, Zenon DEF Parsed, Step
  <1>4. ParsedSigs(s) = Parsed(s)[m]
    BY DEF ParsedSigs, Parsed
  <1>. HIDE DEF m
  <1>5. m \in Nat
    BY DEF m
  <1>6. \A n \in 0 .. m : Parsed(s)[n] = IF n = 0 THEN <<>> ELSE Step(Parsed(s)[n - 1], n)
    BY <1>3
  <1>. QED
    BY <1>4, <1>5, <1>6 DEF Step, m

(* At most one signature is listed for each entry, and as long as the      *)
(* entries so far parse the i-th signature is that of the i-th entry.      *)
LEMMA ParsedSigsProps ==
  ASSUME NEW s \in Seq(Entry)
  PROVE  /\ ParsedSigs(s) \in Seq(Sigs)
         /\ Len(ParsedSigs(s)) =< Len(s)
         /\ \A i \in 1 .. Len(s) :
              (\A j \in 1 .. i : s[j].parses) =>
                i =< Len(ParsedSigs(s)) /\ ParsedSigs(s)[i] = s[i].sig
  <1>. DEFINE m == Len(s)
              t == Parsed(s)
              All(i) == \A j \in 1 .. i : s[j].parses
              Same(k) == \A i \in 1 .. k : All(i) => i =< Len(t[k]) /\ t[k][i] = s[i].sig
              Good(k) == /\ t[k] \in Seq(Sigs)
                         /\ Len(t[k]) =< k
                         /\ Same(k)
              T == {k \in 0 .. m : Good(k)}
  <1>1. m \in Nat /\ \A i \in 1 .. m : s[i].sig \in Sigs
    <2>1. m \in Nat /\ \A i \in 1 .. m : s[i] \in Entry
      BY LenProperties, ElementOfSeq
    <2>2. \A e \in Entry : e.sig \in Sigs
      BY DEF Entry
    <2>. QED
      BY <2>1, <2>2
  <1>2. /\ ParsedSigs(s) = t[m]
        /\ t[0] = <<>>
        /\ \A n \in 1 .. m :
             t[n] = IF s[n].parses THEN Append(t[n - 1], s[n].sig) ELSE t[n - 1]
    BY <1>1, ParsedDef
  <1>. HIDE DEF m, t
  <1>3. 0 \in T
    <2>1. <<>> \in Seq(Sigs) /\ Len(<<>>) = 0
      BY EmptySeq
    <2>2. t[0] \in Seq(Sigs) /\ Len(t[0]) = 0
      BY <1>2, <2>1
    <2>3. Same(0)
      OBVIOUS
    <2>. HIDE DEF Same
    <2>. QED
      BY <1>1, <2>2, <2>3
  <1>4. ASSUME NEW k \in 0 .. m - 1, k \in T
        PROVE  k + 1 \in T
    <2>1. Good(k)
      <3>. HIDE DEF Good
      <3>. QED
        BY <1>4
    <2>2. k \in Nat /\ k + 1 \in 1 .. m /\ k + 1 - 1 = k
      BY <1>1
    <2>3. t[k + 1] = IF s[k + 1].parses THEN Append(t[k], s[k + 1].sig) ELSE t[k]
      <3>1. t[k + 1] = IF s[k + 1].parses THEN Append(t[k + 1 - 1], s[k + 1].sig)
                                          ELSE t[k + 1 - 1]
        BY <1>2, <2>2
      <3>. QED
        BY <2>2, <3>1
    <2>4. Len(t[k]) \in Nat /\ \A i \in 1 .. k + 1 : i \in 1 .. k \/ i = k + 1
      BY <2>1, <2>2, LenProperties
    <2>5. Good(k + 1)
      <3>1. CASE s[k + 1].parses
        <4>. DEFINE e == s[k + 1].sig
        <4>1. e \in Sigs /\ t[k + 1] = Append(t[k], e)
          BY <1>1, <2>2, <2>3, <3>1
        <4>. HIDE DEF e
        <4>2. /\ t[k + 1] \in Seq(Sigs)
              /\ Len(t[k + 1]) = Len(t[k]) + 1
              /\ \A i \in 1 .. Len(t[k]) : t[k + 1][i] = t[k][i]
              /\ t[k + 1][Len(t[k]) + 1] = e
          BY <2>1, <4>1, AppendProperties
        <4>3. ASSUME NEW i \in 1 .. k, All(i)
              PROVE  i =< Len(t[k + 1]) /\ t[k + 1][i] = s[i].sig
          <5>1. i =< Len(t[k]) /\ t[k][i] = s[i].sig
            BY <2>1, <4>3
          <5>. QED
            BY <2>4, <4>2, <5>1
        <4>4. ASSUME All(k + 1)
              PROVE  Len(t[k]) = k
          <5>1. CASE k = 0
            BY <2>1, <2>4, <5>1
          <5>2. CASE k \in 1 .. k
            <6>1. All(k)
              BY <2>2, <4>4
            <6>2. k =< Len(t[k])
              BY <2>1, <5>2, <6>1
            <6>. QED
              BY <2>1, <2>2, <2>4, <6>2
          <5>. QED
            BY <2>2, <5>1, <5>2
        <4>5. Same(k + 1)
          <5>. HIDE DEF All
          <5>. SUFFICES ASSUME NEW i \in 1 .. k + 1, All(i)
                        PROVE  i =< Len(t[k + 1]) /\ t[k + 1][i] = s[i].sig
            OBVIOUS
          <5>1. CASE i = k + 1
            BY <2>2, <4>2, <4>4, <5>1 DEF e
          <5>. QED
            BY <2>4, <4>3, <5>1
        <4>. HIDE DEF Same
        <4>. QED
          BY <2>1, <2>2, <2>4, <4>2, <4>5
      <3>2. CASE ~s[k + 1].parses
        <4>1. t[k + 1] = t[k] /\ ~All(k + 1)
          BY <2>2, <2>3, <3>2
        <4>. HIDE DEF All
        <4>2. Same(k + 1)
          BY <2>1, <2>4, <4>1
        <4>. HIDE DEF Same
        <4>. QED
          BY <2>1, <2>2, <2>4, <4>1, <4>2
      <3>. QED
        BY <3>1, <3>2
    <2>. HIDE DEF Good
    <2>. QED
      BY <2>2, <2>5
  <1>5. Good(m)
    <2>1. 0 .. m \subseteq T
      <3>. HIDE DEF T
      <3>. QED
        BY <1>1, <1>3, <1>4, BoundedInduction
    <2>. HIDE DEF Good
    <2>. QED
      BY <1>1, <2>1
  <1>. QED
    BY <1>2, <1>5 DEF m

-----------------------------------------------------------------------------

(* The sum of the amounts of the first n submissions.                      *)
Sum(amounts) ==
  CHOOSE sum : sum = [n \in 0 .. MaxTries |->
    IF n = 0 THEN 0 ELSE sum[n - 1] + amounts[n]]

LEMMA SumDef ==
  ASSUME NEW a
  PROVE  /\ SumOf(a) = Sum(a)[MaxTries]
         /\ Sum(a)[0] = 0
         /\ \A n \in 1 .. MaxTries : Sum(a)[n] = Sum(a)[n - 1] + a[n]
  <1>. DEFINE Step(t, n) == t + a[n]
              Upto(k, f) == f = [n \in 0 .. k |-> IF n = 0 THEN 0 ELSE Step(f[n - 1], n)]
              S == {k \in Nat : \E f : Upto(k, f)}
  <1>. HIDE DEF Step
  <1>1. 0 .. MaxTries \subseteq S
    <2>1. 0 \in S
      <3>1. Upto(0, [n \in 0 .. 0 |-> 0])
        OBVIOUS
      <3>. QED
        BY <3>1
    <2>2. ASSUME NEW k \in 0 .. MaxTries - 1, k \in S
          PROVE  k + 1 \in S
      <3>1. PICK f : Upto(k, f)
        BY <2>2
      <3>. DEFINE g == [n \in 0 .. k + 1 |-> IF n = k + 1 THEN Step(f[k], n) ELSE f[n]]
      <3>2. k \in Nat
        OBVIOUS
      <3>3. \A n \in 0 .. k : g[n] = f[n]
        BY <3>2
      <3>4. \A n \in 0 .. k + 1 : g[n] = IF n = 0 THEN 0 ELSE Step(g[n - 1], n)
        <4>. TAKE n \in 0 .. k + 1
        <4>1. CASE n = k + 1
          BY <3>2, <3>3, <4>1
        <4>2. CASE n \in 0 .. k
          BY <3>1, <3>2, <3>3, <4>2
        <4>. QED
          BY <3>2, <4>1, <4>2
      <3>5. Upto(k + 1, g)
        BY <3>4
      <3>. HIDE DEF g, Upto
      <3>6. \E h : Upto(k + 1, h)
        BY <3>5
      <3>. QED
        BY <3>2, <3>6
    <2>. HIDE DEF S
    <2>. QED
      BY <2>1, <2>2, Workload, BoundedInduction
  <1>2. \E f : Upto(MaxTries, f)
    BY <1>1, Workload
  <1>3. Upto(MaxTries, Sum(a))
    BY <1>2, Zenon DEF Sum, Step
  <1>4. SumOf(a) = Sum(a)[MaxTries]
    BY DEF SumOf, Sum
  <1>5. \A n \in 0 .. MaxTries : Sum(a)[n] = IF n = 0 THEN 0 ELSE Step(Sum(a)[n - 1], n)
    BY <1>3
  <1>. QED
    BY <1>4, <1>5, Workload DEF Step

LEMMA SumOfZeros ==
  ASSUME NEW a, \A s \in Sigs : a[s] = 0
  PROVE  SumOf(a) = 0
  <1>. DEFINE T == {k \in 0 .. MaxTries : Sum(a)[k] = 0}
  <1>1. MaxTries \in Nat
    BY Workload
  <1>2. 0 \in T
    BY <1>1, SumDef
  <1>3. ASSUME NEW k \in 0 .. MaxTries - 1, k \in T
        PROVE  k + 1 \in T
    <2>1. k + 1 \in 1 .. MaxTries /\ k + 1 - 1 = k /\ Sum(a)[k] = 0
      BY <1>1, <1>3
    <2>2. Sum(a)[k + 1] = Sum(a)[k + 1 - 1] + a[k + 1] /\ a[k + 1] = 0
      BY <2>1, SumDef DEF Sigs
    <2>. QED
      BY <2>1, <2>2
  <1>4. 0 .. MaxTries \subseteq T
    <2>. HIDE DEF T
    <2>. QED
      BY <1>1, <1>2, <1>3, BoundedInduction
  <1>. QED
    BY <1>1, <1>4, SumDef

(* One more amount is one more summand.                                    *)
LEMMA SumOfUpdate ==
  ASSUME NEW a \in [Sigs -> Int], NEW b \in [Sigs -> Int], NEW s \in Sigs,
         \A r \in Sigs : r # s => b[r] = a[r]
  PROVE  SumOf(a) \in Int /\ SumOf(b) = SumOf(a) + (b[s] - a[s])
  <1>. DEFINE T == {k \in 0 .. MaxTries :
                      /\ Sum(a)[k] \in Int
                      /\ Sum(b)[k] = Sum(a)[k] + (IF k < s THEN 0 ELSE b[s] - a[s])}
  <1>1. MaxTries \in Nat /\ s \in 1 .. MaxTries
    BY Workload DEF Sigs
  <1>2. 0 \in T
    BY <1>1, SumDef
  <1>3. ASSUME NEW k \in 0 .. MaxTries - 1, k \in T
        PROVE  k + 1 \in T
    <2>1. k + 1 \in Sigs /\ k + 1 \in 1 .. MaxTries /\ k + 1 - 1 = k
      BY <1>1 DEF Sigs
    <2>2. Sum(a)[k] \in Int /\ Sum(b)[k] = Sum(a)[k] + (IF k < s THEN 0 ELSE b[s] - a[s])
      BY <1>3
    <2>3. Sum(a)[k + 1] = Sum(a)[k] + a[k + 1] /\ Sum(b)[k + 1] = Sum(b)[k] + b[k + 1]
      <3>1. /\ Sum(a)[k + 1] = Sum(a)[k + 1 - 1] + a[k + 1]
            /\ Sum(b)[k + 1] = Sum(b)[k + 1 - 1] + b[k + 1]
        BY <2>1, SumDef
      <3>. QED
        BY <2>1, <3>1
    <2>4. a[k + 1] \in Int /\ b[k + 1] \in Int /\ a[s] \in Int /\ b[s] \in Int
      BY <2>1
    <2>5. Sum(b)[k + 1] = Sum(a)[k + 1] + (IF k + 1 < s THEN 0 ELSE b[s] - a[s])
      <3>1. CASE k + 1 = s
        BY <1>1, <2>2, <2>3, <2>4, <3>1
      <3>2. CASE k + 1 # s
        <4>1. b[k + 1] = a[k + 1] /\ (k < s <=> k + 1 < s)
          BY <1>1, <2>1, <3>2
        <4>. QED
          BY <2>2, <2>3, <2>4, <4>1
      <3>. QED
        BY <3>1, <3>2
    <2>. QED
      BY <2>1, <2>2, <2>3, <2>4, <2>5
  <1>4. 0 .. MaxTries \subseteq T
    <2>. HIDE DEF T
    <2>. QED
      BY <1>1, <1>2, <1>3, BoundedInduction
  <1>5. /\ Sum(a)[MaxTries] \in Int
        /\ Sum(b)[MaxTries]
             = Sum(a)[MaxTries] + (IF MaxTries < s THEN 0 ELSE b[s] - a[s])
    BY <1>1, <1>4
  <1>. QED
    BY <1>1, <1>5, SumDef

-----------------------------------------------------------------------------
(* The inductive invariants.                                               *)

ChainEntry == [st : {"unsent", "flying", "processed", "final", "old", "expired"},
               out : Outcomes \cup {NoOutcome}, seen : SUBSET Outcomes]
Row == [st : {"absent", "submitted", "confirmed"}, est : Int, ok : BOOLEAN, pnl : Int]

(* A signature in use is that of a submission made or about to be made.    *)
LoopTyped ==
  /\ stage \in {"idle", "checked", "fallback", "accepted", "garbled", "rejected"}
  /\ cur \in Int /\ sig \in Nat
  /\ sig =< tries + 1
  /\ cur > 0 => sig > 0
  /\ stage # "idle" => cur > 0

(* The indices to remove are listed in ascending order and precede the one *)
(* being processed; outside process_statuses there are none.               *)
TaskTyped ==
  /\ chan \in Seq(Entry) /\ pending \in Seq(Entry)
  /\ phase \in {"collect", "query", "process"}
  /\ batch \in Seq(Sigs) /\ Len(batch) =< Len(pending)
  /\ statuses \in Seq([known : BOOLEAN, ok : BOOLEAN])
  /\ phase = "process" => Len(statuses) = Len(batch)
  /\ phase # "process" => statuses = <<>> /\ toRemove = <<>>
  /\ idx \in 1 .. Len(statuses) + 1
  /\ toRemove \in Seq(1 .. Len(statuses)) /\ Increasing(toRemove)
  /\ \A k \in 1 .. Len(toRemove) : toRemove[k] < idx

StoreTyped ==
  /\ chain \in [Sigs -> ChainEntry]
  /\ db \in [Sigs -> Row]
  /\ settled \subseteq Sigs

Typed == LoopTyped /\ TaskTyped /\ StoreTyped

(* Entry i of the pending list has been booked in this round. *)
Removed(i) == \E k \in 1 .. Len(toRemove) : toRemove[k] = i

(* Table d has the row of entry e, one of the first n submissions.         *)
Awaits(d, n, e) == e.sig =< n /\ d[e.sig].st = "submitted" /\ d[e.sig].est = e.est

(* The transaction being built has the next number ...                     *)
Staged ==
  /\ approved <=> stage # "idle"
  /\ stage # "idle" => sig = tries + 1

(* ... which has no row yet; no two entries share a number, and the        *)
(* tracker's open trades are the entries still to be booked.               *)
Queued ==
  /\ \A s \in Sigs : s > tries => db[s].st = "absent"
  /\ \A i \in 1 .. Len(pending) : pending[i].sig =< tries
  /\ \A i, j \in 1 .. Len(pending) : i # j => pending[i].sig # pending[j].sig
  /\ \A i, j \in 1 .. Len(chan) : i # j => chan[i].sig # chan[j].sig
  /\ \A i \in 1 .. Len(pending), j \in 1 .. Len(chan) : pending[i].sig # chan[j].sig
  /\ \A i \in 1 .. Len(pending) : ~Removed(i) => Awaits(db, tries, pending[i])
  /\ \A j \in 1 .. Len(chan) : Awaits(db, tries, chan[j])
  /\ open = Len(pending) - Len(toRemove) + Len(chan)

(* What was booked stays in the table, and adds up.                        *)
Totalled ==
  /\ \A s \in settled : db[s].st = "confirmed"
  /\ TotalMatchesDb

QueuedOnce == Staged /\ Queued /\ Totalled

(* What a block did is remembered; without reorganisations nothing else is.*)
Remembered ==
  \A s \in Sigs :
    /\ OnChain(s) => chain[s].out \in chain[s].seen
    /\ ~Reorgs /\ ~OnChain(s) => chain[s].seen = {}

(* Table d has a row for entry e, with its estimate.                       *)
Filed(d, e) == d[e.sig].st # "absent" /\ d[e.sig].est = e.est

(* However often a transaction is sent, it has one estimate.               *)
Recorded ==
  /\ \A s \in Sigs : s > tries => db[s].st = "absent"
  /\ sig \in Sigs /\ db[sig].st # "absent" => db[sig].est = cur
  /\ \A i \in 1 .. Len(pending) : Filed(db, pending[i])
  /\ \A j \in 1 .. Len(chan) : Filed(db, chan[j])

(* A status is what some block did with the signature it was asked for.    *)
Polled ==
  /\ phase # "collect" => batch = ParsedSigs(pending)
  /\ \A i \in 1 .. Len(statuses) :
       statuses[i].known => \E o \in chain[batch[i]].seen : o.ok = statuses[i].ok

Landed == Remembered /\ Recorded /\ Polled

-----------------------------------------------------------------------------
(* Types.                                                                  *)

(* What is left after an eviction is the tail of the list.                 *)
LEMMA EvictProps ==
  ASSUME NEW S, NEW s \in Seq(S)
  PROVE  /\ Evict(s) \in Seq(S)
         /\ Len(Evict(s)) \in 0 .. Len(s)
         /\ \A j \in 1 .. Len(Evict(s)) : Evict(s)[j] = s[Len(s) - Len(Evict(s)) + j]
  <1>1. Len(s) \in Nat /\ \A j \in 1 .. Len(s) : s[j] \in S
    BY LenProperties, ElementOfSeq
  <1>2. CASE Len(s) > Cap
    <2>. DEFINE l == Len(s)
                a == l - Keep + 1
    <2>1. /\ l \in Nat /\ a \in Int /\ Keep \in Nat /\ Keep < l
          /\ \A i \in a .. l : s[i] \in S
      BY <1>1, <1>2, Queues
    <2>2. Evict(s) = SubSeq(s, a, l)
      BY <1>2 DEF Evict
    <2>. HIDE DEF l
    <2>3. (IF a <= l THEN l - a + 1 ELSE 0) = Keep /\ l - a + 1 = Keep
      BY <2>1
    <2>4. \A j \in 1 .. Keep : a + j - 1 = l - Keep + j
      BY <2>1
    <2>. HIDE DEF a
    <2>5. /\ SubSeq(s, a, l) \in Seq(S)
          /\ Len(SubSeq(s, a, l)) = IF a <= l THEN l - a + 1 ELSE 0
          /\ \A j \in 1 .. l - a + 1 : SubSeq(s, a, l)[j] = s[a + j - 1]
      BY <2>1, SubSeqProperties
    <2>6. /\ Evict(s) \in Seq(S)
          /\ Len(Evict(s)) = Keep
          /\ \A j \in 1 .. Keep : Evict(s)[j] = s[l - Keep + j]
      BY <2>2, <2>3, <2>4, <2>5
    <2>. QED
      BY <2>1, <2>6 DEF l
  <1>3. CASE ~(Len(s) > Cap)
    <2>1. Evict(s) = s /\ \A j \in 1 .. Len(s) : Len(s) - Len(s) + j = j
      BY <1>1, <1>3 DEF Evict
    <2>. QED
      BY <1>1, <2>1
  <1>. QED
    BY <1>2, <1>3

LEMMA EndRoundTyped ==
  ASSUME NEW remaining \in Seq(Entry), EndRound(remaining), chan' \in Seq(Entry)
  PROVE  TaskTyped'
  <1>1. pending' \in Seq(Entry) /\ Len(pending') \in Nat
    BY EvictProps, LenProperties DEF EndRound
  <1>2. /\ phase' = "collect" /\ batch' = <<>> /\ statuses' = <<>>
        /\ idx' = 1 /\ toRemove' = <<>>
    BY DEF EndRound
  <1>3. \A S : <<>> \in Seq(S) /\ Len(<<>>) = 0
    BY EmptySeq
  <1>4. Increasing(<<>>)
    BY <1>3 DEF Increasing
  <1>5. Len(batch') = 0 /\ Len(statuses') = 0 /\ Len(toRemove') = 0
    BY <1>2, <1>3
  <1>. QED
    BY <1>1, <1>2, <1>3, <1>4, <1>5 DEF TaskTyped

LEMMA InitTyped ==
  ASSUME PipelineInit
  PROVE  Typed
  <1>1. LoopTyped
    BY DEF PipelineInit, Init, LoopTyped
  <1>2. TaskTyped
    <2>1. \A S : <<>> \in Seq(S) /\ Len(<<>>) = 0
      BY EmptySeq
    <2>2. Increasing(<<>>)
      BY <2>1 DEF Increasing
    <2>3. /\ chan = <<>> /\ pending = <<>> /\ phase = "collect" /\ batch = <<>>
          /\ statuses = <<>> /\ idx = 1 /\ toRemove = <<>>
      BY DEF PipelineInit
    <2>4. Len(batch) = 0 /\ Len(statuses) = 0 /\ Len(toRemove) = 0 /\ Len(pending) = 0
      BY <2>1, <2>3
    <2>. QED
      BY <2>1, <2>2, <2>3, <2>4 DEF TaskTyped
  <1>3. StoreTyped
    <2>1. Unsent \in ChainEntry /\ NoRow \in Row
      BY DEF Unsent, NoRow, ChainEntry, Row
    <2>. QED
      BY <2>1 DEF PipelineInit, StoreTyped
  <1>. QED
    BY <1>1, <1>2, <1>3 DEF Typed

LEMMA DeliverTyped ==
  ASSUME StoreTyped, NEW s \in Sigs, Deliver(s)
  PROVE  chain' \in [Sigs -> ChainEntry]
  <1>1. chain[s] \in ChainEntry
    BY DEF StoreTyped
  <1>2. [chain[s] EXCEPT !.st = "flying"] \in ChainEntry
    BY <1>1 DEF ChainEntry
  <1>. QED
    BY <1>2 DEF StoreTyped, Deliver

(* A submission that is about to be made has a number in bounds.           *)
LEMMA SigInBounds ==
  ASSUME TypeOK, LoopTyped, stage # "idle", tries < MaxTries
  PROVE  sig \in Sigs
  BY Workload DEF TypeOK, LoopTyped, Sigs

LEMMA LoopKeepsTyped ==
  ASSUME TypeOK, Typed, Loop
  PROVE  Typed'
  <1>. USE DEF Typed
  <1>1. tries \in Nat
    BY DEF TypeOK
  <1>2. ASSUME NEW opp \in Opps, Consider(opp)
        PROVE  Typed'
    <2>1. tries' = tries /\ stage = "idle"
      BY <1>2 DEF Consider, Check
    <2>2. TaskTyped' /\ StoreTyped'
      BY <1>2 DEF Consider, confVars, TaskTyped, StoreTyped
    <2>3. CASE approved'
      <3>1. opp.net \in Int /\ opp.net > 0
        <4>1. opp \in [net : Int, invest : Int]
          BY Workload
        <4>2. WithinSize(opp)
          BY <1>2, <2>3 DEF Consider, Check, PassesLimits
        <4>. QED
          BY <4>1, <4>2, RiskConfig DEF WithinSize
      <3>2. /\ stage' = "checked" /\ cur' = opp.net
            /\ sig' = tries + 1 \/ (cur = opp.net /\ sig' = sig)
        BY <1>2, <2>3 DEF Consider
      <3>. QED
        BY <1>1, <2>1, <2>2, <3>1, <3>2 DEF LoopTyped
    <2>4. CASE ~approved'
      <3>1. stage' = "idle" /\ cur' = cur /\ sig' = sig
        BY <1>2, <2>4 DEF Consider
      <3>. QED
        BY <2>1, <2>2, <3>1 DEF LoopTyped
    <2>. QED
      BY <2>3, <2>4
  <1>3. CASE Skip
    <2>1. tries' = tries
      BY <1>3 DEF Skip, Abandon
    <2>. QED
      BY <1>3, <2>1 DEF Skip, confVars, LoopTyped, TaskTyped, StoreTyped
  <1>4. CASE JitoAccepts \/ JitoFails \/ RpcAccepts \/ RpcFails
    <2>1. /\ stage # "idle" /\ tries < MaxTries
          /\ Sending
          /\ stage' \in {"garbled", "accepted", "fallback", "rejected"}
          /\ Deliver(sig) \/ UNCHANGED chain
      BY <1>4 DEF JitoAccepts, JitoFails, RpcAccepts, RpcFails
    <2>2. sig \in Sigs
      BY <2>1, SigInBounds
    <2>3. chain' \in [Sigs -> ChainEntry]
      BY <2>1, <2>2, DeliverTyped DEF StoreTyped
    <2>. QED
      BY <2>1, <2>3 DEF Sending, vars, confVars, LoopTyped, TaskTyped, StoreTyped
  <1>5. CASE RecordAccepted
    <2>1. /\ tries < MaxTries /\ tries' = tries + 1 /\ stage # "idle"
      BY <1>5 DEF RecordAccepted, Submit
    <2>2. sig \in Sigs
      BY <2>1, SigInBounds
    <2>3. LoopTyped'
      BY <1>1, <1>5, <2>1 DEF RecordAccepted, LoopTyped
    <2>4. chan' \in Seq(Entry)
      <3>1. [sig |-> sig, est |-> cur, parses |-> stage = "accepted"] \in Entry
        BY <2>2 DEF LoopTyped, Entry
      <3>. QED
        BY <1>5, <3>1, AppendProperties DEF RecordAccepted, TaskTyped
    <2>5. TaskTyped'
      BY <1>5, <2>4 DEF RecordAccepted, TaskTyped
    <2>6. db' \in [Sigs -> Row]
      <3>1. db[sig] \in Row /\ cur \in Int
        BY <2>2 DEF StoreTyped, LoopTyped
      <3>2. SubmittedRow(db[sig], cur) \in Row
        BY <3>1 DEF SubmittedRow, Row
      <3>. QED
        BY <1>5, <3>2 DEF RecordAccepted, StoreTyped
    <2>. QED
      BY <1>5, <2>3, <2>5, <2>6 DEF RecordAccepted, StoreTyped
  <1>6. CASE RecordFailure
    <2>1. tries' = tries + 1
      BY <1>6 DEF RecordFailure, SubmitFails
    <2>. QED
      BY <1>1, <1>6, <2>1 DEF RecordFailure, confVars, LoopTyped, TaskTyped, StoreTyped
  <1>. QED
    BY <1>2, <1>3, <1>4, <1>5, <1>6 DEF Loop

LEMMA NetworkKeepsTyped ==
  ASSUME Typed, Network
  PROVE  Typed'
  <1>1. PICK s \in Sigs : Land(s) \/ Finalize(s) \/ Forget(s) \/ Reorg(s) \/ Expire(s)
    BY DEF Network
  <1>2. chain \in [Sigs -> ChainEntry] /\ chain[s] \in ChainEntry
    BY DEF Typed, StoreTyped
  <1>3. \A o \in Outcomes :
          [st |-> "processed", out |-> o, seen |-> chain[s].seen \cup {o}] \in ChainEntry
    BY <1>2 DEF ChainEntry
  <1>4. [st |-> "flying", out |-> NoOutcome, seen |-> chain[s].seen] \in ChainEntry
    BY <1>2 DEF ChainEntry
  <1>5. /\ [chain[s] EXCEPT !.st = "final"] \in ChainEntry
        /\ [chain[s] EXCEPT !.st = "old"] \in ChainEntry
        /\ [chain[s] EXCEPT !.st = "expired"] \in ChainEntry
    BY <1>2 DEF ChainEntry
  <1>6. chain' \in [Sigs -> ChainEntry]
    BY <1>1, <1>2, <1>3, <1>4, <1>5 DEF Land, Finalize, Forget, Reorg, Expire
  <1>7. OnlyChain
    BY <1>1 DEF Land, Finalize, Forget, Reorg, Expire
  <1>. QED
    BY <1>6, <1>7 DEF OnlyChain, vars, confVars, Typed, LoopTyped, TaskTyped, StoreTyped

(* The end of a round leaves the event loop alone.                         *)
LEMMA EndRoundKeepsTyped ==
  ASSUME Typed, NEW remaining \in Seq(Entry), EndRound(remaining), chan' \in Seq(Entry)
  PROVE  Typed'
  <1>1. tries' = tries
    BY DEF EndRound, Drop, vars
  <1>2. LoopTyped' /\ StoreTyped'
    BY <1>1 DEF EndRound, Typed, LoopTyped, StoreTyped
  <1>. QED
    BY <1>2, EndRoundTyped DEF Typed

LEMMA TaskKeepsTyped ==
  ASSUME Typed, Task
  PROVE  Typed'
  <1>1. /\ chan \in Seq(Entry) /\ pending \in Seq(Entry) /\ Len(pending) \in Nat
        /\ batch \in Seq(Sigs) /\ Len(batch) \in Nat
        /\ statuses \in Seq([known : BOOLEAN, ok : BOOLEAN]) /\ Len(statuses) \in Nat
        /\ toRemove \in Seq(1 .. Len(statuses)) /\ Len(toRemove) \in Nat
    BY LenProperties DEF Typed, TaskTyped
  <1>2. CASE Collect
    <2>. DEFINE all == pending \o chan
    <2>1. all \in Seq(Entry)
      BY <1>1, ConcatProperties
    <2>2. chan' = <<>> /\ chan' \in Seq(Entry)
      BY <1>2, EmptySeq DEF Collect
    <2>3. CASE ParsedSigs(all) = <<>>
      <3>1. EndRound(all)
        BY <1>2, <2>3 DEF Collect
      <3>. QED
        BY <2>1, <2>2, <3>1, EndRoundKeepsTyped
    <2>4. CASE ParsedSigs(all) # <<>>
      <3>1. /\ pending' = all /\ batch' = ParsedSigs(all) /\ phase' = "query"
            /\ UNCHANGED <<vars, stage, cur, sig, chain, db, settled,
                           statuses, idx, toRemove>>
        BY <1>2, <2>4 DEF Collect
      <3>2. batch' \in Seq(Sigs) /\ Len(batch') =< Len(pending')
        BY <2>1, <3>1, ParsedSigsProps
      <3>3. statuses = <<>> /\ toRemove = <<>>
        BY <1>2 DEF Collect, Typed, TaskTyped
      <3>. HIDE DEF all
      <3>4. TaskTyped'
        BY <2>1, <2>2, <3>1, <3>2, <3>3 DEF Typed, TaskTyped
      <3>. QED
        BY <3>1, <3>4 DEF vars, Typed, LoopTyped, StoreTyped
    <2>. QED
      BY <2>3, <2>4
  <1>3. CASE QueryAnswers
    <2>. DEFINE answer == [i \in DOMAIN batch |->
                             [known |-> Recent(batch[i]), ok |-> chain[batch[i]].out.ok]]
    <2>1. /\ statuses' = answer /\ phase' = "process" /\ idx' = 1 /\ toRemove' = toRemove
          /\ toRemove = <<>>
          /\ UNCHANGED <<vars, stage, cur, sig, chain, db, settled, chan, pending, batch>>
      BY <1>3 DEF QueryAnswers, Typed, TaskTyped
    <2>2. answer \in Seq([known : BOOLEAN, ok : BOOLEAN]) /\ Len(answer) = Len(batch)
      <3>1. DOMAIN batch = 1 .. Len(batch) /\ \A i \in 1 .. Len(batch) : batch[i] \in Sigs
        BY <1>1, LenProperties, ElementOfSeq
      <3>2. \A s \in Sigs : chain[s].out.ok \in BOOLEAN
        <4>1. \A o \in Outcomes \cup {NoOutcome} : o.ok \in BOOLEAN
          <5>1. \A o \in Outcomes : o \in [ok : BOOLEAN, pnl : Pnls]
            BY Queues
          <5>2. NoOutcome.ok \in BOOLEAN
            BY DEF NoOutcome
          <5>. QED
            BY <5>1, <5>2
        <4>2. \A s \in Sigs : chain[s].out \in Outcomes \cup {NoOutcome}
          BY DEF Typed, StoreTyped, ChainEntry
        <4>. QED
          BY <4>1, <4>2
      <3>3. \A i \in 1 .. Len(batch) :
              [known |-> Recent(batch[i]), ok |-> chain[batch[i]].out.ok]
                \in [known : BOOLEAN, ok : BOOLEAN]
        BY <3>1, <3>2 DEF Recent
      <3>. QED
        BY <1>1, <3>1, <3>3
    <2>3. Len(toRemove') = 0 /\ \A S : toRemove' \in Seq(S)
      BY <2>1, EmptySeq
    <2>. HIDE DEF answer
    <2>4. Len(statuses') \in Nat /\ statuses' \in Seq([known : BOOLEAN, ok : BOOLEAN])
      BY <1>1, <2>1, <2>2
    <2>5. Increasing(toRemove') /\ \A k \in 1 .. Len(toRemove') : toRemove'[k] < idx'
      BY <2>3 DEF Increasing
    <2>6. TaskTyped'
      BY <2>1, <2>2, <2>3, <2>4, <2>5 DEF Typed, TaskTyped
    <2>. QED
      BY <2>1, <2>6 DEF vars, Typed, LoopTyped, StoreTyped
  <1>4. CASE QueryFails
    BY <1>1, <1>4, EndRoundKeepsTyped DEF QueryFails
  <1>5. CASE PassOver
    <2>1. /\ idx' = idx + 1 /\ idx =< Len(statuses)
          /\ UNCHANGED <<vars, stage, cur, sig, chain, db, settled, chan, pending, phase,
                         batch, statuses, toRemove>>
      BY <1>5 DEF PassOver
    <2>2. idx' \in 1 .. Len(statuses') + 1
      BY <1>1, <2>1 DEF Typed, TaskTyped
    <2>3. \A k \in 1 .. Len(toRemove) : toRemove[k] \in Int /\ toRemove[k] < idx
      BY <1>1, ElementOfSeq DEF Typed, TaskTyped
    <2>4. \A k \in 1 .. Len(toRemove') : toRemove'[k] < idx'
      BY <2>1, <2>3 DEF Typed, TaskTyped
    <2>5. TaskTyped'
      BY <2>1, <2>2, <2>4 DEF Typed, TaskTyped
    <2>. QED
      BY <2>1, <2>5 DEF vars, Typed, LoopTyped, StoreTyped
  <1>6. ASSUME NEW pnl \in Pnls, NEW ok \in BOOLEAN, Confirm(pnl, ok)
        PROVE  Typed'
    <2>. DEFINE p == pending[idx]
    <2>1. /\ phase = "process" /\ idx =< Len(statuses)
          /\ db' = [db EXCEPT ![p.sig] = ConfirmedRow(db[p.sig], pnl, ok)]
          /\ settled' = settled \cup {p.sig}
          /\ toRemove' = Append(toRemove, idx) /\ idx' = idx + 1
          /\ UNCHANGED <<stage, cur, sig, chain, chan, pending, phase, batch, statuses>>
          /\ tries' = tries
      BY <1>6 DEF Confirm, Book
    <2>2. idx \in 1 .. Len(statuses) /\ idx \in 1 .. Len(pending)
      BY <1>1, <2>1 DEF Typed, TaskTyped
    <2>3. p.sig \in Sigs
      <3>1. p \in Entry
        BY <1>1, <2>2, ElementOfSeq
      <3>. QED
        BY <3>1 DEF Entry
    <2>4. db' \in [Sigs -> Row]
      <3>1. db[p.sig] \in Row /\ pnl \in Int
        BY <2>3, Workload DEF Typed, StoreTyped
      <3>2. ConfirmedRow(db[p.sig], pnl, ok) \in Row
        BY <3>1 DEF ConfirmedRow, Row
      <3>. QED
        BY <2>1, <3>2 DEF Typed, StoreTyped
    <2>5. StoreTyped'
      BY <2>1, <2>3, <2>4 DEF Typed, StoreTyped
    <2>. HIDE DEF p
    <2>6. /\ toRemove' \in Seq(1 .. Len(statuses))
          /\ Len(toRemove') = Len(toRemove) + 1
          /\ \A k \in 1 .. Len(toRemove) : toRemove'[k] = toRemove[k]
          /\ toRemove'[Len(toRemove) + 1] = idx
      BY <1>1, <2>1, <2>2, AppendProperties
    <2>7. \A k \in 1 .. Len(toRemove) : toRemove[k] \in Int /\ toRemove[k] < idx
      BY <1>1, ElementOfSeq DEF Typed, TaskTyped
    <2>8. \A k \in 1 .. Len(toRemove) + 1 : k \in 1 .. Len(toRemove) \/ k = Len(toRemove) + 1
      BY <1>1
    <2>9. Increasing(toRemove')
      <3>. SUFFICES ASSUME NEW j \in 1 .. Len(toRemove) + 1,
                           NEW k \in 1 .. Len(toRemove) + 1, j < k
                    PROVE  toRemove'[j] < toRemove'[k]
        BY <2>6 DEF Increasing
      <3>1. j \in 1 .. Len(toRemove)
        BY <1>1
      <3>2. CASE k \in 1 .. Len(toRemove)
        BY <2>6, <3>1, <3>2 DEF Typed, TaskTyped, Increasing
      <3>3. CASE k = Len(toRemove) + 1
        BY <2>6, <2>7, <3>1, <3>3
      <3>. QED
        BY <2>8, <3>2, <3>3
    <2>10. \A k \in 1 .. Len(toRemove') : toRemove'[k] < idx'
      BY <2>1, <2>2, <2>6, <2>7, <2>8
    <2>11. idx' \in 1 .. Len(statuses') + 1
      BY <1>1, <2>1, <2>2
    <2>12. TaskTyped'
      BY <2>1, <2>6, <2>9, <2>10, <2>11 DEF Typed, TaskTyped
    <2>. QED
      BY <2>1, <2>5, <2>12 DEF Typed, LoopTyped
  <1>7. CASE FinishRound
    <2>1. toRemove \in Seq(1 .. Len(pending))
      <3>1. 1 .. Len(statuses) \subseteq 1 .. Len(pending)
        BY <1>1, <1>7 DEF FinishRound, Typed, TaskTyped
      <3>. QED
        BY <1>1, <3>1, SeqMonotonic
    <2>2. RemoveProcessed(pending, toRemove) \in Seq(Entry)
      BY <1>1, <2>1, RemoveProcessedProps DEF Typed, TaskTyped
    <2>. QED
      BY <1>1, <1>7, <2>2, EndRoundKeepsTyped DEF FinishRound
  <1>. QED
    BY <1>2, <1>3, <1>4, <1>5, <1>6, <1>7 DEF Task

LEMMA NextTyped ==
  ASSUME TypeOK, Typed, [PipelineNext]_allVars
  PROVE  Typed'
  <1>1. CASE UNCHANGED allVars
    BY <1>1
    DEF allVars, vars, pipeVars, confVars, Typed, LoopTyped, TaskTyped, StoreTyped
  <1>2. CASE Clock
    <2>1. tries' = tries /\ UNCHANGED pipeVars
      BY <1>2 DEF Clock, Tick, NextDay
    <2>. QED
      BY <2>1 DEF pipeVars, confVars, Typed, LoopTyped, TaskTyped, StoreTyped
  <1>3. CASE Crash
    <2>1. /\ stage' = "idle" /\ cur' = 0 /\ sig' = 0 /\ settled' = {}
          /\ chan' = <<>> /\ pending' = <<>> /\ phase' = "collect" /\ batch' = <<>>
          /\ statuses' = <<>> /\ idx' = 1 /\ toRemove' = <<>>
          /\ chain' = chain /\ db' = db /\ tries' = tries /\ tries \in Nat
      BY <1>3 DEF Crash, Restart, TypeOK
    <2>2. \A S : <<>> \in Seq(S) /\ Len(<<>>) = 0
      BY EmptySeq
    <2>3. Increasing(<<>>)
      BY <2>2 DEF Increasing
    <2>4. TaskTyped'
      BY <2>1, <2>2, <2>3 DEF TaskTyped
    <2>5. LoopTyped' /\ StoreTyped'
      BY <2>1 DEF Typed, LoopTyped, StoreTyped
    <2>. QED
      BY <2>4, <2>5 DEF Typed
  <1>. QED
    BY <1>1, <1>2, <1>3, LoopKeepsTyped, NetworkKeepsTyped, TaskKeepsTyped DEF PipelineNext

-----------------------------------------------------------------------------
(* Each trade is queued once, as long as each transaction is a new one.    *)

LEMMA TotalFields ==
  ASSUME NEW r \in Tracker
  PROVE  /\ \A pnl \in Int, ok \in BOOLEAN :
              RecordConfirmation(r, pnl, ok).totalPnl = r.totalPnl + pnl
         /\ \A opp, d : CheckLimits(r, opp, d).totalPnl = r.totalPnl
         /\ RecordSubmitted(r).totalPnl = r.totalPnl
         /\ RecordRejected(r).totalPnl = r.totalPnl
         /\ \A d : NewTracker(d).totalPnl = 0
         /\ \A v : [r EXCEPT !.sinceTrip = v].totalPnl = r.totalPnl
  <1>1. ASSUME NEW pnl \in Int, NEW ok \in BOOLEAN
        PROVE  RecordConfirmation(r, pnl, ok).totalPnl = r.totalPnl + pnl
    <2>1. Booked(r, pnl, ok).totalPnl = r.totalPnl + pnl
      BY DEF Booked, Tracker
    <2>2. Trip(Booked(r, pnl, ok)).totalPnl = Booked(r, pnl, ok).totalPnl
      BY DEF Trip, Booked, Tracker
    <2>. QED
      BY <2>1, <2>2 DEF RecordConfirmation
  <1>2. ASSUME NEW opp, NEW d
        PROVE  CheckLimits(r, opp, d).totalPnl = r.totalPnl
    <2>1. Reopen(r).totalPnl = r.totalPnl
      BY DEF Reopen, Tracker
    <2>2. RollOver(Reopen(r), d).totalPnl = r.totalPnl
      BY <2>1 DEF RollOver, NewTracker
    <2>3. DOMAIN RollOver(Reopen(r), d) = DOMAIN r
      BY DEF RollOver, Reopen, NewTracker, Tracker
    <2>4. Trip(RollOver(Reopen(r), d)).totalPnl = r.totalPnl
      BY <2>2, <2>3 DEF Trip, Tracker
    <2>. QED
      BY <2>2, <2>4 DEF CheckLimits
  <1>3. RecordSubmitted(r).totalPnl = r.totalPnl /\ RecordRejected(r).totalPnl = r.totalPnl
    BY DEF RecordSubmitted, RecordRejected, Tracker
  <1>4. \A d : NewTracker(d).totalPnl = 0
    BY DEF NewTracker
  <1>5. \A v : [r EXCEPT !.sinceTrip = v].totalPnl = r.totalPnl
    BY DEF Tracker
  <1>. QED
    BY <1>1, <1>2, <1>3, <1>4, <1>5

LEMMA InitQueuedOnce ==
  ASSUME PipelineInit
  PROVE  QueuedOnce
  <1>1. /\ stage = "idle" /\ approved = FALSE /\ open = 0 /\ tries = 0
        /\ chan = <<>> /\ pending = <<>> /\ toRemove = <<>> /\ settled = {}
        /\ db = [s \in Sigs |-> NoRow] /\ rt = NewTracker(today)
    BY DEF PipelineInit, Init
  <1>2. Len(<<>>) = 0
    BY EmptySeq
  <1>3. \A s \in Sigs : db[s].st = "absent"
    BY <1>1 DEF NoRow
  <1>4. Staged
    BY <1>1 DEF Staged
  <1>5. Len(pending) = 0 /\ Len(chan) = 0 /\ Len(toRemove) = 0
    BY <1>1, <1>2
  <1>6. Queued
    BY <1>1, <1>3, <1>5 DEF Queued
  <1>7. Totalled
    <2>1. \A s \in Sigs : [r \in Sigs |-> IF r \in settled THEN db[r].pnl ELSE 0][s] = 0
      BY <1>1
    <2>2. SumOf([r \in Sigs |-> IF r \in settled THEN db[r].pnl ELSE 0]) = 0
      BY <2>1, SumOfZeros
    <2>3. rt.totalPnl = 0
      BY <1>1 DEF NewTracker
    <2>. QED
      BY <1>1, <2>2, <2>3 DEF Totalled, TotalMatchesDb
  <1>. QED
    BY <1>4, <1>6, <1>7 DEF QueuedOnce

LEMMA StagedStep ==
  ASSUME ~Repeats, Staged, [PipelineNext]_allVars
  PROVE  Staged'
  <1>1. CASE UNCHANGED allVars
    BY <1>1 DEF allVars, vars, pipeVars, Staged
  <1>2. ASSUME NEW opp \in Opps, Consider(opp)
        PROVE  Staged'
    <2>1. approved' \in BOOLEAN
      BY <1>2 DEF Consider, Check, PassesLimits
    <2>. QED
      BY <1>2, <2>1 DEF Consider, Check, Staged
  <1>3. CASE Skip \/ RecordAccepted \/ RecordFailure
    BY <1>3 DEF Skip, Abandon, RecordAccepted, Submit, RecordFailure, SubmitFails, Staged
  <1>4. CASE JitoAccepts \/ JitoFails \/ RpcAccepts \/ RpcFails
    BY <1>4 DEF JitoAccepts, JitoFails, RpcAccepts, RpcFails, Sending, vars, Staged
  <1>5. CASE Network
    BY <1>5 DEF Network, Land, Finalize, Forget, Reorg, Expire, OnlyChain, vars, Staged
  <1>6. ASSUME NEW remaining, EndRound(remaining)
        PROVE  Staged'
    BY <1>6 DEF EndRound, Drop, vars, Staged
  <1>7. CASE Task
    <2>1. CASE Collect
      BY <1>6, <2>1 DEF Collect, vars, Staged
    <2>2. CASE QueryAnswers \/ PassOver
      BY <2>2 DEF QueryAnswers, PassOver, vars, Staged
    <2>3. CASE QueryFails \/ FinishRound
      BY <1>6, <2>3 DEF QueryFails, FinishRound
    <2>4. ASSUME NEW pnl \in Pnls, NEW ok \in BOOLEAN, Confirm(pnl, ok)
          PROVE  Staged'
      BY <2>4 DEF Confirm, Book, Staged
    <2>. QED
      BY <1>7, <2>1, <2>2, <2>3, <2>4 DEF Task
  <1>8. CASE Clock
    BY <1>8 DEF Clock, Tick, NextDay, pipeVars, Staged
  <1>9. CASE Crash
    BY <1>9 DEF Crash, Restart, Staged
  <1>. QED
    BY <1>1, <1>2, <1>3, <1>4, <1>5, <1>7, <1>8, <1>9 DEF PipelineNext, Loop

(* A step that touches neither queue nor table.                            *)
LEMMA QueuesUntouched ==
  ASSUME TypeOK, Typed, Queued, tries' \in {tries, tries + 1},
         UNCHANGED <<db, pending, chan, toRemove, open>>
  PROVE  Queued'
  <1>1. tries \in Nat /\ \A s \in Sigs : s \in Nat
    BY DEF TypeOK, Sigs
  <1>2. \A s \in Sigs : s > tries' => s > tries
    BY <1>1
  <1>3. /\ \A i \in 1 .. Len(pending) : pending[i].sig \in Sigs
        /\ \A j \in 1 .. Len(chan) : chan[j].sig \in Sigs
    <2>1. \A e \in Entry : e.sig \in Sigs
      BY DEF Entry
    <2>2. /\ \A i \in 1 .. Len(pending) : pending[i] \in Entry
          /\ \A j \in 1 .. Len(chan) : chan[j] \in Entry
      BY ElementOfSeq DEF Typed, TaskTyped
    <2>. QED
      BY <2>1, <2>2
  <1>4. \A s \in Sigs : s =< tries => s =< tries'
    BY <1>1
  <1>. QED
    BY <1>2, <1>3, <1>4 DEF Queued, Removed, Awaits

LEMMA EntriesTyped ==
  ASSUME TypeOK, Typed
  PROVE  /\ tries \in Nat /\ open \in Nat
         /\ Len(pending) \in Nat /\ Len(chan) \in Nat /\ Len(toRemove) \in Nat
         /\ \A i \in 1 .. Len(pending) : pending[i] \in Entry /\ pending[i].sig \in Sigs
         /\ \A j \in 1 .. Len(chan) : chan[j] \in Entry /\ chan[j].sig \in Sigs
         /\ \A s \in Sigs : s \in Nat
  <1>1. \A e \in Entry : e.sig \in Sigs
    BY DEF Entry
  <1>2. /\ \A i \in 1 .. Len(pending) : pending[i] \in Entry
        /\ \A j \in 1 .. Len(chan) : chan[j] \in Entry
        /\ Len(pending) \in Nat /\ Len(chan) \in Nat /\ Len(toRemove) \in Nat
    BY ElementOfSeq, LenProperties DEF Typed, TaskTyped
  <1>. QED
    BY <1>1, <1>2 DEF TypeOK, Sigs

LEMMA RecordAcceptedQueued ==
  ASSUME TypeOK, Typed, Staged, Queued, RecordAccepted
  PROVE  Queued'
  <1>. DEFINE e == [sig |-> sig, est |-> cur, parses |-> stage = "accepted"]
  <1>1. /\ sig = tries + 1 /\ tries' = tries + 1 /\ open' = open + 1 /\ sig \in Sigs
        /\ chan' = Append(chan, e)
        /\ db' = [db EXCEPT ![sig] = SubmittedRow(db[sig], cur)]
        /\ pending' = pending /\ toRemove' = toRemove
    <2>1. stage # "idle" /\ tries < MaxTries
      BY DEF RecordAccepted, Submit
    <2>2. sig \in Sigs
      BY <2>1, SigInBounds DEF Typed
    <2>. QED
      BY <2>1, <2>2 DEF RecordAccepted, Submit, Staged
  <1>2. /\ tries \in Nat /\ open \in Nat
        /\ Len(pending) \in Nat /\ Len(chan) \in Nat /\ Len(toRemove) \in Nat
        /\ \A i \in 1 .. Len(pending) : pending[i] \in Entry /\ pending[i].sig \in Sigs
        /\ \A j \in 1 .. Len(chan) : chan[j] \in Entry /\ chan[j].sig \in Sigs
        /\ \A s \in Sigs : s \in Nat
    BY EntriesTyped
  <1>3. e \in Entry /\ e.sig = sig /\ e.est = cur
    BY <1>1 DEF Entry, Typed, LoopTyped
  <1>. HIDE DEF e
  <1>4. /\ Len(chan') = Len(chan) + 1
        /\ \A j \in 1 .. Len(chan) : chan'[j] = chan[j]
        /\ chan'[Len(chan) + 1] = e
    BY <1>1, <1>3, AppendProperties DEF Typed, TaskTyped
  <1>5. /\ \A s \in Sigs : s # sig => db'[s] = db[s]
        /\ db'[sig].st = "submitted" /\ db'[sig].est = cur
    <2>1. db[sig] \in Row /\ db[sig].st = "absent"
      <3>1. sig > tries
        BY <1>1, <1>2
      <3>. QED
        BY <1>1, <3>1 DEF Queued, Typed, StoreTyped
    <2>2. SubmittedRow(db[sig], cur).st = "submitted" /\ SubmittedRow(db[sig], cur).est = cur
      BY <2>1 DEF SubmittedRow, Row
    <2>. QED
      BY <1>1, <2>2 DEF Typed, StoreTyped
  <1>6. \A j \in 1 .. Len(chan) + 1 : j \in 1 .. Len(chan) \/ j = Len(chan) + 1
    BY <1>2
  <1>7. /\ \A i \in 1 .. Len(pending) : pending[i].sig # sig
        /\ \A j \in 1 .. Len(chan) : chan[j].sig # sig
    <2>1. ASSUME NEW s \in Sigs, s =< tries
          PROVE  s # sig
      <3>1. s \in Nat /\ tries \in Nat /\ sig = tries + 1
        BY <1>1, <1>2
      <3>. QED
        BY <2>1, <3>1
    <2>. QED
      BY <1>2, <2>1 DEF Queued, Awaits
  <1>8. \A s \in Sigs : s > tries' => db'[s].st = "absent"
    <2>1. ASSUME NEW s \in Sigs, s > tries'
          PROVE  s > tries /\ s # sig
      <3>1. s \in Nat /\ s > tries + 1
        BY <1>1, <1>2, <2>1
      <3>. QED
        BY <1>1, <1>2, <3>1
    <2>. QED
      BY <1>5, <2>1 DEF Queued
  <1>9. \A x \in Entry :
          Awaits(db, tries, x) /\ x.sig \in Sigs /\ x.sig # sig => Awaits(db', tries', x)
    <2>1. ASSUME NEW x \in Entry, Awaits(db, tries, x), x.sig \in Sigs, x.sig # sig
          PROVE  Awaits(db', tries', x)
      <3>1. x.sig \in Nat /\ x.sig =< tries
        BY <1>2, <2>1 DEF Awaits
      <3>2. x.sig =< tries'
        BY <1>1, <1>2, <3>1
      <3>. QED
        BY <1>5, <2>1, <3>2 DEF Awaits
    <2>. QED
      BY <2>1
  <1>10. Awaits(db', tries', e)
    BY <1>1, <1>2, <1>3, <1>5 DEF Awaits
  <1>11. \A i \in 1 .. Len(pending) : pending[i].sig =< tries'
    <2>1. ASSUME NEW s \in Sigs, s =< tries
          PROVE  s =< tries'
      <3>1. s \in Nat /\ tries \in Nat /\ tries' = tries + 1
        BY <1>1, <1>2
      <3>. QED
        BY <2>1, <3>1
    <2>. QED
      BY <1>2, <2>1 DEF Queued
  <1>12. open' = Len(pending') - Len(toRemove') + Len(chan')
    BY <1>1, <1>2, <1>4 DEF Queued
  <1>13. \A i, j \in 1 .. Len(chan') : i # j => chan'[i].sig # chan'[j].sig
    BY <1>3, <1>4, <1>6, <1>7 DEF Queued
  <1>14. \A i \in 1 .. Len(pending), j \in 1 .. Len(chan') : pending[i].sig # chan'[j].sig
    BY <1>3, <1>4, <1>6, <1>7 DEF Queued
  <1>15. \A j \in 1 .. Len(chan') : Awaits(db', tries', chan'[j])
    BY <1>2, <1>4, <1>6, <1>7, <1>9, <1>10 DEF Queued
  <1>16. \A i \in 1 .. Len(pending) : ~Removed(i)' => Awaits(db', tries', pending[i])
    BY <1>1, <1>2, <1>7, <1>9 DEF Queued, Removed
  <1>. QED
    BY <1>1, <1>8, <1>11, <1>12, <1>13, <1>14, <1>15, <1>16
    DEF Queued, Awaits, Removed

(* The tail of a list of distinct, unbooked entries is one too, and Drop   *)
(* tells the tracker how many are gone.                                    *)
LEMMA EndRoundQueued ==
  ASSUME TypeOK, TypeOK',
         NEW remaining \in Seq(Entry), EndRound(remaining), chan' \in Seq(Entry),
         \A s \in Sigs : s > tries => db[s].st = "absent",
         \A i \in 1 .. Len(remaining) : Awaits(db, tries, remaining[i]),
         \A i, j \in 1 .. Len(remaining) : i # j => remaining[i].sig # remaining[j].sig,
         \A i, j \in 1 .. Len(chan') : i # j => chan'[i].sig # chan'[j].sig,
         \A i \in 1 .. Len(remaining), j \in 1 .. Len(chan') :
           remaining[i].sig # chan'[j].sig,
         \A j \in 1 .. Len(chan') : Awaits(db, tries, chan'[j]),
         open = Len(remaining) + Len(chan')
  PROVE  Queued'
  <1>. DEFINE gap == Len(remaining) - Len(pending')
  <1>1. /\ pending' = Evict(remaining) /\ toRemove' = <<>> /\ db' = db
        /\ tries' = tries
        /\ IF Len(pending') < Len(remaining) THEN Drop(gap) ELSE UNCHANGED vars
    BY DEF EndRound, Drop, vars
  <1>2. /\ Len(remaining) \in Nat /\ Len(pending') \in 0 .. Len(remaining)
        /\ \A j \in 1 .. Len(pending') : pending'[j] = remaining[gap + j]
        /\ Len(chan') \in Nat
    BY <1>1, LenProperties, EvictProps
  <1>3. open' = open - gap
    <2>1. CASE Len(pending') < Len(remaining)
      BY <1>1, <2>1 DEF Drop
    <2>2. CASE ~(Len(pending') < Len(remaining))
      <3>1. gap = 0 /\ open' = open /\ open \in Nat
        BY <1>1, <1>2, <2>2 DEF vars, TypeOK
      <3>. QED
        BY <3>1
    <2>. QED
      BY <2>1, <2>2
  <1>4. gap \in Nat /\ gap + Len(pending') = Len(remaining)
    BY <1>2
  <1>. HIDE DEF gap
  <1>5. Len(toRemove') = 0
    BY <1>1, EmptySeq
  <1>6. open' = Len(pending') - Len(toRemove') + Len(chan')
    <2>. DEFINE l == Len(pending')
                n == Len(remaining)
                c == Len(chan')
    <2>1. l \in Nat /\ n \in Nat /\ c \in Nat /\ gap + l = n /\ open = n + c
      BY <1>2, <1>4
    <2>. HIDE DEF l, n, c
    <2>2. open - gap = l - 0 + c
      BY <1>4, <2>1
    <2>. QED
      BY <1>3, <1>5, <2>2 DEF l, c
  <1>7. \A j \in 1 .. Len(pending') : gap + j \in 1 .. Len(remaining)
    BY <1>2, <1>4
  <1>8. \A i, j \in 1 .. Len(pending') : i # j => gap + i # gap + j
    BY <1>2, <1>4
  <1>9. \A j \in 1 .. Len(pending') : Awaits(db', tries', pending'[j])
    BY <1>1, <1>2, <1>7
  <1>10. \A i, j \in 1 .. Len(pending') : i # j => pending'[i].sig # pending'[j].sig
    BY <1>2, <1>7, <1>8
  <1>11. \A i \in 1 .. Len(pending'), j \in 1 .. Len(chan') : pending'[i].sig # chan'[j].sig
    BY <1>2, <1>7
  <1>12. \A j \in 1 .. Len(pending') : pending'[j].sig =< tries'
    BY <1>9 DEF Awaits
  <1>. QED
    BY <1>1, <1>6, <1>9, <1>10, <1>11, <1>12 DEF Queued

LEMMA CollectQueued ==
  ASSUME TypeOK, TypeOK', Typed, Queued, Collect
  PROVE  Queued'
  <1>. DEFINE all == pending \o chan
              p == Len(pending)
              c == Len(chan)
  <1>1. /\ tries \in Nat /\ open \in Nat /\ p \in Nat /\ c \in Nat
        /\ \A i \in 1 .. p : pending[i] \in Entry /\ pending[i].sig \in Sigs
        /\ \A j \in 1 .. c : chan[j] \in Entry /\ chan[j].sig \in Sigs
    BY EntriesTyped
  <1>2. toRemove = <<>> /\ Len(toRemove) = 0
    BY EmptySeq DEF Collect, Typed, TaskTyped
  <1>3. /\ all \in Seq(Entry) /\ Len(all) = p + c
        /\ \A i \in 1 .. p + c : all[i] = IF i <= p THEN pending[i] ELSE chan[i - p]
    BY ConcatProperties DEF Typed, TaskTyped
  <1>. HIDE DEF all, p, c
  <1>4. ASSUME NEW i \in 1 .. p + c
        PROVE  \/ i \in 1 .. p /\ all[i] = pending[i]
               \/ i - p \in 1 .. c /\ i > p /\ all[i] = chan[i - p]
    BY <1>1, <1>3
  <1>5. \A i \in 1 .. p : Awaits(db, tries, pending[i])
    BY <1>2 DEF Queued, Removed, p
  <1>6. \A j \in 1 .. c : Awaits(db, tries, chan[j])
    BY DEF Queued, c
  <1>7. \A i \in 1 .. p + c : Awaits(db, tries, all[i])
    BY <1>4, <1>5, <1>6
  <1>8. ASSUME NEW i \in 1 .. p + c, NEW j \in 1 .. p + c, i # j
        PROVE  all[i].sig # all[j].sig
    <2>1. /\ \A a, b \in 1 .. p : a # b => pending[a].sig # pending[b].sig
          /\ \A a, b \in 1 .. c : a # b => chan[a].sig # chan[b].sig
          /\ \A a \in 1 .. p, b \in 1 .. c : pending[a].sig # chan[b].sig
      BY DEF Queued, p, c
    <2>2. i - p # j - p
      BY <1>1, <1>8
    <2>3. CASE i \in 1 .. p /\ all[i] = pending[i]
      BY <1>4, <1>8, <2>1, <2>3
    <2>4. CASE i - p \in 1 .. c /\ all[i] = chan[i - p]
      BY <1>4, <2>1, <2>2, <2>4
    <2>. QED
      BY <1>4, <2>3, <2>4
  <1>9. chan' = <<>> /\ chan' \in Seq(Entry) /\ Len(chan') = 0
    BY EmptySeq DEF Collect
  <1>10. open = p + c
    BY <1>1, <1>2 DEF Queued, p, c
  <1>11. CASE ParsedSigs(all) = <<>>
    <2>1. EndRound(all)
      BY <1>11 DEF Collect, all
    <2>2. /\ \A s \in Sigs : s > tries => db[s].st = "absent"
          /\ \A i \in 1 .. Len(all) : Awaits(db, tries, all[i])
          /\ \A i, j \in 1 .. Len(all) : i # j => all[i].sig # all[j].sig
      BY <1>3, <1>7, <1>8 DEF Queued
    <2>3. open = Len(all) + Len(chan')
      BY <1>1, <1>3, <1>9, <1>10
    <2>. QED
      BY <1>3, <1>9, <2>1, <2>2, <2>3, EndRoundQueued
  <1>12. CASE ParsedSigs(all) # <<>>
    <2>1. /\ pending' = all /\ toRemove' = toRemove /\ db' = db
          /\ tries' = tries /\ open' = open
      BY <1>12 DEF Collect, all, vars
    <2>2. \A i \in 1 .. p + c : all[i].sig =< tries
      BY <1>7 DEF Awaits
    <2>3. open' = Len(pending') - Len(toRemove') + Len(chan')
      BY <1>1, <1>2, <1>3, <1>9, <1>10, <2>1
    <2>4. \A s \in Sigs : s > tries => db[s].st = "absent"
      BY DEF Queued
    <2>. QED
      BY <1>3, <1>7, <1>8, <1>9, <2>1, <2>2, <2>3, <2>4 DEF Queued
  <1>. QED
    BY <1>11, <1>12

LEMMA QueryFailsQueued ==
  ASSUME TypeOK, TypeOK', Typed, Queued, QueryFails
  PROVE  Queued'
  <1>1. toRemove = <<>> /\ Len(toRemove) = 0
    BY EmptySeq DEF QueryFails, Typed, TaskTyped
  <1>2. chan' = chan /\ EndRound(pending)
    BY DEF QueryFails
  <1>3. \A i \in 1 .. Len(pending) : Awaits(db, tries, pending[i])
    BY <1>1 DEF Queued, Removed
  <1>4. open = Len(pending) + Len(chan)
    BY <1>1, EntriesTyped DEF Queued
  <1>. QED
    BY <1>2, <1>3, <1>4, EndRoundQueued DEF Queued, Typed, TaskTyped

(* Removing the booked entries leaves exactly those that are not booked.   *)
LEMMA RemovalProps ==
  ASSUME TypeOK, Typed, Queued, FinishRound
  PROVE  LET left == RemoveProcessed(pending, toRemove)
         IN  /\ left \in Seq(Entry)
             /\ Len(left) = Len(pending) - Len(toRemove)
             /\ Distinct(left)
             /\ \A j \in 1 .. Len(left) :
                  \E i \in 1 .. Len(pending) : left[j] = pending[i] /\ ~Removed(i)
             /\ \A i \in 1 .. Len(pending) :
                  ~Removed(i) => \E j \in 1 .. Len(left) : left[j] = pending[i]
  <1>. DEFINE left == RemoveProcessed(pending, toRemove)
              gone == {toRemove[k] : k \in 1 .. Len(toRemove)}
  <1>1. Len(pending) \in Nat /\ pending \in Seq(Entry)
    BY EntriesTyped DEF Typed, TaskTyped
  <1>2. toRemove \in Seq(1 .. Len(pending)) /\ Increasing(toRemove)
    <2>1. Len(statuses) \in Nat /\ Len(statuses) =< Len(pending)
      BY LenProperties DEF FinishRound, Typed, TaskTyped
    <2>2. 1 .. Len(statuses) \subseteq 1 .. Len(pending)
      BY <1>1, <2>1
    <2>. QED
      BY <2>2, SeqMonotonic DEF Typed, TaskTyped
  <1>3. Distinct(pending)
    BY DEF Queued, Distinct
  <1>4. /\ left \in Seq(Entry)
        /\ Len(left) = Len(pending) - Len(toRemove)
        /\ Distinct(left)
        /\ {left[j] : j \in 1 .. Len(left)} = {pending[i] : i \in 1 .. Len(pending) \ gone}
    BY <1>1, <1>2, <1>3, RemoveProcessedProps
  <1>. HIDE DEF left
  <1>5. \A i \in 1 .. Len(pending) : i \in gone <=> Removed(i)
    BY DEF Removed
  <1>. HIDE DEF gone
  <1>6. ASSUME NEW j \in 1 .. Len(left)
        PROVE  \E i \in 1 .. Len(pending) : left[j] = pending[i] /\ ~Removed(i)
    <2>1. left[j] \in {pending[i] : i \in 1 .. Len(pending) \ gone}
      BY <1>4
    <2>2. PICK i \in 1 .. Len(pending) \ gone : left[j] = pending[i]
      BY <2>1
    <2>. QED
      BY <1>5, <2>2
  <1>7. ASSUME NEW i \in 1 .. Len(pending), ~Removed(i)
        PROVE  \E j \in 1 .. Len(left) : left[j] = pending[i]
    <2>1. pending[i] \in {left[j] : j \in 1 .. Len(left)}
      BY <1>4, <1>5, <1>7
    <2>. QED
      BY <2>1
  <1>. QED
    BY <1>4, <1>6, <1>7 DEF left

LEMMA FinishRoundQueued ==
  ASSUME TypeOK, TypeOK', Typed, Queued, FinishRound
  PROVE  Queued'
  <1>. DEFINE left == RemoveProcessed(pending, toRemove)
  <1>1. /\ Len(pending) \in Nat /\ Len(chan) \in Nat /\ Len(toRemove) \in Nat
        /\ pending \in Seq(Entry) /\ chan \in Seq(Entry)
    BY EntriesTyped DEF Typed, TaskTyped
  <1>4. /\ left \in Seq(Entry)
        /\ Len(left) = Len(pending) - Len(toRemove)
        /\ Distinct(left)
    BY RemovalProps
  <1>5. chan' = chan /\ EndRound(left)
    BY DEF FinishRound
  <1>6. \A j \in 1 .. Len(left) :
          \E i \in 1 .. Len(pending) : left[j] = pending[i] /\ ~Removed(i)
    BY RemovalProps
  <1>. HIDE DEF left
  <1>7. \A j \in 1 .. Len(left) : Awaits(db, tries, left[j])
    BY <1>6 DEF Queued
  <1>8. ASSUME NEW i \in 1 .. Len(left), NEW j \in 1 .. Len(left), i # j
        PROVE  left[i].sig # left[j].sig
    <2>1. left[i] # left[j]
      BY <1>4, <1>8 DEF Distinct
    <2>2. PICK a \in 1 .. Len(pending) : left[i] = pending[a]
      BY <1>6
    <2>3. PICK b \in 1 .. Len(pending) : left[j] = pending[b]
      BY <1>6
    <2>. QED
      BY <2>1, <2>2, <2>3 DEF Queued
  <1>9. \A i \in 1 .. Len(left), j \in 1 .. Len(chan) : left[i].sig # chan[j].sig
    BY <1>6 DEF Queued
  <1>10. open = Len(left) + Len(chan)
    BY <1>1, <1>4 DEF Queued
  <1>. QED
    BY <1>1, <1>4, <1>5, <1>7, <1>8, <1>9, <1>10, EndRoundQueued DEF Queued

(* A booking takes one entry off the queue.                                *)
LEMMA ConfirmQueued ==
  ASSUME TypeOK, Typed, Queued, NEW pnl, NEW ok, Confirm(pnl, ok)
  PROVE  /\ Queued'
         /\ idx \in 1 .. Len(pending) /\ ~Removed(idx)
         /\ Awaits(db, tries, pending[idx])
  <1>. DEFINE s == pending[idx].sig
  <1>1. /\ tries \in Nat /\ open \in Nat
        /\ Len(pending) \in Nat /\ Len(chan) \in Nat /\ Len(toRemove) \in Nat
        /\ \A i \in 1 .. Len(pending) : pending[i] \in Entry /\ pending[i].sig \in Sigs
        /\ \A j \in 1 .. Len(chan) : chan[j] \in Entry /\ chan[j].sig \in Sigs
    BY EntriesTyped
  <1>2. idx \in 1 .. Len(statuses) /\ idx \in 1 .. Len(pending) /\ idx \in Int
    <2>1. /\ idx =< Len(statuses) /\ Len(statuses) \in Nat /\ Len(batch) \in Nat
          /\ Len(statuses) = Len(batch) /\ Len(batch) =< Len(pending)
          /\ idx \in 1 .. Len(statuses) + 1
      BY LenProperties DEF Confirm, Typed, TaskTyped
    <2>. QED
      BY <1>1, <2>1
  <1>3. ~Removed(idx)
    BY <1>2 DEF Removed, Typed, TaskTyped
  <1>4. /\ toRemove' = Append(toRemove, idx)
        /\ db' = [db EXCEPT ![s] = ConfirmedRow(db[s], pnl, ok)]
        /\ open' = open - 1 /\ tries' = tries
        /\ chan' = chan /\ pending' = pending
    BY DEF Confirm, Book
  <1>5. s \in Sigs /\ \A r \in Sigs : r # s => db'[r] = db[r]
    BY <1>1, <1>2, <1>4 DEF Typed, StoreTyped
  <1>6. Awaits(db, tries, pending[idx])
    BY <1>2, <1>3 DEF Queued
  <1>7. /\ Len(toRemove') = Len(toRemove) + 1
        /\ \A k \in 1 .. Len(toRemove) : toRemove'[k] = toRemove[k]
        /\ toRemove'[Len(toRemove) + 1] = idx
    BY <1>2, <1>4, AppendProperties DEF Typed, TaskTyped
  <1>8. \A k \in 1 .. Len(toRemove) : k \in 1 .. Len(toRemove) + 1
    BY <1>1
  <1>9. Len(toRemove) + 1 \in 1 .. Len(toRemove) + 1
    BY <1>1
  <1>10. ASSUME NEW i \in 1 .. Len(pending), ~Removed(i)'
         PROVE  ~Removed(i) /\ i # idx
    BY <1>7, <1>8, <1>9, <1>10 DEF Removed
  <1>11. \A i \in 1 .. Len(pending) : i # idx => pending[i].sig # s
    BY <1>2 DEF Queued
  <1>12. \A j \in 1 .. Len(chan) : chan[j].sig # s
    BY <1>2 DEF Queued
  <1>. HIDE DEF s
  <1>13. \A i \in 1 .. Len(pending) : ~Removed(i)' => Awaits(db', tries', pending'[i])
    <2>. SUFFICES ASSUME NEW i \in 1 .. Len(pending), ~Removed(i)'
                  PROVE  Awaits(db', tries', pending'[i])
      OBVIOUS
    <2>1. ~Removed(i) /\ pending[i].sig # s /\ pending[i].sig \in Sigs
      BY <1>1, <1>10, <1>11
    <2>2. Awaits(db, tries, pending[i])
      BY <2>1 DEF Queued
    <2>. QED
      BY <1>4, <1>5, <2>1, <2>2 DEF Awaits
  <1>14. \A j \in 1 .. Len(chan) : Awaits(db', tries', chan'[j])
    BY <1>1, <1>4, <1>5, <1>12 DEF Awaits, Queued
  <1>15. open' = Len(pending') - Len(toRemove') + Len(chan')
    BY <1>1, <1>4, <1>7 DEF Queued
  <1>16. \A r \in Sigs : r > tries' => db'[r].st = "absent"
    <2>. SUFFICES ASSUME NEW r \in Sigs, r > tries PROVE db'[r].st = "absent"
      BY <1>4
    <2>1. s =< tries /\ s \in Nat /\ r \in Nat
      BY <1>5, <1>6 DEF Awaits, s, Sigs
    <2>2. r # s
      BY <1>1, <2>1
    <2>. QED
      BY <1>5, <2>2 DEF Queued
  <1>17. Queued'
    BY <1>4, <1>13, <1>14, <1>15, <1>16 DEF Queued
  <1>. QED
    BY <1>2, <1>3, <1>6, <1>17

LEMMA QueuedStep ==
  ASSUME TypeOK, TypeOK', Typed, Staged, Queued, [PipelineNext]_allVars
  PROVE  Queued'
  <1>1. CASE UNCHANGED allVars
    BY <1>1, QueuesUntouched DEF allVars, vars, pipeVars, confVars
  <1>2. ASSUME NEW opp \in Opps, Consider(opp)
        PROVE  Queued'
    BY <1>2, QueuesUntouched DEF Consider, Check, confVars
  <1>3. CASE Skip \/ RecordFailure
    BY <1>3, QueuesUntouched DEF Skip, Abandon, RecordFailure, SubmitFails, confVars
  <1>4. CASE JitoAccepts \/ JitoFails \/ RpcAccepts \/ RpcFails
    BY <1>4, QueuesUntouched
    DEF JitoAccepts, JitoFails, RpcAccepts, RpcFails, Sending, vars, confVars
  <1>5. CASE Network
    BY <1>5, QueuesUntouched DEF Network, Land, Finalize, Forget, Reorg, Expire, OnlyChain, vars, confVars
  <1>6. CASE QueryAnswers \/ PassOver
    BY <1>6, QueuesUntouched DEF QueryAnswers, PassOver, vars
  <1>7. CASE Clock
    BY <1>7, QueuesUntouched DEF Clock, Tick, NextDay, pipeVars, confVars
  <1>8. CASE Crash
    <2>1. /\ open' = 0 /\ tries' = tries /\ db' = db
          /\ chan' = <<>> /\ pending' = <<>> /\ toRemove' = <<>>
      BY <1>8 DEF Crash, Restart
    <2>2. Len(chan') = 0 /\ Len(pending') = 0 /\ Len(toRemove') = 0
      BY <2>1, EmptySeq
    <2>. QED
      BY <2>1, <2>2 DEF Queued
  <1>9. CASE Task
    BY <1>6, <1>9, CollectQueued, QueryFailsQueued, FinishRoundQueued, ConfirmQueued DEF Task
  <1>. QED
    BY <1>1, <1>2, <1>3, <1>4, <1>5, <1>7, <1>8, <1>9, RecordAcceptedQueued
    DEF PipelineNext, Loop

(* A step that books nothing keeps the total and what it adds up.          *)
LEMMA TotalUntouched ==
  ASSUME Totalled, settled' = settled, rt'.totalPnl = rt.totalPnl,
         \A s \in settled : db'[s] = db[s]
  PROVE  Totalled'
  <1>1. [s \in Sigs |-> IF s \in settled' THEN db'[s].pnl ELSE 0]
          = [s \in Sigs |-> IF s \in settled THEN db[s].pnl ELSE 0]
    OBVIOUS
  <1>. QED
    BY <1>1 DEF Totalled, TotalMatchesDb

LEMMA ConfirmTotalled ==
  ASSUME TypeOK, Typed, Typed', Queued, Totalled,
         NEW pnl \in Pnls, NEW ok \in BOOLEAN, Confirm(pnl, ok)
  PROVE  Totalled'
  <1>. DEFINE q == pending[idx].sig
              old == [s \in Sigs |-> IF s \in settled THEN db[s].pnl ELSE 0]
              new == [s \in Sigs |-> IF s \in settled' THEN db'[s].pnl ELSE 0]
  <1>1. idx \in 1 .. Len(pending) /\ Awaits(db, tries, pending[idx]) /\ q \in Sigs
    BY ConfirmQueued, EntriesTyped
  <1>2. /\ db' = [db EXCEPT ![q] = ConfirmedRow(db[q], pnl, ok)]
        /\ settled' = settled \cup {q}
        /\ rt' = RecordConfirmation(rt, pnl, ok)
    BY DEF Confirm, Book
  <1>3. db[q].st = "submitted" /\ q \notin settled
    BY <1>1 DEF Awaits, Totalled
  <1>4. db[q] \in Row /\ pnl \in Int
    BY <1>1, Workload DEF Typed, StoreTyped
  <1>5. ConfirmedRow(db[q], pnl, ok).st = "confirmed" /\ ConfirmedRow(db[q], pnl, ok).pnl = pnl
    BY <1>3, <1>4 DEF ConfirmedRow, Row
  <1>. HIDE DEF q
  <1>6. /\ \A s \in Sigs : s # q => db'[s] = db[s]
        /\ db'[q].st = "confirmed" /\ db'[q].pnl = pnl
    BY <1>1, <1>2, <1>5 DEF Typed, StoreTyped
  <1>7. settled \subseteq Sigs /\ settled' \subseteq Sigs
    BY DEF Typed, StoreTyped
  <1>8. \A s \in Sigs : db[s].pnl \in Int /\ db'[s].pnl \in Int
    <2>1. \A r \in Row : r.pnl \in Int
      BY DEF Row
    <2>2. \A s \in Sigs : db[s] \in Row /\ db'[s] \in Row
      BY DEF Typed, StoreTyped
    <2>. QED
      BY <2>1, <2>2
  <1>9. old \in [Sigs -> Int] /\ new \in [Sigs -> Int]
    BY <1>8
  <1>10. old[q] = 0 /\ new[q] = pnl /\ \A s \in Sigs : s # q => new[s] = old[s]
    BY <1>1, <1>2, <1>3, <1>6
  <1>11. SumOf(old) \in Int /\ SumOf(new) = SumOf(old) + pnl
    <2>. HIDE DEF old, new
    <2>1. SumOf(old) \in Int /\ SumOf(new) = SumOf(old) + (new[q] - old[q])
      BY <1>1, <1>9, <1>10, SumOfUpdate
    <2>. QED
      BY <1>4, <1>10, <2>1
  <1>12. rt'.totalPnl = rt.totalPnl + pnl
    BY <1>2, <1>4, TotalFields DEF TypeOK
  <1>13. rt.totalPnl = SumOf(old)
    BY DEF Totalled, TotalMatchesDb
  <1>14. TotalMatchesDb'
    BY <1>11, <1>12, <1>13 DEF TotalMatchesDb
  <1>15. \A s \in settled' : db'[s].st = "confirmed"
    BY <1>2, <1>6, <1>7 DEF Totalled
  <1>. QED
    BY <1>14, <1>15 DEF Totalled

LEMMA TotalledStep ==
  ASSUME TypeOK, Typed, Typed', Staged, Queued, Totalled, [PipelineNext]_allVars
  PROVE  Totalled'
  <1>1. rt \in Tracker
    BY DEF TypeOK
  <1>2. CASE UNCHANGED allVars
    BY <1>2, TotalUntouched DEF allVars, vars, pipeVars
  <1>3. ASSUME NEW opp \in Opps, Consider(opp)
        PROVE  Totalled'
    <2>1. rt'.totalPnl = rt.totalPnl
      BY <1>1, <1>3, TotalFields DEF Consider, Check
    <2>. QED
      BY <1>3, <2>1, TotalUntouched DEF Consider
  <1>4. CASE Skip \/ RecordFailure
    <2>1. rt'.totalPnl = rt.totalPnl
      BY <1>1, <1>4, TotalFields DEF Skip, Abandon, RecordFailure, SubmitFails
    <2>. QED
      BY <1>4, <2>1, TotalUntouched DEF Skip, RecordFailure
  <1>5. CASE JitoAccepts \/ JitoFails \/ RpcAccepts \/ RpcFails
    BY <1>5, TotalUntouched DEF JitoAccepts, JitoFails, RpcAccepts, RpcFails, Sending, vars
  <1>6. CASE RecordAccepted
    <2>1. rt'.totalPnl = rt.totalPnl
      BY <1>1, <1>6, TotalFields DEF RecordAccepted, Submit
    <2>2. sig \in Sigs /\ sig > tries
      <3>1. stage # "idle" /\ tries < MaxTries /\ sig = tries + 1 /\ tries \in Nat
        BY <1>6 DEF RecordAccepted, Submit, Staged, TypeOK
      <3>. QED
        BY <3>1, SigInBounds DEF Typed
    <2>3. db[sig].st = "absent"
      BY <2>2 DEF Queued
    <2>4. sig \notin settled
      BY <2>3 DEF Totalled
    <2>5. \A s \in settled : db'[s] = db[s]
      BY <1>6, <2>2, <2>4 DEF RecordAccepted, Typed, StoreTyped
    <2>. QED
      BY <1>6, <2>1, <2>5, TotalUntouched DEF RecordAccepted
  <1>7. CASE Network
    BY <1>7, TotalUntouched DEF Network, Land, Finalize, Forget, Reorg, Expire, OnlyChain, vars
  <1>8. ASSUME NEW remaining, EndRound(remaining)
        PROVE  Totalled'
    BY <1>8, TotalUntouched DEF EndRound, Drop, vars
  <1>9. CASE Task
    <2>1. CASE Collect
      BY <1>8, <2>1, TotalUntouched DEF Collect, vars
    <2>2. CASE QueryAnswers \/ PassOver
      BY <2>2, TotalUntouched DEF QueryAnswers, PassOver, vars
    <2>3. CASE QueryFails \/ FinishRound
      BY <1>8, <2>3 DEF QueryFails, FinishRound
    <2>. QED
      BY <1>9, <2>1, <2>2, <2>3, ConfirmTotalled DEF Task
  <1>10. CASE Clock
    <2>1. rt' = rt \/ rt' = [rt EXCEPT !.sinceTrip = Older(rt.sinceTrip)]
      BY <1>10 DEF Clock, Tick, NextDay
    <2>2. \A v : [rt EXCEPT !.sinceTrip = v].totalPnl = rt.totalPnl
      BY <1>1, TotalFields
    <2>3. rt'.totalPnl = rt.totalPnl
      BY <2>1, <2>2, Zenon
    <2>. QED
      BY <1>10, <2>3, TotalUntouched DEF Clock, pipeVars
  <1>11. CASE Crash
    <2>1. settled' = {} /\ rt' = NewTracker(today)
      BY <1>11 DEF Crash, Restart
    <2>2. rt'.totalPnl = 0
      BY <1>1, <2>1, TotalFields
    <2>3. \A s \in Sigs : [r \in Sigs |-> IF r \in settled' THEN db'[r].pnl ELSE 0][s] = 0
      BY <2>1
    <2>4. SumOf([r \in Sigs |-> IF r \in settled' THEN db'[r].pnl ELSE 0]) = 0
      BY <2>3, SumOfZeros
    <2>. QED
      BY <2>1, <2>2, <2>4 DEF Totalled, TotalMatchesDb
  <1>. QED
    BY <1>2, <1>3, <1>4, <1>5, <1>6, <1>7, <1>9, <1>10, <1>11 DEF PipelineNext, Loop

LEMMA NextQueuedOnce ==
  ASSUME ~Repeats, TypeOK, TypeOK', Typed, Typed', QueuedOnce, [PipelineNext]_allVars
  PROVE  QueuedOnce'
  BY StagedStep, QueuedStep, TotalledStep DEF QueuedOnce

-----------------------------------------------------------------------------
(* Counting.                                                               *)

LEMMA ImageCardinality ==
  ASSUME NEW S, IsFiniteSet(S), NEW f,
         \A x, y \in S : x # y => f[x] # f[y]
  PROVE  LET T == {f[x] : x \in S}
         IN  IsFiniteSet(T) /\ Cardinality(T) = Cardinality(S)
  <1>. DEFINE T == {f[x] : x \in S}
              g == [x \in S |-> f[x]]
  <1>1. g \in Surjection(S, T)
    BY DEF Surjection
  <1>2. g \in Injection(S, T)
    BY DEF Injection, IsInjective
  <1>. HIDE DEF T, g
  <1>3. IsFiniteSet(T) /\ Cardinality(T) = Cardinality(S)
    BY <1>1, <1>2, FS_Surjection
  <1>. QED
    BY <1>3 DEF T

(* The tracker's open trades, the unbooked entries and their signatures    *)
(* are the same number.                                                    *)
LEMMA TrackedCount ==
  ASSUME TypeOK, Typed, QueuedOnce
  PROVE  TrackedOnce
  <1>. DEFINE p == Len(pending)
              c == Len(chan)
              r == Len(toRemove)
              Gone == {toRemove[k] : k \in 1 .. r}
              Ps == {pending[i].sig : i \in Unbooked}
              Cs == {chan[j].sig : j \in 1 .. c}
  <1>1. /\ tries \in Nat /\ open \in Nat /\ p \in Nat /\ c \in Nat /\ r \in Nat
        /\ \A i \in 1 .. p : pending[i] \in Entry /\ pending[i].sig \in Sigs
        /\ \A j \in 1 .. c : chan[j] \in Entry /\ chan[j].sig \in Sigs
    BY EntriesTyped
  <1>2. /\ DOMAIN pending = 1 .. p /\ DOMAIN chan = 1 .. c /\ DOMAIN toRemove = 1 .. r
    BY LenProperties DEF Typed, TaskTyped
  <1>3. Unbooked = (1 .. p) \ Gone
    BY <1>2 DEF Unbooked, ToSet
  <1>4. Gone \subseteq 1 .. p
    <2>1. Len(statuses) \in Nat /\ Len(statuses) =< p
      <3>1. Len(statuses) \in Nat /\ Len(batch) \in Nat
        BY LenProperties DEF Typed, TaskTyped
      <3>2. phase = "process" \/ statuses = <<>>
        BY DEF Typed, TaskTyped
      <3>3. Len(<<>>) = 0
        BY EmptySeq
      <3>. QED
        BY <1>1, <3>1, <3>2, <3>3 DEF Typed, TaskTyped
    <2>2. \A k \in 1 .. r : toRemove[k] \in 1 .. Len(statuses)
      BY ElementOfSeq DEF Typed, TaskTyped
    <2>. QED
      BY <1>1, <2>1, <2>2
  <1>5. \A j, k \in 1 .. r : j # k => toRemove[j] # toRemove[k]
    <2>. SUFFICES ASSUME NEW j \in 1 .. r, NEW k \in 1 .. r, j # k
                  PROVE  toRemove[j] # toRemove[k]
      OBVIOUS
    <2>1. toRemove[j] \in 1 .. p /\ toRemove[k] \in 1 .. p
      BY <1>4
    <2>2. toRemove[j] < toRemove[k] \/ toRemove[k] < toRemove[j]
      <3>1. j < k \/ k < j
        BY <1>1
      <3>. QED
        BY <3>1 DEF Typed, TaskTyped, Increasing
    <2>. QED
      BY <2>1, <2>2
  <1>. HIDE DEF p, c, r
  <1>6. /\ IsFiniteSet(1 .. p) /\ Cardinality(1 .. p) = p
        /\ IsFiniteSet(1 .. c) /\ Cardinality(1 .. c) = c
        /\ IsFiniteSet(1 .. r) /\ Cardinality(1 .. r) = r
    <2>1. ASSUME NEW n \in Nat
          PROVE  IsFiniteSet(1 .. n) /\ Cardinality(1 .. n) = n
      <3>1. /\ IsFiniteSet(1 .. n)
            /\ Cardinality(1 .. n) = IF 1 > n THEN 0 ELSE n - 1 + 1
        BY FS_Interval
      <3>2. (IF 1 > n THEN 0 ELSE n - 1 + 1) = n
        OBVIOUS
      <3>. QED
        BY <3>1, <3>2
    <2>. QED
      BY <1>1, <2>1
  <1>7. IsFiniteSet(Gone) /\ Cardinality(Gone) = r
    BY <1>5, <1>6, ImageCardinality
  <1>. HIDE DEF Gone
  <1>8. IsFiniteSet(Unbooked) /\ Cardinality(Unbooked) = p - r
    <2>1. (1 .. p) \cap Gone = Gone
      BY <1>4
    <2>2. /\ IsFiniteSet((1 .. p) \ Gone)
          /\ Cardinality((1 .. p) \ Gone) = Cardinality(1 .. p) - Cardinality((1 .. p) \cap Gone)
      BY <1>6, FS_Difference
    <2>. QED
      BY <1>3, <1>6, <1>7, <2>1, <2>2
  <1>9. open = Cardinality(Unbooked) + Len(chan)
    BY <1>8 DEF QueuedOnce, Queued, p, r
  <1>10. IsFiniteSet(Ps) /\ Cardinality(Ps) = p - r
    <2>. DEFINE f == [i \in Unbooked |-> pending[i].sig]
    <2>1. \A i, j \in Unbooked : i # j => f[i] # f[j]
      BY <1>3 DEF QueuedOnce, Queued, p
    <2>2. Ps = {f[i] : i \in Unbooked}
      OBVIOUS
    <2>. HIDE DEF f, Ps
    <2>. QED
      BY <1>8, <2>1, <2>2, ImageCardinality
  <1>11. IsFiniteSet(Cs) /\ Cardinality(Cs) = c
    <2>. DEFINE f == [j \in 1 .. c |-> chan[j].sig]
    <2>1. \A i, j \in 1 .. c : i # j => f[i] # f[j]
      BY DEF QueuedOnce, Queued, c
    <2>2. Cs = {f[j] : j \in 1 .. c}
      OBVIOUS
    <2>. HIDE DEF f, Cs
    <2>. QED
      BY <1>6, <2>1, <2>2, ImageCardinality
  <1>12. TrackedSigs = Ps \cup Cs
    BY <1>2 DEF TrackedSigs, ToSet
  <1>13. Ps \cap Cs = {}
    BY <1>3 DEF QueuedOnce, Queued, p, c
  <1>14. \A s \in TrackedSigs : db[s].st = "submitted"
    <2>1. \A i \in Unbooked : i \in 1 .. p /\ ~Removed(i)
      BY <1>3 DEF Removed, Gone, r
    <2>2. \A s \in Ps : db[s].st = "submitted"
      BY <2>1 DEF QueuedOnce, Queued, Awaits, p
    <2>3. \A s \in Cs : db[s].st = "submitted"
      BY DEF QueuedOnce, Queued, Awaits, c
    <2>. QED
      BY <1>12, <2>2, <2>3
  <1>. HIDE DEF Ps, Cs
  <1>15. Cardinality(TrackedSigs) = (p - r) + c
    <2>1. Cardinality(Ps \cup Cs) = Cardinality(Ps) + Cardinality(Cs) - Cardinality(Ps \cap Cs)
      BY <1>10, <1>11, FS_Union
    <2>2. Cardinality(Ps \cap Cs) = 0
      BY <1>13, FS_EmptySet
    <2>3. Cardinality(Ps \cup Cs) = (p - r) + c - 0
      BY <1>10, <1>11, <2>1, <2>2
    <2>. QED
      BY <1>1, <1>12, <2>3
  <1>16. open = p - r + c
    BY DEF QueuedOnce, Queued, p, r, c
  <1>. QED
    BY <1>1, <1>9, <1>14, <1>15, <1>16 DEF TrackedOnce, QueuedOnce, Staged

-----------------------------------------------------------------------------
(* What is booked is what landed, whatever is repeated or abandoned.       *)

LEMMA InitLanded ==
  ASSUME PipelineInit
  PROVE  Landed
  <1>1. /\ phase = "collect" /\ pending = <<>> /\ chan = <<>> /\ statuses = <<>>
        /\ sig = 0 /\ db = [s \in Sigs |-> NoRow] /\ chain = [s \in Sigs |-> Unsent]
    BY DEF PipelineInit
  <1>2. Len(pending) = 0 /\ Len(chan) = 0 /\ Len(statuses) = 0
    BY <1>1, EmptySeq
  <1>3. Remembered
    BY <1>1 DEF Remembered, OnChain, Unsent
  <1>4. Recorded
    <2>1. \A s \in Sigs : db[s].st = "absent"
      BY <1>1 DEF NoRow
    <2>. QED
      BY <1>2, <2>1 DEF Recorded
  <1>5. Polled
    BY <1>1, <1>2 DEF Polled
  <1>. QED
    BY <1>3, <1>4, <1>5 DEF Landed

(* Transaction s becomes c without anything being forgotten.               *)
Grows == \A s \in Sigs : chain[s].seen \subseteq chain'[s].seen

LEMMA EntryStep ==
  ASSUME Typed, Remembered, NEW s \in Sigs, NEW c, chain' = [chain EXCEPT ![s] = c],
         chain[s].seen \subseteq c.seen,
         c.st \in {"processed", "final", "old"} => c.out \in c.seen,
         ~Reorgs /\ c.st \notin {"processed", "final", "old"} => c.seen = {}
  PROVE  Remembered' /\ Grows
  <1>1. chain \in [Sigs -> ChainEntry]
    BY DEF Typed, StoreTyped
  <1>2. \A r \in Sigs : chain'[r] = IF r = s THEN c ELSE chain[r]
    BY <1>1
  <1>. QED
    BY <1>2 DEF Remembered, OnChain, Grows

LEMMA ChainStep ==
  ASSUME TypeOK, Typed, Remembered, [PipelineNext]_allVars
  PROVE  Remembered' /\ Grows
  <1>1. \A s \in Sigs : chain[s] \in ChainEntry
    BY DEF Typed, StoreTyped
  <1>2. CASE UNCHANGED chain
    BY <1>2 DEF Remembered, OnChain, Grows
  <1>3. ASSUME NEW s \in Sigs, NEW v, chain' = [chain EXCEPT ![s] = [chain[s] EXCEPT !.st = v]],
               OnChain(s) <=> v \in {"processed", "final", "old"}
        PROVE  Remembered' /\ Grows
    <2>. DEFINE c == [chain[s] EXCEPT !.st = v]
    <2>1. c.st = v /\ c.out = chain[s].out /\ c.seen = chain[s].seen
      BY <1>1 DEF ChainEntry
    <2>2. chain' = [chain EXCEPT ![s] = c]
      BY <1>3
    <2>. HIDE DEF c
    <2>3. /\ c.st \in {"processed", "final", "old"} => c.out \in c.seen
          /\ ~Reorgs /\ c.st \notin {"processed", "final", "old"} => c.seen = {}
      BY <1>3, <2>1 DEF Remembered
    <2>. QED
      BY <2>1, <2>2, <2>3, EntryStep
  <1>4. CASE JitoAccepts \/ JitoFails \/ RpcAccepts \/ RpcFails
    <2>1. Deliver(sig) \/ UNCHANGED chain
      BY <1>4 DEF JitoAccepts, JitoFails, RpcAccepts, RpcFails
    <2>2. PICK s \in Sigs : s = sig
      <3>1. stage # "idle" /\ tries < MaxTries
        BY <1>4 DEF JitoAccepts, JitoFails, RpcAccepts, RpcFails
      <3>. QED
        BY <3>1, SigInBounds DEF Typed
    <2>3. CASE Deliver(sig) /\ chain[s].st = "unsent"
      <3>1. chain' = [chain EXCEPT ![s] = [chain[s] EXCEPT !.st = "flying"]]
        BY <2>2, <2>3 DEF Deliver
      <3>2. OnChain(s) <=> "flying" \in {"processed", "final", "old"}
        BY <2>3 DEF OnChain
      <3>. QED
        BY <1>3, <3>1, <3>2
    <2>4. CASE Deliver(sig) /\ chain[s].st # "unsent"
      BY <1>2, <2>2, <2>4 DEF Deliver
    <2>. QED
      BY <1>2, <2>1, <2>3, <2>4
  <1>5. CASE Network
    <2>1. PICK s \in Sigs : Land(s) \/ Finalize(s) \/ Forget(s) \/ Reorg(s) \/ Expire(s)
      BY <1>5 DEF Network
    <2>2. CASE Land(s)
      <3>1. PICK o \in Outcomes :
              chain' = [chain EXCEPT ![s] = [st |-> "processed", out |-> o,
                                             seen |-> chain[s].seen \cup {o}]]
        BY <2>2 DEF Land
      <3>. DEFINE c == [st |-> "processed", out |-> o, seen |-> chain[s].seen \cup {o}]
      <3>2. c.st = "processed" /\ c.out \in c.seen /\ chain[s].seen \subseteq c.seen
        OBVIOUS
      <3>3. chain' = [chain EXCEPT ![s] = c]
        BY <3>1
      <3>. HIDE DEF c
      <3>. QED
        BY <3>2, <3>3, EntryStep
    <2>3. CASE Finalize(s)
      BY <1>3, <2>3 DEF Finalize, OnChain
    <2>4. CASE Forget(s)
      BY <1>3, <2>4 DEF Forget, OnChain
    <2>5. CASE Reorg(s)
      <3>. DEFINE c == [st |-> "flying", out |-> NoOutcome, seen |-> chain[s].seen]
      <3>1. chain' = [chain EXCEPT ![s] = c] /\ Reorgs /\ c.st = "flying" /\ c.seen = chain[s].seen
        BY <2>5 DEF Reorg
      <3>. HIDE DEF c
      <3>. QED
        BY <3>1, EntryStep
    <2>6. CASE Expire(s)
      BY <1>3, <2>6 DEF Expire, OnChain
    <2>. QED
      BY <2>1, <2>2, <2>3, <2>4, <2>5, <2>6
  <1>6. ASSUME NEW remaining, EndRound(remaining)
        PROVE  UNCHANGED chain
    BY <1>6 DEF EndRound
  <1>7. CASE Task
    <2>1. UNCHANGED chain
      <3>1. CASE Collect
        BY <1>6, <3>1 DEF Collect
      <3>2. CASE QueryFails \/ FinishRound
        BY <1>6, <3>2 DEF QueryFails, FinishRound
      <3>. QED
        BY <1>7, <3>1, <3>2 DEF Task, QueryAnswers, PassOver, Confirm
    <2>. QED
      BY <1>2, <2>1
  <1>8. CASE UNCHANGED allVars
    BY <1>2, <1>8 DEF allVars, pipeVars
  <1>9. CASE Clock \/ Crash \/ Skip \/ RecordAccepted \/ RecordFailure
    BY <1>2, <1>9 DEF Clock, pipeVars, Crash, Skip, RecordAccepted, RecordFailure
  <1>10. ASSUME NEW opp \in Opps, Consider(opp)
         PROVE  UNCHANGED chain
    BY <1>10 DEF Consider
  <1>. QED
    BY <1>2, <1>4, <1>5, <1>7, <1>8, <1>9, <1>10 DEF PipelineNext, Loop

(* Neither table nor queue touched.                                        *)
LEMMA RecordedUntouched ==
  ASSUME TypeOK, Recorded, tries' \in {tries, tries + 1},
         UNCHANGED <<cur, sig, db, pending, chan>>
  PROVE  Recorded'
  <1>1. \A s \in Sigs : s > tries' => s > tries
    BY DEF TypeOK, Sigs
  <1>. QED
    BY <1>1 DEF Recorded

LEMMA EndRoundRecorded ==
  ASSUME Recorded, NEW remaining \in Seq(Entry), EndRound(remaining),
         \A i \in 1 .. Len(remaining) : Filed(db, remaining[i]),
         \A j \in 1 .. Len(chan') : Filed(db, chan'[j])
  PROVE  Recorded'
  <1>. DEFINE gap == Len(remaining) - Len(pending')
  <1>1. pending' = Evict(remaining) /\ tries' = tries /\ UNCHANGED <<db, cur, sig>>
    BY DEF EndRound, Drop, vars
  <1>2. /\ Len(remaining) \in Nat /\ Len(pending') \in 0 .. Len(remaining)
        /\ \A j \in 1 .. Len(pending') : pending'[j] = remaining[gap + j]
    BY <1>1, LenProperties, EvictProps
  <1>3. \A j \in 1 .. Len(pending') : gap + j \in 1 .. Len(remaining)
    BY <1>2
  <1>. HIDE DEF gap
  <1>4. \A j \in 1 .. Len(pending') : Filed(db', pending'[j])
    BY <1>1, <1>2, <1>3
  <1>. QED
    BY <1>1, <1>4 DEF Recorded

(* Draining the channel puts its entries behind the pending ones.          *)
LEMMA Drained ==
  ASSUME Typed
  PROVE  LET all == pending \o chan
         IN  /\ all \in Seq(Entry)
             /\ \A i \in 1 .. Len(all) :
                  \/ \E j \in 1 .. Len(pending) : all[i] = pending[j]
                  \/ \E j \in 1 .. Len(chan) : all[i] = chan[j]
  <1>. DEFINE all == pending \o chan
              p == Len(pending)
              c == Len(chan)
  <1>1. p \in Nat /\ c \in Nat
    BY LenProperties DEF Typed, TaskTyped
  <1>2. /\ all \in Seq(Entry) /\ Len(all) = p + c
        /\ \A i \in 1 .. p + c : all[i] = IF i <= p THEN pending[i] ELSE chan[i - p]
    BY ConcatProperties DEF Typed, TaskTyped
  <1>. HIDE DEF all, p, c
  <1>3. \A i \in 1 .. p + c : i \in 1 .. p \/ (~(i <= p) /\ i - p \in 1 .. c)
    BY <1>1
  <1>4. \A i \in 1 .. p + c :
          (\E j \in 1 .. p : all[i] = pending[j]) \/ (\E j \in 1 .. c : all[i] = chan[j])
    BY <1>1, <1>2, <1>3
  <1>. QED
    BY <1>2, <1>4 DEF all, p, c

(* What is left after the removals was listed and not removed.             *)
LEMMA Remaining ==
  ASSUME TypeOK, Typed, FinishRound
  PROVE  LET left == RemoveProcessed(pending, toRemove)
         IN  /\ left \in Seq(Entry)
             /\ \A j \in 1 .. Len(left) :
                  \E i \in 1 .. Len(pending) : left[j] = pending[i] /\ ~Removed(i)
  <1>. DEFINE left == RemoveProcessed(pending, toRemove)
  <1>1. Len(pending) \in Nat /\ pending \in Seq(Entry)
    BY EntriesTyped DEF Typed, TaskTyped
  <1>2. toRemove \in Seq(1 .. Len(pending)) /\ Increasing(toRemove)
    <2>1. Len(statuses) \in Nat /\ Len(statuses) =< Len(pending)
      BY LenProperties DEF FinishRound, Typed, TaskTyped
    <2>2. 1 .. Len(statuses) \subseteq 1 .. Len(pending)
      BY <1>1, <2>1
    <2>. QED
      BY <2>2, SeqMonotonic DEF Typed, TaskTyped
  <1>3. left \in Seq(Entry) /\ Len(left) = Len(pending) - Len(toRemove)
    BY <1>1, <1>2, RemoveProcessedProps
  <1>4. \A j \in 1 .. Len(pending) - Len(toRemove) :
          \E i \in 1 .. Len(pending) : left[j] = pending[i]
                                       /\ \A h \in 1 .. Len(toRemove) : toRemove[h] # i
    BY <1>1, <1>2, RemoveProcessedLeaves
  <1>. HIDE DEF left
  <1>5. \A j \in 1 .. Len(left) :
          \E i \in 1 .. Len(pending) : left[j] = pending[i] /\ ~Removed(i)
    BY <1>3, <1>4 DEF Removed
  <1>. QED
    BY <1>3, <1>5 DEF left

(* The row an accepted submission leaves behind.                           *)
LEMMA AcceptedRow ==
  ASSUME TypeOK, Typed, Recorded, RecordAccepted
  PROVE  /\ sig \in Sigs
         /\ db' = [db EXCEPT ![sig] = SubmittedRow(db[sig], cur)]
         /\ db'[sig].st # "absent" /\ db'[sig].est = cur
         /\ db[sig].st # "absent" => db'[sig] = db[sig]
         /\ db[sig].st = "absent" => db'[sig].st = "submitted"
         /\ \A s \in Sigs : s # sig => db'[s] = db[s]
  <1>1. /\ sig \in Sigs
        /\ db' = [db EXCEPT ![sig] = SubmittedRow(db[sig], cur)]
    <2>1. stage # "idle" /\ tries < MaxTries
      BY DEF RecordAccepted, Submit
    <2>. QED
      BY <2>1, SigInBounds DEF Typed, RecordAccepted
  <1>2. db[sig] \in Row /\ db \in [Sigs -> Row]
    BY <1>1 DEF Typed, StoreTyped
  <1>3. db'[sig] = SubmittedRow(db[sig], cur) /\ \A s \in Sigs : s # sig => db'[s] = db[s]
    BY <1>1, <1>2
  <1>4. CASE db[sig].st = "absent"
    <2>1. SubmittedRow(db[sig], cur).st = "submitted" /\ SubmittedRow(db[sig], cur).est = cur
      BY <1>2, <1>4 DEF SubmittedRow, Row
    <2>. QED
      BY <1>1, <1>3, <1>4, <2>1
  <1>5. CASE db[sig].st # "absent"
    <2>1. SubmittedRow(db[sig], cur) = db[sig]
      BY <1>5 DEF SubmittedRow
    <2>. QED
      BY <1>1, <1>3, <1>5, <2>1 DEF Recorded
  <1>. QED
    BY <1>4, <1>5

LEMMA RecordAcceptedRecorded ==
  ASSUME TypeOK, Typed, Recorded, RecordAccepted
  PROVE  Recorded'
  <1>. DEFINE e == [sig |-> sig, est |-> cur, parses |-> stage = "accepted"]
  <1>1. /\ tries' = tries + 1 /\ tries \in Nat /\ sig =< tries + 1 /\ sig \in Sigs
        /\ chan' = Append(chan, e) /\ UNCHANGED <<cur, sig, pending>>
    BY AcceptedRow DEF RecordAccepted, Submit, TypeOK, Typed, LoopTyped
  <1>2. e \in Entry /\ e.sig = sig /\ e.est = cur
    BY <1>1 DEF Entry, Typed, LoopTyped
  <1>. HIDE DEF e
  <1>3. /\ Len(chan') = Len(chan) + 1 /\ Len(chan) \in Nat
        /\ \A j \in 1 .. Len(chan) : chan'[j] = chan[j]
        /\ chan'[Len(chan) + 1] = e
    BY <1>1, <1>2, AppendProperties, LenProperties DEF Typed, TaskTyped
  <1>4. \A x : x.sig \in Sigs /\ Filed(db, x) => Filed(db', x)
    BY AcceptedRow DEF Filed
  <1>5. Filed(db', e)
    BY <1>2, AcceptedRow DEF Filed
  <1>6. /\ \A i \in 1 .. Len(pending) : pending[i].sig \in Sigs
        /\ \A j \in 1 .. Len(chan) : chan[j].sig \in Sigs
        /\ \A s \in Sigs : s \in Nat
    BY EntriesTyped
  <1>7. \A j \in 1 .. Len(chan') : Filed(db', chan'[j])
    <2>1. \A j \in 1 .. Len(chan') : j \in 1 .. Len(chan) \/ j = Len(chan) + 1
      BY <1>3
    <2>. QED
      BY <1>3, <1>4, <1>5, <1>6, <2>1 DEF Recorded
  <1>8. \A i \in 1 .. Len(pending') : Filed(db', pending'[i])
    BY <1>1, <1>4, <1>6 DEF Recorded
  <1>9. \A s \in Sigs : s > tries' => db'[s].st = "absent"
    <2>. SUFFICES ASSUME NEW s \in Sigs, s > tries' PROVE db'[s].st = "absent"
      OBVIOUS
    <2>1. s # sig /\ s > tries
      BY <1>1, <1>6
    <2>. QED
      BY <2>1, AcceptedRow DEF Recorded
  <1>10. db'[sig'].est = cur'
    BY <1>1, AcceptedRow
  <1>. QED
    BY <1>7, <1>8, <1>9, <1>10 DEF Recorded

(* The entry being booked, the status taken for its own, and its row.      *)
LEMMA BookedEntry ==
  ASSUME TypeOK, Typed, Landed, NEW pnl \in Pnls, NEW ok \in BOOLEAN, Confirm(pnl, ok)
  PROVE  LET s == pending[idx].sig
             t == batch[idx]
         IN  /\ idx \in 1 .. Len(pending) /\ ~Removed(idx) /\ s \in Sigs
             /\ t \in Sigs
             /\ t = s \/ s \in Shifted
             /\ \E o \in chain[t].seen : o.ok = ok
             /\ pnl \in {o.pnl : o \in chain[t].seen}
                         \cup {IF ok THEN db[s].est ELSE -FailFee}
             /\ db[s].st # "absent"
             /\ db'[s].st = "confirmed" /\ db'[s].ok = ok /\ db'[s].pnl = pnl
             /\ db'[s].est = db[s].est
             /\ \A r \in Sigs : r # s => db'[r] = db[r]
  <1>. DEFINE p == pending[idx]
              s == p.sig
              t == batch[idx]
  <1>1. /\ phase = "process" /\ idx =< Len(statuses)
        /\ statuses[idx].known /\ ok = statuses[idx].ok
        /\ pnl \in ReportedPnl(p, t, ok)
        /\ db' = [db EXCEPT ![s] = ConfirmedRow(db[s], pnl, ok)]
    BY DEF Confirm
  <1>2. /\ Len(statuses) \in Nat /\ Len(batch) \in Nat /\ Len(pending) \in Nat
        /\ Len(statuses) = Len(batch) /\ Len(batch) =< Len(pending)
    BY <1>1, LenProperties DEF Typed, TaskTyped
  <1>3. idx \in 1 .. Len(statuses) /\ idx \in 1 .. Len(batch) /\ idx \in 1 .. Len(pending)
    BY <1>1, <1>2 DEF Typed, TaskTyped
  <1>4. ~Removed(idx)
    BY <1>3 DEF Removed, Typed, TaskTyped
  <1>5. p \in Entry /\ s \in Sigs
    BY <1>3, EntriesTyped
  <1>6. t \in Sigs
    BY <1>3, ElementOfSeq DEF Typed, TaskTyped
  <1>7. t = s \/ s \in Shifted
    <2>1. t = ParsedSigs(pending)[idx]
      BY <1>1 DEF Landed, Polled
    <2>2. CASE \A j \in 1 .. idx : pending[j].parses
      <3>1. ParsedSigs(pending)[idx] = pending[idx].sig
        BY <1>3, <2>2, ParsedSigsProps DEF Typed, TaskTyped
      <3>. QED
        BY <2>1, <3>1
    <2>3. CASE \E j \in 1 .. idx : ~pending[j].parses
      <3>1. idx \in DOMAIN pending
        BY <1>3, LenProperties DEF Typed, TaskTyped
      <3>. QED
        BY <2>3, <3>1 DEF Shifted
    <2>. QED
      BY <2>2, <2>3
  <1>8. \E o \in chain[t].seen : o.ok = ok
    BY <1>1, <1>3 DEF Landed, Polled
  <1>9. Filed(db, p)
    BY <1>3 DEF Landed, Recorded
  <1>10. pnl \in {o.pnl : o \in chain[t].seen} \cup {IF ok THEN db[s].est ELSE -FailFee}
    <2>1. CASE pnl = IF ok THEN p.est ELSE -FailFee
      BY <1>9, <2>1 DEF Filed
    <2>2. CASE chain[t].st \in {"final", "old"} /\ pnl = chain[t].out.pnl
      <3>1. chain[t].out \in chain[t].seen
        BY <1>6, <2>2 DEF Landed, Remembered, OnChain
      <3>. QED
        BY <2>2, <3>1
    <2>. QED
      BY <1>1, <2>1, <2>2 DEF ReportedPnl
  <1>11. /\ ConfirmedRow(db[s], pnl, ok).st = "confirmed"
         /\ ConfirmedRow(db[s], pnl, ok).ok = ok
         /\ ConfirmedRow(db[s], pnl, ok).pnl = pnl
         /\ ConfirmedRow(db[s], pnl, ok).est = db[s].est
    <2>1. db[s] \in Row /\ db[s].st # "absent"
      BY <1>5, <1>9 DEF Filed, Typed, StoreTyped
    <2>. QED
      BY <2>1 DEF ConfirmedRow, Row
  <1>12. db'[s] = ConfirmedRow(db[s], pnl, ok) /\ \A r \in Sigs : r # s => db'[r] = db[r]
    BY <1>1, <1>5 DEF Typed, StoreTyped
  <1>13. db[s].st # "absent"
    BY <1>9 DEF Filed
  <1>. QED
    BY <1>3, <1>4, <1>5, <1>6, <1>7, <1>8, <1>10, <1>11, <1>12, <1>13

LEMMA ConfirmRecorded ==
  ASSUME TypeOK, Typed, Landed, NEW pnl \in Pnls, NEW ok \in BOOLEAN, Confirm(pnl, ok)
  PROVE  Recorded'
  <1>. DEFINE q == pending[idx].sig
  <1>1. /\ tries' = tries /\ UNCHANGED <<cur, sig, pending, chan>>
    BY DEF Confirm, Book
  <1>2. /\ q \in Sigs /\ db[q].st # "absent"
        /\ db'[q].st = "confirmed" /\ db'[q].est = db[q].est
        /\ \A r \in Sigs : r # q => db'[r] = db[r]
    BY BookedEntry
  <1>. HIDE DEF q
  <1>3. \A x : x.sig \in Sigs /\ Filed(db, x) => Filed(db', x)
    BY <1>2 DEF Filed
  <1>4. /\ \A i \in 1 .. Len(pending) : pending[i].sig \in Sigs
        /\ \A j \in 1 .. Len(chan) : chan[j].sig \in Sigs
    BY EntriesTyped
  <1>. QED
    BY <1>1, <1>2, <1>3, <1>4 DEF Landed, Recorded

LEMMA NextRecorded ==
  ASSUME TypeOK, Typed, Landed, [PipelineNext]_allVars
  PROVE  Recorded'
  <1>. USE DEF Landed
  <1>1. CASE UNCHANGED allVars
    BY <1>1, RecordedUntouched DEF allVars, vars, pipeVars, confVars
  <1>2. ASSUME NEW opp \in Opps, Consider(opp)
        PROVE  Recorded'
    <2>1. tries' = tries /\ tries \in Nat /\ UNCHANGED <<db, pending, chan>>
      BY <1>2 DEF Consider, Check, confVars, TypeOK
    <2>2. CASE sig' = tries + 1
      <3>1. sig' \in Sigs => db[sig'].st = "absent"
        BY <2>1, <2>2 DEF Recorded
      <3>. QED
        BY <2>1, <3>1 DEF Recorded
    <2>3. CASE sig' = sig /\ cur' = cur
      BY <2>1, <2>3 DEF Recorded
    <2>. QED
      BY <1>2, <2>2, <2>3 DEF Consider
  <1>3. CASE Skip \/ RecordFailure
    BY <1>3, RecordedUntouched DEF Skip, Abandon, RecordFailure, SubmitFails, confVars
  <1>4. CASE JitoAccepts \/ JitoFails \/ RpcAccepts \/ RpcFails
    BY <1>4, RecordedUntouched
    DEF JitoAccepts, JitoFails, RpcAccepts, RpcFails, Sending, vars, confVars
  <1>5. CASE Network
    BY <1>5, RecordedUntouched
    DEF Network, Land, Finalize, Forget, Reorg, Expire, OnlyChain, vars, confVars
  <1>6. CASE QueryAnswers \/ PassOver
    BY <1>6, RecordedUntouched DEF QueryAnswers, PassOver, vars
  <1>7. CASE Clock
    BY <1>7, RecordedUntouched DEF Clock, Tick, NextDay, pipeVars, confVars
  <1>8. CASE Crash
    <2>1. /\ sig' = 0 /\ tries' = tries /\ db' = db /\ chan' = <<>> /\ pending' = <<>>
      BY <1>8 DEF Crash, Restart
    <2>2. Len(chan') = 0 /\ Len(pending') = 0 /\ sig' \notin Sigs
      BY <2>1, EmptySeq DEF Sigs
    <2>. QED
      BY <2>1, <2>2 DEF Recorded
  <1>9. CASE Collect
    <2>. DEFINE all == pending \o chan
    <2>1. all \in Seq(Entry) /\ \A i \in 1 .. Len(all) : Filed(db, all[i])
      BY Drained DEF Recorded
    <2>2. Len(chan') = 0
      BY <1>9, EmptySeq DEF Collect
    <2>3. CASE ParsedSigs(all) = <<>>
      <3>1. EndRound(all)
        BY <1>9, <2>3 DEF Collect
      <3>. HIDE DEF all
      <3>2. \A j \in 1 .. Len(chan') : Filed(db, chan'[j])
        BY <2>2
      <3>. QED
        BY <2>1, <3>1, <3>2, EndRoundRecorded
    <2>4. CASE ParsedSigs(all) # <<>>
      <3>1. pending' = all /\ tries' = tries /\ UNCHANGED <<cur, sig, db>>
        BY <1>9, <2>4 DEF Collect, vars
      <3>. HIDE DEF all
      <3>. QED
        BY <2>1, <2>2, <3>1 DEF Recorded
    <2>. QED
      BY <2>3, <2>4
  <1>10. CASE QueryFails
    BY <1>10, EndRoundRecorded DEF QueryFails, Recorded, Typed, TaskTyped
  <1>11. CASE FinishRound
    <2>. DEFINE left == RemoveProcessed(pending, toRemove)
    <2>1. /\ left \in Seq(Entry)
          /\ \A j \in 1 .. Len(left) : \E i \in 1 .. Len(pending) : left[j] = pending[i]
      BY <1>11, Remaining
    <2>2. chan' = chan /\ EndRound(left)
      BY <1>11 DEF FinishRound
    <2>. HIDE DEF left
    <2>. QED
      BY <2>1, <2>2, EndRoundRecorded DEF Recorded
  <1>. QED
    BY <1>1, <1>2, <1>3, <1>4, <1>5, <1>6, <1>7, <1>8, <1>9, <1>10, <1>11,
       RecordAcceptedRecorded, ConfirmRecorded DEF PipelineNext, Loop, Task

(* Neither the list nor the answers touched.                               *)
LEMMA PolledUntouched ==
  ASSUME Typed, Polled, Grows, UNCHANGED <<pending, phase, batch, statuses>>
  PROVE  Polled'
  <1>1. \A i \in 1 .. Len(statuses) : batch[i] \in Sigs
    <2>1. phase = "process" \/ Len(statuses) = 0
      BY EmptySeq DEF Typed, TaskTyped
    <2>. QED
      BY <2>1, ElementOfSeq DEF Typed, TaskTyped
  <1>2. \A i \in 1 .. Len(statuses) :
          statuses[i].known => \E o \in chain'[batch[i]].seen : o.ok = statuses[i].ok
    BY <1>1 DEF Polled, Grows
  <1>. QED
    BY <1>2 DEF Polled

LEMMA NextPolled ==
  ASSUME TypeOK, Typed, Landed, Grows, [PipelineNext]_allVars
  PROVE  Polled'
  <1>. USE DEF Landed
  <1>1. CASE UNCHANGED <<pending, phase, batch, statuses>>
    BY <1>1, PolledUntouched
  <1>2. CASE phase' = "collect" /\ statuses' = <<>>
    BY <1>2, EmptySeq DEF Polled
  <1>3. ASSUME NEW remaining, EndRound(remaining)
        PROVE  Polled'
    BY <1>2, <1>3 DEF EndRound
  <1>4. CASE Loop \/ Clock \/ UNCHANGED allVars
    <2>1. ASSUME NEW opp \in Opps, Consider(opp)
          PROVE  UNCHANGED <<pending, phase, batch, statuses>>
      BY <2>1 DEF Consider, confVars
    <2>. QED
      BY <1>1, <1>4, <2>1
      DEF Loop, Skip, JitoAccepts, JitoFails, RpcAccepts, RpcFails, Sending,
          RecordAccepted, RecordFailure, Clock, pipeVars, allVars, confVars
  <1>5. CASE Network
    BY <1>1, <1>5 DEF Network, Land, Finalize, Forget, Reorg, Expire, OnlyChain, confVars
  <1>6. CASE Crash
    BY <1>2, <1>6 DEF Crash
  <1>7. CASE Collect
    <2>1. CASE ParsedSigs(pending \o chan) = <<>>
      BY <1>3, <1>7, <2>1 DEF Collect
    <2>2. CASE ParsedSigs(pending \o chan) # <<>>
      <3>1. /\ pending' = pending \o chan /\ batch' = ParsedSigs(pending \o chan)
            /\ statuses' = statuses
        BY <1>7, <2>2 DEF Collect
      <3>2. Len(statuses') = 0
        BY <1>7, <3>1, EmptySeq DEF Collect, Typed, TaskTyped
      <3>. QED
        BY <3>1, <3>2 DEF Polled
    <2>. QED
      BY <2>1, <2>2
  <1>8. CASE QueryAnswers
    <2>1. /\ statuses' = [i \in DOMAIN batch |->
                            [known |-> Recent(batch[i]), ok |-> chain[batch[i]].out.ok]]
          /\ phase = "query" /\ UNCHANGED <<chain, pending, batch>>
      BY <1>8 DEF QueryAnswers
    <2>2. /\ DOMAIN batch = 1 .. Len(batch) /\ Len(batch) \in Nat
          /\ \A i \in 1 .. Len(batch) : batch[i] \in Sigs
      BY LenProperties, ElementOfSeq DEF Typed, TaskTyped
    <2>3. Len(statuses') = Len(batch)
      BY <2>1, <2>2
    <2>4. \A i \in 1 .. Len(batch) :
            /\ statuses'[i].known = Recent(batch[i])
            /\ statuses'[i].ok = chain[batch[i]].out.ok
      BY <2>1, <2>2
    <2>5. \A i \in 1 .. Len(batch) :
            Recent(batch[i]) => chain[batch[i]].out \in chain[batch[i]].seen
      BY <2>2 DEF Remembered, Recent, OnChain
    <2>6. batch = ParsedSigs(pending)
      BY <2>1 DEF Polled
    <2>. QED
      BY <2>1, <2>3, <2>4, <2>5, <2>6 DEF Polled
  <1>9. CASE QueryFails \/ FinishRound
    BY <1>3, <1>9 DEF QueryFails, FinishRound
  <1>10. CASE PassOver
    BY <1>1, <1>10 DEF PassOver
  <1>11. ASSUME NEW pnl \in Pnls, NEW ok \in BOOLEAN, Confirm(pnl, ok)
         PROVE  Polled'
    BY <1>1, <1>11 DEF Confirm
  <1>. QED
    BY <1>4, <1>5, <1>6, <1>7, <1>8, <1>9, <1>10, <1>11 DEF PipelineNext, Task

LEMMA NextLanded ==
  ASSUME TypeOK, Typed, Landed, [PipelineNext]_allVars
  PROVE  Landed'
  <1>1. Remembered' /\ Grows
    BY ChainStep DEF Landed
  <1>. QED
    BY <1>1, NextRecorded, NextPolled DEF Landed

-----------------------------------------------------------------------------
(* The pipeline implements the ledger.                                     *)

(* The trades of entries still to be booked.                               *)
TrackedFacts ==
  \A s : s \in TrackedSigs <=>
           \/ \E i \in 1 .. Len(pending) : ~Removed(i) /\ pending[i].sig = s
           \/ \E j \in 1 .. Len(chan) : chan[j].sig = s

LEMMA TrackedSet == Typed => TrackedFacts
  <1>. SUFFICES ASSUME Typed PROVE TrackedFacts
    OBVIOUS
  <1>1. /\ DOMAIN pending = 1 .. Len(pending) /\ DOMAIN chan = 1 .. Len(chan)
        /\ DOMAIN toRemove = 1 .. Len(toRemove)
    BY LenProperties DEF Typed, TaskTyped
  <1>2. Unbooked = {i \in 1 .. Len(pending) : ~Removed(i)}
    BY <1>1 DEF Unbooked, ToSet, Removed
  <1>3. {e.sig : e \in ToSet(chan)} = {chan[j].sig : j \in 1 .. Len(chan)}
    BY <1>1 DEF ToSet
  <1>. QED
    BY <1>2, <1>3 DEF TrackedSigs, TrackedFacts

LEMMA TrackedSetNext == Typed' => TrackedFacts'
  BY TrackedSet, PTL

(* What the invariants say of the ledger's states.                         *)
LedgerFacts ==
  /\ TrackedSigs \subseteq Sigs
  /\ \A s \in Sigs :
       /\ db[s].st \in {"absent", "submitted", "confirmed"}
       /\ s \in TrackedSigs => db[s].st # "absent"
       /\ LedgerState(s) = IF db[s].st = "absent" THEN "none"
                           ELSE IF s \in TrackedSigs
                             THEN IF db[s].st = "confirmed" THEN "again" ELSE "open"
                             ELSE IF db[s].st = "confirmed" THEN "settled" ELSE "lost"

LEMMA LedgerStates == Typed /\ Recorded => LedgerFacts
  <1>. SUFFICES ASSUME Typed, Recorded PROVE LedgerFacts
    OBVIOUS
  <1>1. \A s \in TrackedSigs : s \in Sigs /\ db[s].st # "absent"
    <2>1. \A e \in Entry : e.sig \in Sigs
      BY DEF Entry
    <2>2. /\ \A i \in 1 .. Len(pending) : pending[i] \in Entry
          /\ \A j \in 1 .. Len(chan) : chan[j] \in Entry
      BY ElementOfSeq DEF Typed, TaskTyped
    <2>. QED
      BY <2>1, <2>2, TrackedSet DEF TrackedFacts, Recorded, Filed
  <1>2. \A s \in Sigs : db[s].st \in {"absent", "submitted", "confirmed"}
    <2>1. \A r \in Row : r.st \in {"absent", "submitted", "confirmed"}
      BY DEF Row
    <2>. QED
      BY <2>1 DEF Typed, StoreTyped
  <1>3. ASSUME NEW s \in Sigs
        PROVE  LedgerState(s) = IF db[s].st = "absent" THEN "none"
                                ELSE IF s \in TrackedSigs
                                  THEN IF db[s].st = "confirmed" THEN "again" ELSE "open"
                                  ELSE IF db[s].st = "confirmed" THEN "settled" ELSE "lost"
    <2>1. CASE db[s].st = "absent"
      <3>1. s \notin TrackedSigs
        BY <1>1, <2>1
      <3>. QED
        BY <2>1, <3>1 DEF LedgerState
    <2>2. CASE db[s].st = "submitted" /\ s \in TrackedSigs
      BY <2>2 DEF LedgerState
    <2>3. CASE db[s].st = "submitted" /\ s \notin TrackedSigs
      BY <2>3 DEF LedgerState
    <2>4. CASE db[s].st = "confirmed" /\ s \in TrackedSigs
      BY <2>4 DEF LedgerState
    <2>5. CASE db[s].st = "confirmed" /\ s \notin TrackedSigs
      BY <2>5 DEF LedgerState
    <2>. QED
      BY <1>2, <2>1, <2>2, <2>3, <2>4, <2>5
  <1>. QED
    BY <1>1, <1>2, <1>3 DEF LedgerFacts

LEMMA LedgerStatesNext == (Typed /\ Recorded)' => LedgerFacts'
  BY LedgerStates, PTL

(* What new transactions add: no trade is handed over or settled twice.    *)
Once == ~Repeats => QueuedOnce /\ TrackedOnce

(* The ledger's variables.                                                 *)
Fate(s) == {Verdict(o.ok) : o \in chain[s].seen}
Booking(s) == IF db[s].st = "confirmed" THEN Verdict(db[s].ok) ELSE "unknown"
State == [s \in Sigs |-> LedgerState(s)]
Fates == [s \in Sigs |-> Fate(s)]
Bookings == [s \in Sigs |-> Booking(s)]

LEMMA LedgerStutters ==
  ASSUME UNCHANGED <<State, Fates, Bookings>>
  PROVE  UNCHANGED Ledger!lvars
  BY DEF Ledger!lvars, State, Fates, Bookings, Fate, Booking

LEMMA LedgerHandsOver ==
  ASSUME NEW s \in Sigs, NEW v, State' = [State EXCEPT ![s] = v],
         \/ State[s] = "none" /\ v = "open"
         \/ Repeats /\ State[s] = "lost" /\ v = "open"
         \/ Repeats /\ State[s] = "settled" /\ v = "again",
         UNCHANGED <<Fates, Bookings>>
  PROVE  Ledger!Next
  <1>1. Ledger!HandOver(s)
    BY DEF Ledger!HandOver, State, Fates, Bookings, Fate, Booking
  <1>. QED
    BY <1>1 DEF Ledger!Next

LEMMA LedgerDecides ==
  ASSUME NEW s \in Sigs, NEW f \in {"ok", "failed"}, Reorgs \/ Fates[s] = {},
         Fates' = [Fates EXCEPT ![s] = Fates[s] \cup {f}], UNCHANGED <<State, Bookings>>
  PROVE  Ledger!Next
  <1>1. Ledger!Decide(s, f)
    BY DEF Ledger!Decide, State, Fates, Bookings, Fate, Booking
  <1>. QED
    BY <1>1 DEF Ledger!Next

LEMMA LedgerSettles ==
  ASSUME NEW s \in Sigs, NEW t \in Sigs, t = s \/ s \in Shifted,
         State[s] \in {"open", "again"},
         NEW f \in Fates[t], Bookings' = [Bookings EXCEPT ![s] = f],
         NEW v \in {"settled"} \cup (IF Repeats THEN {"again"} ELSE {}),
         State' = [State EXCEPT ![s] = v],
         UNCHANGED Fates
  PROVE  Ledger!Next
  <1>1. Ledger!Settle(s, t)
    BY DEF Ledger!Settle, State, Fates, Bookings, Fate, Booking
  <1>. QED
    BY <1>1 DEF Ledger!Next

LEMMA LedgerLoses ==
  ASSUME NEW S \in SUBSET Sigs, \A s \in S : State[s] \in {"open", "again"},
         State' = [s \in Sigs |-> IF s \notin S THEN State[s]
                                  ELSE IF State[s] = "open" THEN "lost" ELSE "settled"],
         UNCHANGED <<Fates, Bookings>>
  PROVE  Ledger!Next
  <1>1. Ledger!Lose(S)
    BY DEF Ledger!Lose, State, Fates, Bookings, Fate, Booking
  <1>. QED
    BY <1>1 DEF Ledger!Next

(* The chain and the table decide fates and bookings.                      *)
LEMMA FatesUntouched ==
  ASSUME UNCHANGED chain
  PROVE  UNCHANGED Fates
  BY DEF Fates, Fate

LEMMA BookingsUntouched ==
  ASSUME UNCHANGED db
  PROVE  UNCHANGED Bookings
  BY DEF Bookings, Booking

(* No entry added, no row written: the trades no longer tracked are lost.  *)
LEMMA TrackedLost ==
  ASSUME Typed, Typed', Recorded, Recorded',
         UNCHANGED <<chain, db>>, TrackedSigs' \subseteq TrackedSigs
  PROVE  Ledger!Next
  <1>. DEFINE S == TrackedSigs \ TrackedSigs'
  <1>1. LedgerFacts /\ LedgerFacts'
    BY LedgerStates, LedgerStatesNext
  <1>2. \A s \in Sigs : State[s] = LedgerState(s)
    BY DEF State
  <1>3. S \in SUBSET Sigs /\ \A s \in S : State[s] \in {"open", "again"}
    BY <1>1, <1>2 DEF LedgerFacts
  <1>4. ASSUME NEW s \in Sigs
        PROVE  LedgerState(s)' = IF s \notin S THEN State[s]
                                 ELSE IF State[s] = "open" THEN "lost" ELSE "settled"
    <2>1. /\ db[s].st = "absent" => LedgerState(s) = "none" /\ s \notin TrackedSigs
          /\ db[s].st # "absent" =>
               LedgerState(s) = IF s \in TrackedSigs
                             THEN IF db[s].st = "confirmed" THEN "again" ELSE "open"
                             ELSE IF db[s].st = "confirmed" THEN "settled" ELSE "lost"
          /\ db[s].st = "absent" => LedgerState(s)' = "none"
          /\ db[s].st # "absent" =>
               LedgerState(s)' = IF s \in TrackedSigs'
                             THEN IF db[s].st = "confirmed" THEN "again" ELSE "open"
                             ELSE IF db[s].st = "confirmed" THEN "settled" ELSE "lost"
      BY <1>1 DEF LedgerFacts
    <2>2. CASE s \in S
      BY <1>2, <2>1, <2>2
    <2>3. CASE s \notin S
      <3>1. s \in TrackedSigs <=> s \in TrackedSigs'
        BY <2>3
      <3>. QED
        BY <1>2, <2>1, <2>3, <3>1
    <2>. QED
      BY <2>2, <2>3
  <1>5. State' = [s \in Sigs |-> LedgerState(s)']
    BY DEF State
  <1>6. State' = [s \in Sigs |-> IF s \notin S THEN State[s]
                                 ELSE IF State[s] = "open" THEN "lost" ELSE "settled"]
    BY <1>4, <1>5
  <1>. HIDE DEF S
  <1>. QED
    BY <1>3, <1>6, LedgerLoses, FatesUntouched, BookingsUntouched

(* Neither queue nor table touched.                                        *)
LEMMA StateUntouched ==
  ASSUME UNCHANGED <<db, pending, chan, toRemove>>
  PROVE  UNCHANGED State /\ UNCHANGED Bookings
  BY DEF State, LedgerState, TrackedSigs, Unbooked, Bookings, Booking

LEMMA EndRoundLedger ==
  ASSUME Typed, Typed', Recorded, Recorded',
         NEW remaining \in Seq(Entry), EndRound(remaining),
         \A i \in 1 .. Len(remaining) : remaining[i].sig \in TrackedSigs,
         \A j \in 1 .. Len(chan') : chan'[j].sig \in TrackedSigs
  PROVE  Ledger!Next
  <1>. DEFINE gap == Len(remaining) - Len(pending')
  <1>1. pending' = Evict(remaining) /\ UNCHANGED <<chain, db>>
    BY DEF EndRound
  <1>2. /\ Len(remaining) \in Nat /\ Len(pending') \in 0 .. Len(remaining)
        /\ \A j \in 1 .. Len(pending') : pending'[j] = remaining[gap + j]
    BY <1>1, LenProperties, EvictProps
  <1>3. \A j \in 1 .. Len(pending') : gap + j \in 1 .. Len(remaining)
    BY <1>2
  <1>. HIDE DEF gap
  <1>4. \A j \in 1 .. Len(pending') : pending'[j].sig \in TrackedSigs
    BY <1>2, <1>3
  <1>5. TrackedSigs' \subseteq TrackedSigs
    BY <1>4, TrackedSetNext DEF TrackedFacts
  <1>. QED
    BY <1>1, <1>5, TrackedLost

LEMMA CollectLedger ==
  ASSUME Typed, Typed', Recorded, Recorded', Collect
  PROVE  Ledger!Next
  <1>. DEFINE all == pending \o chan
  <1>1. TrackedFacts /\ \A i : ~Removed(i)
    <2>1. toRemove = <<>> /\ Len(<<>>) = 0
      BY EmptySeq DEF Collect, Typed, TaskTyped
    <2>. QED
      BY <2>1, TrackedSet DEF Removed
  <1>2. all \in Seq(Entry) /\ \A i \in 1 .. Len(all) : all[i].sig \in TrackedSigs
    BY <1>1, Drained DEF TrackedFacts
  <1>3. chan' = <<>> /\ Len(chan') = 0
    BY EmptySeq DEF Collect
  <1>4. CASE ParsedSigs(all) = <<>>
    <2>1. EndRound(all)
      BY <1>4 DEF Collect
    <2>. HIDE DEF all
    <2>2. \A j \in 1 .. Len(chan') : chan'[j].sig \in TrackedSigs
      BY <1>3
    <2>. QED
      BY <1>2, <2>1, <2>2, EndRoundLedger
  <1>5. CASE ParsedSigs(all) # <<>>
    <2>1. pending' = all /\ UNCHANGED <<chain, db>>
      BY <1>5 DEF Collect
    <2>. HIDE DEF all
    <2>2. TrackedSigs' \subseteq TrackedSigs
      BY <1>2, <1>3, <2>1, TrackedSetNext DEF TrackedFacts
    <2>. QED
      BY <2>1, <2>2, TrackedLost
  <1>. QED
    BY <1>4, <1>5

LEMMA FinishRoundLedger ==
  ASSUME TypeOK, Typed, Typed', Recorded, Recorded', FinishRound
  PROVE  Ledger!Next
  <1>. DEFINE left == RemoveProcessed(pending, toRemove)
  <1>1. /\ left \in Seq(Entry)
        /\ \A j \in 1 .. Len(left) :
             \E i \in 1 .. Len(pending) : left[j] = pending[i] /\ ~Removed(i)
    BY Remaining
  <1>2. chan' = chan /\ EndRound(left)
    BY DEF FinishRound
  <1>. HIDE DEF left
  <1>3. TrackedFacts
    BY TrackedSet
  <1>4. \A i \in 1 .. Len(left) : left[i].sig \in TrackedSigs
    BY <1>1, <1>3 DEF TrackedFacts
  <1>5. \A j \in 1 .. Len(chan') : chan'[j].sig \in TrackedSigs
    BY <1>2, <1>3 DEF TrackedFacts
  <1>. QED
    BY <1>1, <1>2, <1>4, <1>5, EndRoundLedger

LEMMA QueryFailsLedger ==
  ASSUME Typed, Typed', Recorded, Recorded', QueryFails
  PROVE  Ledger!Next
  <1>1. TrackedFacts /\ \A i : ~Removed(i)
    <2>1. toRemove = <<>> /\ Len(<<>>) = 0
      BY EmptySeq DEF QueryFails, Typed, TaskTyped
    <2>. QED
      BY <2>1, TrackedSet DEF Removed
  <1>2. \A i \in 1 .. Len(pending) : pending[i].sig \in TrackedSigs
    BY <1>1 DEF TrackedFacts
  <1>3. \A j \in 1 .. Len(chan) : chan[j].sig \in TrackedSigs
    BY <1>1 DEF TrackedFacts
  <1>. QED
    BY <1>2, <1>3, EndRoundLedger DEF QueryFails, Typed, TaskTyped

(* A step that tracks s too, or books it, and touches no other trade.      *)
LEMMA OneTrade ==
  ASSUME LedgerFacts, LedgerFacts', NEW s \in Sigs,
         \A r \in Sigs : r # s => db'[r] = db[r]
                                  /\ (r \in TrackedSigs' <=> r \in TrackedSigs)
  PROVE  State' = [State EXCEPT ![s] = LedgerState(s)']
  <1>1. ASSUME NEW r \in Sigs, r # s
        PROVE  LedgerState(r)' = LedgerState(r)
    <2>1. LedgerState(r) = IF db[r].st = "absent" THEN "none"
                           ELSE IF r \in TrackedSigs
                             THEN IF db[r].st = "confirmed" THEN "again" ELSE "open"
                             ELSE IF db[r].st = "confirmed" THEN "settled" ELSE "lost"
      BY DEF LedgerFacts
    <2>2. LedgerState(r)' = IF db'[r].st = "absent" THEN "none"
                           ELSE IF r \in TrackedSigs'
                             THEN IF db'[r].st = "confirmed" THEN "again" ELSE "open"
                             ELSE IF db'[r].st = "confirmed" THEN "settled" ELSE "lost"
      BY DEF LedgerFacts
    <2>3. db'[r] = db[r] /\ (r \in TrackedSigs' <=> r \in TrackedSigs)
      BY <1>1
    <2>4. CASE r \in TrackedSigs
      <3>1. r \in TrackedSigs'
        BY <2>3, <2>4
      <3>. QED
        BY <2>1, <2>2, <2>3, <2>4, <3>1
    <2>5. CASE r \notin TrackedSigs
      <3>1. r \notin TrackedSigs'
        BY <2>3, <2>5
      <3>. QED
        BY <2>1, <2>2, <2>3, <2>5, <3>1
    <2>. QED
      BY <2>4, <2>5
  <1>2. State' = [r \in Sigs |-> LedgerState(r)']
    BY DEF State
  <1>. QED
    BY <1>1, <1>2 DEF State

LEMMA RecordAcceptedLedger ==
  ASSUME TypeOK, Typed, Typed', Recorded, Recorded', Once, RecordAccepted
  PROVE  [Ledger!Next]_(Ledger!lvars)
  <1>. DEFINE e == [sig |-> sig, est |-> cur, parses |-> stage = "accepted"]
  <1>1. chan' = Append(chan, e) /\ UNCHANGED <<chain, pending, toRemove>>
    BY DEF RecordAccepted
  <1>2. PICK r \in Sigs : r = sig
    BY AcceptedRow
  <1>3. e \in Entry /\ e.sig = r
    BY <1>2 DEF Entry, Typed, LoopTyped
  <1>. HIDE DEF e
  <1>4. /\ Len(chan') = Len(chan) + 1 /\ Len(chan) \in Nat
        /\ \A j \in 1 .. Len(chan) : chan'[j] = chan[j]
        /\ chan'[Len(chan) + 1] = e
    BY <1>1, <1>3, AppendProperties, LenProperties DEF Typed, TaskTyped
  <1>5. LedgerFacts /\ LedgerFacts' /\ TrackedFacts /\ TrackedFacts'
    BY LedgerStates, LedgerStatesNext, TrackedSet, TrackedSetNext
  <1>6. \A s : s \in TrackedSigs' <=> s \in TrackedSigs \/ s = r
    <2>1. \A j \in 1 .. Len(chan') : j \in 1 .. Len(chan) \/ j = Len(chan) + 1
      BY <1>4
    <2>2. /\ \A j \in 1 .. Len(chan) : j \in 1 .. Len(chan')
          /\ Len(chan) + 1 \in 1 .. Len(chan')
      BY <1>4
    <2>3. \A s : (\E j \in 1 .. Len(chan') : chan'[j].sig = s)
                   <=> (\E j \in 1 .. Len(chan) : chan[j].sig = s) \/ s = r
      BY <1>3, <1>4, <2>1, <2>2
    <2>4. \A i : Removed(i)' <=> Removed(i)
      BY <1>1 DEF Removed
    <2>. QED
      BY <1>1, <1>5, <2>3, <2>4 DEF TrackedFacts
  <1>7. /\ db[r].st # "absent" => db'[r] = db[r]
        /\ db[r].st = "absent" => db'[r].st = "submitted"
        /\ \A s \in Sigs : s # r => db'[s] = db[s]
    BY <1>2, AcceptedRow
  <1>8. State' = [State EXCEPT ![r] = LedgerState(r)']
    BY <1>5, <1>6, <1>7, OneTrade
  <1>9. UNCHANGED <<Fates, Bookings>>
    <2>1. \A s \in Sigs : Booking(s)' = Booking(s)
      BY <1>7 DEF Booking
    <2>2. Bookings' = [s \in Sigs |-> Booking(s)']
      BY DEF Bookings
    <2>. QED
      BY <1>1, <2>1, <2>2, FatesUntouched DEF Bookings
  <1>10. LedgerState(r)' = IF db[r].st = "confirmed" THEN "again" ELSE "open"
    <2>1. /\ r \in TrackedSigs' /\ db'[r].st # "absent"
          /\ db'[r].st = "confirmed" <=> db[r].st = "confirmed"
      BY <1>6, <1>7
    <2>2. db'[r].st # "absent" /\ r \in TrackedSigs' =>
            LedgerState(r)' = IF db'[r].st = "confirmed" THEN "again" ELSE "open"
      BY <1>5 DEF LedgerFacts
    <2>. QED
      BY <2>1, <2>2
  <1>11. /\ db[r].st = "absent" => State[r] = "none"
         /\ db[r].st # "absent" /\ r \in TrackedSigs =>
              State[r] = IF db[r].st = "confirmed" THEN "again" ELSE "open"
         /\ db[r].st # "absent" /\ r \notin TrackedSigs =>
              State[r] = IF db[r].st = "confirmed" THEN "settled" ELSE "lost"
    BY <1>5 DEF LedgerFacts, State
  <1>12. CASE db[r].st # "absent" /\ r \in TrackedSigs
    <2>1. LedgerState(r)' = State[r]
      BY <1>10, <1>11, <1>12
    <2>2. State' = State
      BY <1>8, <2>1 DEF State
    <2>. QED
      BY <1>9, <2>2, LedgerStutters
  <1>13. CASE db[r].st = "absent" \/ r \notin TrackedSigs
    <2>1. db[r].st # "absent" => Repeats
      <3>. SUFFICES ASSUME ~Repeats PROVE db[r].st = "absent"
        OBVIOUS
      <3>1. stage # "idle" /\ sig = tries + 1 /\ tries \in Nat
        BY DEF RecordAccepted, Submit, Once, QueuedOnce, Staged, TypeOK
      <3>2. r > tries
        BY <1>2, <3>1
      <3>. QED
        BY <3>2 DEF Recorded
    <2>2. \/ State[r] = "none" /\ LedgerState(r)' = "open"
          \/ Repeats /\ State[r] = "lost" /\ LedgerState(r)' = "open"
          \/ Repeats /\ State[r] = "settled" /\ LedgerState(r)' = "again"
      BY <1>10, <1>11, <1>13, <2>1
    <2>. QED
      BY <1>8, <1>9, <2>2, LedgerHandsOver
  <1>. QED
    BY <1>12, <1>13

LEMMA ConfirmLedger ==
  ASSUME TypeOK, Typed, Typed', Landed, Recorded', Once',
         NEW pnl \in Pnls, NEW ok \in BOOLEAN, Confirm(pnl, ok)
  PROVE  Ledger!Next
  <1>1. toRemove' = Append(toRemove, idx) /\ UNCHANGED <<chain, chan, pending>>
    BY DEF Confirm
  <1>2. PICK q \in Sigs : q = pending[idx].sig
    BY BookedEntry
  <1>3. PICK t \in Sigs : t = batch[idx]
    BY BookedEntry
  <1>4. /\ idx \in 1 .. Len(pending) /\ ~Removed(idx)
        /\ db[q].st # "absent"
        /\ db'[q].st = "confirmed" /\ db'[q].ok = ok
        /\ \A r \in Sigs : r # q => db'[r] = db[r]
        /\ t = q \/ q \in Shifted
    BY <1>2, <1>3, BookedEntry
  <1>5. PICK o \in chain[t].seen : o.ok = ok
    BY <1>3, BookedEntry
  <1>6. LedgerFacts /\ LedgerFacts' /\ TrackedFacts /\ TrackedFacts'
    BY LedgerStates, LedgerStatesNext, TrackedSet, TrackedSetNext DEF Landed
  <1>7. \A r : r # q => (r \in TrackedSigs' <=> r \in TrackedSigs)
    <2>1. /\ Len(toRemove') = Len(toRemove) + 1 /\ Len(toRemove) \in Nat
          /\ \A k \in 1 .. Len(toRemove) : toRemove'[k] = toRemove[k]
          /\ toRemove'[Len(toRemove) + 1] = idx
      <3>1. idx \in 1 .. Len(statuses) + 1 /\ idx =< Len(statuses) /\ Len(statuses) \in Nat
        BY LenProperties DEF Confirm, Typed, TaskTyped
      <3>2. idx \in 1 .. Len(statuses)
        BY <3>1
      <3>. QED
        BY <1>1, <3>2, AppendProperties, LenProperties DEF Typed, TaskTyped
    <2>2. /\ \A k \in 1 .. Len(toRemove') : k \in 1 .. Len(toRemove) \/ k = Len(toRemove) + 1
          /\ \A k \in 1 .. Len(toRemove) : k \in 1 .. Len(toRemove')
          /\ Len(toRemove) + 1 \in 1 .. Len(toRemove')
      BY <2>1
    <2>3. \A i : Removed(i)' <=> Removed(i) \/ i = idx
      BY <2>1, <2>2 DEF Removed
    <2>. QED
      BY <1>1, <1>2, <1>6, <2>3 DEF TrackedFacts
  <1>8. State' = [State EXCEPT ![q] = LedgerState(q)']
    BY <1>4, <1>6, <1>7, OneTrade
  <1>9. State[q] \in {"open", "again"}
    <2>1. q \in TrackedSigs
      BY <1>2, <1>4, <1>6 DEF TrackedFacts
    <2>. QED
      BY <1>4, <1>6, <2>1 DEF LedgerFacts, State
  <1>10. LedgerState(q)' \in {"settled"} \cup (IF Repeats THEN {"again"} ELSE {})
    <2>1. LedgerState(q)' = IF q \in TrackedSigs' THEN "again" ELSE "settled"
      <3>1. db'[q].st = "confirmed" =>
              LedgerState(q)' = IF q \in TrackedSigs' THEN "again" ELSE "settled"
        BY <1>6 DEF LedgerFacts
      <3>. QED
        BY <1>4, <3>1
    <2>2. q \in TrackedSigs' => Repeats
      BY <1>4 DEF Once, TrackedOnce
    <2>. QED
      BY <2>1, <2>2
  <1>11. Bookings' = [Bookings EXCEPT ![q] = Verdict(ok)]
    <2>1. Booking(q)' = Verdict(ok) /\ \A s \in Sigs : s # q => Booking(s)' = Booking(s)
      BY <1>4 DEF Booking
    <2>2. Bookings' = [s \in Sigs |-> Booking(s)']
      BY DEF Bookings
    <2>. QED
      BY <2>1, <2>2 DEF Bookings
  <1>12. Verdict(ok) \in Fates[t]
    BY <1>5 DEF Fates, Fate
  <1>. QED
    BY <1>1, <1>4, <1>8, <1>9, <1>10, <1>11, <1>12, LedgerSettles, FatesUntouched

LEMMA CrashLedger ==
  ASSUME Typed, Typed', Recorded, Recorded', Crash
  PROVE  Ledger!Next
  <1>1. Len(pending') = 0 /\ Len(chan') = 0
    BY EmptySeq DEF Crash
  <1>2. TrackedSigs' \subseteq TrackedSigs
    BY <1>1, TrackedSetNext DEF TrackedFacts
  <1>. QED
    BY <1>2, TrackedLost DEF Crash

(* The chain alone: only landing is a verdict.                             *)
LEMMA ChainLedger ==
  ASSUME Typed, NEW s \in Sigs, NEW c, chain' = [chain EXCEPT ![s] = c],
         \/ c.seen = chain[s].seen
         \/ \E o : c.seen = chain[s].seen \cup {o} /\ (Reorgs \/ chain[s].seen = {}),
         UNCHANGED <<db, pending, chan, toRemove>>
  PROVE  [Ledger!Next]_(Ledger!lvars)
  <1>1. chain \in [Sigs -> ChainEntry]
    BY DEF Typed, StoreTyped
  <1>2. chain'[s] = c /\ \A r \in Sigs : r # s => chain'[r] = chain[r]
    BY <1>1
  <1>3. UNCHANGED <<State, Bookings>>
    BY StateUntouched
  <1>4. Fates' = [r \in Sigs |-> Fate(r)'] /\ \A r \in Sigs : r # s => Fate(r)' = Fate(r)
    BY <1>2 DEF Fates, Fate
  <1>5. CASE c.seen = chain[s].seen
    <2>1. Fate(s)' = Fate(s)
      BY <1>2, <1>5 DEF Fate
    <2>2. UNCHANGED Fates
      BY <1>4, <2>1 DEF Fates
    <2>. QED
      BY <1>3, <2>2, LedgerStutters
  <1>6. ASSUME NEW o, c.seen = chain[s].seen \cup {o}, Reorgs \/ chain[s].seen = {}
        PROVE  [Ledger!Next]_(Ledger!lvars)
    <2>1. Fate(s)' = Fate(s) \cup {Verdict(o.ok)}
      BY <1>2, <1>6 DEF Fate
    <2>2. Fates[s] = Fate(s) /\ (Reorgs \/ Fates[s] = {})
      BY <1>6 DEF Fates, Fate
    <2>3. Fates' = [Fates EXCEPT ![s] = Fates[s] \cup {Verdict(o.ok)}]
      BY <1>4, <2>1, <2>2 DEF Fates
    <2>4. Verdict(o.ok) \in {"ok", "failed"}
      BY DEF Verdict
    <2>. QED
      BY <1>3, <2>2, <2>3, <2>4, LedgerDecides
  <1>. QED
    BY <1>5, <1>6

LEMMA NetworkLedger ==
  ASSUME Typed, Remembered, Network
  PROVE  [Ledger!Next]_(Ledger!lvars)
  <1>1. PICK s \in Sigs : Land(s) \/ Finalize(s) \/ Forget(s) \/ Reorg(s) \/ Expire(s)
    BY DEF Network
  <1>2. UNCHANGED <<db, pending, chan, toRemove>>
    BY <1>1 DEF Land, Finalize, Forget, Reorg, Expire, OnlyChain, confVars
  <1>3. chain[s] \in ChainEntry
    BY DEF Typed, StoreTyped
  <1>4. CASE Land(s)
    <2>1. PICK o \in Outcomes :
            chain' = [chain EXCEPT ![s] = [st |-> "processed", out |-> o,
                                           seen |-> chain[s].seen \cup {o}]]
      BY <1>4 DEF Land
    <2>. DEFINE c == [st |-> "processed", out |-> o, seen |-> chain[s].seen \cup {o}]
    <2>2. Reorgs \/ chain[s].seen = {}
      BY <1>4 DEF Land, Remembered, OnChain
    <2>3. chain' = [chain EXCEPT ![s] = c] /\ c.seen = chain[s].seen \cup {o}
      BY <2>1
    <2>. HIDE DEF c
    <2>. QED
      BY <1>2, <2>2, <2>3, ChainLedger
  <1>5. CASE Reorg(s)
    <2>. DEFINE c == [st |-> "flying", out |-> NoOutcome, seen |-> chain[s].seen]
    <2>1. chain' = [chain EXCEPT ![s] = c] /\ c.seen = chain[s].seen
      BY <1>5 DEF Reorg
    <2>. HIDE DEF c
    <2>. QED
      BY <1>2, <2>1, ChainLedger
  <1>6. CASE Finalize(s) \/ Forget(s) \/ Expire(s)
    <2>1. PICK v : chain' = [chain EXCEPT ![s] = [chain[s] EXCEPT !.st = v]]
      BY <1>6 DEF Finalize, Forget, Expire
    <2>. DEFINE c == [chain[s] EXCEPT !.st = v]
    <2>2. chain' = [chain EXCEPT ![s] = c] /\ c.seen = chain[s].seen
      BY <1>3, <2>1 DEF ChainEntry
    <2>. HIDE DEF c
    <2>. QED
      BY <1>2, <2>2, ChainLedger
  <1>. QED
    BY <1>1, <1>4, <1>5, <1>6

LEMMA SendLedger ==
  ASSUME Typed, TypeOK, JitoAccepts \/ JitoFails \/ RpcAccepts \/ RpcFails
  PROVE  [Ledger!Next]_(Ledger!lvars)
  <1>1. UNCHANGED <<db, pending, chan, toRemove>>
    BY DEF JitoAccepts, JitoFails, RpcAccepts, RpcFails, Sending, confVars
  <1>2. Deliver(sig) \/ UNCHANGED chain
    BY DEF JitoAccepts, JitoFails, RpcAccepts, RpcFails
  <1>3. CASE UNCHANGED chain
    BY <1>1, <1>3, StateUntouched, FatesUntouched, LedgerStutters
  <1>4. CASE Deliver(sig) /\ chain' # chain
    <2>1. stage # "idle" /\ tries < MaxTries
      BY DEF JitoAccepts, JitoFails, RpcAccepts, RpcFails
    <2>2. PICK s \in Sigs : s = sig
      BY <2>1, SigInBounds DEF Typed
    <2>. DEFINE c == [chain[s] EXCEPT !.st = "flying"]
    <2>3. chain[s] \in ChainEntry
      BY DEF Typed, StoreTyped
    <2>4. chain' = [chain EXCEPT ![s] = c] /\ c.seen = chain[s].seen
      BY <1>4, <2>2, <2>3 DEF Deliver, ChainEntry
    <2>. HIDE DEF c
    <2>. QED
      BY <1>1, <2>4, ChainLedger
  <1>. QED
    BY <1>2, <1>3, <1>4

(* Every step of the pipeline is one of the ledger, or leaves it alone.    *)
LEMMA NextLedger ==
  ASSUME TypeOK, Typed, Typed', Landed, Landed', Once, Once', [PipelineNext]_allVars
  PROVE  [Ledger!Next]_(Ledger!lvars)
  <1>. USE DEF Landed
  <1>1. ASSUME UNCHANGED <<chain, db, pending, chan, toRemove>>
        PROVE  [Ledger!Next]_(Ledger!lvars)
    BY <1>1, StateUntouched, FatesUntouched, LedgerStutters
  <1>2. CASE UNCHANGED allVars
    BY <1>1, <1>2 DEF allVars, pipeVars, confVars
  <1>3. CASE Loop
    <2>1. ASSUME NEW opp \in Opps, Consider(opp)
          PROVE  UNCHANGED <<chain, db, pending, chan, toRemove>>
      BY <2>1 DEF Consider, confVars
    <2>2. CASE Skip \/ RecordFailure
      BY <1>1, <2>2 DEF Skip, RecordFailure, confVars
    <2>. QED
      BY <1>1, <1>3, <2>1, <2>2, RecordAcceptedLedger, SendLedger DEF Loop
  <1>4. CASE Task
    <2>1. CASE QueryAnswers \/ PassOver
      BY <1>1, <2>1 DEF QueryAnswers, PassOver
    <2>2. ASSUME NEW pnl \in Pnls, NEW ok \in BOOLEAN, Confirm(pnl, ok)
          PROVE  Ledger!Next
      BY <2>2, ConfirmLedger
    <2>. QED
      BY <1>4, <2>1, <2>2, CollectLedger, QueryFailsLedger, FinishRoundLedger DEF Task
  <1>5. CASE Clock
    BY <1>1, <1>5 DEF Clock, pipeVars, confVars
  <1>. QED
    BY <1>2, <1>3, <1>4, <1>5, NetworkLedger, CrashLedger DEF PipelineNext

LEMMA InitLedger ==
  ASSUME PipelineInit, Typed, Landed
  PROVE  Ledger!Init
  <1>1. /\ chain = [s \in Sigs |-> Unsent] /\ db = [s \in Sigs |-> NoRow]
    BY DEF PipelineInit
  <1>2. \A s \in Sigs : chain[s].seen = {} /\ db[s].st = "absent"
    BY <1>1 DEF Unsent, NoRow
  <1>3. \A s \in Sigs : LedgerState(s) = "none"
    BY <1>2, LedgerStates DEF LedgerFacts, Landed
  <1>. QED
    BY <1>2, <1>3 DEF Ledger!Init

-----------------------------------------------------------------------------
(* The results.                                                            *)

LEMMA AlwaysTyped == PipelineSpec => [](TypeOK /\ Typed)
  <1>1. PipelineInit => Typed
    BY InitTyped
  <1>2. TypeOK /\ Typed /\ [PipelineNext]_allVars => Typed'
    BY NextTyped
  <1>3. PipelineSpec => []TypeOK
    BY PipelineRefinesTracker, TypeCorrect, PTL
  <1>. QED
    BY <1>1, <1>2, <1>3, PTL DEF PipelineSpec

LEMMA AlwaysQueuedOnce ==
  ASSUME ~Repeats
  PROVE  PipelineSpec => []QueuedOnce
  <1>1. PipelineInit => QueuedOnce
    BY InitQueuedOnce
  <1>2. /\ TypeOK /\ TypeOK' /\ Typed /\ Typed' /\ QueuedOnce
        /\ [PipelineNext]_allVars
        => QueuedOnce'
    BY NextQueuedOnce
  <1>. QED
    BY <1>1, <1>2, AlwaysTyped, PTL DEF PipelineSpec

LEMMA AlwaysLanded == PipelineSpec => []Landed
  <1>1. PipelineInit => Landed
    BY InitLanded
  <1>2. TypeOK /\ Typed /\ Landed /\ [PipelineNext]_allVars => Landed'
    BY NextLanded
  <1>. QED
    BY <1>1, <1>2, AlwaysTyped, PTL DEF PipelineSpec

LEMMA AlwaysOnce == PipelineSpec => []Once
  <1>1. CASE Repeats
    <2>1. Once
      BY <1>1 DEF Once
    <2>. QED
      BY <2>1, PTL
  <1>2. CASE ~Repeats
    <2>1. TypeOK /\ Typed /\ QueuedOnce => Once
      BY TrackedCount DEF Once
    <2>. QED
      BY <1>2, <2>1, AlwaysTyped, AlwaysQueuedOnce, PTL
  <1>. QED
    BY <1>1, <1>2

(* process_statuses never indexes out of the bounds of its vectors, and    *)
(* the loop, the task and the table keep their types: whatever is sent     *)
(* twice, left without a signature or abandoned by the chain.              *)
THEOREM PipelineTyped == PipelineSpec => []PipelineTypeOK
  <1>1. ASSUME TypeOK, Typed
        PROVE  PipelineTypeOK
    <2>1. /\ DOMAIN statuses = 1 .. Len(statuses) /\ DOMAIN pending = 1 .. Len(pending)
          /\ Len(statuses) \in Nat /\ Len(pending) \in Nat /\ Len(batch) \in Nat
      BY <1>1, LenProperties DEF Typed, TaskTyped
    <2>2. Len(statuses) =< Len(pending)
      <3>1. CASE phase = "process"
        BY <1>1, <3>1 DEF Typed, TaskTyped
      <3>2. CASE phase # "process"
        <4>1. Len(statuses) = 0
          BY <1>1, <3>2, EmptySeq DEF Typed, TaskTyped
        <4>. QED
          BY <2>1, <4>1
      <3>. QED
        BY <3>1, <3>2
    <2>3. DOMAIN statuses \subseteq DOMAIN pending
      BY <2>1, <2>2
    <2>4. toRemove \in Seq(DOMAIN statuses)
      BY <1>1, <2>1 DEF Typed, TaskTyped
    <2>. QED
      BY <1>1, <2>3, <2>4
      DEF PipelineTypeOK, Typed, LoopTyped, TaskTyped, StoreTyped, ChainEntry, Row
  <1>. QED
    BY <1>1, AlwaysTyped, PTL

(* The hand-over in main_loop.rs and the swap_remove from the back in      *)
(* confirmation.rs keep every open trade queued exactly once, behind its   *)
(* row and within the tracker's count; if no transaction equals the one    *)
(* built before it.                                                        *)
THEOREM QueuedExactlyOnce ==
  ASSUME ~Repeats
  PROVE  PipelineSpec => []TrackedOnce
  <1>1. TypeOK /\ Typed /\ QueuedOnce => TrackedOnce
    BY TrackedCount
  <1>. QED
    BY <1>1, AlwaysTyped, AlwaysQueuedOnce, PTL

(* The total of record_confirmation is what trade_update_confirmed wrote   *)
(* for the trades this process booked, if no transaction is sent twice.    *)
THEOREM TotalsAgree ==
  ASSUME ~Repeats
  PROVE  PipelineSpec => []TotalMatchesDb
  <1>1. QueuedOnce => TotalMatchesDb
    BY DEF QueuedOnce, Totalled
  <1>. QED
    BY <1>1, AlwaysQueuedOnce, PTL

(* Only an accepted submission and a booking write the table.              *)
LEMMA RowWritten ==
  ASSUME [PipelineNext]_allVars, db' # db
  PROVE  RecordAccepted \/ \E pnl \in Pnls, ok \in BOOLEAN : Confirm(pnl, ok)
  <1>1. ASSUME NEW remaining, EndRound(remaining)
        PROVE  FALSE
    BY <1>1 DEF EndRound
  <1>2. CASE UNCHANGED allVars
    BY <1>2 DEF allVars, pipeVars
  <1>3. CASE Loop
    BY <1>3 DEF Loop, Consider, Skip, JitoAccepts, JitoFails, RpcAccepts, RpcFails,
                Sending, RecordFailure
  <1>4. CASE Network
    BY <1>4 DEF Network, Land, Finalize, Forget, Reorg, Expire, OnlyChain
  <1>5. CASE Task
    BY <1>1, <1>5 DEF Task, Collect, QueryAnswers, QueryFails, PassOver, FinishRound
  <1>6. CASE Clock \/ Crash
    BY <1>6 DEF Clock, pipeVars, Crash
  <1>. QED
    BY <1>2, <1>3, <1>4, <1>5, <1>6 DEF PipelineNext

(* A row that trade_update_confirmed wrote is not written again.           *)
LEMMA RowsKept ==
  ASSUME TypeOK, Typed, QueuedOnce, [PipelineNext]_allVars
  PROVE  \A s \in Sigs : db[s].st = "confirmed" => db'[s] = db[s]
  <1>. SUFFICES ASSUME NEW s \in Sigs, db[s].st = "confirmed", db' # db
                PROVE  db'[s] = db[s]
    OBVIOUS
  <1>1. db \in [Sigs -> Row]
    BY DEF Typed, StoreTyped
  <1>2. RecordAccepted \/ \E pnl \in Pnls, ok \in BOOLEAN : Confirm(pnl, ok)
    BY RowWritten
  <1>3. CASE RecordAccepted
    <2>1. db' = [db EXCEPT ![sig] = SubmittedRow(db[sig], cur)]
      BY <1>3 DEF RecordAccepted
    <2>2. SubmittedRow(db[s], cur) = db[s]
      BY DEF SubmittedRow
    <2>. QED
      BY <1>1, <2>1, <2>2
  <1>4. ASSUME NEW pnl \in Pnls, NEW ok \in BOOLEAN, Confirm(pnl, ok)
        PROVE  db'[s] = db[s]
    <2>. DEFINE q == pending[idx].sig
    <2>1. Awaits(db, tries, pending[idx])
      BY <1>4, ConfirmQueued DEF QueuedOnce
    <2>2. s # q
      BY <2>1 DEF Awaits
    <2>3. db' = [db EXCEPT ![q] = ConfirmedRow(db[q], pnl, ok)]
      BY <1>4 DEF Confirm
    <2>. HIDE DEF q
    <2>. QED
      BY <1>1, <2>2, <2>3
  <1>. QED
    BY <1>2, <1>3, <1>4

(* No later round of the confirmation task, no restart and no re-insertion *)
(* rewrites a confirmed row of the trades table; if no transaction is sent *)
(* twice.                                                                  *)
THEOREM BookedForGood ==
  ASSUME ~Repeats
  PROVE  PipelineSpec => ConfirmedForGood
  <1>1. TypeOK /\ Typed /\ QueuedOnce /\ [PipelineNext]_allVars
        => [\A s \in Sigs : db[s].st = "confirmed" => db'[s] = db[s]]_allVars
    BY RowsKept
  <1>. QED
    BY <1>1, AlwaysTyped, AlwaysQueuedOnce, PTL DEF PipelineSpec, ConfirmedForGood

(* Whatever transaction is sent twice, answered without a signature,       *)
(* abandoned by the chain or forgotten by the node: the row that           *)
(* process_statuses writes has the verdict of a block its transaction was  *)
(* in, and the PnL of such a block or the fallback; unless its entry is    *)
(* shifted, when the transaction may be that of another entry.             *)
THEOREM BookedWhatLanded == PipelineSpec => BookedAsLanded
  <1>1. ASSUME TypeOK, Typed, Landed, [PipelineNext]_allVars,
               NEW s \in Sigs, db'[s] # db[s], db'[s].st = "confirmed"
        PROVE  \E t \in Sigs :
                 /\ t = s \/ s \in Shifted
                 /\ \E o \in chain[t].seen : o.ok = db'[s].ok
                 /\ db'[s].pnl \in {o.pnl : o \in chain[t].seen}
                                    \cup {IF db'[s].ok THEN db'[s].est ELSE -FailFee}
    <2>1. RecordAccepted \/ \E pnl \in Pnls, ok \in BOOLEAN : Confirm(pnl, ok)
      BY <1>1, RowWritten
    <2>2. ~RecordAccepted
      <3>. SUFFICES ASSUME RecordAccepted PROVE FALSE
        OBVIOUS
      <3>1. CASE s = sig
        BY <1>1, <3>1, AcceptedRow DEF Landed
      <3>2. CASE s # sig
        BY <1>1, <3>2, AcceptedRow DEF Landed
      <3>. QED
        BY <3>1, <3>2
    <2>3. PICK pnl \in Pnls, ok \in BOOLEAN : Confirm(pnl, ok)
      BY <2>1, <2>2
    <2>. DEFINE q == pending[idx].sig
                t == batch[idx]
    <2>4. /\ t \in Sigs
          /\ t = q \/ q \in Shifted
          /\ \E o \in chain[t].seen : o.ok = ok
          /\ pnl \in {o.pnl : o \in chain[t].seen}
                      \cup {IF ok THEN db[q].est ELSE -FailFee}
          /\ db'[q].ok = ok /\ db'[q].pnl = pnl /\ db'[q].est = db[q].est
          /\ \A r \in Sigs : r # q => db'[r] = db[r]
      BY <1>1, <2>3, BookedEntry
    <2>. HIDE DEF q, t
    <2>5. s = q
      BY <1>1, <2>4
    <2>. QED
      BY <2>4, <2>5
  <1>2. TypeOK /\ Typed /\ Landed /\ [PipelineNext]_allVars
        => [\A s \in Sigs :
              db'[s] # db[s] /\ db'[s].st = "confirmed" =>
                \E t \in Sigs :
                  /\ t = s \/ s \in Shifted
                  /\ \E o \in chain[t].seen : o.ok = db'[s].ok
                  /\ db'[s].pnl \in {o.pnl : o \in chain[t].seen}
                       \cup {IF db'[s].ok THEN db'[s].est ELSE -FailFee}]_allVars
    BY <1>1
  <1>. QED
    BY <1>2, AlwaysTyped, AlwaysLanded, PTL DEF PipelineSpec, BookedAsLanded

(* The loop, the network, the task and a restart together implement the    *)
(* ledger, for every setting of Repeats, Reorgs and Unparsable: a trade is *)
(* settled only while it is open, with a verdict the chain gave, and never *)
(* after its loss; and at most once if transactions are not repeated.      *)
THEOREM PipelineImplementsLedger == PipelineSpec => ImplementsLedger
  <1>1. PipelineInit /\ Typed /\ Landed => Ledger!Init
    BY InitLedger
  <1>2. /\ TypeOK /\ Typed /\ Typed' /\ Landed /\ Landed' /\ Once /\ Once'
        /\ [PipelineNext]_allVars
        => [Ledger!Next]_(Ledger!lvars)
    BY NextLedger
  <1>. QED
    BY <1>1, <1>2, AlwaysTyped, AlwaysLanded, AlwaysOnce, PTL
    DEF PipelineSpec, ImplementsLedger, Ledger!Spec
=============================================================================
