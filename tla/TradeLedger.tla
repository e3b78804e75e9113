------------------------------ MODULE TradeLedger -----------------------------
(***************************************************************************)
(* What the submission and confirmation code promises about each trade:    *)
(* between its hand-over and its loss (an eviction, a restart) it may be   *)
(* settled, and only with a verdict that some block gave.  A trade that is *)
(* lost is not settled later and, if every transaction is a new one, none  *)
(* is settled twice.                                                       *)
(***************************************************************************)
CONSTANTS
  Trades,
  Repeats,  (* TRUE iff a trade may be handed over again                   *)
  Reorgs    (* TRUE iff the chain may give more than one verdict           *)

VARIABLES
  state,    (* "none", "open", "settled", "again" (settled and handed over *)
            (* once more) or "lost"                                        *)
  fate,     (* the verdicts blocks have given: "ok", "failed"              *)
  verdict,  (* what the books say of it                                    *)
  shifted   (* input: trades that may be taken for another                 *)

lvars == <<state, fate, verdict>>

Init ==
  /\ state = [t \in Trades |-> "none"]
  /\ fate = [t \in Trades |-> {}]
  /\ verdict = [t \in Trades |-> "unknown"]

HandOver(t) ==
  /\ \/ state[t] = "none" /\ state' = [state EXCEPT ![t] = "open"]
     \/ Repeats /\ state[t] = "lost" /\ state' = [state EXCEPT ![t] = "open"]
     \/ Repeats /\ state[t] = "settled" /\ state' = [state EXCEPT ![t] = "again"]
  /\ UNCHANGED <<fate, verdict>>

Decide(t, f) ==
  /\ Reorgs \/ fate[t] = {}
  /\ fate' = [fate EXCEPT ![t] = @ \cup {f}]
  /\ UNCHANGED <<state, verdict>>

Settle(t, u) ==
  /\ state[t] \in {"open", "again"}
  /\ u = t \/ t \in shifted
  /\ \E f \in fate[u] : verdict' = [verdict EXCEPT ![t] = f]
  /\ \E s \in {"settled"} \cup (IF Repeats THEN {"again"} ELSE {}) :
       state' = [state EXCEPT ![t] = s]
  /\ UNCHANGED fate

Lose(S) ==
  /\ \A t \in S : state[t] \in {"open", "again"}
  /\ state' = [t \in Trades |-> IF t \notin S THEN state[t]
                                ELSE IF state[t] = "open" THEN "lost" ELSE "settled"]
  /\ UNCHANGED <<fate, verdict>>

Next ==
  \/ \E t \in Trades : HandOver(t)
  \/ \E t, u \in Trades : Settle(t, u)
  \/ \E t \in Trades, f \in {"ok", "failed"} : Decide(t, f)
  \/ \E S \in SUBSET Trades : Lose(S)

Spec == Init /\ [][Next]_lvars
=============================================================================
