----------------------------- MODULE MCDlmmPools -----------------------------
(* DlmmPools with two pools of one coin; the scanner wants a reserve, the   *)
(* verification of a new mint takes any.                                    *)
EXTENDS DlmmPools
CONSTANTS p1, p2, sol, coin, scanner, verifier

MCQuote == [p \in Pairs |-> sol]
MCMint == [p \in Pairs |-> coin]
MCMinimum == [t \in Caller |-> IF t = scanner THEN 1 ELSE 0]

(* Bound: a verification runs beside the scanner only as long as no pool    *)
(* has changed; a restart may interrupt both, and leaves the scanner.       *)
MCNext == Next /\ (changes' + crashes' = 0 \/ task'[verifier] = Idle)

MCSpec == Init /\ [][MCNext]_vars /\ Fairness({scanner})
=============================================================================
