------------------------------- MODULE CoinBook -------------------------------
(***************************************************************************)
(* What the whitelist promises of each coin, whatever the tasks, the table *)
(* and the restarts do: it is listed once, promoted once, and never leaves *)
(* but for the blacklist, which nothing leaves.                            *)
(***************************************************************************)
CONSTANT Coins
VARIABLE category
bookVars == <<category>>

Category == {"none", "verified", "profitable", "blacklisted"}

Init == category \in [Coins -> Category]

List(c) == category[c] = "none" /\ category' = [category EXCEPT ![c] = "verified"]

Promote(c) ==
  category[c] = "verified" /\ category' = [category EXCEPT ![c] = "profitable"]

(* The operator's coins, when the bot next starts.                         *)
Exclude(coins) ==
  category' = [c \in Coins |-> IF c \in coins THEN "blacklisted" ELSE category[c]]

Next ==
  \/ \E c \in Coins : List(c) \/ Promote(c)
  \/ \E coins \in SUBSET Coins : Exclude(coins)

Spec == Init /\ [][Next]_bookVars
=============================================================================
