------------------------------ MODULE Discovery ------------------------------
(***************************************************************************)
(* From a swap in a log to a coin the bot trades: the WebSocket listener   *)
(* (listener), the backscan (discovery.rs), the verification of new coins  *)
(* (main.rs), the whitelist in memory and in SQLite (whitelist.rs,         *)
(* persistence.rs), the event loop that promotes a coin it submits for;    *)
(* lost connections, failed requests, restarts, and an operator who edits  *)
(* the table.                                                              *)
(***************************************************************************)
EXTENDS Naturals, Sequences

CONSTANTS
  Coins,      (* mints                                                     *)
  NoCoin,     (* not a mint                                                *)
  MaxEvents,  (* capacity of the event channel: 4096                       *)
  MaxSeen,    (* size at which seen_mints is cleared: 10000                *)
  MaxFails,   (* bound: verifications a failed request spoils              *)
  MaxCrashes, (* bound: restarts of the bot                                *)
  MaxEdits    (* bound: rows the operator blacklists while the bot runs    *)

ASSUME DiscoveryConstants ==
  /\ NoCoin \notin Coins
  /\ {MaxEvents, MaxSeen, MaxFails, MaxCrashes, MaxEdits} \subseteq Nat

VARIABLES
  venues,  (* [Coins -> how many venues have a pool of it; 2 is enough]    *)
  listed,  (* Whitelist.verified and .profitable                           *)
  black,   (* Whitelist.blacklisted                                        *)
  rows,    (* table whitelist                                              *)
  up,      (* the listener is connected                                    *)
  seen,    (* seen_mints of the connection, ...                            *)
  others,  (* ... and how many other addresses are in it                   *)
  offered, (* the discovery channel                                        *)
  batch,   (* what the discovery task has collected                        *)
  check,   (* the coin it verifies, and how far it is                      *)
  events,  (* the event channel                                            *)
  turn,    (* the event loop's coin, and how far it is                     *)
  fails, crashes, edits

book == <<listed, black, rows>>
listener == <<up, seen, others>>
finding == <<offered, batch, check>>
trading == <<events, turn>>
counts == <<fails, crashes, edits>>
vars == <<venues, book, listener, finding, trading, counts>>

NoStep == [coin |-> NoCoin, pc |-> "idle"]
At(coin, pc) == [coin |-> coin, pc |-> pc]

DiscoveryTypeOK ==
  /\ venues \in [Coins -> 0 .. 2]
  /\ listed \in [Coins -> {"none", "verified", "profitable"}]
  /\ rows \in [Coins -> {"none", "verified", "profitable", "blacklisted"}]
  /\ up \in BOOLEAN /\ others \in Nat
  /\ {black, seen, offered, batch} \subseteq SUBSET Coins
  /\ check = NoStep \/ check \in [coin : Coins, pc : {"verify", "add"}]
  /\ turn = NoStep \/ turn \in [coin : Coins, pc : {"scan", "mark"}]
  /\ events \in Seq(Coins) /\ Len(events) =< MaxEvents

(* Whitelist::load.                                                        *)
Loaded(table) ==
  [c \in Coins |-> IF table[c] = "blacklisted" THEN "none" ELSE table[c]]
Excluded(table) == {c \in Coins : table[c] = "blacklisted"}

Init ==
  /\ venues \in [Coins -> {0, 2}]
  /\ rows \in [Coins -> {"none", "verified", "blacklisted"}]
  /\ listed = Loaded(rows) /\ black = Excluded(rows)
  /\ up = FALSE /\ seen = {} /\ others = 0
  /\ offered = {} /\ batch = {} /\ check = NoStep
  /\ events = <<>> /\ turn = NoStep
  /\ fails = 0 /\ crashes = 0 /\ edits = 0

-----------------------------------------------------------------------------
(* The chain, the operator, the connection and restarts.                   *)
PoolOpens(c) ==
  /\ venues[c] < 2
  /\ venues' = [venues EXCEPT ![c] = @ + 1]
  /\ UNCHANGED <<book, listener, finding, trading, counts>>

Edit(c) ==
  /\ edits < MaxEdits /\ edits' = edits + 1
  /\ rows' = [rows EXCEPT ![c] = "blacklisted"]
  /\ UNCHANGED <<venues, listed, black, listener, finding, trading, fails, crashes>>

Disconnect ==
  /\ up /\ up' = FALSE
  /\ UNCHANGED <<venues, book, seen, others, finding, trading, counts>>

Connect ==
  /\ ~up /\ up' = TRUE
  /\ seen' = {} /\ others' = 0
  /\ UNCHANGED <<venues, book, finding, trading, counts>>

Restart ==
  /\ crashes < MaxCrashes /\ crashes' = crashes + 1
  /\ listed' = Loaded(rows) /\ black' = Excluded(rows)
  /\ up' = FALSE /\ seen' = {} /\ others' = 0
  /\ offered' = {} /\ batch' = {} /\ check' = NoStep
  /\ events' = <<>> /\ turn' = NoStep
  /\ UNCHANGED <<venues, rows, fails, edits>>

-----------------------------------------------------------------------------
(* dual_listen_loop: an address that is not listed is offered the first    *)
(* time it is seen; the set is cleared when it has grown too large.        *)
SeenForGood(coins, n) == seen' = coins /\ others' = IF n > MaxSeen THEN MaxSeen ELSE n
Seen(coins, n) ==
  IF n > MaxSeen THEN seen' = {} /\ others' = 0 ELSE seen' = coins /\ others' = n

NewSwap(c) ==
  /\ up /\ venues[c] > 0 /\ listed[c] = "none"
  /\ offered' = IF c \in seen THEN offered ELSE offered \union {c}
  /\ Seen(seen \union {c}, others)
  /\ UNCHANGED <<venues, book, up, batch, check, trading, counts>>

OtherSwap ==
  /\ up /\ Seen(seen, others + 1)
  /\ UNCHANGED <<venues, book, up, finding, trading, counts>>

(* One that is listed makes an event, if the channel has room.             *)
ListedSwap(c) ==
  /\ up /\ venues[c] > 0 /\ listed[c] # "none"
  /\ Len(events) < MaxEvents /\ events' = Append(events, c)
  /\ UNCHANGED <<venues, book, listener, finding, turn, counts>>

(* spawn_backscan: every address of the latest transactions.               *)
Backscan(c) ==
  /\ venues[c] > 0 /\ offered' = offered \union {c}
  /\ UNCHANGED <<venues, book, listener, batch, check, trading, counts>>

-----------------------------------------------------------------------------
(* The discovery task: a batch without its duplicates, coin by coin.       *)
Collect ==
  /\ check = NoStep /\ batch = {} /\ offered # {}
  /\ batch' = offered /\ offered' = {}
  /\ UNCHANGED <<venues, book, listener, check, trading, counts>>

Take(c) ==
  /\ check = NoStep /\ c \in batch
  /\ batch' = batch \ {c}
  /\ check' = IF listed[c] = "none" THEN At(c, "verify") ELSE NoStep
  /\ UNCHANGED <<venues, book, listener, offered, trading, counts>>

(* verify_dual_presence: a pool that cannot be read is not counted.        *)
Verify ==
  /\ check.pc = "verify"
  /\ \E yes \in {venues[check.coin] >= 2, FALSE} :
       /\ (venues[check.coin] >= 2 /\ ~yes) => fails < MaxFails
       /\ fails' = IF venues[check.coin] >= 2 /\ ~yes THEN fails + 1 ELSE fails
       /\ check' = IF yes THEN At(check.coin, "add") ELSE NoStep
  /\ UNCHANGED <<venues, book, listener, offered, batch, trading, crashes, edits>>

(* verify_and_add, under the write lock.                                   *)
AddAny ==
  /\ check.pc = "add"
  /\ IF listed[check.coin] = "none"
     THEN /\ listed' = [listed EXCEPT ![check.coin] = "verified"]
          /\ rows' = [rows EXCEPT ![check.coin] = "verified"]
     ELSE UNCHANGED <<listed, rows>>
  /\ check' = NoStep
  /\ UNCHANGED <<venues, black, listener, offered, batch, trading, counts>>
Add ==
  /\ check.pc = "add"
  /\ IF listed[check.coin] = "none" /\ check.coin \notin black
     THEN /\ listed' = [listed EXCEPT ![check.coin] = "verified"]
          /\ rows' = [rows EXCEPT ![check.coin] = "verified"]
     ELSE UNCHANGED <<listed, rows>>
  /\ check' = NoStep
  /\ UNCHANGED <<venues, black, listener, offered, batch, trading, counts>>

-----------------------------------------------------------------------------
(* The event loop; what it does with a coin is TradePipeline's.            *)
Receive ==
  /\ turn = NoStep /\ events # <<>>
  /\ events' = Tail(events)
  /\ turn' = IF Head(events) \in black THEN NoStep ELSE At(Head(events), "scan")
  /\ UNCHANGED <<venues, book, listener, finding, counts>>

Scan ==
  /\ turn.pc = "scan"
  /\ turn' \in {NoStep, At(turn.coin, "mark")}
  /\ UNCHANGED <<venues, book, listener, finding, events, counts>>

(* mark_profitable, once a transaction is submitted.                       *)
Mark ==
  /\ turn.pc = "mark"
  /\ IF listed[turn.coin] = "verified"
     THEN /\ listed' = [listed EXCEPT ![turn.coin] = "profitable"]
          /\ rows' = [rows EXCEPT ![turn.coin] = "profitable"]
     ELSE UNCHANGED <<listed, rows>>
  /\ turn' = NoStep
  /\ UNCHANGED <<venues, black, listener, finding, events, counts>>

-----------------------------------------------------------------------------
Next ==
  \/ \E c \in Coins : \/ PoolOpens(c) \/ Edit(c) \/ NewSwap(c) \/ ListedSwap(c)
                      \/ Backscan(c) \/ Take(c)
  \/ Disconnect \/ Connect \/ Restart \/ OtherSwap
  \/ Collect \/ Verify \/ Add \/ Receive \/ Scan \/ Mark

Spec == Init /\ [][Next]_vars

(* The tasks go on, the listener reconnects, and swaps keep coming while   *)
(* it is connected.                                                        *)
Fairness ==
  /\ WF_vars(Collect) /\ WF_vars(\E c \in Coins : Take(c)) /\ WF_vars(Verify)
  /\ WF_vars(Add) /\ WF_vars(Connect)
  /\ SF_vars(OtherSwap) /\ \A c \in Coins : SF_vars(NewSwap(c))

FairSpec == Spec /\ Fairness

-----------------------------------------------------------------------------
Book == INSTANCE CoinBook WITH
  category <- [c \in Coins |-> IF c \in black THEN "blacklisted" ELSE listed[c]]

(* The whitelist in memory, its table and the restarts between them keep   *)
(* the promise of CoinBook: no listing or promotion is lost or undone, no  *)
(* coin that was blacklisted when the bot started comes back.              *)
KeepsBook == Book!Spec

(* A coin that two venues have comes to be listed for good: verified too   *)
(* early, or through a failed request, it is offered again.                *)
ListedAtLast ==
  \A c \in Coins :
    <>(venues[c] = 2) /\ [](rows[c] # "blacklisted") => <>[](listed[c] # "none")

(* whitelist.rs:24: "Blacklist — permanently excluded, won't be re-added   *)
(* by discovery".                                                          *)
BlacklistIsPermanent ==
  [][\A c \in Coins : rows[c] = "blacklisted" => rows'[c] = "blacklisted"]_vars
=============================================================================
