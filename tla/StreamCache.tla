---------------------------- MODULE StreamCache ----------------------------
(* The account cache that the Yellowstone gRPC stream fills                 *)
(* (grpc_stream/mod.rs), its reconnection, and the tests of freshness its   *)
(* readers base on it.                                                      *)
(*                                                                          *)
(* Time is the cluster's slot.  The data of an account is the slot that     *)
(* wrote it, the blockhash of a block is its slot, and 0 stands for what    *)
(* the program has not received.                                            *)
EXTENDS Integers, FiniteSets

CONSTANTS
    Accounts,    \* the pool accounts of the four programs subscribed to
    Start, Tip,  \* the slot at which the program starts, the last slot of a run
    Cold, Warm,  \* how far back a replay reaches: 1000 slots, 500 slots
    Keep,        \* how many slots the provider can replay
    Window,      \* the age at which a cached account is still used: 2 slots
    HashAge,     \* the age at which a cached blockhash is still used: 10 slots
    Sleep,       \* the slots that pass in the 5 s before a reconnection: 12
    MaxWritten,  \* bound on the accounts a block writes
    MaxDrops     \* bound on lost streams and refused connections

Meta == "meta"  \* the update that tells a block's hash

ASSUME StreamConstants ==
    /\ Meta \notin Accounts
    /\ {Start, Tip, Cold, Warm, Keep, Window, HashAge, Sleep,
        MaxWritten, MaxDrops} \subseteq Nat
    /\ 0 < Start /\ Start <= Tip
    /\ Window <= HashAge /\ HashAge < Sleep   \* 2 and 10 slots against 12

VARIABLES
    slot,    \* the slot of the cluster
    wrote,   \* the slots that wrote an account
    anchor,  \* STARTUP_SLOT
    up,      \* the stream is open
    since,   \* ... from this slot on; while it is not, the slot it sleeps until
    next,    \* the slot the provider is sending
    left,    \* ... and what it has not sent of it
    entry,   \* accounts: the version cached of an account
    latest,  \* latest_slot
    hash,    \* latest_blockhash
    drops    \* streams lost and connections refused

chain == <<slot, wrote>>
cache == <<entry, latest, hash>>
link == <<anchor, up, since, next, left, drops>>
vars == <<chain, cache, link>>

Slots == 0 .. Tip
Items(s) == {a \in Accounts : s \in wrote[a]} \cup {Meta}

Init ==
    /\ slot = Start
    /\ wrote \in [Accounts -> SUBSET (1 .. Start)]
    /\ anchor \in {0, Start}  \* 0: main could not read the slot
    /\ up = FALSE /\ since = 0 /\ next = 0 /\ left = {} /\ drops = 0
    /\ entry = [a \in Accounts |-> 0] /\ latest = 0 /\ hash = 0

(* The cluster produces a block that writes some of the accounts. *)
Tick ==
    /\ slot < Tip
    /\ slot' = slot + 1
    /\ \E written \in {W \in SUBSET Accounts : Cardinality(W) <= MaxWritten} :
         wrote' = [a \in Accounts |->
                     IF a \in written THEN wrote[a] \cup {slot + 1} ELSE wrote[a]]
    /\ UNCHANGED <<cache, link>>

----------------------------------------------------------------------------
(* The stream.  A result of connect_and_stream ends in the sleep of the     *)
(* loop; from_slot is chosen at each connection.                            *)

ReplayFrom ==
    CASE anchor = 0 -> 0
      [] anchor # 0 /\ latest > Warm -> latest - Warm
      [] anchor # 0 /\ latest <= Warm /\ anchor > Cold -> anchor - Cold
      [] OTHER -> 0

ReconnectAtOnce == up' = FALSE /\ since' = slot
Reconnect ==
    /\ up' = FALSE
    /\ since' = IF slot + Sleep > Tip THEN Tip ELSE slot + Sleep

(* The anchor after an error other than a pruned slot, and after the rest:  *)
(* the end of the stream and the pruned slot reset it.                      *)
AnchorKept == anchor' = anchor
LiveOnly == anchor' = 0

Pruned == ReplayFrom # 0 /\ ReplayFrom + Keep < slot

(* connect, get_version or subscribe_once fails. *)
Refused ==
    /\ ~up /\ slot >= since /\ drops < MaxDrops
    /\ Reconnect /\ AnchorKept /\ drops' = drops + 1
    /\ UNCHANGED <<chain, cache, next, left>>

(* The provider has not kept the slot asked for: it says so, or closes the  *)
(* stream without a word.                                                   *)
PrunedReplay ==
    /\ ~up /\ slot >= since /\ Pruned
    /\ Reconnect /\ LiveOnly
    /\ UNCHANGED <<chain, cache, next, left, drops>>

(* A live stream starts somewhere in the slot under way. *)
Connect ==
    /\ ~up /\ slot >= since /\ ~Pruned
    /\ up' = TRUE
    /\ IF ReplayFrom # 0
       THEN next' = ReplayFrom /\ left' = Items(ReplayFrom)
       ELSE next' = slot /\ left' \in SUBSET Items(slot)
    /\ since' = next'
    /\ UNCHANGED <<chain, cache, anchor, drops>>

(* put *)
PutAccount(a) ==
    /\ latest' = IF next > latest THEN next ELSE latest
    /\ entry' = [entry EXCEPT ![a] = next]
    /\ UNCHANGED hash

(* put_blockhash *)
PutHash ==
    /\ hash' = IF next > hash THEN next ELSE hash
    /\ UNCHANGED <<entry, latest>>

Receive(item) ==
    /\ up /\ item \in left
    /\ left' = left \ {item}
    /\ IF item = Meta THEN PutHash ELSE PutAccount(item)
    /\ UNCHANGED <<chain, anchor, up, since, next, drops>>

(* Assumption: a provider sends one chain, slot by slot.  The request names *)
(* no commitment, and at the default, processed, a provider may also send   *)
(* blocks that the cluster abandons later; none is sent here.               *)
SlotSent ==
    /\ up /\ left = {} /\ next < slot
    /\ next' = next + 1
    /\ left' = Items(next + 1)
    /\ UNCHANGED <<chain, cache, anchor, up, since, drops>>

(* The stream ends.  An error received on it is only logged: the end that   *)
(* follows it makes connect_and_stream return Ok.  (Bound: the sleep ends   *)
(* within the run.)                                                         *)
Ended ==
    /\ up /\ drops < MaxDrops /\ slot + Sleep <= Tip
    /\ Reconnect /\ LiveOnly /\ drops' = drops + 1
    /\ next' = 0 /\ left' = {}
    /\ UNCHANGED <<chain, cache>>

----------------------------------------------------------------------------
(* The readers.                                                             *)

(* fetch_bins_fresh, fetch_reserves_inner, read_pumpswap_pool: the cached   *)
(* account is used instead of a request to the RPC endpoint.                *)
UsedFromCache(a) == entry[a] # 0 /\ latest > 0 /\ latest - entry[a] <= Window

(* get_fresh_blockhash *)
HashCached == hash > 0
FreshHash == hash > 0 /\ latest > 0 /\ latest - hash <= HashAge

----------------------------------------------------------------------------
Next ==
    \/ Tick
    \/ Refused \/ PrunedReplay \/ Connect \/ SlotSent \/ Ended
    \/ \E item \in Accounts \cup {Meta} : Receive(item)

Spec == Init /\ [][Next]_vars

(* The reconnecting loop runs, the provider sends what it has, the cluster  *)
(* goes on.                                                                 *)
Fairness ==
    /\ WF_vars(Tick) /\ WF_vars(PrunedReplay) /\ WF_vars(Connect)
    /\ WF_vars(SlotSent)
    /\ \A item \in Accounts \cup {Meta} : WF_vars(Receive(item))

FairSpec == Spec /\ Fairness

----------------------------------------------------------------------------
StreamTypeOK ==
    /\ slot \in Slots /\ wrote \in [Accounts -> SUBSET Slots]
    /\ anchor \in {0, Start} /\ up \in BOOLEAN /\ since \in Slots
    /\ next \in Slots /\ left \subseteq Accounts \cup {Meta}
    /\ entry \in [Accounts -> Slots] /\ latest \in Slots /\ hash \in Slots
    /\ drops \in 0 .. MaxDrops

(* `put' inserts whatever it is given, yet no account of the cache, no      *)
(* latest_slot and no blockhash ever goes back to an older slot: a replay   *)
(* is asked for only while the cache is empty.  It rests on SlotSent: `put' *)
(* compares no slots, so an update from a fork, or a late one, would go in. *)
NeverBack ==
    [][/\ \A a \in Accounts : entry[a] <= entry'[a]
       /\ latest <= latest' /\ hash <= hash']_cache

(* A cached account that a reader uses is the account as the cluster had it *)
(* before the newest slot received: what comes after a reconnection does    *)
(* not make an entry whose update was missed look fresh, because the 5 s    *)
(* before it are longer than the 2 slots a reader tolerates.  Of what is    *)
(* served while the stream is down it says nothing.                         *)
NoMissedUpdate ==
    \A a \in Accounts :
      UsedFromCache(a) => \A s \in wrote[a] : s <= entry[a] \/ s >= latest

(* Once the account updates have come back after an interruption, the       *)
(* blockhash from before it is no longer served: the sleep outlasts the 10  *)
(* slots of get_fresh_blockhash too.  While the stream is down nothing      *)
(* bounds the age of the hash: the slot it is compared with stands still.   *)
HashOfThisStream ==
    (up /\ FreshHash /\ latest >= since) => hash >= since

(* The loop does not retry a replay that cannot succeed: once the provider  *)
(* stays reachable the stream catches up with the cluster for good.         *)
CatchesUp == <>[](up /\ next = Tip /\ left = {})

(* The comment at the choice of from_slot: a reconnection replays from the  *)
(* last known slot, so that it misses no update.                            *)
GapBridged ==
    [][(~up /\ up' /\ latest > 0) =>
          \A a \in Accounts : \A s \in wrote[a] : s <= latest \/ s >= next']_link
=============================================================================
