--------------------------- MODULE StreamCacheProofs ---------------------------
(* Proofs about StreamCache for any accounts, slots and replay distances.   *)
(* What the program holds is of the stream under way, or older than it by   *)
(* the whole sleep between two streams (Slept); what the stream has passed  *)
(* is in the cache (Complete).  The tolerances of the readers are shorter   *)
(* than the sleep, so they never join the two.                              *)
EXTENDS StreamCache, TLAPS

(* Every slot the program remembers. *)
Versions == {entry[a] : a \in Accounts} \cup {latest, hash}

Past ==
    /\ \A a \in Accounts : \A s \in wrote[a] : s <= slot
    /\ \A v \in Versions : v <= slot
    /\ Start <= slot

(* The stream is ahead of the cache, but not of the cluster. *)
Ahead ==
    up => since <= next /\ next <= slot /\ \A v \in Versions : v <= next

(* The anchor survives only until the first stream that opens has ended. *)
FirstStream == ~up /\ anchor # 0 => \A v \in Versions : v = 0

Slept == \A v \in Versions : v = 0 \/ v + Sleep <= since \/ (up /\ since <= v)

Complete ==
    up => \A a \in Accounts : \A s \in wrote[a] :
            since < s /\ s <= next /\ (s = next => a \notin left) => s <= entry[a]

IInv ==
    /\ StreamTypeOK
    /\ Past /\ Ahead /\ FirstStream /\ Slept /\ Complete
    /\ NoMissedUpdate

LEMMA InitIInv == Init => IInv
<1> SUFFICES ASSUME Init PROVE IInv
  OBVIOUS
<1>1. StreamTypeOK
  <2>1. slot \in Slots /\ wrote \in [Accounts -> SUBSET Slots]
    BY StreamConstants DEF Init, Slots
  <2>2. since \in Slots /\ next \in Slots /\ latest \in Slots /\ hash \in Slots
    BY StreamConstants DEF Init, Slots
  <2>3. entry \in [Accounts -> Slots]
    BY StreamConstants DEF Init, Slots
  <2>4. up \in BOOLEAN /\ anchor \in {0, Start} /\ left \subseteq Accounts \cup {Meta}
    BY DEF Init
  <2>5. drops \in 0 .. MaxDrops
    BY StreamConstants DEF Init
  <2> QED
    BY <2>1, <2>2, <2>3, <2>4, <2>5 DEF StreamTypeOK
<1>2. \A v \in Versions : v = 0
  BY DEF Init, Versions
<1>3. Past
  BY <1>2, StreamConstants DEF Init, Past
<1>4. Ahead /\ FirstStream /\ Slept /\ Complete
  BY <1>2 DEF Init, Ahead, FirstStream, Slept, Complete
<1>5. NoMissedUpdate
  BY DEF Init, NoMissedUpdate, UsedFromCache
<1> QED
  BY <1>1, <1>3, <1>4, <1>5 DEF IInv

LEMMA Numbers ==
  ASSUME StreamTypeOK
  PROVE  /\ slot \in Nat /\ since \in Nat /\ next \in Nat /\ latest \in Nat /\ hash \in Nat
         /\ \A v \in Versions : v \in Nat
         /\ \A a \in Accounts : entry[a] \in Nat /\ entry[a] \in Versions
         /\ \A a \in Accounts : \A s \in wrote[a] : s \in Nat
         /\ latest \in Versions /\ hash \in Versions
         /\ slot <= Tip
BY StreamConstants DEF StreamTypeOK, Slots, Versions

(* Steps that leave the cache alone. *)
LEMMA VersionsKept == ASSUME UNCHANGED cache PROVE UNCHANGED Versions
BY DEF cache, Versions

LEMMA UseKept ==
  ASSUME NoMissedUpdate, UNCHANGED <<wrote, cache>> PROVE NoMissedUpdate'
BY DEF NoMissedUpdate, UsedFromCache, cache

(* The slot asked for: a replay is asked for only while the cache is empty. *)
LEMMA Replays ==
  ASSUME IInv, ~up
  PROVE  /\ ReplayFrom \in 0 .. slot
         /\ ReplayFrom # 0 => \A v \in Versions : v = 0
<1>1. CASE anchor = 0
  BY <1>1, Numbers DEF IInv, ReplayFrom
<1>2. CASE anchor # 0
  <2>1. \A v \in Versions : v = 0
    BY <1>2 DEF IInv, FirstStream
  <2>2. latest = 0 /\ anchor = Start
    BY <1>2, <2>1, Numbers DEF IInv, StreamTypeOK
  <2>3. ReplayFrom = IF Start > Cold THEN Start - Cold ELSE 0
    BY <1>2, <2>2, StreamConstants DEF ReplayFrom
  <2>4. Start <= slot
    BY DEF IInv, Past
  <2> QED
    BY <2>1, <2>3, <2>4, Numbers, StreamConstants DEF IInv
<1> QED
  BY <1>1, <1>2

----------------------------------------------------------------------------
(* The steps, one by one. *)

LEMMA TickKeeps == ASSUME IInv, Tick PROVE IInv'
<1>1. PICK W \in SUBSET Accounts :
        wrote' = [a \in Accounts |-> IF a \in W THEN wrote[a] \cup {slot + 1} ELSE wrote[a]]
  BY DEF Tick
<1>2. slot' = slot + 1 /\ slot < Tip /\ UNCHANGED <<cache, link>>
  BY DEF Tick
<1>3. slot' \in Slots /\ slot \in Nat
  BY <1>2, Numbers, StreamConstants DEF IInv, Slots
<1>4. \A a \in Accounts : \A s \in wrote'[a] : s \in wrote[a] \/ s = slot'
  BY <1>1, <1>2
<1>5. wrote' \in [Accounts -> SUBSET Slots]
  <2>1. slot + 1 \in Slots
    BY <1>2, <1>3
  <2> QED
    BY <1>1, <2>1 DEF IInv, StreamTypeOK
<1>6. StreamTypeOK'
  BY <1>2, <1>3, <1>5 DEF IInv, StreamTypeOK, cache, link
<1>7. UNCHANGED Versions
  BY <1>2, VersionsKept
<1>8. Past'
  BY <1>2, <1>3, <1>4, <1>7, Numbers, StreamConstants DEF IInv, Past
<1>9. (Ahead /\ FirstStream /\ Slept)'
  <2>1. UNCHANGED <<up, since, next, anchor>>
    BY <1>2 DEF link
  <2> QED
    BY <1>2, <1>3, <1>7, <2>1, Numbers DEF IInv, Ahead, FirstStream, Slept
<1>10. Complete'
  <2>1. UNCHANGED <<up, since, next, left, entry>>
    BY <1>2 DEF link, cache
  <2>2. up => ~(slot' <= next)
    BY <1>2, <1>3, Numbers DEF IInv, Ahead
  <2> QED
    BY <1>4, <2>1, <2>2 DEF IInv, Complete
<1>11. NoMissedUpdate'
  <2>1. UNCHANGED <<entry, latest>>
    BY <1>2 DEF cache
  <2>2. latest <= slot'
    BY <1>2, <1>3, Numbers DEF IInv, Past
  <2> QED
    BY <1>4, <2>1, <2>2 DEF IInv, NoMissedUpdate, UsedFromCache
<1> QED
  BY <1>6, <1>8, <1>9, <1>10, <1>11 DEF IInv

(* The stream is lost, or cannot be opened: sleep. *)
LEMMA DownKeeps == ASSUME IInv, Refused \/ PrunedReplay \/ Ended PROVE IInv'
<1>1. UNCHANGED <<chain, cache>> /\ up' = FALSE /\ anchor' \in {anchor, 0}
  BY DEF Refused, PrunedReplay, Ended, Reconnect, AnchorKept, LiveOnly
<1>2. UNCHANGED Versions
  BY <1>1, VersionsKept
<1>3. next' \in {next, 0} /\ left' \in {left, {}} /\ drops' \in 0 .. MaxDrops
  <2>1. drops \in 0 .. MaxDrops /\ MaxDrops \in Nat
    BY StreamConstants DEF IInv, StreamTypeOK
  <2> QED
    BY <2>1 DEF Refused, PrunedReplay, Ended, chain, cache, link
<1>4. since' \in Slots /\ (since' = slot + Sleep \/ (~up /\ since <= since'))
  <2>1. since' = IF slot + Sleep > Tip THEN Tip ELSE slot + Sleep
    BY DEF Refused, PrunedReplay, Ended, Reconnect
  <2>2. (slot + Sleep <= Tip) \/ (~up /\ since <= slot)
    BY Numbers DEF IInv, Refused, PrunedReplay, Ended
  <2> QED
    BY <2>1, <2>2, Numbers, StreamConstants DEF IInv, Slots
<1>5. StreamTypeOK'
  <2>1. slot' \in Slots /\ wrote' \in [Accounts -> SUBSET Slots]
    BY <1>1 DEF IInv, StreamTypeOK, chain
  <2>2. entry' \in [Accounts -> Slots] /\ latest' \in Slots /\ hash' \in Slots
    BY <1>1 DEF IInv, StreamTypeOK, cache
  <2>3. next' \in Slots /\ left' \subseteq Accounts \cup {Meta}
    BY <1>3, StreamConstants DEF IInv, StreamTypeOK, Slots
  <2>4. anchor' \in {0, Start} /\ up' \in BOOLEAN
    BY <1>1 DEF IInv, StreamTypeOK
  <2> QED
    BY <1>3, <1>4, <2>1, <2>2, <2>3, <2>4 DEF StreamTypeOK
<1>6. Past'
  BY <1>1, <1>2 DEF IInv, Past, chain
<1>7. Ahead' /\ Complete'
  BY <1>1 DEF Ahead, Complete
<1>8. FirstStream'
  <2>1. anchor' # 0 => ~up /\ anchor # 0
    BY DEF Refused, PrunedReplay, Ended, AnchorKept, LiveOnly
  <2> QED
    BY <1>2, <2>1 DEF IInv, FirstStream
<1>9. Slept'
  <2>1. \A v \in Versions : v \in Nat /\ v <= slot
    BY Numbers DEF IInv, Past
  <2>2. \A v \in Versions : v = 0 \/ v + Sleep <= since'
    BY <1>4, <2>1, Numbers, StreamConstants DEF IInv, Slept, Slots
  <2> QED
    BY <1>2, <2>2 DEF Slept
<1>10. NoMissedUpdate'
  BY <1>1, UseKept DEF IInv, chain
<1> QED
  BY <1>5, <1>6, <1>7, <1>8, <1>9, <1>10 DEF IInv

LEMMA ConnectKeeps == ASSUME IInv, Connect PROVE IInv'
<1>1. UNCHANGED <<chain, cache, anchor, drops>> /\ ~up /\ up' = TRUE /\ since' = next'
  BY DEF Connect
<1>2. UNCHANGED Versions
  BY <1>1, VersionsKept
<1>3. /\ next' = IF ReplayFrom # 0 THEN ReplayFrom ELSE slot
      /\ left' \subseteq Accounts \cup {Meta}
  BY DEF Connect, Items
<1>4. next' \in 0 .. slot /\ (next' = slot \/ \A v \in Versions : v = 0)
  BY <1>1, <1>3, Replays, Numbers DEF IInv
<1>5. StreamTypeOK'
  <2>1. next' \in Slots
    BY <1>4, Numbers, StreamConstants DEF IInv, Slots
  <2>2. UNCHANGED <<slot, wrote, entry, latest, hash>>
    BY <1>1 DEF chain, cache
  <2> QED
    BY <1>1, <1>3, <2>1, <2>2 DEF IInv, StreamTypeOK
<1>6. Past'
  BY <1>1, <1>2 DEF IInv, Past, chain
<1>7. Ahead'
  <2>1. \A v \in Versions : v <= next'
    BY <1>4, Numbers DEF IInv, Past
  <2>2. slot' = slot
    BY <1>1 DEF chain
  <2> QED
    BY <1>1, <1>2, <1>4, <2>1, <2>2, Numbers DEF IInv, Ahead
<1>8. FirstStream' /\ Complete'
  BY <1>1, <1>4, Numbers DEF IInv, FirstStream, Complete, StreamTypeOK, Slots, chain
<1>9. Slept'
  <2>1. \A v \in Versions : v = 0 \/ v + Sleep <= since
    BY <1>1 DEF IInv, Slept
  <2>2. since <= slot
    BY DEF Connect
  <2>3. \A v \in Versions : v = 0 \/ v + Sleep <= since'
    BY <1>1, <1>4, <2>1, <2>2, Numbers, StreamConstants DEF IInv
  <2> QED
    BY <1>2, <2>3 DEF Slept
<1>10. NoMissedUpdate'
  BY <1>1, UseKept DEF IInv, chain
<1> QED
  BY <1>5, <1>6, <1>7, <1>8, <1>9, <1>10 DEF IInv

LEMMA SentKeeps == ASSUME IInv, SlotSent PROVE IInv'
<1>1. /\ UNCHANGED <<chain, cache, anchor, up, since, drops>>
      /\ up /\ next' = next + 1 /\ next < slot /\ left = {}
      /\ left' = Items(next + 1)
  BY DEF SlotSent
<1>2. UNCHANGED Versions
  BY <1>1, VersionsKept
<1>3. StreamTypeOK'
  <2>1. next' \in Slots
    BY <1>1, Numbers, StreamConstants DEF IInv, Slots
  <2>2. left' \subseteq Accounts \cup {Meta}
    BY <1>1 DEF Items
  <2>3. UNCHANGED <<slot, wrote, entry, latest, hash>>
    BY <1>1 DEF chain, cache
  <2> QED
    BY <1>1, <2>1, <2>2, <2>3 DEF IInv, StreamTypeOK
<1>4. Past' /\ FirstStream' /\ Slept'
  BY <1>1, <1>2 DEF IInv, Past, FirstStream, Slept, chain
<1>5. Ahead'
  BY <1>1, <1>2, Numbers DEF IInv, Ahead, chain
<1>6. Complete'
  <2> SUFFICES ASSUME NEW a \in Accounts, NEW s \in wrote[a],
                      since < s, s <= next + 1, s = next + 1 => a \notin left'
               PROVE  s <= entry[a]
    BY <1>1 DEF Complete, chain, cache
  <2>1. s # next + 1
    BY <1>1 DEF Items
  <2>2. s <= next
    BY <2>1, Numbers DEF IInv
  <2> QED
    BY <1>1, <2>2 DEF IInv, Complete
<1>7. NoMissedUpdate'
  BY <1>1, UseKept DEF IInv, chain
<1> QED
  BY <1>3, <1>4, <1>5, <1>6, <1>7 DEF IInv

(* What a received update changes: one version becomes the stream's slot.   *)
LEMMA Received ==
  ASSUME IInv, NEW item \in Accounts \cup {Meta}, Receive(item)
  PROVE  /\ UNCHANGED <<chain, anchor, up, since, next, drops>>
         /\ up /\ left' = left \ {item}
         /\ IF item = Meta
            THEN hash' = next /\ UNCHANGED <<entry, latest>>
            ELSE /\ latest' = next /\ entry' = [entry EXCEPT ![item] = next]
                 /\ hash' = hash
         /\ Versions' \subseteq Versions \cup {next}
<1>1. UNCHANGED <<chain, anchor, up, since, next, drops>> /\ up /\ left' = left \ {item}
  BY DEF Receive
<1>2. \A v \in Versions : v <= next
  BY <1>1 DEF IInv, Ahead
<1>3. latest <= next /\ hash <= next
  BY <1>2 DEF Versions
<1>4. CASE item = Meta
  <2>1. hash' = next /\ UNCHANGED <<entry, latest>>
    BY <1>3, <1>4, Numbers DEF IInv, Receive, PutHash
  <2> QED
    BY <1>1, <1>4, <2>1 DEF Versions
<1>5. CASE item # Meta
  <2>1. /\ latest' = next /\ entry' = [entry EXCEPT ![item] = next] /\ hash' = hash
    BY <1>3, <1>5, Numbers DEF IInv, Receive, PutAccount
  <2>2. \A a \in Accounts : entry'[a] \in {entry[a], next}
    BY <1>5, <2>1 DEF IInv, StreamTypeOK
  <2> QED
    BY <1>1, <1>5, <2>1, <2>2 DEF Versions
<1> QED
  BY <1>4, <1>5

LEMMA ReceiveKeeps ==
  ASSUME IInv, NEW item \in Accounts \cup {Meta}, Receive(item) PROVE IInv'
<1>1. /\ UNCHANGED <<chain, anchor, up, since, next, drops>>
      /\ up /\ left' = left \ {item}
      /\ Versions' \subseteq Versions \cup {next}
  BY Received
<1>2. UNCHANGED <<slot, wrote>>
  BY <1>1 DEF chain
<1>3. StreamTypeOK'
  <2>1. left' \subseteq Accounts \cup {Meta}
    BY <1>1 DEF IInv, StreamTypeOK
  <2>2. next \in Slots
    BY DEF IInv, StreamTypeOK
  <2>3. latest' \in Slots /\ hash' \in Slots /\ entry' \in [Accounts -> Slots]
    BY <2>2, Received DEF IInv, StreamTypeOK
  <2> QED
    BY <1>1, <1>2, <2>1, <2>3 DEF IInv, StreamTypeOK
<1>4. since <= next /\ next <= slot
  BY <1>1 DEF IInv, Ahead
<1>5. Past' /\ Ahead' /\ FirstStream' /\ Slept'
  <2>1. \A v \in Versions' : v <= next /\ v <= slot
    BY <1>1, <1>4, Numbers DEF IInv, Ahead, Past
  <2>2. \A v \in Versions' : v = 0 \/ v + Sleep <= since \/ since <= v
    BY <1>1, <1>4 DEF IInv, Slept
  <2> QED
    BY <1>1, <1>2, <1>4, <2>1, <2>2 DEF IInv, Past, Ahead, FirstStream, Slept
<1>6. Complete'
  <2> SUFFICES ASSUME NEW a \in Accounts, NEW s \in wrote[a],
                      since < s, s <= next, s = next => a \notin left'
               PROVE  s <= entry'[a]
    BY <1>1, <1>2 DEF Complete
  <2>1. CASE item = a
    <3>1. entry'[a] = next
      BY <2>1, StreamConstants, Received DEF IInv, StreamTypeOK
    <3> QED
      BY <3>1
  <2>2. CASE item # a
    <3>1. s <= entry[a]
      BY <1>1, <2>2 DEF IInv, Complete
    <3>2. entry'[a] = entry[a]
      BY <2>2, Received DEF IInv, StreamTypeOK
    <3> QED
      BY <3>1, <3>2
  <2> QED
    BY <2>1, <2>2
<1>7. NoMissedUpdate'
  <2>1. CASE item = Meta
    BY <1>2, <2>1, Received DEF IInv, NoMissedUpdate, UsedFromCache
  <2>2. CASE item # Meta
    <3> SUFFICES ASSUME NEW a \in Accounts, UsedFromCache(a)', NEW s \in wrote[a]
                 PROVE  s <= entry'[a] \/ s >= latest'
      BY <1>2 DEF NoMissedUpdate
    <3>1. latest' = next
      BY <2>2, Received
    <3>2. /\ entry'[a] # 0 /\ next - entry'[a] <= Window
          /\ entry'[a] \in Nat /\ entry'[a] \in Versions'
      BY <1>3, <3>1, StreamConstants DEF UsedFromCache, StreamTypeOK, Slots, Versions
    <3>3. entry'[a] + Sleep <= since \/ since <= entry'[a]
      BY <1>1, <1>5, <3>2 DEF Slept
    <3>4. since <= entry'[a]
      BY <1>4, <3>2, <3>3, Numbers, StreamConstants DEF IInv
    <3>5. since < s /\ s < next => s <= entry'[a]
      BY <1>1, <1>2, <1>6, Numbers DEF IInv, Complete
    <3> QED
      BY <3>1, <3>2, <3>4, <3>5, Numbers DEF IInv
  <2> QED
    BY <2>1, <2>2
<1> QED
  BY <1>3, <1>5, <1>6, <1>7 DEF IInv

LEMMA StepKeeps == ASSUME IInv, [Next]_vars PROVE IInv'
<1>1. CASE UNCHANGED vars
  <2>1. UNCHANGED <<chain, cache, link>> /\ UNCHANGED Versions
    BY <1>1, VersionsKept DEF vars
  <2>2. StreamTypeOK'
    BY <2>1 DEF IInv, StreamTypeOK, chain, cache, link
  <2>3. (Past /\ Ahead /\ FirstStream /\ Slept)'
    BY <2>1 DEF IInv, Past, Ahead, FirstStream, Slept, chain, link
  <2>4. Complete' /\ NoMissedUpdate'
    BY <2>1, UseKept DEF IInv, Complete, chain, cache, link
  <2> QED
    BY <2>2, <2>3, <2>4 DEF IInv
<1> QED
  BY <1>1, TickKeeps, DownKeeps, ConnectKeeps, SentKeeps, ReceiveKeeps DEF Next

(* Every step of the stream, the chain and the reconnecting loop keeps what *)
(* IInv says of remembered slots, the link and missed updates.              *)
THEOREM Inductive == Spec => []IInv
<1>1. IInv /\ [Next]_vars => IInv'
  BY StepKeeps
<1> QED
  BY InitIInv, <1>1, PTL DEF Spec

----------------------------------------------------------------------------
(* Slots, versions and the link keep their types.                           *)
THEOREM TypeCorrect == Spec => []StreamTypeOK
<1>1. IInv => StreamTypeOK
  BY DEF IInv
<1> QED
  BY <1>1, Inductive, PTL

(* No reader ever uses an account whose update a broken stream has missed.  *)
THEOREM NothingMissed == Spec => []NoMissedUpdate
<1>1. IInv => NoMissedUpdate
  BY DEF IInv
<1> QED
  BY <1>1, Inductive, PTL

(* A blockhash that get_fresh_blockhash serves is of the stream under way.  *)
THEOREM HashIsOfThisStream == Spec => []HashOfThisStream
<1>1. ASSUME IInv, up, FreshHash, latest >= since PROVE hash >= since
  <2>1. hash > 0 /\ latest - hash <= HashAge
    BY <1>1 DEF FreshHash
  <2>2. hash = 0 \/ hash + Sleep <= since \/ since <= hash
    BY <1>1, Numbers DEF IInv, Slept
  <2> QED
    BY <1>1, <2>1, <2>2, Numbers, StreamConstants DEF IInv
<1>2. IInv => HashOfThisStream
  BY <1>1 DEF HashOfThisStream
<1> QED
  BY <1>2, Inductive, PTL

(* The cache never goes back, replayed or not.                              *)
THEOREM NeverGoesBack == Spec => NeverBack
<1>1. ASSUME IInv, [Next]_vars
      PROVE  [/\ \A a \in Accounts : entry[a] <= entry'[a]
              /\ latest <= latest' /\ hash <= hash']_cache
  <2>1. CASE UNCHANGED cache
    BY <2>1
  <2>2. ASSUME NEW item \in Accounts \cup {Meta}, Receive(item)
        PROVE  /\ \A a \in Accounts : entry[a] <= entry'[a]
               /\ latest <= latest' /\ hash <= hash'
    <3>1. \A v \in Versions : v <= next
      BY <1>1, <2>2 DEF IInv, Ahead, Receive
    <3>2. \A a \in Accounts : entry'[a] \in {entry[a], next}
      BY <1>1, <2>2, Received DEF IInv, StreamTypeOK
    <3>3. latest' \in {latest, next} /\ hash' \in {hash, next}
      BY <1>1, <2>2, Received
    <3> QED
      BY <1>1, <3>1, <3>2, <3>3, Numbers DEF IInv
  <2>3. CASE UNCHANGED vars
    BY <2>1, <2>3 DEF vars
  <2>4. CASE Tick \/ Refused \/ PrunedReplay \/ Connect \/ SlotSent \/ Ended
    BY <2>1, <2>4 DEF Tick, Refused, PrunedReplay, Connect, SlotSent, Ended
  <2> QED
    BY <1>1, <2>2, <2>3, <2>4 DEF Next
<1> QED
  BY <1>1, Inductive, PTL DEF Spec, NeverBack
=============================================================================
