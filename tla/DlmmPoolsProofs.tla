---------------------------- MODULE DlmmPoolsProofs ----------------------------
(***************************************************************************)
(* Proofs about DlmmPools for any pairs, thresholds and number of callers. *)
(* The table of pool metadata is behind the map only while some task is    *)
(* about to save it, in whatever order the savers come: each writes the    *)
(* whole map as it is when it writes, so the last one's write is enough.   *)
(***************************************************************************)
EXTENDS DlmmPools, TLAPS

Agents == Caller \union {Listener}
Saves == {"save evicted", "save purged", "save found"}

(* A task that looks for pools looks for those of a key; the listener only *)
(* has a row to insert.                                                    *)
Fits(t, r) ==
  /\ r \in Tasks
  /\ t = Listener => r.pc \in {"idle", "insert"}
  /\ t # Listener => r.pc \in {"idle", "save found"} \/ r.key \in Keys

TasksOK == task \in [Agents -> Tasks] /\ \A t \in Agents : Fits(t, task[t])

MemoryOK ==
  /\ entry \in [Keys -> Entries] /\ meta \in [Keys -> SUBSET Pairs]
  /\ pairOf \in Maps /\ skip \subseteq Pairs

DiskOK == dbMeta \in [Keys -> SUBSET Pairs] /\ dbPairs \in Maps

IInv ==
  /\ chain \in [Pairs -> Closed .. MaxReserve]
  /\ TasksOK /\ MemoryOK /\ DiskOK
  /\ MetadataSaved

LEMMA IdleTyped == Idle \in Tasks /\ Idle.pc = "idle" /\ NoMap \in Maps
  <1>1. NoMap \in Maps
    BY DEF NoMap, Maps
  <1>2. [p \in {} |-> 0] \in Readings
    BY DEF Readings
  <1>3. \A pc \in Stages, key \in Keys \union {NoKey}, none \in SUBSET Pairs,
           got \in Readings, snap \in Maps :
          [pc |-> pc, key |-> key, ask |-> none, got |-> got, new |-> none, snap |-> snap]
            \in Tasks
    BY Zenon DEF Tasks
  <1>4. Idle \in Tasks
    <2>1. "idle" \in Stages /\ NoKey \in Keys \union {NoKey} /\ {} \in SUBSET Pairs
      BY DEF Stages
    <2>. QED
      BY <1>1, <1>2, <1>3, <2>1, Zenon DEF Idle
  <1>. QED
    BY <1>1, <1>4 DEF Idle

LEMMA NoEntryTyped == NoEntry \in Entries
  BY DEF NoEntry, Entries

LEMMA InitIInv == Init => IInv
  <1>. SUFFICES ASSUME Init PROVE IInv
    OBVIOUS
  <1>1. chain \in [Pairs -> Closed .. MaxReserve]
    BY DlmmConstants DEF Init, Closed
  <1>2. TasksOK
    BY IdleTyped DEF Init, TasksOK, Fits, Agents
  <1>3. MemoryOK /\ DiskOK
    BY IdleTyped, NoEntryTyped DEF Init, MemoryOK, DiskOK
  <1>4. MetadataSaved
    BY DEF Init, MetadataSaved
  <1>. QED
    BY <1>1, <1>2, <1>3, <1>4 DEF IInv

-----------------------------------------------------------------------------
(* What the steps of a task have in common.                                *)

(* A task about to save does nothing else.                                 *)
LEMMA Elsewhere ==
  ASSUME NEW t, NEW stage, At(t, stage), stage \notin Saves
  PROVE  task[t].pc \notin Saves
  BY DEF At, Saves

LEMMA AtSave ==
  ASSUME NEW t, NEW stage \in Saves, At(t, stage)
  PROVE  task[t].pc = stage
  BY DEF At, Saves

LEMMA Became ==
  ASSUME TasksOK, NEW t \in Agents, NEW r, Fits(t, r), Become(t, r)
  PROVE  /\ TasksOK' /\ task'[t] = r
         /\ \A u \in Agents \ {t} : task'[u] = task[u]
  BY DEF TasksOK, Fits, Become

(* A step that neither changes the metadata nor ends a save.               *)
LEMMA Quiet ==
  ASSUME MetadataSaved, TasksOK, NEW t \in Agents, NEW r, Fits(t, r), Become(t, r),
         t = Listener \/ task[t].pc \notin Saves, UNCHANGED <<meta, dbMeta>>
  PROVE  MetadataSaved'
  <1>1. \A u \in Caller : u # t => task'[u] = task[u]
    BY Became DEF Agents
  <1>2. CASE t \in Caller
    BY <1>1, <1>2, DlmmConstants DEF MetadataSaved, Saves
  <1>3. CASE t \notin Caller
    BY <1>1, <1>3 DEF MetadataSaved
  <1>. QED
    BY <1>2, <1>3

(* A step that ends in a save.                                             *)
LEMMA Loud ==
  ASSUME TasksOK, NEW t \in Caller, NEW r, Fits(t, r), Become(t, r), r.pc \in Saves
  PROVE  MetadataSaved'
  <1>1. task'[t] = r
    BY Became DEF Agents
  <1>. QED
    BY <1>1 DEF MetadataSaved, Saves

LEMMA GotoFits ==
  ASSUME TasksOK, NEW t \in Caller, NEW pc \in Stages, task[t].key \in Keys
  PROVE  Fits(t, [task[t] EXCEPT !.pc = pc])
  <1>1. task[t] \in Tasks /\ t # Listener
    BY DlmmConstants DEF TasksOK, Agents
  <1>. QED
    BY <1>1 DEF Fits, Tasks

LEMMA ReturnFits == ASSUME NEW t \in Agents PROVE Fits(t, Idle)
  BY IdleTyped DEF Fits

(* A task that is not idle knows its key.                                  *)
LEMMA KeyKnown ==
  ASSUME TasksOK, NEW t \in Caller, NEW stage, At(t, stage), stage \notin {"idle", "save found"}
  PROVE  task[t].key \in Keys /\ TheKey(t) = task[t].key
  <1>1. task[t].pc \notin {"idle", "save found"}
    BY DEF At
  <1>. QED
    BY <1>1, DlmmConstants DEF TasksOK, Fits, Agents, TheKey

LEMMA AskTyped ==
  ASSUME NEW r \in Tasks, NEW ask \in SUBSET Pairs, NEW new \in SUBSET Pairs, NEW pc \in Stages
  PROVE  /\ [r EXCEPT !.ask = ask, !.pc = pc] \in Tasks
         /\ [r EXCEPT !.pc = pc, !.ask = ask] \in Tasks
         /\ [r EXCEPT !.new = new, !.pc = pc] \in Tasks
         /\ [r EXCEPT !.ask = ask, !.new = new, !.pc = pc] \in Tasks
  BY DEF Tasks

LEMMA NewKey ==
  ASSUME NEW key \in Keys, NEW pc \in Stages
  PROVE  [Idle EXCEPT !.pc = pc, !.key = key] \in Tasks
  <1>1. \A r \in Tasks : [r EXCEPT !.pc = pc, !.key = key] \in Tasks
    BY DEF Tasks
  <1>. QED
    BY <1>1, IdleTyped

LEMMA CacheTyped ==
  ASSUME MemoryOK, NEW k \in Keys, NEW p \in Pairs \union {NoPair}, Cache(k, p)
  PROVE  entry' \in [Keys -> Entries]
  BY DEF MemoryOK, Cache, Entries

LEMMA LowTyped ==
  ASSUME TasksOK, NEW t \in Agents
  PROVE  DOMAIN task[t].got \subseteq Pairs /\ Low(t) \subseteq Pairs /\ Dead(t) \subseteq Pairs
         /\ Usable(t) \subseteq Pairs /\ Best(t) \subseteq Pairs
  <1>1. task[t].got \in Readings
    BY DEF TasksOK, Tasks
  <1>2. DOMAIN task[t].got \subseteq Pairs
    BY <1>1 DEF Readings
  <1>. QED
    BY <1>2 DEF Low, Dead, Usable, Best, Valid

LEMMA NamedTyped ==
  ASSUME NEW map \in Maps, NEW a, NEW b, NEW p \in Pairs
  PROVE  Named(map, a, b, p) \in Maps
  BY DEF Maps, Named

-----------------------------------------------------------------------------
(* The steps that change only what the task knows.                         *)
LEMMA ThinkKeeps ==
  ASSUME IInv, NEW t \in Agents, NEW r, Fits(t, r), Become(t, r),
         t = Listener \/ task[t].pc \notin Saves, UNCHANGED <<chain, memory, disk>>
  PROVE  IInv'
  <1>1. TasksOK' /\ MetadataSaved'
    BY Became, Quiet DEF IInv, memory, disk
  <1>. QED
    BY <1>1 DEF IInv, MemoryOK, DiskOK, memory, disk

LEMMA CallerIs ==
  ASSUME NEW t \in Caller PROVE t \in Agents /\ t # Listener
  BY DlmmConstants DEF Agents

LEMMA MissKeeps ==
  ASSUME IInv, NEW t \in Caller, NEW k \in Keys, Miss(t, k) PROVE IInv'
  <1>1. Fits(t, [Idle EXCEPT !.pc = "recall", !.key = k])
    <2>1. [Idle EXCEPT !.pc = "recall", !.key = k] \in Tasks
      BY NewKey DEF Stages
    <2>2. Idle \in Tasks
      BY IdleTyped
    <2>3. [Idle EXCEPT !.pc = "recall", !.key = k].key = k
      BY <2>2 DEF Tasks
    <2>. QED
      BY <2>1, <2>3, CallerIs DEF Fits
  <1>2. task[t].pc \notin Saves
    BY Elsewhere DEF Miss, Saves
  <1>. QED
    BY <1>1, <1>2, CallerIs, ThinkKeeps DEF Miss

LEMMA GiveUpKeeps == ASSUME IInv, NEW t \in Caller, GiveUp(t) PROVE IInv'
  <1>1. TheKey(t) \in Keys
    BY KeyKnown DEF IInv, GiveUp
  <1>2. Fits(t, [Idle EXCEPT !.pc = "discover", !.key = TheKey(t)])
    <2>1. [Idle EXCEPT !.pc = "discover", !.key = TheKey(t)] \in Tasks
      BY <1>1, NewKey DEF Stages
    <2>2. Idle \in Tasks
      BY IdleTyped
    <2>3. [Idle EXCEPT !.pc = "discover", !.key = TheKey(t)].key = TheKey(t)
      BY <2>2 DEF Tasks
    <2>. QED
      BY <1>1, <2>1, <2>3, CallerIs DEF Fits
  <1>3. task[t].pc \notin Saves
    BY Elsewhere DEF GiveUp, Saves
  <1>. QED
    BY <1>2, <1>3, CallerIs, ThinkKeeps DEF GiveUp

(* A caller that keeps its key.                                            *)
LEMMA KeyKept ==
  ASSUME TasksOK, NEW t \in Caller, task[t].key \in Keys, NEW r \in Tasks, r.key = task[t].key
  PROVE  Fits(t, r)
  BY CallerIs DEF Fits

LEMMA RecallKeeps == ASSUME IInv, NEW t \in Caller, Recall(t) PROVE IInv'
  <1>. DEFINE known == meta[TheKey(t)] \ skip
              r == [task[t] EXCEPT !.ask = known, !.pc = IF known = {} THEN "discover" ELSE "probe"]
  <1>1. task[t].key \in Keys /\ TheKey(t) = task[t].key /\ task[t] \in Tasks
    BY KeyKnown, CallerIs DEF IInv, Recall, TasksOK
  <1>2. known \in SUBSET Pairs
    BY <1>1 DEF IInv, MemoryOK
  <1>3. r \in Tasks /\ r.key = task[t].key
    <2>1. (IF known = {} THEN "discover" ELSE "probe") \in Stages
      BY DEF Stages
    <2>2. r \in Tasks
      BY <1>1, <1>2, <2>1, AskTyped
    <2>. QED
      BY <1>1, <2>2 DEF Tasks
  <1>4. task[t].pc \notin Saves
    BY Elsewhere DEF Recall, Saves
  <1>5. Become(t, r) /\ UNCHANGED <<chain, memory, disk>>
    BY DEF Recall
  <1>6. Fits(t, r)
    BY <1>1, <1>3, KeyKept DEF IInv
  <1>. HIDE DEF r
  <1>. QED
    BY <1>4, <1>5, <1>6, CallerIs, ThinkKeeps

LEMMA DiscoverKeeps == ASSUME IInv, NEW t \in Caller, Discover(t) PROVE IInv'
  <1>. DEFINE ask == {pairOf[TheKey(t)[2]]} \ {NoPair}
              r == [task[t] EXCEPT !.pc = "gpa", !.ask = ask]
  <1>1. task[t].key \in Keys /\ TheKey(t) = task[t].key /\ task[t] \in Tasks
    BY KeyKnown, CallerIs DEF IInv, Discover, TasksOK
  <1>2. ask \in SUBSET Pairs
    <2>1. PICK p \in Pairs : task[t].key = <<Quote[p], Mint[p]>>
      BY <1>1 DEF Keys, KeyOf
    <2>2. TheKey(t)[2] \in Tokens
      BY <1>1, <2>1 DEF Tokens
    <2>. QED
      BY <2>2 DEF IInv, MemoryOK, Maps
  <1>3. r \in Tasks /\ r.key = task[t].key
    <2>1. r \in Tasks
      BY <1>1, <1>2, AskTyped DEF Stages
    <2>. QED
      BY <1>1, <2>1 DEF Tasks
  <1>4. task[t].pc \notin Saves
    BY Elsewhere DEF Discover, Saves
  <1>5. Become(t, r) /\ UNCHANGED <<chain, memory, disk>>
    BY DEF Discover
  <1>6. Fits(t, r)
    BY <1>1, <1>3, KeyKept DEF IInv
  <1>. HIDE DEF r
  <1>. QED
    BY <1>4, <1>5, <1>6, CallerIs, ThinkKeeps

LEMMA ReadKeeps == ASSUME IInv, NEW t \in Caller, NEW p \in Pairs, Read(t, p) PROVE IInv'
  <1>. DEFINE old == task[t].got
  <1>1. PICK v \in {chain[p], Closed} :
          Become(t, [task[t] EXCEPT !.got =
                       [q \in DOMAIN old \union {p} |-> IF q = p THEN v ELSE old[q]]])
    BY DEF Read
  <1>. DEFINE got == [q \in DOMAIN old \union {p} |-> IF q = p THEN v ELSE old[q]]
              r == [task[t] EXCEPT !.got = got]
  <1>2. task[t].key \in Keys /\ task[t] \in Tasks
    BY KeyKnown, CallerIs DEF IInv, Read, TasksOK
  <1>3. got \in Readings
    <2>1. PICK S \in SUBSET Pairs : old \in [S -> Closed .. MaxReserve]
      BY <1>2 DEF Tasks, Readings
    <2>2. v \in Closed .. MaxReserve
      BY <1>1, DlmmConstants DEF IInv, Closed
    <2>3. DOMAIN old \union {p} \in SUBSET Pairs
      BY <2>1
    <2>4. \A q \in DOMAIN old \union {p} : got[q] \in Closed .. MaxReserve
      BY <2>1, <2>2
    <2>5. got \in [DOMAIN old \union {p} -> Closed .. MaxReserve]
      BY <2>4
    <2>. HIDE DEF got, old
    <2>. QED
      BY <2>3, <2>5 DEF Readings
  <1>4. r \in Tasks /\ r.key = task[t].key
    <2>. HIDE DEF got
    <2>. QED
      BY <1>2, <1>3 DEF Tasks
  <1>5. task[t].pc \notin Saves
    BY Elsewhere DEF Read, Saves
  <1>6. Become(t, r) /\ UNCHANGED <<chain, memory, disk>>
    BY <1>1 DEF Read
  <1>7. Fits(t, r)
    BY <1>2, <1>4, KeyKept DEF IInv
  <1>. HIDE DEF r
  <1>. QED
    BY <1>5, <1>6, <1>7, CallerIs, ThinkKeeps

LEMMA GpaKeeps == ASSUME IInv, NEW t \in Caller, Gpa(t) PROVE IInv'
  <1>1. PICK found \in SUBSET {p \in Pairs : KeyOf(p) = TheKey(t) /\ chain[p] # Closed} :
          LET new == found \ task[t].ask
              all == found \union task[t].ask
          IN  Become(t, [task[t] EXCEPT !.ask = all, !.new = new,
                           !.pc = IF new # {} THEN "note"
                                  ELSE IF all = {} THEN "none" ELSE "fetch"])
    BY DEF Gpa
  <1>. DEFINE new == found \ task[t].ask
              all == found \union task[t].ask
              pc == IF new # {} THEN "note" ELSE IF all = {} THEN "none" ELSE "fetch"
              r == [task[t] EXCEPT !.ask = all, !.new = new, !.pc = pc]
  <1>2. task[t].key \in Keys /\ task[t] \in Tasks
    BY KeyKnown, CallerIs DEF IInv, Gpa, TasksOK
  <1>3. all \in SUBSET Pairs /\ new \in SUBSET Pairs /\ pc \in Stages
    BY <1>2 DEF Tasks, Stages
  <1>4. Become(t, r) /\ UNCHANGED <<chain, memory, disk>>
    BY <1>1 DEF Gpa
  <1>. HIDE DEF new, all, pc
  <1>5. r \in Tasks
    BY <1>2, <1>3, AskTyped
  <1>6. r.key = task[t].key
    BY <1>2 DEF Tasks
  <1>7. task[t].pc \notin Saves
    BY Elsewhere DEF Gpa, Saves
  <1>8. Fits(t, r)
    BY <1>2, <1>5, <1>6, KeyKept DEF IInv
  <1>. HIDE DEF r
  <1>. QED
    BY <1>4, <1>7, <1>8, CallerIs, ThinkKeeps

-----------------------------------------------------------------------------
(* The steps that change the skip list, the entries or the pairs.          *)
LEMMA ActKeeps ==
  ASSUME IInv, NEW t \in Agents, NEW r, Fits(t, r), Become(t, r),
         t = Listener \/ task[t].pc \notin Saves,
         UNCHANGED <<chain, meta, dbMeta>>,
         entry' \in [Keys -> Entries], pairOf' \in Maps, skip' \subseteq Pairs, dbPairs' \in Maps
  PROVE  IInv'
  <1>1. TasksOK' /\ MetadataSaved'
    BY Became, Quiet DEF IInv
  <1>2. MemoryOK' /\ DiskOK'
    BY DEF IInv, MemoryOK, DiskOK
  <1>. QED
    BY <1>1, <1>2 DEF IInv

LEMMA MarkKeeps == ASSUME IInv, NEW t \in Caller, Mark(t) \/ MarkFound(t) PROVE IInv'
  <1>1. PICK pc \in {"evict", "found"} : Goto(t, pc)
    BY DEF Mark, MarkFound
  <1>2. Fits(t, [task[t] EXCEPT !.pc = pc])
    BY KeyKnown, GotoFits DEF IInv, Mark, MarkFound, Stages
  <1>3. task[t].pc \notin Saves
    BY Elsewhere DEF Mark, MarkFound, Saves
  <1>4. /\ skip' = skip \union Low(t)
        /\ UNCHANGED <<chain, entry, meta, pairOf, disk>>
    BY DEF Mark, MarkFound
  <1>5. skip' \subseteq Pairs
    BY <1>4, LowTyped, CallerIs DEF IInv, MemoryOK
  <1>. QED
    BY <1>1, <1>2, <1>3, <1>4, <1>5, CallerIs, ActKeeps DEF IInv, MemoryOK, DiskOK, Goto, disk

LEMMA CacheKeeps == ASSUME IInv, NEW t \in Caller, Settle(t) \/ NoPools(t) \/ Keep(t) PROVE IInv'
  <1>1. PICK r \in {Idle, [task[t] EXCEPT !.pc = "remember"]} : Become(t, r)
    BY DEF Settle, NoPools, Keep, Return, Goto
  <1>2. TheKey(t) \in Keys /\ task[t].key \in Keys
    BY KeyKnown DEF IInv, Settle, NoPools, Keep
  <1>3. Fits(t, r)
    BY <1>1, <1>2, GotoFits, ReturnFits, CallerIs DEF IInv, Stages
  <1>4. task[t].pc \notin Saves
    BY Elsewhere DEF Settle, NoPools, Keep, Saves
  <1>5. UNCHANGED <<chain, meta, pairOf, skip, disk>>
    BY DEF Settle, NoPools, Keep
  <1>6. entry' \in [Keys -> Entries]
    <2>1. \E p \in Pairs \union {NoPair} : Cache(TheKey(t), p)
      BY LowTyped, CallerIs DEF IInv, Settle, NoPools, Keep
    <2>. QED
      BY <1>2, <2>1, CacheTyped DEF IInv
  <1>. QED
    BY <1>1, <1>3, <1>4, <1>5, <1>6, CallerIs, ActKeeps DEF IInv, MemoryOK, DiskOK, disk

(* cache_dlmm_lb_pair, by a caller and by the listener.                    *)
LEMMA NoteFits ==
  ASSUME TasksOK, MemoryOK, NEW t \in Agents, NEW a, NEW b, NEW p \in Pairs,
         NEW after \in {"fetch", "idle"}, NoteAs(t, a, b, p, after),
         t = Listener => after = "idle",
         t # Listener => task[t].key \in Keys
  PROVE  pairOf' \in Maps /\ \E r : Fits(t, r) /\ Become(t, r)
  <1>. DEFINE new == IF pairOf[a] = NoPair THEN {p} ELSE {}
              pc == IF pairOf[a] = NoPair THEN "insert" ELSE after
              r == [task[t] EXCEPT !.new = new, !.pc = pc]
  <1>1. Become(t, r)
    BY DEF NoteAs
  <1>2. new \in SUBSET Pairs /\ pc \in Stages /\ task[t] \in Tasks
        /\ pc \in {"insert", after}
    BY DEF TasksOK, Stages
  <1>. HIDE DEF new, pc
  <1>3. r \in Tasks
    BY <1>2, AskTyped
  <1>4. r.key = task[t].key /\ r.pc = pc
    BY <1>2 DEF Tasks
  <1>. HIDE DEF r
  <1>5. Fits(t, r)
    BY <1>2, <1>3, <1>4 DEF Fits
  <1>6. pairOf' \in Maps
    BY NamedTyped DEF NoteAs, MemoryOK
  <1>. QED
    BY <1>1, <1>5, <1>6

LEMMA NoteKeeps == ASSUME IInv, NEW t \in Caller, Note(t) PROVE IInv'
  <1>1. PICK p \in task[t].new : NoteAs(t, Quote[p], Mint[p], p, "fetch")
    BY DEF Note
  <1>2. task[t].key \in Keys /\ task[t] \in Tasks
    BY KeyKnown, CallerIs DEF IInv, Note, TasksOK
  <1>3. p \in Pairs
    BY <1>2 DEF Tasks
  <1>4. pairOf' \in Maps /\ \E r : Fits(t, r) /\ Become(t, r)
    BY <1>1, <1>2, <1>3, NoteFits, CallerIs DEF IInv
  <1>5. task[t].pc \notin Saves
    BY Elsewhere DEF Note, Saves
  <1>6. UNCHANGED <<chain, entry, meta, skip, disk>>
    BY DEF Note
  <1>. QED
    BY <1>4, <1>5, <1>6, CallerIs, ActKeeps DEF IInv, MemoryOK, DiskOK, disk

LEMMA SwapSeenKeeps == ASSUME IInv, NEW p \in Pairs, SwapSeen(p) PROVE IInv'
  <1>1. PICK a, b : NoteAs(Listener, a, b, p, "idle")
    BY DEF SwapSeen
  <1>2. Listener \in Agents
    BY DEF Agents
  <1>3. pairOf' \in Maps /\ \E r : Fits(Listener, r) /\ Become(Listener, r)
    BY <1>1, <1>2, NoteFits DEF IInv
  <1>4. UNCHANGED <<chain, entry, meta, skip, disk>>
    BY DEF SwapSeen
  <1>. QED
    BY <1>2, <1>3, <1>4, ActKeeps DEF IInv, MemoryOK, DiskOK, disk

LEMMA InsertKeeps == ASSUME IInv, NEW t \in Agents, Insert(t) PROVE IInv'
  <1>. DEFINE pc == IF t = Listener THEN "idle" ELSE "fetch"
              r == [task[t] EXCEPT !.new = {}, !.pc = pc]
  <1>1. /\ Become(t, r) /\ UNCHANGED <<chain, memory, dbMeta>>
        /\ \E p \in task[t].new : dbPairs' = Named(dbPairs, Quote[p], Mint[p], p)
    BY DEF Insert
  <1>2. task[t] \in Tasks /\ Fits(t, task[t])
    BY DEF IInv, TasksOK
  <1>3. t # Listener => task[t].key \in Keys
    BY KeyKnown DEF IInv, Insert, Agents
  <1>4. pc \in Stages /\ (t = Listener => pc = "idle") /\ {} \in SUBSET Pairs
    BY DEF Stages
  <1>. HIDE DEF pc
  <1>5. r \in Tasks
    BY <1>2, <1>4, AskTyped
  <1>6. r.key = task[t].key /\ r.pc = pc
    BY <1>2 DEF Tasks
  <1>. HIDE DEF r
  <1>7. Fits(t, r)
    BY <1>3, <1>4, <1>5, <1>6 DEF Fits
  <1>8. dbPairs' \in Maps
    BY <1>1, <1>2, NamedTyped DEF IInv, DiskOK, Tasks
  <1>9. t = Listener \/ task[t].pc \notin Saves
    BY Elsewhere DEF Insert, Saves
  <1>. QED
    BY <1>1, <1>7, <1>8, <1>9, ActKeeps DEF IInv, MemoryOK, memory

(* cleanup_stale_lb_pairs.                                                 *)
LEMMA CleanKeeps == ASSUME IInv, NEW t \in Caller, Clean(t) PROVE IInv'
  <1>. DEFINE pc == IF pairOf' # pairOf THEN "replace" ELSE "purge"
              r == [task[t] EXCEPT !.snap = pairOf', !.pc = pc]
  <1>1. Become(t, r) /\ UNCHANGED <<chain, entry, meta, skip, disk>>
    BY DEF Clean
  <1>2. task[t].key \in Keys /\ task[t] \in Tasks
    BY KeyKnown, CallerIs DEF IInv, Clean, TasksOK
  <1>3. pairOf' \in Maps
    BY DEF Clean, IInv, MemoryOK, Maps
  <1>4. pc \in Stages
    BY DEF Stages
  <1>. HIDE DEF pc
  <1>5. r \in Tasks /\ r.key = task[t].key
    BY <1>2, <1>3, <1>4 DEF Tasks
  <1>. HIDE DEF r
  <1>6. Fits(t, r)
    BY <1>2, <1>5, KeyKept DEF IInv
  <1>7. task[t].pc \notin Saves
    BY Elsewhere DEF Clean, Saves
  <1>. QED
    BY <1>1, <1>3, <1>6, <1>7, CallerIs, ActKeeps DEF IInv, MemoryOK, DiskOK, disk

LEMMA ReplaceKeeps == ASSUME IInv, NEW t \in Caller, Replace(t) PROVE IInv'
  <1>. DEFINE r == [task[t] EXCEPT !.snap = NoMap, !.pc = "purge"]
  <1>1. /\ Become(t, r) /\ UNCHANGED <<chain, memory, dbMeta>>
        /\ dbPairs' = task[t].snap
    BY DEF Replace
  <1>2. task[t].key \in Keys /\ task[t] \in Tasks
    BY KeyKnown, CallerIs DEF IInv, Replace, TasksOK
  <1>3. "purge" \in Stages
    BY DEF Stages
  <1>4. r \in Tasks /\ r.key = task[t].key
    BY <1>2, <1>3, IdleTyped DEF Tasks
  <1>. HIDE DEF r
  <1>5. Fits(t, r)
    BY <1>2, <1>4, KeyKept DEF IInv
  <1>6. dbPairs' \in Maps
    BY <1>1, <1>2 DEF Tasks
  <1>7. task[t].pc \notin Saves
    BY Elsewhere DEF Replace, Saves
  <1>. QED
    BY <1>1, <1>5, <1>6, <1>7, CallerIs, ActKeeps DEF IInv, MemoryOK, memory

LEMMA PurgeKeeps == ASSUME IInv, NEW t \in Caller, Purge(t) PROVE IInv'
  <1>1. Goto(t, "purge known") /\ UNCHANGED <<chain, meta, pairOf, skip, disk>>
    BY DEF Purge
  <1>2. Fits(t, [task[t] EXCEPT !.pc = "purge known"])
    BY KeyKnown, GotoFits DEF IInv, Purge, Stages
  <1>3. entry' \in [Keys -> Entries]
    BY NoEntryTyped DEF Purge, IInv, MemoryOK
  <1>4. task[t].pc \notin Saves
    BY Elsewhere DEF Purge, Saves
  <1>. QED
    BY <1>1, <1>2, <1>3, <1>4, CallerIs, ActKeeps DEF IInv, MemoryOK, DiskOK, disk, Goto

-----------------------------------------------------------------------------
(* The steps that change the metadata: what they change, they then save.   *)
LEMMA KnowKeeps ==
  ASSUME IInv, NEW t \in Caller, NEW r, Fits(t, r), Become(t, r),
         r.pc \in Saves \/ (UNCHANGED meta /\ task[t].pc \notin Saves),
         UNCHANGED <<chain, entry, pairOf, skip, disk>>, meta' \in [Keys -> SUBSET Pairs]
  PROVE  IInv'
  <1>1. TasksOK'
    BY CallerIs, Became DEF IInv
  <1>2. MetadataSaved'
    BY CallerIs, Quiet, Loud DEF IInv, disk
  <1>3. MemoryOK' /\ DiskOK'
    BY DEF IInv, MemoryOK, DiskOK, disk
  <1>. QED
    BY <1>1, <1>2, <1>3 DEF IInv

LEMMA GotoKnown ==
  ASSUME IInv, NEW t \in Caller, NEW pc \in Stages, task[t].key \in Keys
  PROVE  /\ Fits(t, [task[t] EXCEPT !.pc = pc])
         /\ [task[t] EXCEPT !.pc = pc].pc = pc
  <1>1. task[t] \in Tasks
    BY CallerIs DEF IInv, TasksOK
  <1>2. [task[t] EXCEPT !.pc = pc].pc = pc
    BY <1>1 DEF Tasks
  <1>. QED
    BY <1>2, GotoFits DEF IInv

LEMMA EvictKeeps == ASSUME IInv, NEW t \in Caller, Evict(t) PROVE IInv'
  <1>. DEFINE pc == IF meta[TheKey(t)] # {} THEN "save evicted" ELSE "settle"
              r == [task[t] EXCEPT !.pc = pc]
  <1>1. /\ Become(t, r) /\ UNCHANGED <<chain, entry, pairOf, skip, disk>>
        /\ meta' = [meta EXCEPT ![TheKey(t)] = @ \ Dead(t)]
    BY DEF Evict, Goto
  <1>2. task[t].key \in Keys /\ TheKey(t) \in Keys /\ meta \in [Keys -> SUBSET Pairs]
    BY KeyKnown DEF IInv, Evict, MemoryOK
  <1>3. pc \in Stages /\ (pc \in Saves \/ meta[TheKey(t)] = {})
    BY DEF Stages, Saves
  <1>4. Fits(t, r) /\ r.pc = pc
    <2>. HIDE DEF pc
    <2>. QED
      BY <1>2, <1>3, GotoKnown
  <1>5. meta[TheKey(t)] = {} => meta' = meta
    BY <1>1, <1>2
  <1>6. meta' \in [Keys -> SUBSET Pairs]
    BY <1>1, <1>2
  <1>7. task[t].pc \notin Saves
    BY Elsewhere DEF Evict, Saves
  <1>. HIDE DEF r, pc
  <1>. QED
    BY <1>1, <1>3, <1>4, <1>5, <1>6, <1>7, KnowKeeps

LEMMA PurgeKnownKeeps == ASSUME IInv, NEW t \in Caller, PurgeKnown(t) PROVE IInv'
  <1>. DEFINE pc == IF meta' # meta THEN "save purged" ELSE "mark found"
              r == [task[t] EXCEPT !.pc = pc]
  <1>1. /\ Become(t, r) /\ UNCHANGED <<chain, entry, pairOf, skip, disk>>
        /\ meta' = [k \in Keys |-> meta[k] \ Dead(t)]
    BY DEF PurgeKnown, Goto
  <1>2. task[t].key \in Keys /\ meta \in [Keys -> SUBSET Pairs]
    BY KeyKnown DEF IInv, PurgeKnown, MemoryOK
  <1>3. pc \in Stages /\ (pc \in Saves \/ UNCHANGED meta)
    BY DEF Stages, Saves
  <1>4. Fits(t, r) /\ r.pc = pc
    <2>. HIDE DEF pc
    <2>. QED
      BY <1>2, <1>3, GotoKnown
  <1>5. meta' \in [Keys -> SUBSET Pairs]
    BY <1>1, <1>2
  <1>6. task[t].pc \notin Saves
    BY Elsewhere DEF PurgeKnown, Saves
  <1>. HIDE DEF r, pc
  <1>. QED
    BY <1>1, <1>3, <1>4, <1>5, <1>6, KnowKeeps

LEMMA RememberKeeps == ASSUME IInv, NEW t \in Caller, Remember(t) PROVE IInv'
  <1>. DEFINE r == [Idle EXCEPT !.pc = "save found"]
  <1>1. /\ Become(t, r) /\ UNCHANGED <<chain, entry, pairOf, skip, disk>>
        /\ meta' = [meta EXCEPT ![TheKey(t)] = Usable(t)]
    BY DEF Remember
  <1>2. "save found" \in Stages /\ Idle \in Tasks
    BY IdleTyped DEF Stages
  <1>3. r \in Tasks /\ r.pc = "save found"
    <2>1. \A i \in Tasks : /\ [i EXCEPT !.pc = "save found"] \in Tasks
                           /\ [i EXCEPT !.pc = "save found"].pc = "save found"
      BY <1>2 DEF Tasks
    <2>. QED
      BY <1>2, <2>1
  <1>. HIDE DEF r
  <1>4. Fits(t, r) /\ r.pc \in Saves
    BY <1>3, CallerIs DEF Fits, Saves
  <1>5. meta' \in [Keys -> SUBSET Pairs]
    BY <1>1, LowTyped, CallerIs DEF IInv, MemoryOK
  <1>. QED
    BY <1>1, <1>4, <1>5, KnowKeeps

LEMMA SaveKeeps == ASSUME IInv, NEW t \in Caller, Save(t) PROVE IInv'
  <1>1. dbMeta' = meta /\ UNCHANGED <<chain, memory, dbPairs>>
    BY DEF Save
  <1>2. \E r : Fits(t, r) /\ Become(t, r)
    <2>1. CASE At(t, "save found") /\ Return(t)
      BY <2>1, ReturnFits, CallerIs DEF Return
    <2>2. CASE (At(t, "save evicted") /\ Goto(t, "settle")) \/ (At(t, "save purged") /\ Goto(t, "mark found"))
      <3>1. task[t].key \in Keys
        BY <2>2, KeyKnown DEF IInv
      <3>2. PICK pc \in {"settle", "mark found"} : Goto(t, pc)
        BY <2>2
      <3>. QED
        BY <3>1, <3>2, GotoFits DEF IInv, Goto, Stages
    <2>. QED
      BY <2>1, <2>2 DEF Save
  <1>3. TasksOK'
    BY <1>2, Became, CallerIs DEF IInv
  <1>4. MetadataSaved'
    BY <1>1 DEF MetadataSaved, memory
  <1>5. MemoryOK' /\ DiskOK'
    BY <1>1 DEF IInv, MemoryOK, DiskOK, memory
  <1>. QED
    BY <1>1, <1>3, <1>4, <1>5 DEF IInv

-----------------------------------------------------------------------------
(* The chain, time and restarts.                                           *)
LEMMA WorldKeeps ==
  ASSUME IInv, \/ \E p \in Pairs : Change(p) \/ SkipEnds(p)
               \/ \E k \in Keys : Age(k)
  PROVE  IInv'
  <1>1. UNCHANGED <<meta, pairOf, disk, task>>
    BY DEF Change, SkipEnds, Age, memory
  <1>2. TasksOK' /\ MetadataSaved' /\ DiskOK'
    BY <1>1 DEF IInv, TasksOK, Fits, MetadataSaved, DiskOK, disk
  <1>3. chain' \in [Pairs -> Closed .. MaxReserve]
    BY DEF IInv, Change, SkipEnds, Age
  <1>4. skip' \subseteq Pairs
    BY DEF IInv, MemoryOK, Change, SkipEnds, Age, memory
  <1>5. entry' \in [Keys -> Entries]
    <2>1. CASE UNCHANGED entry
      BY <2>1 DEF IInv, MemoryOK
    <2>2. ASSUME NEW k \in Keys, Age(k) PROVE entry' \in [Keys -> Entries]
      BY <2>2 DEF IInv, MemoryOK, Age, Entries
    <2>. QED
      BY <2>1, <2>2 DEF Change, SkipEnds, memory
  <1>. QED
    BY <1>1, <1>2, <1>3, <1>4, <1>5 DEF IInv, MemoryOK

LEMMA RestartKeeps == ASSUME IInv, Restart PROVE IInv'
  <1>1. TasksOK'
    <2>1. task' = [t \in Agents |-> Idle]
      BY DEF IInv, TasksOK, Restart
    <2>. QED
      BY <2>1, IdleTyped DEF TasksOK, Fits
  <1>2. MemoryOK' /\ DiskOK' /\ MetadataSaved'
    BY NoEntryTyped DEF IInv, MemoryOK, DiskOK, MetadataSaved, Restart, disk
  <1>. QED
    BY <1>1, <1>2 DEF IInv, Restart

LEMMA WorkKeeps == ASSUME IInv, NEW t \in Caller, Work(t) PROVE IInv'
  <1>1. CASE Recall(t) \/ GiveUp(t) \/ Discover(t) \/ Gpa(t) \/ \E p \in Pairs : Read(t, p)
    BY <1>1, RecallKeeps, GiveUpKeeps, DiscoverKeeps, GpaKeeps, ReadKeeps
  <1>2. CASE Mark(t) \/ MarkFound(t) \/ Settle(t) \/ NoPools(t) \/ Keep(t)
    BY <1>2, MarkKeeps, CacheKeeps
  <1>3. CASE Note(t) \/ Insert(t) \/ Clean(t) \/ Replace(t) \/ Purge(t)
    BY <1>3, NoteKeeps, InsertKeeps, CleanKeeps, ReplaceKeeps, PurgeKeeps, CallerIs
  <1>4. CASE Evict(t) \/ PurgeKnown(t) \/ Remember(t) \/ Save(t)
    BY <1>4, EvictKeeps, PurgeKnownKeeps, RememberKeeps, SaveKeeps
  <1>. QED
    BY <1>1, <1>2, <1>3, <1>4 DEF Work

LEMMA StepKeeps == ASSUME IInv, [Next]_vars PROVE IInv'
  <1>1. CASE UNCHANGED vars
    BY <1>1 DEF vars, memory, disk, IInv, TasksOK, Fits, MemoryOK, DiskOK, MetadataSaved
  <1>2. CASE Insert(Listener)
    BY <1>2, InsertKeeps DEF Agents
  <1>. QED
    BY <1>1, <1>2, WorkKeeps, MissKeeps, SwapSeenKeeps, WorldKeeps, RestartKeeps DEF Next

(* Every step of a lookup, the listener, the pools and a restart keeps the *)
(* types and leaves no change of the metadata without a save to come.      *)
THEOREM Inductive == Spec => []IInv
  <1>1. IInv /\ [Next]_vars => IInv'
    BY StepKeeps
  <1>. QED
    BY InitIInv, <1>1, PTL DEF Spec

(* Maps, tables and tasks keep their types for any pairs and any tasks.    *)
THEOREM TypeCorrect == Spec => []DlmmTypeOK
  <1>1. IInv => DlmmTypeOK
    BY DEF IInv, TasksOK, MemoryOK, DiskOK, DlmmTypeOK, Agents
  <1>. QED
    BY <1>1, Inductive, PTL

(* However many tasks save the metadata, in whatever order, a restart      *)
(* finds what memory knew unless it interrupts a save.                     *)
THEOREM SavedMetadata == Spec => []MetadataSaved
  <1>1. IInv => MetadataSaved
    BY DEF IInv
  <1>. QED
    BY <1>1, Inductive, PTL
=============================================================================
