------------------------------- MODULE DlmmPools -------------------------------
(***************************************************************************)
(* The DLMM pools the bot knows (pool_cache/dlmm): fetch_dlmm_by_mints,    *)
(* run by the scanner and by the verification of new mints at once, over   *)
(* four shared maps (reserve cache, permanent metadata, token-to-pair      *)
(* cache, skip list), two of them saved in SQLite; swap events seen by the *)
(* listener; pools created, drained and closed meanwhile; RPC failures and *)
(* restarts.  Every lock section is an action.                             *)
(***************************************************************************)
EXTENDS Integers

CONSTANTS
  Pairs,      (* lb_pair accounts                                          *)
  Quote,      (* [Pairs -> the SOL or USDC side of a pair]                 *)
  Mint,       (* [Pairs -> the coin of a pair]                             *)
  NoPair,     (* not a pair                                                *)
  Caller,     (* tasks that call fetch_dlmm_by_mints                       *)
  Minimum,    (* [Caller -> min_reserve_lamports]                          *)
  Listener,   (* the task of a DLMM swap event                             *)
  MaxReserve, (* bound: reserves, in steps the thresholds tell apart       *)
  MaxChanges, (* bound: changes of the pools                               *)
  MaxFails,   (* bound: failed requests                                    *)
  MaxCrashes  (* bound: restarts of the bot                                *)

ASSUME DlmmConstants ==
  /\ NoPair \notin Pairs /\ Listener \notin Caller
  /\ DOMAIN Quote = Pairs /\ DOMAIN Mint = Pairs
  /\ Minimum \in [Caller -> 0 .. MaxReserve]
  /\ {MaxReserve, MaxChanges, MaxFails, MaxCrashes} \subseteq Nat

KeyOf(p) == <<Quote[p], Mint[p]>>                      (* cache_key        *)
Keys == {KeyOf(p) : p \in Pairs}
Tokens == {Quote[p] : p \in Pairs} \union {Mint[p] : p \in Pairs}
NoKey == <<>>
Closed == -1                          (* no account, or it was not read    *)

VARIABLES
  chain,     (* [Pairs -> reserve of the quote side, or Closed]            *)
  entry,     (* DLMM_CACHE                                                 *)
  meta,      (* DLMM_POOL_METADATA                                         *)
  pairOf,    (* DLMM_TOKEN_LBPAIR_CACHE                                    *)
  skip,      (* DLMM_ZERO_SKIP: the pairs whose window has not ended       *)
  dbMeta,    (* table dlmm_metadata                                        *)
  dbPairs,   (* table lb_pairs                                             *)
  task,      (* what each task is doing                                    *)
  changes, fails, crashes

memory == <<entry, meta, pairOf, skip>>
disk == <<dbMeta, dbPairs>>
counts == <<changes, fails, crashes>>
vars == <<chain, memory, disk, task, counts>>

NoEntry == [pair |-> NoPair, age |-> "none"]
NoMap == [n \in Tokens |-> NoPair]
Idle == [pc |-> "idle", key |-> NoKey, ask |-> {}, got |-> [p \in {} |-> 0],
         new |-> {}, snap |-> NoMap]

Entries == [pair : Pairs \union {NoPair}, age : {"none", "recent", "served", "stale"}]
Maps == [Tokens -> Pairs \union {NoPair}]
Readings == UNION {[S -> Closed .. MaxReserve] : S \in SUBSET Pairs}
Stages == {"idle", "recall", "probe", "evict", "settle", "discover", "gpa", "note",
           "insert", "fetch", "replace", "purge", "purge known", "mark found",
           "found", "none", "remember", "save evicted", "save purged", "save found"}
Tasks == [pc : Stages, key : Keys \union {NoKey}, ask : SUBSET Pairs,
          got : Readings, new : SUBSET Pairs, snap : Maps]

DlmmTypeOK ==
  /\ chain \in [Pairs -> Closed .. MaxReserve]
  /\ entry \in [Keys -> Entries]
  /\ {meta, dbMeta} \subseteq [Keys -> SUBSET Pairs]
  /\ {pairOf, dbPairs} \subseteq Maps
  /\ skip \subseteq Pairs
  /\ task \in [Caller \union {Listener} -> Tasks]

Init ==
  /\ chain \in [Pairs -> {Closed, MaxReserve}]
  /\ entry = [k \in Keys |-> NoEntry]
  /\ meta = [k \in Keys |-> {}] /\ dbMeta = meta
  /\ pairOf = NoMap /\ dbPairs = NoMap
  /\ skip = {}
  /\ task = [t \in Caller \union {Listener} |-> Idle]
  /\ changes = 0 /\ fails = 0 /\ crashes = 0

-----------------------------------------------------------------------------
(* The chain, time and restarts.                                           *)
Change(p) ==
  /\ changes < MaxChanges
  /\ \E r \in (Closed .. MaxReserve) \ {chain[p]} : chain' = [chain EXCEPT ![p] = r]
  /\ changes' = changes + 1
  /\ UNCHANGED <<memory, disk, task, fails, crashes>>

(* An entry is recent for 10 s, and served until CACHE_TTL_SECS.           *)
Age(k) ==
  /\ entry[k].age \in {"recent", "served"}
  /\ entry' = [entry EXCEPT ![k].age = IF @ = "recent" THEN "served" ELSE "stale"]
  /\ UNCHANGED <<chain, meta, pairOf, skip, disk, task, counts>>

(* Half an hour has passed, or midnight, as the window was set.            *)
SkipEnds(p) ==
  /\ p \in skip
  /\ skip' = skip \ {p}
  /\ UNCHANGED <<chain, entry, meta, pairOf, disk, task, counts>>

(* The process ends anywhere; load_lb_pair_cache reads the tables again.   *)
Restart ==
  /\ crashes < MaxCrashes
  /\ entry' = [k \in Keys |-> NoEntry] /\ skip' = {}
  /\ meta' = dbMeta /\ pairOf' = dbPairs
  /\ task' = [t \in DOMAIN task |-> Idle]
  /\ crashes' = crashes + 1
  /\ UNCHANGED <<chain, disk, changes, fails>>

-----------------------------------------------------------------------------
Become(t, r) == task' = [task EXCEPT ![t] = r]
Goto(t, pc) == Become(t, [task[t] EXCEPT !.pc = pc])
Return(t) == Become(t, Idle)
TheKey(t) == task[t].key

Dead(t) == {p \in DOMAIN task[t].got : task[t].got[p] = Closed}
Valid(t) == {p \in DOMAIN task[t].got \ Dead(t) : Quote[p] = TheKey(t)[1]}
Low(t) == {p \in Valid(t) : task[t].got[p] < Minimum[t]}
Usable(t) == Valid(t) \ Low(t)
Best(t) == {p \in Usable(t) : \A q \in Usable(t) : task[t].got[q] =< task[t].got[p]}

(* Where a task stands; a lock section with nothing to do is not entered.  *)
At(t, stage) ==
  LET pc == task[t].pc
      here ==
        CASE pc \in {"probe", "fetch"} /\ DOMAIN task[t].got # task[t].ask -> "read"
          [] pc = "probe" /\ Low(t) # {} -> "mark"
          [] pc \in {"probe", "evict"} -> IF Dead(t) = {} THEN "settle" ELSE "evict"
          [] pc = "fetch" /\ Dead(t) # {} -> "clean"
          [] pc \in {"fetch", "mark found"} /\ Low(t) # {} -> "mark found"
          [] pc \in {"fetch", "mark found", "found"} -> IF Usable(t) = {} THEN "none" ELSE "keep"
          [] OTHER -> pc
  IN  here = stage

(* Step 1, the short-lived reserve cache: a recent entry is the answer and *)
(* changes nothing; the call goes on when there is none.                   *)
RecentEver(k) == entry[k].age # "none"
Recent(k) == entry[k].age = "recent"

Miss(t, k) ==
  /\ At(t, "idle") /\ ~Recent(k)
  /\ Become(t, [Idle EXCEPT !.pc = "recall", !.key = k])
  /\ UNCHANGED <<chain, memory, disk, counts>>

(* Step 2, the fast path: the known pools that are not skipped.            *)
Recall(t) ==
  /\ At(t, "recall")
  /\ LET known == meta[TheKey(t)] \ skip
     IN  Become(t, [task[t] EXCEPT !.ask = known,
                                   !.pc = IF known = {} THEN "discover" ELSE "probe"])
  /\ UNCHANGED <<chain, memory, disk, counts>>

(* fetch_reserves_with_metadata and fetch_reserves_inner: None when the    *)
(* account is gone and when a request fails.                               *)
Read(t, p) ==
  /\ At(t, "read")
  /\ p \in task[t].ask \ DOMAIN task[t].got
  /\ \E r \in {chain[p], Closed} :
       /\ r # chain[p] => fails < MaxFails
       /\ fails' = IF r = chain[p] THEN fails ELSE fails + 1
       /\ LET old == task[t].got
          IN  Become(t, [task[t] EXCEPT !.got =
                           [q \in DOMAIN old \union {p} |-> IF q = p THEN r ELSE old[q]]])
  /\ UNCHANGED <<chain, memory, disk, changes, crashes>>

Mark(t) ==
  /\ At(t, "mark")
  /\ skip' = skip \union Low(t)
  /\ Goto(t, "evict")
  /\ UNCHANGED <<chain, entry, meta, pairOf, disk, counts>>

EvictNone(t) ==
  /\ At(t, "evict")
  /\ Goto(t, "settle")
  /\ UNCHANGED <<chain, memory, disk, counts>>
Evict(t) ==
  /\ At(t, "evict")
  /\ meta' = [meta EXCEPT ![TheKey(t)] = @ \ Dead(t)]
  /\ Goto(t, IF meta[TheKey(t)] # {} THEN "save evicted" ELSE "settle")
  /\ UNCHANGED <<chain, entry, pairOf, skip, disk, counts>>

(* save_metadata_cache writes the table under the map's read lock.         *)
SaveRemoved(t) ==
  /\ \/ At(t, "save evicted") /\ Goto(t, "settle")
     \/ At(t, "save purged") /\ Goto(t, "mark found")
     \/ At(t, "save found") /\ Return(t)
  /\ dbMeta' = IF At(t, "save found") THEN meta ELSE [k \in Keys |-> dbMeta[k] \ Dead(t)]
  /\ UNCHANGED <<chain, memory, dbPairs, counts>>
Save(t) ==
  /\ \/ At(t, "save evicted") /\ Goto(t, "settle")
     \/ At(t, "save purged") /\ Goto(t, "mark found")
     \/ At(t, "save found") /\ Return(t)
  /\ dbMeta' = meta
  /\ UNCHANGED <<chain, memory, dbPairs, counts>>

(* The best pool is cached; with none, everything is discovered again.     *)
Cache(k, p) == entry' = [entry EXCEPT ![k] = [pair |-> p, age |-> "recent"]]

Settle(t) ==
  /\ At(t, "settle") /\ Usable(t) # {}
  /\ \E p \in Best(t) : Cache(TheKey(t), p)
  /\ Return(t)
  /\ UNCHANGED <<chain, meta, pairOf, skip, disk, counts>>

GiveUp(t) ==
  /\ At(t, "settle") /\ Usable(t) = {}
  /\ Become(t, [Idle EXCEPT !.pc = "discover", !.key = TheKey(t)])
  /\ UNCHANGED <<chain, memory, disk, counts>>

-----------------------------------------------------------------------------
(* Strategy 1, the pair the coin's last event or discovery left, ...       *)
Discover(t) ==
  /\ At(t, "discover")
  /\ Become(t, [task[t] EXCEPT !.pc = "gpa", !.ask = {pairOf[TheKey(t)[2]]} \ {NoPair}])
  /\ UNCHANGED <<chain, memory, disk, counts>>

(* ... and 2, getProgramAccounts, which answers errors with fewer pools.   *)
Gpa(t) ==
  /\ At(t, "gpa")
  /\ LET open == {p \in Pairs : KeyOf(p) = TheKey(t) /\ chain[p] # Closed}
     IN  \E found \in SUBSET open :
           /\ found # open => fails < MaxFails
           /\ fails' = IF found = open THEN fails ELSE fails + 1
           /\ LET new == found \ task[t].ask
                  all == found \union task[t].ask
              IN  Become(t, [task[t] EXCEPT !.ask = all, !.new = new,
                               !.pc = IF new # {} THEN "note"
                                      ELSE IF all = {} THEN "none" ELSE "fetch"])
  /\ UNCHANGED <<chain, memory, disk, changes, crashes>>

(* cache_dlmm_lb_pair: both tokens now name the pair; the row is written   *)
(* after the lock is dropped, and only if the first token was not known.   *)
Named(map, a, b, p) == [map EXCEPT ![a] = p, ![b] = p]
NoteAs(t, a, b, p, after) ==
  /\ pairOf' = Named(pairOf, a, b, p)
  /\ Become(t, [task[t] EXCEPT !.new = IF pairOf[a] = NoPair THEN {p} ELSE {},
                                !.pc = IF pairOf[a] = NoPair THEN "insert" ELSE after])

Note(t) ==
  /\ At(t, "note")
  /\ \E p \in task[t].new : NoteAs(t, Quote[p], Mint[p], p, "fetch")
  /\ UNCHANGED <<chain, entry, meta, skip, disk, counts>>

(* A swap the listener saw while the coin had no cached pool.              *)
SwapSeen(p) ==
  /\ At(Listener, "idle") /\ chain[p] # Closed
  /\ entry[KeyOf(p)].age \in {"none", "stale"} \/ entry[KeyOf(p)].pair = NoPair
  /\ \/ NoteAs(Listener, Quote[p], Mint[p], p, "idle")
     \/ NoteAs(Listener, Mint[p], Quote[p], p, "idle")
  /\ UNCHANGED <<chain, entry, meta, skip, disk, counts>>

Insert(t) ==
  /\ At(t, "insert")
  /\ \E p \in task[t].new : dbPairs' = Named(dbPairs, Quote[p], Mint[p], p)
  /\ Become(t, [task[t] EXCEPT !.new = {}, !.pc = IF t = Listener THEN "idle" ELSE "fetch"])
  /\ UNCHANGED <<chain, memory, dbMeta, counts>>

NoPools(t) ==
  /\ At(t, "none")
  /\ Cache(TheKey(t), NoPair)
  /\ Return(t)
  /\ UNCHANGED <<chain, meta, pairOf, skip, disk, counts>>

(* cleanup_stale_lb_pairs: pools that could not be read leave every map;   *)
(* the rows are replaced by what the map held when its lock was dropped.   *)
Clean(t) ==
  /\ At(t, "clean")
  /\ pairOf' = [n \in Tokens |-> IF pairOf[n] \in Dead(t) THEN NoPair ELSE pairOf[n]]
  /\ Become(t, [task[t] EXCEPT !.snap = pairOf',
                                !.pc = IF pairOf' # pairOf THEN "replace" ELSE "purge"])
  /\ UNCHANGED <<chain, entry, meta, skip, disk, counts>>

Replace(t) ==
  /\ At(t, "replace")
  /\ dbPairs' = task[t].snap
  /\ Become(t, [task[t] EXCEPT !.snap = NoMap, !.pc = "purge"])
  /\ UNCHANGED <<chain, memory, dbMeta, counts>>

Purge(t) ==
  /\ At(t, "purge")
  /\ entry' = [k \in Keys |-> IF entry[k].pair \in Dead(t) THEN NoEntry ELSE entry[k]]
  /\ Goto(t, "purge known")
  /\ UNCHANGED <<chain, meta, pairOf, skip, disk, counts>>

PurgeKnown(t) ==
  /\ At(t, "purge known")
  /\ meta' = [k \in Keys |-> meta[k] \ Dead(t)]
  /\ Goto(t, IF meta' # meta THEN "save purged" ELSE "mark found")
  /\ UNCHANGED <<chain, entry, pairOf, skip, disk, counts>>

MarkFound(t) ==
  /\ At(t, "mark found")
  /\ skip' = skip \union Low(t)
  /\ Goto(t, "found")
  /\ UNCHANGED <<chain, entry, meta, pairOf, disk, counts>>

Keep(t) ==
  /\ At(t, "keep")
  /\ \E p \in Best(t) : Cache(TheKey(t), p)
  /\ Goto(t, "remember")
  /\ UNCHANGED <<chain, meta, pairOf, skip, disk, counts>>

Remember(t) ==
  /\ At(t, "remember")
  /\ meta' = [meta EXCEPT ![TheKey(t)] = Usable(t)]
  /\ Become(t, [Idle EXCEPT !.pc = "save found"])
  /\ UNCHANGED <<chain, entry, pairOf, skip, disk, counts>>

-----------------------------------------------------------------------------
Work(t) ==
  \/ Recall(t) \/ Mark(t) \/ Evict(t) \/ Save(t) \/ Settle(t) \/ GiveUp(t)
  \/ Discover(t) \/ Gpa(t) \/ Note(t) \/ Insert(t) \/ NoPools(t) \/ Clean(t)
  \/ Replace(t) \/ Purge(t) \/ PurgeKnown(t) \/ MarkFound(t) \/ Keep(t)
  \/ Remember(t) \/ \E p \in Pairs : Read(t, p)

Next ==
  \/ \E p \in Pairs : Change(p) \/ SkipEnds(p) \/ SwapSeen(p)
  \/ \E k \in Keys : Age(k) \/ \E t \in Caller : Miss(t, k)
  \/ \E t \in Caller : Work(t)
  \/ Insert(Listener)
  \/ Restart

Spec == Init /\ [][Next]_vars

(* Requests end, time passes, and tasks that scan ask for every coin again; *)
(* a verification asks once.                                               *)
Fairness(scanning) ==
  /\ \A t \in Caller : WF_vars(Work(t))
  /\ WF_vars(Insert(Listener))
  /\ \A k \in Keys : WF_vars(Age(k)) /\ \A t \in scanning : SF_vars(Miss(t, k))
  /\ \A p \in Pairs : WF_vars(SkipEnds(p))

-----------------------------------------------------------------------------
Serves(k, p) == entry[k].pair = p /\ entry[k].age \in {"recent", "served"}

(* Between a change of the metadata and its save nothing else is needed: a *)
(* restart finds the pools memory knew, however the savers interleave.     *)
MetadataSaved ==
  (\A t \in Caller : task[t].pc \notin {"save evicted", "save purged", "save found"})
    => dbMeta = meta

(* reserves.rs:9: pools "closed by pool creator" are evicted, or "the bot  *)
(* keeps computing spreads against phantom pools": one that stays closed   *)
(* ends up neither served to the builders nor known to the scanner.        *)
PhantomsVanish ==
  \A p \in Pairs :
    <>[](chain[p] = Closed) => <>[](p \notin meta[KeyOf(p)] /\ ~Serves(KeyOf(p), p))

(* A coin with a pool above every threshold does not stay invisible: skip  *)
(* windows, negative entries, evictions on failed requests and restarts    *)
(* pass, and the builders find a pool of it in the cache again and again.  *)
StaysVisible ==
  \A p \in Pairs :
    <>[](chain[p] = MaxReserve) => []<>(\E q \in Pairs : Serves(KeyOf(p), q))
=============================================================================
