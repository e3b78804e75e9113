------------------------------ MODULE PoolCaches ------------------------------
(***************************************************************************)
(* How the bot knows one coin's pool at PumpSwap, Raydium CPMM or Orca:    *)
(* scans (arbitrage/prices) price it, discovery verifies it, builders look *)
(* it up again; reserve caches of every task, the addresses events and the *)
(* pump.fun API give, and the rows of SQLite lie between.  Requests fail,  *)
(* try_read and try_write find their lock taken, the bot restarts.  Every  *)
(* stretch of a task between two awaits is an action.                      *)
(***************************************************************************)
EXTENDS Naturals

CONSTANTS
  Scanner,    (* tasks that price and trade                                *)
  Verifier,   (* tasks that verify new coins                               *)
  MaxFails,   (* bound: failed requests                                    *)
  MaxBusy,    (* bound: locks found taken                                  *)
  MaxCrashes  (* bound: restarts of the bot                                *)

ASSUME PoolConstants ==
  Scanner \intersect Verifier = {} /\ {MaxFails, MaxBusy, MaxCrashes} \subseteq Nat

Task == Scanner \union Verifier

VARIABLES
  venue,   (* the venue under study: nothing is shared between them        *)
  pool,    (* on chain: none; at the derived address or another one; for   *)
           (* pump a bonding curve, drained ("moving"), migrated ("pool")  *)
  entry,   (* CPMM_CACHE, WHIRLPOOL_CACHE, BONDING_CURVE_CACHE             *)
  address, (* CPMM_CACHE under addr:<pool>                                 *)
  found,   (* DISCOVERED_CPMM_POOLS, DISCOVERED_WHIRLPOOL_POOLS            *)
  known,   (* PUMP_SWAP_POOL_ADDR_CACHE                                    *)
  row,     (* whether cpmm_pools or whirlpool_pools has the pool           *)
  task,    (* what each task is doing                                      *)
  fails, busy, crashes

caches == <<entry, address, found, known>>
counts == <<fails, busy, crashes>>
vars == <<venue, pool, caches, row, task, counts>>

(* What a read gave: no pool, a pool whose vaults were not read (reserves  *)
(* 0, 0), a bonding curve, or a pool with reserves, that has a price.      *)
What == {"none", "zero", "curve", "priced"}
Some(what) == what \in {"zero", "curve", "priced"}
Absent == [what |-> "absent", fresh |-> FALSE]
New(what) == [what |-> what, fresh |-> TRUE]
Hit == entry.fresh /\ Some(entry.what)
Idle == [pc |-> "idle", got |-> "none", api |-> "none"]

Tradable == {"derived", "pool"}

Stages == {"idle", "fetch", "insert", "again", "found", "read found", "keep found",
           "by mint", "api", "read pool", "read curve", "pda", "build", "guess",
           "served", "yes", "no"}

PoolTypeOK ==
  /\ venue \in {"pump", "cpmm", "orca"}
  /\ pool \in IF venue = "pump" THEN {"curve", "moving", "pool"} ELSE {"none", "derived", "other"}
  /\ {entry, address} \subseteq [what : What \union {"absent"}, fresh : BOOLEAN]
  /\ venue = "cpmm" \/ address = Absent
  /\ venue # "pump" \/ (found = "none" /\ row = FALSE)
  /\ found \in {"none", "fresh", "stale"} /\ row \in BOOLEAN
  /\ known \in IF venue = "pump" THEN {"none", "right", "guess"} ELSE {"none"}
  /\ task \in [Task -> [pc : Stages, got : What \union {"right", "guess"},
                        api : {"none", "curve", "moving", "pool"}]]
  /\ busy \in Nat

Init ==
  /\ \/ venue = "pump" /\ pool \in {"curve", "pool"}
     \/ venue \in {"cpmm", "orca"} /\ pool \in {"none", "derived", "other"}
  /\ entry = Absent /\ address = Absent
  /\ found = "none" /\ known = "none" /\ row = FALSE
  /\ task = [t \in Task |-> Idle]
  /\ fails = 0 /\ busy = 0 /\ crashes = 0

-----------------------------------------------------------------------------
(* The chain, time, the listener and restarts.                             *)
Change ==
  /\ \/ pool = "none" /\ pool' \in {"derived", "other"}
     \/ pool = "curve" /\ pool' = "moving"
     \/ pool = "moving" /\ pool' = "pool"
  /\ UNCHANGED <<venue, caches, row, task, counts>>

ExpireEntry ==
  /\ entry.fresh /\ entry' = [entry EXCEPT !.fresh = FALSE]
  /\ UNCHANGED <<venue, pool, address, found, known, row, task, counts>>
ExpireAddress ==
  /\ address.fresh /\ address' = [address EXCEPT !.fresh = FALSE]
  /\ UNCHANGED <<venue, pool, entry, found, known, row, task, counts>>
ExpireFound ==
  /\ found = "fresh" /\ found' = "stale"
  /\ UNCHANGED <<venue, pool, entry, address, known, row, task, counts>>

(* A swap of the coin, and the transaction that names its pool.            *)
SwapSeen ==
  /\ venue # "pump" /\ pool # "none" /\ found # "fresh"
  /\ venue = "orca" => ~Hit
  /\ found' = "fresh"
  /\ UNCHANGED <<venue, pool, entry, address, known, row, task, counts>>

(* load_cpmm_pools, load_whirlpool_pools: addresses come back, stale, and  *)
(* without reserves.                                                       *)
Restart ==
  /\ crashes < MaxCrashes /\ crashes' = crashes + 1
  /\ entry' = IF row THEN [what |-> "zero", fresh |-> FALSE] ELSE Absent
  /\ address' = Absent /\ found' = "none" /\ known' = "none"
  /\ task' = [t \in Task |-> Idle]
  /\ UNCHANGED <<venue, pool, row, fails, busy>>

-----------------------------------------------------------------------------
(* Requests and locks.                                                     *)
Become(t, r) == task' = [task EXCEPT ![t] = r]
Goto(t, pc) == Become(t, [task[t] EXCEPT !.pc = pc])
Does(t, pc, got) == Become(t, [task[t] EXCEPT !.pc = pc, !.got = got])
Return(t) == Become(t, Idle)

Answers(right, answer) ==
  /\ answer # right => fails < MaxFails
  /\ fails' = IF answer = right THEN fails ELSE fails + 1

Tried(free) ==
  /\ ~free => busy < MaxBusy
  /\ busy' = IF free THEN busy ELSE busy + 1

(* A scan with a price goes on to trade; verify_dual_presence asks whether *)
(* a pool is there, and a bonding curve is not one.                        *)
PresentCurve(what) == Some(what)
Present(what) == what \in {"zero", "priced"}
Answer(t, what) ==
  IF t \in Verifier THEN Does(t, IF Present(what) THEN "yes" ELSE "no", "none")
  ELSE IF what = "priced" THEN Does(t, "build", "none") ELSE Return(t)

(* A fresh entry is the answer, but a scan that finds no CPMM or Orca pool *)
(* in it still looks further.                                              *)
Looks(t, what) ==
  IF venue = "pump" \/ t \in Verifier \/ Some(what) THEN Answer(t, what)
  ELSE Does(t, "found", "none")

EverFresh == entry.what # "absent"
Fresh == entry.fresh

Check(t) ==
  /\ task[t].pc = "idle"
  /\ IF Fresh THEN Looks(t, entry.what)
     ELSE Goto(t, IF venue = "pump" THEN "api" ELSE "fetch")
  /\ UNCHANGED <<venue, pool, caches, row, counts>>

(* fetch_cpmm_pool, fetch_whirlpool_pool: only derived addresses are tried;*)
(* a pool without its vaults is a pool; the row is saved before the cache. *)
Fetch(t) ==
  /\ task[t].pc = "fetch"
  /\ LET right == IF pool = "derived" THEN "priced" ELSE "none"
     IN  \E got \in {right, "none"} \union (IF pool = "derived" THEN {"zero"} ELSE {}) :
           /\ Answers(right, got)
           /\ Does(t, "insert", got)
           /\ row' = (row \/ Some(got))
  /\ UNCHANGED <<venue, pool, caches, busy, crashes>>

(* The insert, whatever another task has put there meanwhile.  The scanner *)
(* then reads the cache again.                                             *)
Insert(t) ==
  /\ task[t].pc = "insert"
  /\ entry' = New(task[t].got)
  /\ IF venue = "pump" \/ t \in Verifier THEN Answer(t, task[t].got) ELSE Goto(t, "again")
  /\ UNCHANGED <<venue, pool, address, found, known, row, counts>>

Again(t) ==
  /\ task[t].pc = "again"
  /\ IF Hit /\ (venue = "orca" => Some(task[t].got))
     THEN Answer(t, entry.what) ELSE Does(t, "found", "none")
  /\ UNCHANGED <<venue, pool, caches, row, counts>>

(* The address of the coin's last swaps: a CPMM state is cached under it   *)
(* and, where no pool is cached, under the mints; an Orca one is not.      *)
NotFound(t) ==
  /\ task[t].pc = "found" /\ found # "fresh"
  /\ Goto(t, "by mint")
  /\ UNCHANGED <<venue, pool, caches, row, counts>>
ByFound(t) ==
  /\ task[t].pc = "found" /\ found = "fresh"
  /\ IF ~address.fresh THEN Goto(t, "read found")
     ELSE IF Some(address.what) THEN Answer(t, address.what) ELSE Goto(t, "by mint")
  /\ UNCHANGED <<venue, pool, caches, row, counts>>

ReadFound(t) ==
  /\ task[t].pc = "read found"
  /\ \E got \in {"priced", "zero", "none"} :
       /\ Answers("priced", got)
       /\ IF venue = "cpmm" THEN Does(t, "keep found", got)
          ELSE IF Some(got) THEN Answer(t, got) ELSE Goto(t, "by mint")
  /\ UNCHANGED <<venue, pool, caches, row, busy, crashes>>

KeepAddress(t) ==
  /\ task[t].pc = "keep found"
  /\ address' = New(task[t].got)
  /\ IF Some(task[t].got) THEN Answer(t, task[t].got) ELSE Goto(t, "by mint")
  /\ UNCHANGED <<venue, pool, entry, found, known, row, counts>>
KeepFound(t) ==
  /\ task[t].pc = "keep found"
  /\ address' = New(task[t].got)
  /\ entry' = IF Some(task[t].got) /\ ~Some(entry.what) THEN New(task[t].got) ELSE entry
  /\ IF Some(task[t].got) THEN Answer(t, task[t].got) ELSE Goto(t, "by mint")
  /\ UNCHANGED <<venue, pool, found, known, row, counts>>

(* get_pool_state_by_mint gives up at the first pool that is known to be   *)
(* missing, of any coin; the USDC side of Orca repeats the steps above.    *)
ByMint(t) ==
  /\ task[t].pc = "by mint"
  /\ \/ Return(t)
     \/ venue = "cpmm" /\ Hit /\ Answer(t, entry.what)
  /\ UNCHANGED <<venue, pool, caches, row, counts>>

-----------------------------------------------------------------------------
(* fetch_bonding_curve: the API names the pool, and its address is kept if *)
(* the lock is free; ...                                                   *)
AfterApi(answer) ==
  CASE answer = "pool" -> "read pool"
    [] answer = "none" -> "pda"
    [] OTHER -> "read curve"

ApiKeepsFirst(t) ==
  /\ task[t].pc = "api"
  /\ \E answer \in {pool, "none"}, free \in BOOLEAN :
       /\ Answers(pool, answer)
       /\ IF answer = "pool" /\ known = "none"
          THEN Tried(free) /\ known' = IF free THEN "right" ELSE known
          ELSE UNCHANGED <<known, busy>>
       /\ Become(t, [task[t] EXCEPT !.api = answer, !.pc = AfterApi(answer)])
  /\ UNCHANGED <<venue, pool, entry, address, found, row, crashes>>
ApiForgets(t) ==
  /\ task[t].pc = "api"
  /\ \E answer \in {pool, "none"} :
       /\ Answers(pool, answer)
       /\ Become(t, [task[t] EXCEPT !.api = answer, !.pc = AfterApi(answer)])
  /\ UNCHANGED <<venue, pool, entry, address, found, known, busy, row, crashes>>
AskApi(t) ==
  /\ task[t].pc = "api"
  /\ \E answer \in {pool, "none"}, free \in BOOLEAN :
       /\ Answers(pool, answer)
       /\ IF answer = "pool"
          THEN Tried(free) /\ known' = IF free THEN "right" ELSE known
          ELSE UNCHANGED <<known, busy>>
       /\ Become(t, [task[t] EXCEPT !.api = answer, !.pc = AfterApi(answer)])
  /\ UNCHANGED <<venue, pool, entry, address, found, row, crashes>>

ReadPool(t) ==
  /\ task[t].pc = "read pool"
  /\ \E got \in {"priced", "none"} :
       /\ Answers("priced", got)
       /\ IF got = "priced" THEN Does(t, "insert", got) ELSE Goto(t, "read curve")
  /\ UNCHANGED <<venue, pool, caches, row, busy, crashes>>

(* ... then the bonding curve at the API's address; a migrated coin whose  *)
(* pool was not read is not cached at all; ...                             *)
Curve == IF pool = "curve" THEN "curve" ELSE "none"

ReadCurve(t) ==
  /\ task[t].pc = "read curve"
  /\ \E got \in {Curve, "none"} :
       /\ Answers(Curve, got)
       /\ IF got = "curve" THEN Does(t, "insert", got)
          ELSE IF task[t].api = "pool" THEN Answer(t, "none") ELSE Goto(t, "pda")
  /\ UNCHANGED <<venue, pool, caches, row, busy, crashes>>

(* ... then the derived bonding curve; nothing is cached as nothing.       *)
ReadPda(t) ==
  /\ task[t].pc = "pda"
  /\ \E got \in {Curve, "none"} : Answers(Curve, got) /\ Does(t, "insert", got)
  /\ UNCHANGED <<venue, pool, caches, row, busy, crashes>>

-----------------------------------------------------------------------------
(* The builders: CPMM and Orca reserves must still be cached; the PumpSwap *)
(* address is resolved (get_pumpswap_pool_address): the permanent map, the *)
(* reserve cache, and a guess, derived from the bonding curve's creator,   *)
(* each skipped when its lock is taken.                                    *)
BuildCached(t) ==
  /\ task[t].pc = "build" /\ venue # "pump"
  /\ IF Hit THEN Does(t, "served", "right") ELSE Return(t)
  /\ UNCHANGED <<venue, pool, caches, row, counts>>

Resolve(t) ==
  /\ task[t].pc = "build" /\ venue = "pump"
  /\ \E free, kept \in BOOLEAN :
       /\ Tried(free /\ kept)
       /\ CASE ~free -> Goto(t, "guess") /\ UNCHANGED known
            [] free /\ known # "none" -> Does(t, "served", known) /\ UNCHANGED known
            [] free /\ known = "none" ->
                 IF entry.what = "priced"
                 THEN Does(t, "served", "right") /\ known' = IF kept THEN "right" ELSE known
                 ELSE Goto(t, "guess") /\ UNCHANGED known
  /\ UNCHANGED <<venue, pool, entry, address, found, row, fails, crashes>>

Guess(t) ==
  /\ task[t].pc = "guess"
  /\ \E answer \in {"creator", "none"}, free \in BOOLEAN :
       /\ Answers("creator", answer)
       /\ IF answer = "none" THEN Return(t) /\ UNCHANGED <<known, busy>>
          ELSE /\ Tried(free) /\ known' = IF free THEN "guess" ELSE known
               /\ Does(t, "served", "guess")
  /\ UNCHANGED <<venue, pool, entry, address, found, row, crashes>>

Done(t) ==
  /\ task[t].pc \in {"served", "yes", "no"}
  /\ Return(t)
  /\ UNCHANGED <<venue, pool, caches, row, counts>>

-----------------------------------------------------------------------------
Work(t) ==
  \/ Check(t) \/ Fetch(t) \/ Insert(t) \/ Again(t) \/ NotFound(t) \/ ByFound(t)
  \/ ReadFound(t) \/ KeepFound(t) \/ ByMint(t) \/ AskApi(t) \/ ReadPool(t)
  \/ ReadCurve(t) \/ ReadPda(t) \/ BuildCached(t) \/ Resolve(t) \/ Guess(t) \/ Done(t)

Next ==
  \/ Change \/ ExpireEntry \/ ExpireAddress \/ ExpireFound \/ SwapSeen \/ Restart
  \/ \E t \in Task : Work(t)

Spec == Init /\ [][Next]_vars

(* Tasks go on and entries expire, but a pass takes a second and an entry  *)
(* lasts a minute: it does not always expire between price and build.      *)
Fairness ==
  /\ \A t \in Task : WF_vars(Work(t))
  /\ WF_vars(ExpireEntry) /\ WF_vars(ExpireAddress)
  /\ \A t \in Scanner : SF_vars(Again(t) /\ Hit) /\ SF_vars(BuildCached(t) /\ Hit)

FairSpec == Spec /\ Fairness

-----------------------------------------------------------------------------
(* main_loop.rs verify_dual_presence: a venue counts for a new coin only   *)
(* if it has a pool there; neither a bonding curve, nor a cached answer of *)
(* another task, nor a row of an earlier process passes for one.           *)
PresentIsReal ==
  \A t \in Verifier : task[t].pc = "yes" => pool \in {"derived", "other", "pool"}

(* mod.rs:84: a guess is for a coin whose pool no cache has.  A coin that  *)
(* trades was priced from its pool, so only a lock found taken leads to    *)
(* one, failed requests and the other tasks' negative entries never do.    *)
GuessNeedsContention == known = "guess" => busy > 0

(* A guessed address, kept in the map that never expires, is replaced by   *)
(* the one the API names as the coin is scanned again.                     *)
AddressHeals == known = "guess" ~> known = "right"

Served == \E t \in Scanner : task[t].pc = "served" /\ task[t].got = "right"

(* A pool where it is expected is found by the builders again and again,   *)
(* whatever was cached before it was there, requests that failed, inserts  *)
(* that crossed, and restarts.                                             *)
PoolIsServed == pool \in Tradable ~> Served

(* So is a CPMM pool at another address, while the listener sees its swaps *)
(* often enough for the address to be there when a scan asks for it.       *)
FoundIsServed ==
  /\ venue = "cpmm" /\ <>(pool = "other")
  /\ <>[](\A t \in Scanner : task[t].pc = "found" => found = "fresh")
  => []<>Served

(* mod.rs:46, the address map: "Pool addresses are immutable after         *)
(* creation, so entries never expire."                                     *)
AddressStays ==
  [][known = "right" => known' = "right" \/ crashes' # crashes]_vars
=============================================================================
