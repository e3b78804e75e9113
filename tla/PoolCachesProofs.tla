--------------------------- MODULE PoolCachesProofs ---------------------------
(***************************************************************************)
(* Proofs about PoolCaches for any number of scanners and verifiers, lost  *)
(* requests, taken locks and restarts.  A cached pool is a real one        *)
(* (Real), since pools do not go away; and where a PumpSwap pool has been  *)
(* read its address is known, or a lock was found taken (Resolved).        *)
(***************************************************************************)
EXTENDS PoolCaches, TLAPS

Records == [pc : Stages, got : What \union {"right", "guess"},
            api : {"none", "curve", "moving", "pool"}]
Read == {"zero", "priced"}        (* what a read of a pool gives           *)

Real == pool \in {"derived", "other", "pool"}
Resolved == known # "none" \/ busy > 0

(* What a task that is so far may rely on.                                 *)
Sound(r) ==
  /\ r.got \in Read \/ r.pc \in {"read found", "keep found", "yes"} => Real
  /\ r.api = "pool" \/ r.pc = "read pool" => pool = "pool"
  /\ venue = "pump" /\ (r.got = "priced" \/ r.pc \in {"read pool", "build"}) => Resolved
  /\ r.pc = "guess" => busy > 0
  /\ r.pc \in {"insert", "again", "keep found"} => r.got \in What
  /\ r.pc \in {"api", "read pool", "read curve", "pda", "guess"} => venue = "pump"
  /\ r.pc \in {"fetch", "again", "found", "read found", "by mint"} => venue # "pump"
  /\ r.pc = "keep found" => venue = "cpmm"

TasksOK == task \in [Task -> Records] /\ \A t \in Task : Sound(task[t])

WorldOK ==
  /\ venue \in {"pump", "cpmm", "orca"} /\ busy \in Nat
  /\ pool \in IF venue = "pump" THEN {"curve", "moving", "pool"} ELSE {"none", "derived", "other"}

EntriesOK ==
  /\ {entry, address} \subseteq [what : What \union {"absent"}, fresh : BOOLEAN]
  /\ entry.what \in Read \/ address.what \in Read => Real
  /\ venue # "cpmm" => address = Absent
  /\ venue = "pump" /\ entry.what = "priced" => Resolved

AddressesOK ==
  /\ found \in {"none", "fresh", "stale"} /\ row \in BOOLEAN
  /\ found # "none" \/ row => Real /\ venue # "pump"
  /\ known \in {"none", "right", "guess"}
  /\ known # "none" => venue = "pump"
  /\ known = "guess" => busy > 0

IInv == WorldOK /\ EntriesOK /\ AddressesOK /\ TasksOK

LEMMA IdleSound ==
  Idle \in Records /\ Idle.pc = "idle" /\ Idle.got = "none" /\ Idle.api = "none" /\ Sound(Idle)
  BY DEF Idle, Records, Stages, What, Sound, Read

LEMMA AbsentTyped ==
  Absent \in [what : What \union {"absent"}, fresh : BOOLEAN] /\ Absent.what = "absent"
  BY DEF Absent

LEMMA NewTyped ==
  ASSUME NEW what \in What
  PROVE  New(what) \in [what : What \union {"absent"}, fresh : BOOLEAN] /\ New(what).what = what
  BY DEF New

LEMMA InitIInv == Init => IInv
  <1>. SUFFICES ASSUME Init PROVE IInv
    OBVIOUS
  <1>1. WorldOK
    BY DEF Init, WorldOK
  <1>2. EntriesOK
    BY AbsentTyped DEF Init, EntriesOK, Read
  <1>3. AddressesOK
    BY DEF Init, AddressesOK
  <1>4. TasksOK
    BY IdleSound DEF Init, TasksOK
  <1>. QED
    BY <1>1, <1>2, <1>3, <1>4 DEF IInv

-----------------------------------------------------------------------------
(* Where a task goes.                                                      *)
LEMMA GoesTo ==
  ASSUME TasksOK, NEW t \in Task, NEW pc \in Stages, Goto(t, pc)
  PROVE  \E r \in Records : /\ Become(t, r) /\ r.pc = pc
                            /\ r.got = task[t].got /\ r.api = task[t].api
  BY DEF TasksOK, Goto, Records

LEMMA DoesIt ==
  ASSUME TasksOK, NEW t \in Task, NEW pc \in Stages,
         NEW got \in What \union {"right", "guess"}, Does(t, pc, got)
  PROVE  \E r \in Records : /\ Become(t, r) /\ r.pc = pc
                            /\ r.got = got /\ r.api = task[t].api
  <1>. DEFINE r == [task[t] EXCEPT !.pc = pc, !.got = got]
  <1>1. task[t] \in Records
    BY DEF TasksOK
  <1>2. r \in Records /\ r.pc = pc /\ r.got = got /\ r.api = task[t].api
    BY <1>1 DEF Records
  <1>3. Become(t, r)
    BY DEF Does
  <1>. HIDE DEF r
  <1>. QED
    BY <1>2, <1>3

(* Whatever the answer, what follows from it can rely on.                  *)
LEMMA Answered ==
  ASSUME TasksOK, NEW t \in Task, NEW what, Answer(t, what),
         what \in Read => Real, venue = "pump" /\ what = "priced" => Resolved
  PROVE  \E r \in Records : Become(t, r) /\ Sound(r)
  <1>1. CASE t \in Verifier /\ Present(what)
    <2>1. PICK r \in Records : Become(t, r) /\ r.pc = "yes" /\ r.got = "none" /\ r.api = task[t].api
      <3>1. Does(t, "yes", "none")
        BY <1>1 DEF Answer
      <3>2. "yes" \in Stages /\ "none" \in What \union {"right", "guess"}
        BY DEF Stages, What
      <3>. QED
        BY <3>1, <3>2, DoesIt
    <2>2. Sound(r)
      BY <1>1, <2>1 DEF TasksOK, Sound, Present, Read
    <2>. QED
      BY <2>1, <2>2
  <1>2. CASE t \in Verifier /\ ~Present(what)
    <2>1. PICK r \in Records : Become(t, r) /\ r.pc = "no" /\ r.got = "none" /\ r.api = task[t].api
      <3>1. Does(t, "no", "none")
        BY <1>2 DEF Answer
      <3>2. "no" \in Stages /\ "none" \in What \union {"right", "guess"}
        BY DEF Stages, What
      <3>. QED
        BY <3>1, <3>2, DoesIt
    <2>2. Sound(r)
      BY <2>1 DEF TasksOK, Sound, Read
    <2>. QED
      BY <2>1, <2>2
  <1>3. CASE t \notin Verifier /\ what = "priced"
    <2>1. PICK r \in Records : Become(t, r) /\ r.pc = "build" /\ r.got = "none" /\ r.api = task[t].api
      <3>1. Does(t, "build", "none")
        BY <1>3 DEF Answer
      <3>2. "build" \in Stages /\ "none" \in What \union {"right", "guess"}
        BY DEF Stages, What
      <3>. QED
        BY <3>1, <3>2, DoesIt
    <2>2. Sound(r)
      BY <1>3, <2>1 DEF TasksOK, Sound, Read
    <2>. QED
      BY <2>1, <2>2
  <1>4. CASE t \notin Verifier /\ what # "priced"
    BY <1>4, IdleSound DEF Answer, Return
  <1>. QED
    BY <1>1, <1>2, <1>3, <1>4

(* A task moves, and nothing that the others rely on is lost.              *)
LEMMA Moved ==
  ASSUME TasksOK, NEW t \in Task, NEW r \in Records, Become(t, r), Sound(r)',
         UNCHANGED <<venue, pool>>, Resolved => Resolved', busy > 0 => busy' > 0
  PROVE  TasksOK'
  <1>1. task' \in [Task -> Records] /\ task'[t] = r
        /\ \A u \in Task \ {t} : task'[u] = task[u]
    BY DEF TasksOK, Become
  <1>2. Real' = Real
    BY DEF Real
  <1>3. \A u \in Task : Sound(task[u])'
    <2>. TAKE u \in Task
    <2>1. CASE u = t
      BY <1>1, <2>1 DEF Sound
    <2>2. CASE u # t
      <3>1. task'[u] = task[u] /\ Sound(task[u])
        BY <1>1, <2>2 DEF TasksOK
      <3>. QED
        BY <1>2, <3>1 DEF Sound
    <2>. QED
      BY <2>1, <2>2
  <1>. QED
    BY <1>1, <1>3 DEF TasksOK

(* The steps that change nothing but the task and what it counts.          *)
LEMMA Quiet ==
  ASSUME IInv, NEW t \in Task, NEW r \in Records, Become(t, r), Sound(r),
         UNCHANGED <<venue, pool, caches, row, busy>>
  PROVE  IInv'
  <1>1. WorldOK' /\ EntriesOK' /\ AddressesOK'
    BY DEF IInv, WorldOK, EntriesOK, AddressesOK, Real, Resolved, caches
  <1>2. Sound(r)' /\ (Resolved => Resolved')
    BY DEF Sound, Real, Resolved, caches
  <1>3. TasksOK'
    BY <1>2, Moved DEF IInv
  <1>. QED
    BY <1>1, <1>3 DEF IInv

-----------------------------------------------------------------------------
(* The steps of a task that leave the caches alone.                        *)
LEMMA LooksSound ==
  ASSUME IInv, NEW t \in Task, NEW what, Looks(t, what),
         what \in Read => Real, venue = "pump" /\ what = "priced" => Resolved
  PROVE  \E r \in Records : Become(t, r) /\ Sound(r)
  <1>1. CASE Answer(t, what)
    BY <1>1, Answered DEF IInv
  <1>2. CASE Does(t, "found", "none") /\ venue # "pump"
    <2>1. "found" \in Stages /\ "none" \in What \union {"right", "guess"}
      BY DEF Stages, What
    <2>2. PICK r \in Records : Become(t, r) /\ r.pc = "found" /\ r.got = "none" /\ r.api = task[t].api
      BY <1>2, <2>1, DoesIt DEF IInv
    <2>3. Sound(r)
      BY <1>2, <2>2 DEF IInv, TasksOK, Sound, Read
    <2>. QED
      BY <2>2, <2>3
  <1>. QED
    BY <1>1, <1>2 DEF Looks

LEMMA CheckKeeps == ASSUME IInv, NEW t \in Task, Check(t) PROVE IInv'
  <1>1. UNCHANGED <<venue, pool, caches, row, busy>>
    BY DEF Check, counts
  <1>2. \E r \in Records : Become(t, r) /\ Sound(r)
    <2>1. CASE Fresh
      BY <2>1, LooksSound DEF Check, IInv, EntriesOK
    <2>2. CASE ~Fresh /\ venue = "pump"
      <3>1. Goto(t, "api") /\ "api" \in Stages
        BY <2>2 DEF Check, Stages
      <3>2. PICK r \in Records : Become(t, r) /\ r.pc = "api" /\ r.got = task[t].got /\ r.api = task[t].api
        BY <3>1, GoesTo DEF IInv
      <3>. QED
        BY <2>2, <3>2 DEF IInv, TasksOK, Sound
    <2>3. CASE ~Fresh /\ venue # "pump"
      <3>1. Goto(t, "fetch") /\ "fetch" \in Stages
        BY <2>3 DEF Check, Stages
      <3>2. PICK r \in Records : Become(t, r) /\ r.pc = "fetch" /\ r.got = task[t].got /\ r.api = task[t].api
        BY <3>1, GoesTo DEF IInv
      <3>. QED
        BY <2>3, <3>2 DEF IInv, TasksOK, Sound
    <2>. QED
      BY <2>1, <2>2, <2>3
  <1>. QED
    BY <1>1, <1>2, Quiet

LEMMA AgainKeeps == ASSUME IInv, NEW t \in Task, Again(t) PROVE IInv'
  <1>1. UNCHANGED <<venue, pool, caches, row, busy>>
    BY DEF Again, counts
  <1>2. CASE Answer(t, entry.what)
    BY <1>1, <1>2, Answered, Quiet DEF IInv, EntriesOK
  <1>3. CASE Does(t, "found", "none")
    <2>1. "found" \in Stages /\ "none" \in What \union {"right", "guess"}
      BY DEF Stages, What
    <2>2. PICK r \in Records : Become(t, r) /\ r.pc = "found" /\ r.got = "none" /\ r.api = task[t].api
      BY <1>3, <2>1, DoesIt DEF IInv
    <2>3. Sound(r)
      BY <2>2 DEF Again, IInv, TasksOK, Sound, Read
    <2>. QED
      BY <1>1, <2>2, <2>3, Quiet
  <1>. QED
    BY <1>2, <1>3 DEF Again

LEMMA ByFoundKeeps == ASSUME IInv, NEW t \in Task, NotFound(t) \/ ByFound(t) PROVE IInv'
  <1>1. UNCHANGED <<venue, pool, caches, row, busy>>
    BY DEF NotFound, ByFound, counts
  <1>2. CASE Answer(t, address.what)
    <2>1. ~(venue = "pump" /\ address.what = "priced")
      BY AbsentTyped DEF IInv, EntriesOK
    <2>. QED
      BY <1>1, <1>2, <2>1, Answered, Quiet DEF IInv, EntriesOK
  <1>3. CASE Goto(t, "by mint") \/ (Goto(t, "read found") /\ found = "fresh")
    <2>1. PICK pc \in {"by mint", "read found"} : Goto(t, pc) /\ (pc = "read found" => Real)
      BY <1>3 DEF IInv, AddressesOK
    <2>2. pc \in Stages
      BY DEF Stages
    <2>3. PICK r \in Records : Become(t, r) /\ r.pc = pc /\ r.got = task[t].got /\ r.api = task[t].api
      BY <2>1, <2>2, GoesTo DEF IInv
    <2>4. Sound(task[t]) /\ task[t].pc = "found"
      BY DEF NotFound, ByFound, IInv, TasksOK
    <2>5. Sound(r)
      BY <2>1, <2>3, <2>4 DEF Sound
    <2>. QED
      BY <1>1, <2>3, <2>5, Quiet
  <1>. QED
    BY <1>2, <1>3 DEF NotFound, ByFound

LEMMA KeepSound ==
  ASSUME TasksOK, NEW t \in Task, Sound(task[t]), Real, venue = "cpmm",
         NEW got \in What, Does(t, "keep found", got)
  PROVE  \E r \in Records : Become(t, r) /\ Sound(r)
  <1>1. "keep found" \in Stages /\ got \in What \union {"right", "guess"}
    BY DEF Stages
  <1>. DEFINE r == [task[t] EXCEPT !.pc = "keep found", !.got = got]
  <1>2. task[t] \in Records /\ Become(t, r)
    BY DEF TasksOK, Does
  <1>3. r \in Records /\ r.pc = "keep found" /\ r.got = got /\ r.api = task[t].api
    BY <1>1, <1>2 DEF Records
  <1>. HIDE DEF r
  <1>4. Sound(r)
    BY <1>3 DEF Sound
  <1>. QED
    BY <1>2, <1>3, <1>4

LEMMA ReadFoundKeeps == ASSUME IInv, NEW t \in Task, ReadFound(t) PROVE IInv'
  <1>1. UNCHANGED <<venue, pool, caches, row, busy>>
    BY DEF ReadFound
  <1>2. Sound(task[t]) /\ Real /\ venue # "pump"
    BY DEF ReadFound, IInv, TasksOK, Sound
  <1>3. PICK got \in {"priced", "zero", "none"} :
          IF venue = "cpmm" THEN Does(t, "keep found", got)
          ELSE IF Some(got) THEN Answer(t, got) ELSE Goto(t, "by mint")
    BY DEF ReadFound
  <1>4. CASE venue = "cpmm"
    <2>1. got \in What /\ Does(t, "keep found", got)
      BY <1>3, <1>4 DEF What
    <2>. QED
      BY <1>1, <1>2, <1>4, <2>1, KeepSound, Quiet DEF IInv
  <1>5. CASE venue # "cpmm" /\ Some(got)
    BY <1>1, <1>2, <1>3, <1>5, Answered, Quiet DEF IInv
  <1>6. CASE venue # "cpmm" /\ ~Some(got)
    <2>1. Goto(t, "by mint") /\ "by mint" \in Stages
      BY <1>3, <1>6 DEF Stages
    <2>2. PICK r \in Records : Become(t, r) /\ r.pc = "by mint" /\ r.got = task[t].got /\ r.api = task[t].api
      BY <2>1, GoesTo DEF IInv
    <2>3. Sound(r)
      BY <1>2, <2>2 DEF Sound
    <2>. QED
      BY <1>1, <2>2, <2>3, Quiet
  <1>. QED
    BY <1>4, <1>5, <1>6

LEMMA ByMintKeeps == ASSUME IInv, NEW t \in Task, ByMint(t) \/ Done(t) PROVE IInv'
  <1>1. UNCHANGED <<venue, pool, caches, row, busy>>
    BY DEF ByMint, Done, counts
  <1>2. CASE Answer(t, entry.what)
    BY <1>1, <1>2, Answered, Quiet DEF IInv, EntriesOK
  <1>3. CASE Return(t)
    BY <1>1, <1>3, IdleSound, Quiet DEF Return
  <1>. QED
    BY <1>2, <1>3 DEF ByMint, Done

LEMMA ReadPumpKeeps ==
  ASSUME IInv, NEW t \in Task, ReadPool(t) \/ ReadCurve(t) \/ ReadPda(t) PROVE IInv'
  <1>1. UNCHANGED <<venue, pool, caches, row, busy>>
    BY DEF ReadPool, ReadCurve, ReadPda
  <1>2. Sound(task[t]) /\ venue = "pump" /\ task[t].pc \in {"read pool", "read curve", "pda"}
    BY DEF ReadPool, ReadCurve, ReadPda, IInv, TasksOK, Sound
  <1>3. CASE \E got \in {"priced", "curve", "none"} :
               Does(t, "insert", got) /\ (got = "priced" => task[t].pc = "read pool")
    <2>1. PICK got \in {"priced", "curve", "none"} :
            Does(t, "insert", got) /\ (got = "priced" => task[t].pc = "read pool")
      BY <1>3
    <2>2. /\ "insert" \in Stages
          /\ got \in What /\ got \in What \union {"right", "guess"}
      BY DEF Stages, What
    <2>3. PICK r \in Records : Become(t, r) /\ r.pc = "insert" /\ r.got = got /\ r.api = task[t].api
      <3>1. TasksOK /\ Does(t, "insert", got)
        BY <2>1 DEF IInv
      <3>. QED
        BY <2>2, <3>1, DoesIt
    <2>4. Sound(r)
      BY <1>2, <2>1, <2>2, <2>3 DEF Sound, Real, Read
    <2>. QED
      BY <1>1, <2>3, <2>4, Quiet
  <1>4. CASE \E pc \in {"read curve", "pda"} : Goto(t, pc)
    <2>1. PICK pc \in {"read curve", "pda"} : Goto(t, pc)
      BY <1>4
    <2>2. pc \in Stages
      BY DEF Stages
    <2>3. PICK r \in Records : Become(t, r) /\ r.pc = pc /\ r.got = task[t].got /\ r.api = task[t].api
      BY <2>1, <2>2, GoesTo DEF IInv
    <2>4. Sound(r)
      BY <1>2, <2>3 DEF Sound
    <2>. QED
      BY <1>1, <2>3, <2>4, Quiet
  <1>5. CASE Answer(t, "none")
    <2>1. "none" \notin Read /\ "none" # "priced"
      BY DEF Read
    <2>. QED
      BY <1>1, <1>5, <2>1, Answered, Quiet DEF IInv
  <1>6. ReadPool(t) => \/ Goto(t, "read curve")
                       \/ Does(t, "insert", "priced") /\ task[t].pc = "read pool"
    BY DEF ReadPool
  <1>7. ReadCurve(t) => Goto(t, "pda") \/ Answer(t, "none") \/ Does(t, "insert", "curve")
    BY DEF ReadCurve
  <1>8. ReadPda(t) => Does(t, "insert", "curve") \/ Does(t, "insert", "none")
    BY DEF ReadPda, Curve
  <1>. QED
    BY <1>3, <1>4, <1>5, <1>6, <1>7, <1>8

LEMMA BuildCachedKeeps == ASSUME IInv, NEW t \in Task, BuildCached(t) PROVE IInv'
  <1>1. UNCHANGED <<venue, pool, caches, row, busy>>
    BY DEF BuildCached, counts
  <1>2. CASE Return(t)
    BY <1>1, <1>2, IdleSound, Quiet DEF Return
  <1>3. CASE Does(t, "served", "right")
    <2>1. "served" \in Stages
      BY DEF Stages
    <2>2. PICK r \in Records : Become(t, r) /\ r.pc = "served" /\ r.got = "right" /\ r.api = task[t].api
      BY <1>3, <2>1, DoesIt DEF IInv
    <2>3. Sound(r)
      BY <2>2 DEF IInv, TasksOK, Sound, Read
    <2>. QED
      BY <1>1, <2>2, <2>3, Quiet
  <1>. QED
    BY <1>2, <1>3 DEF BuildCached

-----------------------------------------------------------------------------
(* The steps that change a cache, an address or a row.                     *)
LEMMA FetchKeeps == ASSUME IInv, NEW t \in Task, Fetch(t) PROVE IInv'
  <1>1. PICK got \in {"priced", "zero", "none"} :
          /\ got \in Read => pool = "derived"
          /\ Does(t, "insert", got) /\ row' = (row \/ Some(got))
    BY DEF Fetch, Read
  <1>2. UNCHANGED <<venue, pool, entry, address, found, known, busy>>
    BY DEF Fetch, caches
  <1>3. /\ "insert" \in Stages
        /\ got \in What /\ got \in What \union {"right", "guess"}
    BY DEF Stages, What
  <1>4. PICK r \in Records : Become(t, r) /\ r.pc = "insert" /\ r.got = got /\ r.api = task[t].api
    BY <1>1, <1>3, DoesIt DEF IInv
  <1>5. Sound(task[t]) /\ venue # "pump"
    BY DEF Fetch, IInv, TasksOK, Sound
  <1>6. Sound(r)
    BY <1>1, <1>3, <1>4, <1>5 DEF Sound, Real
  <1>7. TasksOK'
    <2>1. Sound(r)' /\ (Resolved => Resolved')
      BY <1>2, <1>6 DEF Sound, Real, Resolved
    <2>. QED
      BY <1>2, <1>4, <2>1, Moved DEF IInv
  <1>8. AddressesOK'
    <2>1. row' \in BOOLEAN
      BY <1>1
    <2>2. row' => row \/ got \in Read
      BY <1>1 DEF Some, Read
    <2>3. got \in Read => Real
      BY <1>1 DEF Real
    <2>4. Real' = Real
      BY <1>2 DEF Real
    <2>. QED
      BY <1>2, <1>5, <2>1, <2>2, <2>3, <2>4 DEF IInv, AddressesOK
  <1>. QED
    BY <1>2, <1>7, <1>8 DEF IInv, WorldOK, EntriesOK, Real, Resolved

LEMMA InsertKeeps == ASSUME IInv, NEW t \in Task, Insert(t) PROVE IInv'
  <1>. DEFINE got == task[t].got
  <1>1. /\ UNCHANGED <<venue, pool, address, found, known, row, busy>>
        /\ entry' = New(got) /\ task[t].pc = "insert"
    BY DEF Insert, counts
  <1>2. Sound(task[t]) /\ got \in What
    BY <1>1 DEF IInv, TasksOK, Sound
  <1>3. \E r \in Records : Become(t, r) /\ Sound(r)
    <2>1. CASE Answer(t, got)
      BY <1>2, <2>1, Answered DEF IInv, Sound
    <2>2. CASE Goto(t, "again") /\ venue # "pump"
      <3>1. "again" \in Stages
        BY DEF Stages
      <3>2. PICK r \in Records : Become(t, r) /\ r.pc = "again" /\ r.got = got /\ r.api = task[t].api
        BY <2>2, <3>1, GoesTo DEF IInv
      <3>. QED
        BY <1>2, <2>2, <3>2 DEF Sound
    <2>. QED
      BY <2>1, <2>2 DEF Insert
  <1>4. TasksOK'
    <2>1. PICK r \in Records : Become(t, r) /\ Sound(r)
      BY <1>3
    <2>2. Sound(r)' /\ (Resolved => Resolved')
      BY <1>1, <2>1 DEF Sound, Real, Resolved
    <2>. QED
      BY <1>1, <2>1, <2>2, Moved DEF IInv
  <1>5. EntriesOK'
    <2>1. /\ entry' \in [what : What \union {"absent"}, fresh : BOOLEAN]
          /\ entry'.what = got
      BY <1>1, <1>2, NewTyped
    <2>2. (got \in Read => Real) /\ (venue = "pump" /\ got = "priced" => Resolved)
      BY <1>2 DEF Sound
    <2>3. Real' = Real /\ Resolved' = Resolved
      BY <1>1 DEF Real, Resolved
    <2>. QED
      BY <1>1, <2>1, <2>2, <2>3 DEF IInv, EntriesOK
  <1>. QED
    BY <1>1, <1>4, <1>5 DEF IInv, WorldOK, AddressesOK, Real

LEMMA KeepFoundKeeps == ASSUME IInv, NEW t \in Task, KeepFound(t) PROVE IInv'
  <1>. DEFINE got == task[t].got
  <1>1. /\ UNCHANGED <<venue, pool, found, known, row, busy>>
        /\ address' = New(got) /\ task[t].pc = "keep found"
        /\ entry' \in {entry, New(got)}
    BY DEF KeepFound, counts
  <1>2. Sound(task[t]) /\ got \in What /\ venue = "cpmm" /\ Real
    BY <1>1 DEF IInv, TasksOK, Sound
  <1>3. \E r \in Records : Become(t, r) /\ Sound(r)
    <2>1. CASE Answer(t, got)
      BY <1>2, <2>1, Answered DEF IInv, Sound
    <2>2. CASE Goto(t, "by mint")
      <3>1. "by mint" \in Stages
        BY DEF Stages
      <3>2. PICK r \in Records : Become(t, r) /\ r.pc = "by mint" /\ r.got = got /\ r.api = task[t].api
        BY <2>2, <3>1, GoesTo DEF IInv
      <3>. QED
        BY <1>2, <3>2 DEF Sound
    <2>. QED
      BY <2>1, <2>2 DEF KeepFound
  <1>4. TasksOK'
    <2>1. PICK r \in Records : Become(t, r) /\ Sound(r)
      BY <1>3
    <2>2. Sound(r)' /\ (Resolved => Resolved')
      BY <1>1, <2>1 DEF Sound, Real, Resolved
    <2>. QED
      BY <1>1, <2>1, <2>2, Moved DEF IInv
  <1>5. EntriesOK'
    <2>1. {entry', address'} \subseteq [what : What \union {"absent"}, fresh : BOOLEAN]
      BY <1>1, <1>2, NewTyped DEF IInv, EntriesOK
    <2>2. Real'
      BY <1>1, <1>2 DEF Real
    <2>. QED
      BY <1>1, <1>2, <2>1, <2>2 DEF EntriesOK
  <1>. QED
    BY <1>1, <1>4, <1>5 DEF IInv, WorldOK, AddressesOK, Real

-----------------------------------------------------------------------------
(* The steps that keep an address, or find the lock taken.                 *)
LEMMA AddressKeeps ==
  ASSUME IInv, NEW t \in Task, NEW r \in Records, Become(t, r), Sound(r)',
         UNCHANGED <<venue, pool, entry, address, found, row>>,
         venue = "pump", busy' \in Nat, busy' >= busy,
         known' \in {known, "right", "guess"}, known' = "guess" => busy' > 0
  PROVE  IInv'
  <1>1. (Resolved => Resolved') /\ (busy > 0 => busy' > 0) /\ Real' = Real
    BY DEF IInv, WorldOK, Resolved, Real
  <1>2. WorldOK' /\ EntriesOK' /\ AddressesOK'
    BY <1>1 DEF IInv, WorldOK, EntriesOK, AddressesOK
  <1>3. TasksOK'
    BY <1>1, Moved DEF IInv
  <1>. QED
    BY <1>2, <1>3 DEF IInv

LEMMA BusyGrows ==
  ASSUME WorldOK, NEW free, Tried(free)
  PROVE  busy' \in Nat /\ busy' >= busy /\ (~free => busy' > 0)
  BY DEF WorldOK, Tried

LEMMA AskApiKeeps == ASSUME IInv, NEW t \in Task, AskApi(t) PROVE IInv'
  <1>1. PICK answer \in {pool, "none"}, free \in BOOLEAN :
          /\ IF answer = "pool"
             THEN Tried(free) /\ known' = IF free THEN "right" ELSE known
             ELSE UNCHANGED <<known, busy>>
          /\ Become(t, [task[t] EXCEPT !.api = answer, !.pc = AfterApi(answer)])
    BY DEF AskApi
  <1>2. UNCHANGED <<venue, pool, entry, address, found, row>> /\ venue = "pump"
    BY DEF AskApi, IInv, TasksOK, Sound
  <1>3. answer \in {"none", "curve", "moving", "pool"} /\ (answer = "pool" => pool = "pool")
    BY <1>1, <1>2 DEF IInv, WorldOK
  <1>4. busy' \in Nat /\ busy' >= busy /\ known' \in {known, "right"}
        /\ (answer = "pool" => Resolved')
    BY <1>1, BusyGrows DEF IInv, WorldOK, Resolved
  <1>. DEFINE rr == [task[t] EXCEPT !.api = answer, !.pc = AfterApi(answer)]
  <1>5. PICK r \in Records : /\ Become(t, r) /\ r.api = answer /\ r.got = task[t].got
                             /\ r.pc = AfterApi(answer)
    <2>1. AfterApi(answer) \in Stages
      BY <1>3 DEF AfterApi, Stages
    <2>2. task[t] \in Records
      BY DEF IInv, TasksOK
    <2>3. rr \in Records /\ rr.api = answer /\ rr.got = task[t].got /\ rr.pc = AfterApi(answer)
      BY <1>3, <2>1, <2>2 DEF Records
    <2>4. Become(t, rr)
      BY <1>1
    <2>. HIDE DEF rr
    <2>. QED
      BY <2>3, <2>4
  <1>6. r.pc \in {"read pool", "read curve", "pda"} /\ (r.pc = "read pool" => answer = "pool")
    BY <1>3, <1>5 DEF AfterApi
  <1>7. Sound(r)'
    <2>1. Sound(task[t]) /\ (Resolved => Resolved')
      BY <1>1, <1>4 DEF IInv, TasksOK, WorldOK, Resolved
    <2>2. Real' = Real
      BY <1>2 DEF Real
    <2>. QED
      BY <1>2, <1>3, <1>4, <1>5, <1>6, <2>1, <2>2 DEF Sound
  <1>8. known' = "guess" => busy' > 0
    BY <1>4 DEF IInv, AddressesOK, WorldOK
  <1>. QED
    BY <1>2, <1>4, <1>5, <1>7, <1>8, AddressKeeps

LEMMA ResolveKeeps == ASSUME IInv, NEW t \in Task, Resolve(t) PROVE IInv'
  <1>1. UNCHANGED <<venue, pool, entry, address, found, row>> /\ venue = "pump"
    BY DEF Resolve
  <1>2. PICK free \in BOOLEAN, kept \in BOOLEAN :
          /\ Tried(free /\ kept)
          /\ CASE ~free -> Goto(t, "guess") /\ UNCHANGED known
               [] free /\ known # "none" -> Does(t, "served", known) /\ UNCHANGED known
               [] free /\ known = "none" ->
                    IF entry.what = "priced"
                    THEN Does(t, "served", "right") /\ known' = IF kept THEN "right" ELSE known
                    ELSE Goto(t, "guess") /\ UNCHANGED known
    BY DEF Resolve
  <1>3. busy' \in Nat /\ busy' >= busy /\ (~(free /\ kept) => busy' > 0)
    BY <1>2, BusyGrows DEF IInv
  <1>4. Sound(task[t]) /\ task[t].pc = "build" /\ Resolved
    BY <1>1 DEF Resolve, IInv, TasksOK, Sound
  <1>5. known' \in {known, "right"} /\ (known' = "guess" => busy' > 0)
    <2>1. known' = known \/ known' = "right"
      BY <1>2
    <2>2. known = "guess" => busy' > 0
      BY <1>3 DEF IInv, AddressesOK, WorldOK
    <2>. QED
      BY <2>1, <2>2
  <1>6. Real' = Real /\ (Resolved => Resolved')
    BY <1>1, <1>3, <1>5 DEF IInv, WorldOK, Real, Resolved
  <1>7. CASE Goto(t, "guess") /\ (~free \/ known = "none")
    <2>1. busy' > 0
      BY <1>3, <1>4, <1>7 DEF IInv, WorldOK, Resolved
    <2>2. "guess" \in Stages
      BY DEF Stages
    <2>3. PICK r \in Records : Become(t, r) /\ r.pc = "guess" /\ r.got = task[t].got /\ r.api = task[t].api
      BY <1>7, <2>2, GoesTo DEF IInv
    <2>4. Sound(r)'
      BY <1>1, <1>4, <1>6, <2>1, <2>3 DEF Sound
    <2>. QED
      BY <1>1, <1>3, <1>5, <2>3, <2>4, AddressKeeps
  <1>8. CASE \E got \in {"right", "guess"} : Does(t, "served", got)
    <2>1. PICK got \in {"right", "guess"} : Does(t, "served", got)
      BY <1>8
    <2>2. "served" \in Stages /\ got \in What \union {"right", "guess"} /\ got \notin Read
      BY DEF Stages, Read
    <2>3. PICK r \in Records : Become(t, r) /\ r.pc = "served" /\ r.got = got /\ r.api = task[t].api
      BY <2>1, <2>2, DoesIt DEF IInv
    <2>4. Sound(r)'
      BY <1>1, <1>4, <2>2, <2>3 DEF Sound, Read
    <2>. QED
      BY <1>1, <1>3, <1>5, <2>3, <2>4, AddressKeeps
  <1>9. known \in {"none", "right", "guess"}
    BY DEF IInv, AddressesOK
  <1>. QED
    BY <1>2, <1>7, <1>8, <1>9

LEMMA GuessKeeps == ASSUME IInv, NEW t \in Task, Guess(t) PROVE IInv'
  <1>1. UNCHANGED <<venue, pool, entry, address, found, row>>
    BY DEF Guess
  <1>2. Sound(task[t]) /\ venue = "pump" /\ busy > 0
    BY DEF Guess, IInv, TasksOK, Sound
  <1>3. CASE Return(t) /\ UNCHANGED <<known, busy>>
    BY <1>1, <1>3, IdleSound, Quiet DEF Return, caches
  <1>4. CASE \E free \in BOOLEAN : /\ Tried(free) /\ known' = IF free THEN "guess" ELSE known
                                   /\ Does(t, "served", "guess")
    <2>1. busy' \in Nat /\ busy' >= busy /\ known' \in {known, "guess"}
      BY <1>4, BusyGrows DEF IInv
    <2>2. busy' > 0
      BY <1>2, <2>1 DEF IInv, WorldOK
    <2>3. "served" \in Stages /\ "guess" \in What \union {"right", "guess"} /\ "guess" \notin Read
      BY DEF Stages, Read
    <2>4. PICK r \in Records : Become(t, r) /\ r.pc = "served" /\ r.got = "guess" /\ r.api = task[t].api
      BY <1>4, <2>3, DoesIt DEF IInv
    <2>5. Sound(r)'
      BY <1>1, <1>2, <2>3, <2>4 DEF Sound, Read
    <2>. QED
      BY <1>1, <1>2, <2>1, <2>2, <2>4, <2>5, AddressKeeps
  <1>. QED
    BY <1>3, <1>4 DEF Guess

-----------------------------------------------------------------------------
(* The chain, time, the listener and restarts.                             *)
LEMMA ChangeKeeps == ASSUME IInv, Change PROVE IInv'
  <1>1. UNCHANGED <<venue, entry, address, found, known, row, task, busy>>
    BY DEF Change, caches, counts
  <1>2. (Real => Real') /\ (pool = "pool" => pool' = "pool") /\ Resolved' = Resolved
    BY <1>1 DEF Change, Real, Resolved
  <1>3. WorldOK'
    BY <1>1 DEF IInv, WorldOK, Change
  <1>4. EntriesOK' /\ AddressesOK'
    BY <1>1, <1>2 DEF IInv, EntriesOK, AddressesOK
  <1>5. TasksOK'
    BY <1>1, <1>2 DEF IInv, TasksOK, Sound
  <1>. QED
    BY <1>3, <1>4, <1>5 DEF IInv

LEMMA TimeKeeps ==
  ASSUME IInv, ExpireEntry \/ ExpireAddress \/ ExpireFound \/ SwapSeen PROVE IInv'
  <1>1. UNCHANGED <<venue, pool, known, row, task, busy>>
    BY DEF ExpireEntry, ExpireAddress, ExpireFound, SwapSeen, counts
  <1>2. Real' = Real /\ Resolved' = Resolved
    BY <1>1 DEF Real, Resolved
  <1>3. WorldOK' /\ TasksOK'
    BY <1>1, <1>2 DEF IInv, WorldOK, TasksOK, Sound
  <1>4. EntriesOK'
    <2>1. /\ entry' \in [what : What \union {"absent"}, fresh : BOOLEAN]
          /\ entry'.what = entry.what
      BY DEF IInv, EntriesOK, ExpireEntry, ExpireAddress, ExpireFound, SwapSeen
    <2>2. /\ address' \in [what : What \union {"absent"}, fresh : BOOLEAN]
          /\ address'.what = address.what
          /\ address' = address \/ address.fresh
      BY DEF IInv, EntriesOK, ExpireEntry, ExpireAddress, ExpireFound, SwapSeen
    <2>3. venue # "cpmm" => address' = Absent
      BY <2>2 DEF IInv, EntriesOK, Absent
    <2>. QED
      BY <1>1, <1>2, <2>1, <2>2, <2>3 DEF IInv, EntriesOK
  <1>5. AddressesOK'
    <2>1. found' \in {"none", "fresh", "stale"}
          /\ (found' # "none" => found # "none" \/ (venue # "pump" /\ pool # "none"))
      BY DEF IInv, AddressesOK, ExpireEntry, ExpireAddress, ExpireFound, SwapSeen
    <2>2. venue # "pump" /\ pool # "none" => Real
      BY DEF IInv, WorldOK, Real
    <2>. QED
      BY <1>1, <1>2, <2>1, <2>2 DEF IInv, AddressesOK
  <1>. QED
    BY <1>3, <1>4, <1>5 DEF IInv

LEMMA RestartKeeps == ASSUME IInv, Restart PROVE IInv'
  <1>1. UNCHANGED <<venue, pool, row, busy>>
    BY DEF Restart
  <1>2. Real' = Real
    BY <1>1 DEF Real
  <1>3. WorldOK'
    BY <1>1 DEF IInv, WorldOK
  <1>4. TasksOK'
    BY IdleSound DEF Restart, TasksOK, Sound, Read
  <1>5. EntriesOK'
    <2>1. /\ entry' \in [what : What \union {"absent"}, fresh : BOOLEAN]
          /\ entry'.what \in {"absent", "zero"} /\ (entry'.what = "zero" => row)
      BY AbsentTyped DEF Restart, What
    <2>2. address' = Absent /\ address'.what = "absent"
      BY AbsentTyped DEF Restart
    <2>3. row => Real
      BY DEF IInv, AddressesOK
    <2>. QED
      BY <1>2, <2>1, <2>2, <2>3, AbsentTyped DEF EntriesOK, Read
  <1>6. AddressesOK'
    BY <1>1, <1>2 DEF IInv, AddressesOK, Restart
  <1>. QED
    BY <1>3, <1>4, <1>5, <1>6 DEF IInv

LEMMA StepKeeps == ASSUME IInv, [Next]_vars PROVE IInv'
  <1>1. CASE UNCHANGED vars
    <2>1. UNCHANGED <<venue, pool, entry, address, found, known, row, task, busy>>
      BY <1>1 DEF vars, caches, counts
    <2>2. Real' = Real /\ Resolved' = Resolved
      BY <2>1 DEF Real, Resolved
    <2>. QED
      BY <2>1, <2>2 DEF IInv, WorldOK, EntriesOK, AddressesOK, TasksOK, Sound
  <1>2. ASSUME NEW t \in Task, Work(t) PROVE IInv'
    BY <1>2, CheckKeeps, FetchKeeps, InsertKeeps, AgainKeeps, ByFoundKeeps, ReadFoundKeeps,
       KeepFoundKeeps, ByMintKeeps, AskApiKeeps, ReadPumpKeeps, BuildCachedKeeps,
       ResolveKeeps, GuessKeeps DEF Work
  <1>. QED
    BY <1>1, <1>2, ChangeKeeps, TimeKeeps, RestartKeeps DEF Next

(* Every step of a scan, a verification, a builder, the chain and a        *)
(* restart keeps what a task and a cache entry may rely on.                *)
THEOREM Inductive == Spec => []IInv
  <1>1. IInv /\ [Next]_vars => IInv'
    BY StepKeeps
  <1>. QED
    BY InitIInv, <1>1, PTL DEF Spec

(* Caches, addresses and tasks keep their types for any tasks.             *)
THEOREM TypeCorrect == Spec => []PoolTypeOK
  <1>1. IInv => PoolTypeOK
    BY DEF IInv, WorldOK, EntriesOK, AddressesOK, TasksOK, Records, PoolTypeOK
  <1>. QED
    BY <1>1, Inductive, PTL

(* Whatever the tasks share and however they interleave, no venue counts   *)
(* for a new coin without a pool there.                                    *)
THEOREM NoFalsePresence == Spec => []PresentIsReal
  <1>1. IInv => PresentIsReal
    BY DEF IInv, TasksOK, Sound, Real, PresentIsReal, Task
  <1>. QED
    BY <1>1, Inductive, PTL

(* Only a taken lock leads to a guessed address, with any number of tasks. *)
THEOREM GuessesAreContention == Spec => []GuessNeedsContention
  <1>1. IInv => GuessNeedsContention
    BY DEF IInv, AddressesOK, GuessNeedsContention
  <1>. QED
    BY <1>1, Inductive, PTL
=============================================================================
