----------------------------- MODULE TradePipeline ----------------------------
(***************************************************************************)
(* From an approved opportunity to a booked outcome: the event loop        *)
(* (main_loop.rs) submits and records a trade, the confirmation task       *)
(* (executor/confirmation.rs) polls for its status and books it, and the   *)
(* trades table of the database (persistence.rs) remembers it.  The loop   *)
(* and the task share the risk tracker of RiskTracker, whose actions the   *)
(* actions below extend.                                                   *)
(*                                                                         *)
(* A signature is the number of the submission that first carries it.      *)
(* Nothing in a transaction is unique to it: the same opportunity built    *)
(* again with the same cached blockhash is the same transaction, with the  *)
(* same deterministic signature.                                           *)
(*                                                                         *)
(* An action is one stretch of code without an await: the two tasks        *)
(* interleave between them.  What is done under the mutex of the tracker   *)
(* is one action, because the other task needs the same mutex.             *)
(***************************************************************************)
EXTENDS RiskTracker, SequencesExt

CONSTANTS
  UseJito,     (* solana.sender_enabled                                    *)
  Unparsable,  (* submissions for which Jito's answer is not a signature   *)
  Outcomes,    (* what a landed trade may have done: [ok, pnl]             *)
  FailFee,     (* the fallback cost of a failed trade, fees only           *)
  Cap,         (* 128: the list of pending confirmations is cut above this *)
  Keep,        (* 64: ... down to its last Keep entries                    *)
  Repeats,     (* TRUE iff a transaction may equal the one built before it *)
  Reorgs,      (* TRUE iff a block seen at "processed" may be abandoned    *)
  Crashes      (* TRUE iff the process may die and start again             *)

Sigs == 1 .. MaxTries

ASSUME Queues ==
  /\ Unparsable \subseteq Sigs
  /\ Outcomes \subseteq [ok : BOOLEAN, pnl : Pnls]
  /\ -FailFee \in Pnls
  /\ \A opp \in Opps : opp.net >= MinProfit => opp.net \in Pnls
  /\ Cap \in Nat /\ Keep \in Nat /\ Keep =< Cap
  /\ {UseJito, Repeats, Reorgs, Crashes} \subseteq BOOLEAN

VARIABLES
  stage,     (* where the event loop is with the approved opportunity      *)
  cur,       (* the estimated net profit of the latest such opportunity    *)
  sig,       (* the signature of its transaction                           *)
  chain,     (* what the network knows of each submission, and (seen) what *)
             (* it did in the blocks it was ever in                        *)
  chan,      (* the unbounded channel to the confirmation task             *)
  pending,   (* the task's Vec<PendingConfirmation>                        *)
  phase,     (* where the task is in its round                             *)
  batch,     (* the signatures of the round                                *)
  statuses,  (* the answers to them                                        *)
  idx,       (* the answer being processed                                 *)
  toRemove,  (* the indices processed in this round                        *)
  db,        (* the trades table                                           *)
  settled    (* history: trades this process booked                        *)

confVars == <<chan, pending, phase, batch, statuses, idx, toRemove>>
pipeVars == <<stage, cur, sig, chain, db, settled, confVars>>
allVars == <<vars, pipeVars>>

NoOutcome == [ok |-> FALSE, pnl |-> 0]
Unsent == [st |-> "unsent", out |-> NoOutcome, seen |-> {}]
NoRow == [st |-> "absent", est |-> 0, ok |-> FALSE, pnl |-> 0]

(* In a block now; and among the recent statuses a node answers from.      *)
OnChain(s) == chain[s].st \in {"processed", "final", "old"}
Recent(s) == chain[s].st \in {"processed", "final"}

PipelineInit ==
  /\ Init
  /\ stage = "idle"
  /\ cur = 0
  /\ sig = 0
  /\ chain = [s \in Sigs |-> Unsent]
  /\ chan = <<>>
  /\ pending = <<>>
  /\ phase = "collect"
  /\ batch = <<>>
  /\ statuses = <<>>
  /\ idx = 1
  /\ toRemove = <<>>
  /\ db = [s \in Sigs |-> NoRow]
  /\ settled = {}

-----------------------------------------------------------------------------
(* The trades table *)

(* Broken variants, here and below, stand before the definition they would *)
(* replace: each is a slip the properties at the end must notice.          *)
RowWithoutLoss(row, pnl, ok) ==
  IF row.st = "absent"
    THEN row
    ELSE [row EXCEPT !.st = "confirmed", !.ok = ok, !.pnl = IF ok THEN pnl ELSE 0]

(* trade_update_confirmed: UPDATE ... WHERE signature = ?. *)
ConfirmedRow(row, pnl, ok) ==
  IF row.st = "absent"
    THEN row
    ELSE [row EXCEPT !.st = "confirmed", !.ok = ok, !.pnl = pnl]

RowReplaced(row, est) == [NoRow EXCEPT !.st = "submitted", !.est = est]

(* trade_insert_submitted: INSERT OR IGNORE. *)
SubmittedRow(row, est) ==
  IF row.st = "absent" THEN [row EXCEPT !.st = "submitted", !.est = est] ELSE row

-----------------------------------------------------------------------------
(* The event loop *)

Consider(opp) ==
  /\ stage = "idle"
  /\ Check(opp)
  /\ stage' = IF approved' THEN "checked" ELSE "idle"
  /\ IF approved'
       THEN /\ cur' = opp.net
            /\ sig' \in {tries + 1} \cup (IF Repeats /\ cur = opp.net THEN {sig} ELSE {})
       ELSE UNCHANGED <<cur, sig>>
  /\ UNCHANGED <<chain, db, settled, confVars>>

(* Any of the `continue`s between the check and the submission: slot or    *)
(* balance unavailable, stale, underfunded, a wrap under way, a build or a *)
(* simulation that fails, no slot source.                                  *)
Skip ==
  /\ stage = "checked"
  /\ Abandon
  /\ stage' = "idle"
  /\ UNCHANGED <<cur, sig, chain, db, settled, confVars>>

(* A send may reach the network whether or not its answer is good; a       *)
(* transaction the network already has is the same transaction.            *)
Deliver(s) ==
  chain' = IF chain[s].st = "unsent"
             THEN [chain EXCEPT ![s] = [@ EXCEPT !.st = "flying"]]
             ELSE chain

Sending == UNCHANGED <<vars, cur, sig, db, settled, confVars>>

JitoAccepts ==
  /\ UseJito
  /\ stage = "checked"
  /\ tries < MaxTries
  /\ Deliver(sig)
  /\ stage' = IF tries + 1 \in Unparsable THEN "garbled" ELSE "accepted"
  /\ Sending

(* Rate limited, HTTP error, error in the answer, no answer. *)
JitoFails ==
  /\ UseJito
  /\ stage = "checked"
  /\ tries < MaxTries
  /\ Deliver(sig) \/ UNCHANGED chain
  /\ stage' = "fallback"
  /\ Sending

RpcAccepts ==
  /\ stage = IF UseJito THEN "fallback" ELSE "checked"
  /\ tries < MaxTries
  /\ Deliver(sig)
  /\ stage' = "accepted"
  /\ Sending

RpcFails ==
  /\ stage = IF UseJito THEN "fallback" ELSE "checked"
  /\ tries < MaxTries
  /\ Deliver(sig) \/ UNCHANGED chain
  /\ stage' = "rejected"
  /\ Sending

(* Under the mutex: record_submitted, the hand-over to the confirmation    *)
(* task and the INSERT OR IGNORE of the trade's row.                       *)
RecordAccepted ==
  /\ stage \in {"accepted", "garbled"}
  /\ Submit
  /\ chan' = Append(chan, [sig |-> sig, est |-> cur, parses |-> stage = "accepted"])
  /\ db' = [db EXCEPT ![sig] = SubmittedRow(@, cur)]
  /\ stage' = "idle"
  /\ UNCHANGED <<cur, sig, chain, settled, pending, phase, batch, statuses, idx, toRemove>>

RecordFailure ==
  /\ stage = "rejected"
  /\ SubmitFails
  /\ stage' = "idle"
  /\ UNCHANGED <<cur, sig, chain, db, settled, confVars>>

-----------------------------------------------------------------------------
(* The network *)

OnlyChain == UNCHANGED <<vars, stage, cur, sig, db, settled, confVars>>

Land(s) ==
  /\ chain[s].st = "flying"
  /\ \E o \in Outcomes :
       chain' = [chain EXCEPT ![s] = [st |-> "processed", out |-> o,
                                      seen |-> chain[s].seen \cup {o}]]
  /\ OnlyChain

Finalize(s) ==
  /\ chain[s].st = "processed"
  /\ chain' = [chain EXCEPT ![s].st = "final"]
  /\ OnlyChain

(* Some 150 blocks later nodes drop it from their cache of recent statuses, *)
(* the only place get_signature_statuses looks unless told to search.      *)
Forget(s) ==
  /\ chain[s].st = "final"
  /\ chain' = [chain EXCEPT ![s].st = "old"]
  /\ OnlyChain

(* The block is abandoned; the transaction may land again or expire. *)
Reorg(s) ==
  /\ Reorgs
  /\ chain[s].st = "processed"
  /\ chain' = [chain EXCEPT ![s] = [st |-> "flying", out |-> NoOutcome,
                                    seen |-> chain[s].seen]]
  /\ OnlyChain

(* Its blockhash expires before it lands. *)
Expire(s) ==
  /\ chain[s].st = "flying"
  /\ chain' = [chain EXCEPT ![s].st = "expired"]
  /\ OnlyChain

-----------------------------------------------------------------------------
(* The confirmation task *)

(* pending.iter().filter_map(parse).collect(): the signatures that parse,  *)
(* in the order of the entries.                                            *)
ParsedSigs(s) ==
  LET parsed[n \in 0 .. Len(s)] ==
        IF n = 0 THEN <<>>
        ELSE IF s[n].parses THEN Append(parsed[n - 1], s[n].sig)
        ELSE parsed[n - 1]
  IN  parsed[Len(s)]

(* Vec::swap_remove: the last entry takes the place of the removed one. *)
SwapRemove(s, i) ==
  IF i = Len(s) THEN Front(s) ELSE ReplaceAt(Front(s), i, Last(s))

RemoveForward(s, is) == FoldLeft(SwapRemove, s, is)
RemoveNothing(s, is) == s

(* to_remove.into_iter().rev(): the last index goes first. *)
RemoveProcessed(s, is) ==
  LET left[n \in 0 .. Len(is)] ==
        IF n = 0 THEN s ELSE SwapRemove(left[n - 1], is[Len(is) + 1 - n])
  IN  left[Len(is)]

(* The end of a round: too long a list loses its front. *)
Evict(s) == IF Len(s) > Cap THEN SubSeq(s, Len(s) - Keep + 1, Len(s)) ELSE s

EndRound(remaining) ==
  /\ pending' = Evict(remaining)
  /\ IF Len(pending') < Len(remaining)
       THEN Drop(Len(remaining) - Len(pending'))
       ELSE UNCHANGED vars
  /\ phase' = "collect"
  /\ batch' = <<>>
  /\ statuses' = <<>>
  /\ idx' = 1
  /\ toRemove' = <<>>
  /\ UNCHANGED <<stage, cur, sig, chain, db, settled>>

(* Drain the channel and list the signatures that parse. *)
Collect ==
  /\ phase = "collect"
  /\ chan # <<>> \/ pending # <<>>
  /\ LET all == pending \o chan IN
       IF ParsedSigs(all) = <<>>
         THEN EndRound(all)
         ELSE /\ pending' = all
              /\ batch' = ParsedSigs(all)
              /\ phase' = "query"
              /\ UNCHANGED <<vars, stage, cur, sig, chain, db, settled,
                             statuses, idx, toRemove>>
  /\ chan' = <<>>

(* get_signature_statuses answers with what the node sees now, at any      *)
(* commitment; without a search of the history a signature that is not, or *)
(* no longer, among the recent ones has no status.                         *)
QueryAnswers ==
  /\ phase = "query"
  /\ statuses' = [i \in DOMAIN batch |->
                    [known |-> Recent(batch[i]), ok |-> chain[batch[i]].out.ok]]
  /\ phase' = "process"
  /\ idx' = 1
  /\ UNCHANGED <<vars, stage, cur, sig, chain, db, settled, chan, pending, batch, toRemove>>

QueryFailsExits ==
  /\ phase = "query"
  /\ phase' = "stopped"
  /\ UNCHANGED <<vars, stage, cur, sig, chain, db, settled, chan, pending, batch,
                 statuses, idx, toRemove>>

QueryFails ==
  /\ phase = "query"
  /\ EndRound(pending)
  /\ UNCHANGED chan

(* No status yet: the entry stays for the next round. *)
PassOver ==
  /\ phase = "process"
  /\ idx =< Len(statuses)
  /\ ~statuses[idx].known
  /\ idx' = idx + 1
  /\ UNCHANGED <<vars, stage, cur, sig, chain, db, settled, chan, pending, phase,
                 batch, statuses, toRemove>>

EstimateAlways(entry, s, ok) == {entry.est}

(* The PnL of the transaction itself when get_transaction, which only      *)
(* serves finalized blocks, finds it within its retries; else the estimate *)
(* or, when the status is an error, the fees.                              *)
ReportedPnl(entry, s, ok) ==
  {IF ok THEN entry.est ELSE -FailFee}
    \cup (IF chain[s].st \in {"final", "old"} THEN {chain[s].out.pnl} ELSE {})

(* Under the mutex: record_confirmation and the UPDATE of the row named by *)
(* the entry.  The status is that of batch[idx], the entry pending[idx].   *)
Confirm(pnl, ok) ==
  /\ phase = "process"
  /\ idx =< Len(statuses)
  /\ statuses[idx].known
  /\ ok = statuses[idx].ok
  /\ LET p == pending[idx]
     IN  /\ pnl \in ReportedPnl(p, batch[idx], ok)
         /\ Book(pnl, ok)
         /\ db' = [db EXCEPT ![p.sig] = ConfirmedRow(@, pnl, ok)]
         /\ settled' = settled \cup {p.sig}
  /\ toRemove' = Append(toRemove, idx)
  /\ idx' = idx + 1
  /\ UNCHANGED <<stage, cur, sig, chain, chan, pending, phase, batch, statuses>>

FinishRound ==
  /\ phase = "process"
  /\ idx > Len(statuses)
  /\ EndRound(RemoveProcessed(pending, toRemove))
  /\ UNCHANGED chan

-----------------------------------------------------------------------------
(* Time and crashes *)

Clock == (Tick \/ NextDay) /\ UNCHANGED pipeVars

(* The process dies and starts again; the chain and the database stay. *)
Crash ==
  /\ Crashes
  /\ Restart
  /\ stage' = "idle"
  /\ cur' = 0
  /\ sig' = 0
  /\ chan' = <<>>
  /\ pending' = <<>>
  /\ phase' = "collect"
  /\ batch' = <<>>
  /\ statuses' = <<>>
  /\ idx' = 1
  /\ toRemove' = <<>>
  /\ settled' = {}
  /\ UNCHANGED <<chain, db>>

Loop ==
  \/ \E opp \in Opps : Consider(opp)
  \/ Skip
  \/ JitoAccepts
  \/ JitoFails
  \/ RpcAccepts
  \/ RpcFails
  \/ RecordAccepted
  \/ RecordFailure

Network == \E s \in Sigs : Land(s) \/ Finalize(s) \/ Forget(s) \/ Reorg(s) \/ Expire(s)

Task ==
  \/ Collect
  \/ QueryAnswers
  \/ QueryFails
  \/ PassOver
  \/ \E pnl \in Pnls, ok \in BOOLEAN : Confirm(pnl, ok)
  \/ FinishRound

PipelineNext == Loop \/ Network \/ Task \/ Clock \/ Crash

PipelineSpec == PipelineInit /\ [][PipelineNext]_allVars

(* Tokio polls both tasks, the RPC answers again and again if asked again  *)
(* and again, and a transaction in flight lands or expires.                *)
PipelineFairness ==
  /\ WF_allVars(Task)
  /\ SF_allVars(QueryAnswers)
  /\ WF_allVars(RecordAccepted \/ RecordFailure)
  /\ \A s \in Sigs : WF_allVars(Finalize(s)) /\ WF_allVars(Land(s) \/ Expire(s))

FairPipeline == PipelineSpec /\ PipelineFairness

-----------------------------------------------------------------------------
(* Properties *)

Entry == [sig : Sigs, est : Int, parses : BOOLEAN]

(* Tracker, channel, pending list, round and table have their types; no    *)
(* index of process_statuses is out of the bounds of its vectors.          *)
PipelineTypeOK ==
  /\ TypeOK
  /\ stage \in {"idle", "checked", "fallback", "accepted", "garbled", "rejected"}
  /\ cur \in Int
  /\ sig \in Nat
  /\ chain \in [Sigs -> [st : {"unsent", "flying", "processed", "final", "old", "expired"},
                         out : Outcomes \cup {NoOutcome}, seen : SUBSET Outcomes]]
  /\ chan \in Seq(Entry) /\ pending \in Seq(Entry)
  /\ phase \in {"collect", "query", "process"}
  /\ batch \in Seq(Sigs)
  /\ statuses \in Seq([known : BOOLEAN, ok : BOOLEAN])
  /\ DOMAIN statuses \subseteq DOMAIN pending
  /\ idx \in 1 .. Len(statuses) + 1 /\ toRemove \in Seq(DOMAIN statuses)
  /\ db \in [Sigs -> [st : {"absent", "submitted", "confirmed"}, est : Int,
                      ok : BOOLEAN, pnl : Int]]
  /\ settled \subseteq Sigs

(* Entries the task still has to book. *)
Unbooked == DOMAIN pending \ ToSet(toRemove)

TrackedSigs == {pending[i].sig : i \in Unbooked} \cup {e.sig : e \in ToSet(chan)}

(* A trade the process still has to book is queued exactly once, its row   *)
(* is in the database and not yet confirmed, and the tracker counts it as  *)
(* open: the hand-over happens under the mutex the booking takes, so no    *)
(* UPDATE precedes its INSERT, and swap_remove from the back removes       *)
(* exactly the entries that were booked.  This needs every transaction to  *)
(* be a new one.                                                           *)
TrackedOnce ==
  /\ open = Cardinality(Unbooked) + Len(chan)
  /\ open = Cardinality(TrackedSigs)
  /\ \A s \in TrackedSigs : db[s].st = "submitted"
  /\ approved <=> stage # "idle"

(* Sum of the amounts of all submissions. *)
SumOf(amounts) ==
  LET sum[n \in 0 .. MaxTries] == IF n = 0 THEN 0 ELSE sum[n - 1] + amounts[n]
  IN  sum[MaxTries]

(* The running total the tracker reports is what the database holds for    *)
(* the trades this process booked.                                         *)
TotalMatchesDb ==
  rt.totalPnl = SumOf([s \in Sigs |-> IF s \in settled THEN db[s].pnl ELSE 0])

(* Entries at or behind one whose signature does not parse: positions in   *)
(* the answer no longer are positions in the list.                         *)
Shifted ==
  {pending[i].sig : i \in {i \in DOMAIN pending : \E j \in 1 .. i : ~pending[j].parses}}

(* Whenever process_statuses writes a row, some block had the transaction  *)
(* in it, with the success written; the PnL is that of such a block or the *)
(* fallback for that trade.  The transaction is the row's own unless its   *)
(* entry is shifted.  This holds whatever is sent twice, abandoned by the  *)
(* chain, forgotten by the node, evicted or interrupted.                   *)
BookedAsLanded ==
  [][\A s \in Sigs :
       db'[s] # db[s] /\ db'[s].st = "confirmed" =>
         \E t \in Sigs :
           /\ t = s \/ s \in Shifted
           /\ \E o \in chain[t].seen : o.ok = db'[s].ok
           /\ db'[s].pnl \in {o.pnl : o \in chain[t].seen}
                              \cup {IF db'[s].ok THEN db'[s].est ELSE -FailFee}]_allVars

(* The pipeline implements the ledger of its trades, whatever happens      *)
(* between the two tasks and on the chain: a trade is settled only while   *)
(* it is open, with a verdict the chain gave, and neither an eviction nor  *)
(* a restart brings a lost one back.                                       *)
LedgerState(s) ==
  CASE db[s].st = "confirmed" /\ s \in TrackedSigs -> "again"
    [] db[s].st = "confirmed" /\ s \notin TrackedSigs -> "settled"
    [] db[s].st # "confirmed" /\ s \in TrackedSigs -> "open"
    [] db[s].st = "submitted" /\ s \notin TrackedSigs -> "lost"
    [] OTHER -> "none"

Verdict(ok) == IF ok THEN "ok" ELSE "failed"

Ledger == INSTANCE TradeLedger WITH
  Trades  <- Sigs,
  state   <- [s \in Sigs |-> LedgerState(s)],
  fate    <- [s \in Sigs |-> {Verdict(o.ok) : o \in chain[s].seen}],
  verdict <- [s \in Sigs |-> IF db[s].st = "confirmed" THEN Verdict(db[s].ok)
                                                       ELSE "unknown"],
  shifted <- Shifted

ImplementsLedger == Ledger!Spec

(* A confirmed row is final: no later round books its trade again.         *)
ConfirmedForGood ==
  [][\A s \in Sigs : db[s].st = "confirmed" => db'[s] = db[s]]_allVars

(* A landed trade that is polled for is not polled for ever: it is booked  *)
(* or evicted, unless the queries fail for so long that the node forgets   *)
(* its status first.  A trade without a signature is not polled for.       *)
PolledSigs ==
  {e.sig : e \in {e \in {pending[i] : i \in Unbooked} \cup ToSet(chan) : e.parses}}

LandedIsResolved ==
  \A s \in Sigs :
    (s \in PolledSigs /\ chain[s].st = "final")
      ~> (s \notin PolledSigs \/ chain[s].st = "old")

(* What confirmation.rs:89 says of eviction: "Evict stale entries (>128    *)
(* pending -> drop the older half)".  Refuted: swap_remove moves the       *)
(* newest entry to the front, where the drain takes it first.              *)
EvictsOldest ==
  [][\A s \in TrackedSigs, t \in TrackedSigs' :
       s \notin TrackedSigs' /\ s \notin settled' /\ ~Crash => s < t]_allVars

(* What risk/mod.rs:129 says: "update counters and correct PnL by actual   *)
(* result".  Refuted: a transaction built twice within the life of one     *)
(* cached blockhash is one trade with one row, and is counted twice.       *)
CountedOnce == rt.succeeded + rt.failedOnchain =< Cardinality(settled)

(* What confirmation.rs:118 says of an answer without a status: "Not yet   *)
(* processed by the network, keep waiting".  Refuted: the node may have    *)
(* forgotten a trade that landed long ago: the entry waits to be evicted.  *)
NoneIsUnprocessed ==
  [][phase = "query" /\ phase' = "process" =>
       \A i \in DOMAIN statuses' : ~statuses'[i].known => ~OnChain(batch[i])]_allVars

(* What confirmation.rs:4 says: "Once confirmed, the real SOL change is    *)
(* extracted".  Refuted: the status of a block that is only processed is   *)
(* taken for a confirmation, and the block can still be abandoned.         *)
BookedIsConfirmed ==
  [][\A s \in Sigs :
       db'[s].st = "confirmed" /\ db[s].st # "confirmed" => chain[s].st = "final"]_allVars
=============================================================================
