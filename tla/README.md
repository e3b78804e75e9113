# A TLA+ development for the Solana atomic arbitrage bot

The repository holds a trading bot (`src/`, a Tokio program) and an on-chain router
(`programs/arbitrage/`) that it calls.  The bot watches swaps on Solana, looks for a
token that is cheaper on one exchange than on another, and sends one transaction that
buys there and sells here.  These modules model the parts of that program whose
correctness depends on order, on failure or on arithmetic at a boundary; TLC checks
them on small instances and TLAPS proves what matters most for every value of the
constants.  `PROJECT.json` ties every definition to the lines it stands for.

## 1. The system

| part | state | operations | talks to |
|---|---|---|---|
| WebSocket listener (`listener/`) | queue of 4096 swap events, `seen_mints` per connection | parse logs, `try_send`, reconnect | event loop, discovery, pool caches |
| gRPC stream (`grpc_stream/`) | account bytes, latest slot, blockhash, `STARTUP_SLOT` | subscribe, replay, put, get, freshness | scanner, builders |
| Pool caches (`pool_cache/`) | reserves per coin with TTL and negative entries, addresses, DLMM metadata, pair table, skip list | look up, fetch, insert, evict, persist | scanner, builders, verification, SQLite |
| Discovery and whitelist (`discovery.rs`, `whitelist.rs`, `main.rs`) | categories of coins, in memory and in a table | backscan, collect, verify, add, promote, load | listener, pool caches, SQLite |
| Scanner (`arbitrage/`) | none | price both venues, search the investment | caches, simulators |
| Event loop (`main_loop.rs`) | the opportunity in hand | check limits, wrap, build, simulate, submit, record | everything |
| Builders (`executor/atomic`) | metadata of pools that never changes | read two pools, cap, quote, refuse, lay out the accounts, compile, add a tip | caches, RPC |
| Risk tracker (`risk/mod.rs`) | one record behind a mutex | `check_limits`, `record_submitted`, `record_confirmation` | event loop, confirmation task |
| Submission (`jito.rs`, `rpc_pool.rs`) | rate limiter, round-robin counter | send by Jito, fall back to RPC | network |
| Confirmation task (`executor/confirmation.rs`) | pending list, channel | poll, book, remove, evict | tracker, SQLite, RPC |
| Wrapped SOL (`ensure_wsol_balance`) | `WRAP_IN_FLIGHT` and its timer | read balances, wrap | network |
| SQLite (`persistence.rs`) | trades, pairs, DLMM metadata, CPMM and Orca pools, whitelist | insert, update, replace, load | all of the above |
| On-chain router (`programs/arbitrage`) | one transaction's snapshots | parse, buy CPI, sell CPI, checks | exchanges |

How they interact.  The listener feeds the event loop through a bounded channel,
discovery through an unbounded one, and tells the pool caches which pools swaps named.
The loop handles one event at a time: it scans through the caches, asks the risk
tracker (lock taken and released), and then fetches, wraps, builds and simulates with
no lock held.  A submission goes to Jito and, if that fails, to RPC; an accepted one is
counted in the tracker, sent down an unbounded channel to the confirmation task, and
inserted in the trades table, all while the tracker's mutex is held.  The confirmation
task drains the channel, asks the RPC node for the statuses of everything pending and
books the outcomes under the same mutex.  Discovery verifies new coins through the very
caches the scanner fills.  Wraps and trades land when the network decides.

What is hard here, and what correctness means for each part:

* **Risk tracker**: two callers, a check whose lock is released long before the
  submission it allows, midnight in the middle of a trade, a cooldown re-armed by late
  losses.  It must never leave a day over its loss limit with the breaker off, bound the
  loss booked after a trip, account for each outcome, and reopen.
* **Submission and confirmation**: lost answers, two identical transactions on one
  cached blockhash, a status read before the awaits that use it, removal by index after
  a loop, eviction, crashes.  Each trade must be booked at most once, with what the chain
  did with it, in the tracker and in the table alike.
* **Wrapped SOL**: a static flag claimed in one await and released by a timer, a balance
  that trades and fees draw on between its read and the wrap.  One holder at a time, and no
  wrap digs into the reserve for fees.
* **Builders and router**: two programs agree about one list of accounts by position
  only; the pools are read one by one and move before the transaction runs; balances
  decide about profit.  A trade must be atomic, what is sent must be worth sending on
  the pools as read, and what the client lays out must be what the exchanges get.
* **Pool caches**: check, fetch and insert are separate steps of several tasks; a failed
  request looks like a closed pool; negative entries hide a pool; the maps that never
  expire must not keep a wrong or a dead pool; two tables follow four maps.
* **gRPC stream**: what is written while it is down is not seen; a replay may be older
  than the cache, or pruned; ages are measured in the stream's own slots.
* **Discovery**: dropped events, coins offered once per connection, a memory and a table
  changed one after the other by three parties.

`PROJECT.json` lists the hazards at the line where each bites, with the properties
that cover it.

## 2. Modules

| module | models | role |
|---|---|---|
| `RiskLimits` | `risk/mod.rs`, the tracker as operators on one record | shared by the next three |
| `RiskTracker` | the tracker under both callers, clock, midnight, restart | checked, proved |
| `TradePipeline` | event loop, Jito and RPC, network, confirmation task, trades table | extends `RiskTracker`; checked, proved |
| `TradeLedger` | what the pipeline promises of each trade | abstract specification |
| `WsolWrap` | `ensure_wsol_balance`, flag, timer, wallet | checked, proved |
| `TradeTransaction` | a transaction instruction by instruction: the builders' plans and the router's handler | checked, proved |
| `AtomicTrade` | what a transaction may do to the wallet | abstract specification |
| `RouteLayout` | the account list of a routed trade: builder, compilation, tip, signature, router's parsing, CPIs | checked, proved |
| `SwapMath` | the integer formulas of client and router: constant product, DLMM bins, slippage | used by `RouteQuote` |
| `RouteQuote` | twelve builders reading, capping, quoting, refusing; pools that move; the router's run | checked, proved |
| `DlmmPools` | `pool_cache/dlmm`: four maps, two tables, callers, the listener, restarts | checked, proved |
| `PoolCaches` | PumpSwap, CPMM and Orca pools: scans, verification, builders over shared caches | checked, proved |
| `StreamCache` | `grpc_stream`: chain, stream, replay, reconnection, readers | checked, proved |
| `CoinBook` | what the whitelist promises of each coin | abstract specification |
| `Discovery` | listener, backscan, discovery task, verification, whitelist and its table, promotion | checked, proved |
| `*Proofs` | | theorems about the module of that name; `TradePipelineProofs` has those about `RiskTracker` too, and that the pipeline implements it; `TradeTransactionProofs` has those about `RouteLayout` too, whose `LayoutInit`, `LayoutNext` and `LayoutSpec` are named so that one module can extend both |
| `MC*` | | values for TLC |

How state and actions correspond to the code:

* `RiskLimits`: the fields of `Tracker` are those of `RiskTracker` in the code.
  `breaker_triggered_at` is kept as the time elapsed since it, `sinceTrip`, saturated at
  the cooldown: the code only asks whether `elapsed()` has reached
  `BREAKER_COOLDOWN_SECS`.  `Blocked`, `Reopen`, `RollOver`, `WithinSize` and
  `ProjectedLoss` are the successive tests of `check_limits`; `CheckLimits` is the state
  it leaves and `PassesLimits` the answer it gives.  `f64` amounts are integers.
* `RiskTracker`: `Check` is the loop's first lock, `Abandon` any `continue` after it,
  `Submit` and `SubmitFails` its second lock; `Book` is one call of
  `record_confirmation`, `Drop` an eviction.  `open` counts trades in the hands of the
  confirmation task; `tripOut`, `carried`, `dayPnl` and `quiet` are history variables the
  code does not have.
* `TradePipeline`: `stage` is where the loop stands, `chan` the channel, `pending`,
  `batch`, `statuses`, `idx` and `toRemove` the locals of the confirmation task.  Each
  await of `spawn_confirmation_task` and of `process_statuses` separates two actions;
  what runs under the mutex is one action (`RecordAccepted`, `Confirm`).  A signature
  that `Signature::from_str` refuses is an entry with `parses = FALSE`: it is skipped in
  the query and stays in the list, which shifts the statuses of the entries behind it.
  A transaction in flight lands with some outcome in a processed block, which becomes
  final or is abandoned, or it expires; `chain[s].seen` is the history of what blocks did
  with it.  `get_signature_statuses` does not search the history (`confirmation.rs:70`),
  so `Forget` ends what a node knows of a trade some 150 slots after it landed, and
  `QueryAnswers` then gives no status for it.  `get_transaction` uses the client's default
  commitment, finalized, so within its 2 + 4 seconds of retries it normally finds nothing
  and the estimate is booked; `ReportedPnl` allows both.
* `TradeLedger`: a trade is handed over, lost and settled; `Repeats` and `Reorgs` say
  whether it may be handed over again and whether the chain may give two verdicts, and
  `shifted` names the trades that a garbled entry before them puts at another's position.
* `WsolWrap`: `pc` is the await at which a call stands; every early return has its
  action.  `AsLamports` is the conversion the code applies to an amount that already is
  in lamports.  `ReadNative` is the read of the native balance and `TooSmall`, `Claim` and
  `AlreadyClaimed` the decision that follows it without another await.  A wrap that lands
  or fails on chain pays its fee (`WrapFee`) from that balance, and a trade its fee, tip, rent
  and, on the direct plans, its investment (`Costs`); `spent` sums them up, and `readAt` and
  `mark` remember it at the last read and at the read behind the last wrap.  Balances are
  as a read shows them: abandoned blocks are left to the pipeline's model.
* `TradeTransaction`: `pc` is the next instruction, or the next step of
  `orchestrate::handle` (the two dedicated routes do the same).  A message is a plan
  with the amounts its builder fixed: `routed` calls the router, `amm` wraps, swaps on
  PumpSwap and DLMM and closes the wrapped SOL account, `curve` buys or sells on a
  Pump.fun bonding curve with native SOL.  `Enter` is everything the handler does before
  its first CPI; `fits` says whether the account sections pass its checks, which is
  `RouteLayout`'s question.  `Abort` is the runtime's atomicity.  The exchanges are
  external: they take the offer, give any amount from the requested minimum on, may
  refuse, and PumpSwap and the curve may open an account at the wallet's expense.
* `RouteLayout`: a key is a string, a list of accounts a sequence of them.  `Build` is
  the builder of a route, `Compile` and `CompileWithTip` what becomes of its list in a
  v0 message, `Check` the section parser with the checks of each exchange, `BuyLeg` and
  `SellLeg` hand the accounts a CPI names to an exchange that wants the accounts the
  comments of `cpi/*.rs` list.  A coin is the set of its optional accounts.
* `RouteQuote`: a builder is a record: its two exchanges, how it caps the investment,
  whether it guesses a sale it cannot price.  `ReadVault`, `ReadBins` and `FromCache` are
  its awaits, between which `Move` changes a pool; `TheQuote` is its arithmetic, `Send`
  and `Refuse` its ending, `Land` the router's run on the pools of that moment.  The bins of
  a DLMM pool are a sequence in the order of their ids, into which the code sorts them.
* `DlmmPools`: a task is at the stage of `fetch_dlmm_by_mints` it has reached, with the
  locals it carries (`ask`, `got`, `new`, `snap`); every lock section or request is an
  action.  `pairOf` is the event-driven token map, `dbMeta` and `dbPairs` the tables.
  `Replace` writes the snapshot `Clean` took before its lock was dropped.
* `PoolCaches`: one coin at one venue, since nothing is shared between two.  `entry` is
  the reserve cache, `found` the map of pools named by events, `known` the permanent map
  of PumpSwap addresses.  `Check`, `Fetch` and `Insert` are the three parts of every
  look-up; `AskApi`, `ReadPool`, `ReadCurve`, `ReadPda` are the paths of
  `fetch_bonding_curve`; `Resolve` and `Guess` are `get_pumpswap_pool_address` and the
  derivation the scanner falls back to, when a `try_read` may find its lock taken.
* `StreamCache`: time is the cluster's slot, the data of an account the slot that wrote
  it.  `Connect` chooses `from_slot`, `Receive` is an update in any order within a slot,
  `SlotSent` ends a slot, `Reconnect` clears the anchor and sleeps, `PrunedReplay` is the
  refusal of a replay the provider no longer has.  **Assumed of the provider**: it sends one
  chain, in the order of its slots.  The request leaves the commitment at its default,
  processed (`grpc_stream/mod.rs:192-214`), at which blocks of a fork may be sent too, and
  `put` compares no slots; `NeverBack`, and what the other properties say of "newest", hold
  for a provider that does not do this.
* `Discovery`: `NewSwap`, `OtherSwap` and `ListedSwap` are the listener's three ways with
  a log, `Collect` and `Take` the batching task, `Verify` and `Add` the two halves of a
  verification, `Mark` the promotion after a submission, `Edit` the operator.  Memory and
  table change in one step: a crash between the two writes is not modelled.

## 3. Runs

| run | bounds | states | what it asks and shows |
|---|---|---|---|
| `risk` | 3 submissions, 2 days, cooldown of 2 ticks, limit 2, PnL in {-3, -1, 2} | 41 295 | With a single loss above the limit, losses that add up to it, and gains: the breaker's invariants, the accounting of outcomes, and that it reopens. |
| `pipeline_safety` | 3 submissions, one outcome (a failure at 3 of a loss limit of 4), one signature that does not parse, abandoned blocks, crashes, list of 2 before eviction | 1 290 482 | Queue, tracker and table agree, the totals match, a confirmed row is final. |
| `pipeline_landed` | 2 submissions, two outcomes, repeated transactions, a signature that does not parse, abandoned blocks, crashes, eviction | 434 929 | What is booked some block did, with that trade or, behind a garbled entry, with another of the list; the pipeline implements `TradeLedger`; a landed trade that is polled for is booked or evicted, unless the node forgets its status first. |
| `pipeline_evict` | 4 submissions, one outcome | | "drop the older half". **Violated** by `swap_remove`. |
| `wsol` | 2 wraps, 2 trades at a cost of 1 or 3, wrap fee 1, reserve 2, scale 8 | 941 626 | The flag has one holder; what is missing from the reserve was taken by fees and trades, never by a wrap, however late it lands. |
| `trade_tx` | 3 transactions of 8 kinds, amounts up to 3, costs of 1, one token held | 499 625 | Each transaction, failing anywhere, is one step of `AtomicTrade`; older tokens are kept; the costs are bounded. |
| `layout` | all 12 routes, all 448 mixes of optional accounts, token programs and bin arrays, 3 lookup tables, with and without tip | 78 464 | Both dedicated routes are served whole; the router finds the second section of every route where the client put it; a floor is never read in another unit. |
| `quote` | 12 builders, 4 offers, 3 to 5 states of each pool, 2 moves | 3 192 668 | What is sent keeps its promise on the pools as read, whatever the first pool does; no profit out of equal prices; nothing empty is sent. |
| `dlmm` | 2 pools of a coin, scanner, verification and listener; one change, one failed request, one restart; no verification after a change or restart (`MCNext`) | 323 551 | The table follows the metadata map whichever task saves last; closed pools vanish from every map; a good pool becomes visible again. |
| `stream` | 2 accounts, 6 slots, 2 losses or refusals, provider keeps 4 slots | 585 919 | No reader uses an account that missed an update, or, once the stream is back, a hash from before; the cache never goes back; the loop catches up. |
| `pools` | each of the three venues, a scanner and a verifier, 2 failed requests, 2 busy locks, one restart | 82 012 | No venue counts that has no pool; guesses come from busy locks only and heal; a pool is priced and reaches the builder, also one at an underived address. |
| `discovery` | 1 coin and all others, queue of 2, `seen_mints` of 2, 2 failures, 2 restarts, 2 edits | 50 706 | Memory, table and restarts implement `CoinBook`; a coin two venues have is listed at last. |

All runs but `pipeline_evict` hold.

Why the bounds are enough.  The tracker's tests compare a sum with one limit and an age
with one cooldown; a PnL above the limit, one below it and a gain reach each side of each
test, and the cooldown of two ticks separates "just tripped", "running" and "over".  Two
days give one midnight, at any point of a trade's life.  The pending list needs three
entries for `swap_remove` to reorder anything that matters and a cap of two for eviction,
instead of 128 and 64; the repeats, shifts and reorganizations of `pipeline_landed` involve
two trades at a time.  A wrap needs a second one to overlap with, and a trade's cost above
the reserve as well as one below it.  The transactions'
checks compare two balances, so a step of one on each side of each floor is all that
matters; every exchange appears as a first and as a second leg; three transactions let
an AMM plan, a restart and a routed plan follow each other.  `RouteLayout` has no bound
but the lookup tables' contents.  `RouteQuote`'s pools are a profitable pair, an equal
pair, a nearly empty pool, and bins with one empty side; two moves let either pool change
between any two reads, or both once.  In `DlmmPools` two pools suffice for a best one, a
low one and an evicted one, and a verification differs from a scan only in taking any
reserve.  The two interleave freely until a pool changes or the process restarts, which is what the savers need: a
failed request for an eviction that the other caller's discovery undoes.  That callers may
be more, and changes too, is proved for `MetadataSaved`.  The stream's windows keep the order the
code's have: reader's window (2) below the hash's age (10) below the sleep (12), as 2, 2
and 3.  `Discovery`'s queue and seen set need to overflow once, and coins do not interact
but through these, which `OtherSwap` fills.  The two-coin instance (1 497 104 states) also
satisfies `KeepsBook`, which is proved for any coins.

What the bounds leave out: more than one unparsable signature, more than two trades
between two wraps, more than two pools
of one coin in liveness properties, `f64` rounding.

Two switches are visible in the constants of the pipeline's runs.  `Repeats` (the same
opportunity can be rebuilt on the same cached blockhash) is FALSE in `pipeline_safety`,
because `TrackedOnce`, `TotalMatchesDb` and `ConfirmedForGood` need each
trade to be a transaction of its own; section 5 says what happens without.  In
`pipeline_landed` repeats, signatures that do not parse and abandoned blocks are all there.

Fairness, and why the code justifies it:

* `RiskTracker`: the clock runs, swap events keep arriving (weak fairness on a check),
  and the loop ends what it began since all of its awaits have timeouts.
* `TradePipeline`: Tokio polls both tasks (weak fairness); an RPC node asked again and
  again answers again and again (strong fairness on `QueryAnswers` only, since a failing
  query re-enables it), though by then it may have forgotten the status: nothing makes an
  answer come in time.  A transaction in flight lands or expires and a block that stays
  processed is finalized.  Nothing says that a particular opportunity is found or that a
  submission succeeds.
* `DlmmPools`: tasks under way go on, entries age and skip windows end (weak); a coin
  that is traded is looked up again and again by the scanner when its entry is stale (strong
  on its `Miss`; a verification asks once).
* `PoolCaches`: tasks go on and entries expire (weak).  `Again` and `BuildCached` find
  their entry still fresh again and again (strong, with `Hit`): an entry lasts a minute, the
  pass from the insertion to the re-read a second at most, so expiry cannot fall between
  them every time.
* `StreamCache`: slots pass, the loop reconnects, the provider sends what it has (weak).
  Losses are bounded, so the property is about a provider that stays reachable.
* `Discovery`: the tasks go on and the listener reconnects (weak); swaps of a traded coin
  and of others keep coming while it is connected (strong, since disconnections interrupt
  them).  Failures are bounded.
* `WsolWrap`, `TradeTransaction`, `RouteLayout` and `RouteQuote` state no fairness: they
  promise nothing about what must happen.

## 4. Proofs

All theorems hold under the assumptions of the constants, and three of the pipeline's
(`QueuedExactlyOnce`, `TotalsAgree`, `BookedForGood`) under the further condition `~Repeats`
that they state: `RiskConfig` is what
`validate_config` enforces, `Workload` says that no reported loss exceeds `WorstLoss`,
`WrapConfig` that amounts are natural and the wallet starts with the fee reserve,
`Transactions` that the legs of a plan are on different exchanges, that its floors do not
exceed its estimates, and that a direct plan can lose at most `MaxLoss`, which is the
definition of that constant.  `StreamConstants` orders the three windows as the code's
constants are ordered; `Queues` says that the eviction keeps no more than it tolerates
(64 and 128) and that estimates and fees are PnLs the tracker may be told;
`QuoteConstants` that pools, offers and rates are amounts and parts, and that the profit
asked for is positive, as `validate_config` demands; `DlmmConstants`, `PoolConstants`,
`DiscoveryConstants` and `CoinsAreCoins` say that tasks, pairs and coins are what they are
called and that bounds are natural.

* **`TradePipelineProofs`, the tracker**.  `LossTripsBreaker` is not inductive: a reset by
  `RollOver` while the breaker is on must keep the overshoot bound, and a trade booked while
  the breaker is off must find the loss within the limit before it.  `IInv` joins the type
  invariant, `LossTripsBreaker`, `BreakerIsTimed`, the overshoot bound with the exposure
  at the trip, the accounting, and two facts on the history variables (`quiet` never runs
  ahead of the timestamp; the exposure only shrinks under a tripped breaker).  From it
  follow `LossAlwaysTrips`, `BreakerAlwaysTimed`, `Overshoot`, `Accounted`, `DeadBranch`
  (the projected-loss branch of `check_limits` can never be taken) and the action
  property `QuietReopening`.
* **`TradePipelineProofs`, the pipeline**.  Every action of the pipeline is an action of
  `RiskTracker` or leaves its variables alone (`PipelineRefinesTracker`), so each theorem
  about the tracker holds in the pipeline: `PipelineLossBounded` states the one that
  matters.  The trades themselves take three invariants, each relative to the ones before.
  `Typed` relates the locals of the confirmation task: there are as many statuses as
  signatures asked for and no more than entries in the list, and the indices to remove
  ascend and lie behind the one being processed.  It gives `PipelineTyped`: no status,
  reorganization or garbled signature makes `process_statuses` index out of bounds.
  `QueuedOnce` says that each signature is in the hands of one party (`Staged`, `Queued`) and
  what the tracker and the table hold of it there (`Totalled`); it gives `QueuedExactlyOnce`,
  `TotalsAgree` and `BookedForGood`, and needs that no transaction is built twice
  (`~Repeats`): with `Repeats`, TLC finds the three violated.  `Landed` needs no such
  condition: what a block did is remembered in `seen` (`Remembered`), every entry has its row
  and its estimate, however often the transaction is sent (`Recorded`), and a status in hand
  is what some block did with the signature at its position among those asked for (`Polled`).
  It gives `BookedWhatLanded`, and `PipelineImplementsLedger` by a step-by-step mapping.  The
  ledger is strict where the code is: without `Repeats` nothing is settled twice (`Once`),
  without `Reorgs` there is one verdict, and only a trade queued behind a garbled entry may
  be given another's.
  The recursive functions
  over the list (what `swap_remove` leaves, what an eviction drops, the sum of the rows)
  are reasoned about by `BoundedInduction`, which is induction stated for a set instead of
  a predicate and is derived from the well-foundedness of `<`.
* **`WsolWrapProofs`**.  `OneHolder` needs that a busy call owns the flag and that no
  timer is running then.  `FeesKept` compares the wallet with what it held when the balance
  behind the latest wrap was read: `Before(mark)` is the present balance and what trades and
  fees took since.  While wraps do not overlap, one is in flight at most, and it, or the one
  being prepared, leaves the reserve within `Before(mark)` (`NoOverlap`); trades and fees do
  not change `Before`, a landing wrap takes its amount from it.  That the reserve itself
  stays whole does not hold and is not stated: the wrap's own fee comes out of it.
* **`TradeTransactionProofs`**.  What the router's last check compares was read several
  steps earlier, so its `IInv` carries facts from check to check: the snapshot equals the
  wallet found less the fee and the deposits (`Snapshot`), what is offered is what was
  received (`Tokens`), a direct plan is at risk for its investment until the sale
  (`AtRisk`), and what the last checks established (`Checked`).  `EmptyHolds` adds that a
  missing account holds nothing.  Then every step is shown to be a step of `AtomicTrade`
  or invisible (`StepSeen`), which gives `RefinesAtomic`, and from it the bound on the
  losses, `Bounded`.
* **`TradeTransactionProofs`, the layout**.  For any set of coins, any contents of the
  lookup table and any order it gives the keys.  The client pushes optional accounts
  and sends two counts, which it computes apart from the pushing; the router adds them to
  lengths of its own and takes accounts by the resulting positions.  An instruction is reasoned about as three sequences, the shared
  accounts and two sections (`Parts`, `Cuts`, `LaidOut`), and a section as one sequence
  whose places are known (`PumpPlaced`, `DlmmIs`) and which starts at a known position
  (`Lies`).  `BuySection` and `SellSection` say that the counts agree with what is pushed,
  `PumpIsWanted` and `DlmmServed` that a CPI takes from a section what the exchange wants,
  `DedicatedServed` that both dedicated routes pass every check but the one on missing bin
  arrays, and `GenericFound` that the second section of each generic route is where the
  router looks for it.  The invariant `AsPlanned` carries data and boundary of the builder's
  instruction through compilation, tip and signature; a list that recompilation has
  changed is the premise the two properties exclude (`AsBuilt`), and what then happens is
  section 5's `RecompilationPreserves`.
* **`RouteQuoteProofs`**.  The invariant is short (`Promised`): a quote that was sent is the
  one its reads give, passed the freshness check, and ended as the pools of that moment
  made it.  The rest is arithmetic, for all reserves, bins, fees and amounts.  Every formula
  of the client gives no less for more (`LegMonotone`, for the bins by induction along
  them: `FillMonotone`), and a constant-product leg gives no more than the curve through
  what is left after the fee (`LegSound`).  `NothingEmptyIsSent` follows backwards from the
  freshness check: a positive sale needs a positive floor, that a positive estimate, that a
  positive amount.  `SecondLegConserves` and `QuoteHonoured` follow from monotonicity,
  `ProfitNeedsSpread` from multiplying the two curves out (`NoGain`).
* **`StreamCacheProofs`**.  The freshness tests compare two numbers of the stream, so why
  they catch an interruption is a fact about all that is remembered: every slot in the
  cache is zero, or of the present stream, or older than its start by the whole sleep
  (`Slept`); of the present stream nothing was missed (`Complete`); the stream is ahead of
  the cache (`Ahead`).  A version old enough to have missed something is then too old for
  every test, which gives `NothingMissed` and `HashIsOfThisStream`.  `NeverGoesBack` needs
  that a replay is only asked for while the cache is empty (`FirstStream`).
* **`DlmmPoolsProofs`**.  Each save writes the whole map as it is at that moment, so
  the table can only be behind while some task has a save to come: `SavedMetadata`, for
  any number of callers in any order.  The invariant adds what a task carries from one lock
  section to the next.
* **`PoolCachesProofs`**.  A verification relies on reads of another task and of an
  earlier process; `Sound` says what a task at each stage may rely on, `EntriesOK` and
  `AddressesOK` the same of the caches.  `NoFalsePresence` follows from `Real` (what was
  read as a pool is one, since pools do not go away), `GuessesAreContention` from `Resolved`
  (where a PumpSwap pool was priced its address is known, or a lock was busy).
* **`DiscoveryProofs`**.  A restart reads back the table; it keeps the promise of
  `CoinBook` because memory and table agree on each coin but those the operator
  blacklisted since the start (`Agree`).  `RefinesBook` maps each step to one of the
  book or to a stutter.

Only model-checked: liveness (`BreakerReopens`, `LandedIsResolved`, `PhantomsVanish`,
`StaysVisible`, `CatchesUp`, `AddressHeals`, `PoolIsServed`, `FoundIsServed`,
`ListedAtLast`), which is out of the prover's reach.  Every invariant, action property and
refinement that a run checks is also stated by a theorem.

## 5. Where the code departs from its own words

`pipeline_evict` keeps one of these as a run: process_statuses removes with
`swap_remove`, so that eviction does not drop the older half (`confirmation.rs:203`
against `confirmation.rs:89`).

The following definitions state what a comment or a document says; the model, and hence
the code, does not satisfy them.  None is part of a run, but naming one in the
configuration of its module (with `Repeats` or `Reorgs` TRUE where the second column says
so) makes TLC print the trace.

| definition | module | what is said, and what happens |
|---|---|---|
| `DailyCapStops` | `RiskTracker` | `config.example.toml:44` "Maximum daily loss cap (SOL) — auto-stop when triggered": `check_limits` zeroes `daily_pnl_sol` after the cooldown (`risk/mod.rs:75`), so the cap is one per 30 minutes. |
| `BookedIsConfirmed` | `TradePipeline`, `Reorgs` | `confirmation.rs:4` "Once confirmed": a status of any commitment is booked (`confirmation.rs:116`). |
| `NoneIsUnprocessed` | `TradePipeline` | `confirmation.rs:118` "Not yet processed by the network, keep waiting": the query does not search the history (`confirmation.rs:70`), so a landed trade the node has forgotten looks the same and is polled until it is evicted. |
| `CountedOnce` | `TradePipeline`, `Repeats` | `risk/mod.rs:129` "correct PnL by actual result": an opportunity rebuilt on one cached blockhash is one transaction counted twice (`confirmation.rs:153`). |
| `FlagIsReleased` | `WsolWrap` | `main_loop.rs:503` "the next event retries the balance check": an early return keeps `WRAP_IN_FLIGHT` (`main_loop.rs:506`). |
| `EnoughIsEnough` | `WsolWrap` | `main_loop.rs:434` "has enough balance for the investment": the balance is converted to lamports twice (`main_loop.rs:461`). |
| `AccountIsCreated` | `TradeTransaction` | `main_loop.rs:456` "will be created by first TX's ATA create IX": an AMM plan closes the wrapped SOL account, a routed plan needs it and does not create it. |
| `EveryRouteIsServed` | `RouteLayout` | `README.md:36` "12 routes": of the ten generic routes nine are refused for every coin, by lengths, tick arrays or token programs that client and router count differently. |
| `RecompilationPreserves` | `RouteLayout` | `executor/atomic/mod.rs:238` "so recompilation preserves all accounts": looked-up keys are numbered in table order, not writable keys first, and the table's header is taken to be 32 bytes long (`sender.rs:185`). |
| `ReadAtOnce` | `RouteQuote` | `helpers.rs:36` "fresh reserves in one `get_account` call": two requests read the two vaults, between which the pool may move. |
| `GapBridged` | `StreamCache` | `grpc_stream/mod.rs:169` "Replay from last known slot to bridge disconnection gaps": a reconnection has no anchor left and starts live. |
| `AddressStays` | `PoolCaches` | `bonding_curve/mod.rs:46` "Pool addresses are immutable after creation, so entries never expire": a guessed address is inserted in the same map, and replaced later. |
| `BlacklistIsPermanent` | `Discovery` | `whitelist.rs:24` "permanently excluded": a row blacklisted while the bot runs is overwritten by the next listing or promotion of that coin. |

Met while reading, visible in the models or outside of them, without a definition:

* A submission whose answer was lost on both paths is never polled; `trades_pending`
  keeps counting evicted trades; a restart leaves rows `submitted` for ever; the timer
  allows a second wrap while the first is still in flight.
* A routed trade may gain one lamport and lose more to its fee and tip, which the router
  does not see (`builders_legacy.rs:122`); a curve plan sells its estimate of the tokens
  and can dip into older ones, although `pump_bonding_to_dlmm.rs:92` says it never sells
  more than what was bought.
* `rotate` (`rpc_pool.rs:56`) says it skips the failing endpoint; it adds 2 to a counter
  that `current` moved by 1, returns the next one, and other callers move the counter too.
* `is_opportunity_fresh` is true as soon as the stream has delivered anything, because vault
  balances are never among its accounts; `get_fresh_blockhash` tests 10 slots where its
  comment says 5 (`grpc_stream/mod.rs:93`).
* `cache_dlmm_lb_pair` tests only `mint_a` for being new (`dlmm/cache.rs:88` speaks of
  the mapping), so a new coin of a known quote may stay out of the table;
  `cleanup_stale_lb_pairs` takes a failed request for a closed pool, and the snapshot it
  writes was taken before the lock was dropped.
* Orca pools named by events are priced but never cached where builders look;
  `get_pool_state_by_mint` stops at the first negative entry; a vault that cannot be read
  gives reserves of zero that are cached like any others.
* `Whitelist::save` does nothing: every change writes its own row; a coin is marked
  profitable when it is submitted, not when it wins; a subscription that fails alone is
  only logged; a lookup table that could not be fetched is cached as empty
  (`sender.rs:168`).

## 6. What is not modelled, and why

* `executor/nonce.rs` and the submission path of `executor/sender.rs` are dead code in this
  build.
* `rpc_pool.rs`: which endpoint answers makes no difference to any model, since every
  request may fail.
* HTTP price polling, metrics, configuration parsing and the command-line tools are
  I/O without state that trading depends on; scripts under `scripts/` only drive a
  development network.
* Account and log parsing, PDA derivation and byte layouts are abstracted to what they
  name; the scanner's search is `f64` arithmetic without state, its outcome an arbitrary
  offer of `RouteQuote`; the AMMv4 cache is filled by nothing in this build.
* The direct AMM and curve plans are modelled as instructions (`TradeTransaction`), not
  their reads and quotes.

What could be added: the quotes of the four direct plans in `RouteQuote`; the Jito rate
limiter, whose timestamp is set before the request is made.
