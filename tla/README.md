# nodejs-pool in TLA+

A verification project for a mining pool: how a submitted share is judged,
stored and kept, how a found block becomes a record, how a record becomes
balances and how balances become wallet transfers, with the sessions and block
templates the pool needs for it. The modules are translated from `lib/`,
`manage_scripts/` and the table definitions of `deployment/base.sql`; TLC checks
them on small instances and TLAPS proves the properties of the payout state
machine for every instance.

    tlc -workers 2 -config MCPaymentsSplit.cfg MCPayments
    tlapm PaymentsProofs.tla

`PROJECT.json` lists the components, the runs, for every property a mutated
definition that breaks it, the source lines behind every definition, the
hazards and the theorems.

## 1. Inventory

### Parts and how they interact

    miner -> pool worker -> pool master -> remote_uplink --HTTP--> remote_share (cluster)
                                                                     |  shares -> shareDB
                                                                     |  blocks -> pending_blocks
                                           pending_jobs (primary) <--+
                                                |  header answered
                                                v
              blockDB / altblockDB --> block_manager --> block_balance, paid_blocks, balance (MySQL)
                                                                                  |
                                       wallet  <---- payments (planner, processor) <-+
                                                                |
                                                     payment_batch_unlock (operator)
    long_runner: cleans shareDB, block_balance, caches, alt blocks
    worker, pool_stats: statistics caches       api: read-only views, account settings

| Part | State | Operations | What is hard about it |
|---|---|---|---|
| payments (`lib/payments.js`, `lib/payments/*`) | `payment_batches`, items, `balance.pending_batch_id`, ledger; in memory the lock connection, fail-stop latch, the batch in hand | start, stop, cycle, lock, recover, submit, reconcile, finalize, plan, reserve | crash at any await, a lock that dies silently, wallet calls whose outcome is unknown, two runtimes overlapping |
| unlock tool (`manage_scripts/payment_batch_unlock.js`) | none of its own | release one batch, with or without attesting that the wallet sent nothing | races the runtime; trusts a wallet history that lags |
| block manager (`lib/block_manager.js`) | `block_balance`, `paid_blocks`, `balance`; in memory the id cache, full-stop latch, the list of the cycle | two unlockers, precalculation, payout | two stores without a common transaction, reorganisations between calls, stale copies of records |
| pending block jobs (`lib/remote_share/pending_jobs.js`) | `pending_blocks`; in memory orphan timers, bad-block marks, next due time | enqueue, sweep, resolve, retry, throttle, drop, close | resent frames, crash between record and removal, starvation, reorganisations |
| remote share (`lib/remote_share.js`, `share_store.js`) | share queue, reject latch | accept, flush, drain, stop | acknowledged work held in memory, cluster messages racing the latch |
| leaf uplink (`lib/pool/remote_uplink.js`) | send queue | post until 200 | at-least-once delivery |
| local database (`lib/common/local_comms.js`) | shareDB, blockDB, altblockDB, cacheDB | block edits, `cleanShareDB`, caches | deletes on the strength of an old read |
| long runner (`lib/long_runner.js`) | task timers | cleanups | races the block manager |
| pool process (`lib/pool.js`, `lib/pool/{lifecycle,state,messages}.js`) | workers, message registry | fork, broadcast, shut down | master and worker views diverge |
| templates and jobs (`lib/pool/{templates,jobs}.js`) | current and past templates per coin, jobs per miner | refresh, broadcast, validate | a job of an expired template, late refresh answers |
| shares (`lib/pool/{shares,share_blocks}.js`) | trust, verification queue, accumulated shares | verify, trust, accumulate, submit block | answers out of order, queue at its limit, block submit retries |
| miners (`lib/pool/{protocol,miners,miner_registry,servers,security}.js`) | sessions, per-wallet registries, bans, buckets | login, submit, keepalive, ban, expire | counters that leak over a session's life |
| statistics (`lib/worker.js`, `lib/pool_stats.js`) | caches | periodic aggregation | windows, notifications once per transition |
| API, coins, support, scripts, start-up | — | read-only views, byte conversions, RPC, e-mail | little state of their own |

### What makes each part correct

* payments: no batch is sent twice; a batch is settled with its own transfer
  only; a reservation is given back only when nothing was sent; pins and batches
  agree; nothing is sent that is not owed; what was sent is booked or escalated.
* block manager: only blocks that stay on the chain are credited, once, with
  what the reward allows; only orphans are dropped; no credit is lost; every
  rewarded block is paid in the end.
* pending jobs: an acknowledged block is never lost, never recorded twice, never
  written off while the chain has it, and is recorded in the end.
* share delivery and retention: a credited share is stored for each payee once,
  unless a process that held it is killed, is booked at the height of the first
  share of its frame, and is kept while a locked block's window may need it.
* share verification: a key is credited once per job or template, fake work is
  credited by the trust lottery only, a failed check reaches the shares queued
  behind it, every candidate is submitted, every share is answered.
* sessions: what a connection takes is given back once, counts do not drift, the
  ban audit misses nobody, no idle connection stays.
* templates and jobs: the newest known header is served, workers follow the
  master, a miner works on the newest template of its coin, a master that cannot
  follow its chain is restarted.

The hazards, each at its line, are in `PROJECT.json`.

## 2. Plan

Written, in this order:

1. `Payments`: payout state machine.
2. `BlockManager`: rewards to balances.
3. `BlockDelivery`: what is promised to the finder of a block, and
   `PendingBlocks`, which implements it: found blocks to records.
4. `PoolShares`: verification, trust and block submission.
5. `ShareDelivery`: from a credited share to the share table.
6. `ShareRetention`: the share cleaner against the windows of the payouts.
7. `PoolSessions`: connections, logins, bans.
8. `PoolTemplates`: templates and factors in master and workers, and `MinerJobs`:
   the coins and jobs of a worker's miners.

The proofs about a module `M` are in `MProofs`; those about `MinerJobs` are in
`PoolTemplatesProofs`.

Left:

9. `PayoutAbstract` (owed, sent once, settled), refined by `Payments`.
10. `BlockPath`: `PendingBlocks` composed with `BlockManager`, whose `Found` is
    then the former's recording step instead of an environment action.
11. `WorkerStats`: the statistics worker's notifications and cache writes.

## 3. Modules and the code

### Payments

One action is one query, one transaction or one wallet call and the local code
up to the next. `pc[r]` names the await a runtime `r` is at.

| Module | Code |
|---|---|
| `row`, `items`, `amount`, `pending`, `ledger` | tables `payment_batches`, `payment_batch_items`, `balance`, `transactions`/`payments` |
| `mem`, `cur`, `snap`, `plan`, `found` | batch object, recovery's snapshot, plan, wallet answer carried to a write |
| `lockOwner`, `conn`, `failStop` | MySQL `GET_LOCK` session, `state.lockConnection`, `state.isFailStop` |
| `Start`, `Stop`, `Crash`, `EnsureAdvisoryLock`, `CheckExclusiveAccess`, `LoseLock` | `payments.js` runCycle, start, stop, ensure/verifyAdvisoryLock |
| `RecoverPendingBatches` … `ReleaseBatchReservation` | recovery in `processor.js` |
| `SubmitReservedBatch` … `TransferReply` | submission: preflight, durable claim, transfer |
| `ReconcileBatch`, `FindWalletTransferMatch`, `PersistSubmittedBatch`, `FinalizeBatch` | reconciliation and finalization |
| `PlanBatches`, `VerifyBeforeReserve`, `ReserveBatch` | `planner.js` |
| `UnlockStart`, `AssertWalletHistoryClear`, `UnlockBatch` | `payment_batch_unlock.js` |
| `ExecuteTransfer`, `RevealTransfer`, `RejectTransfer`, `CreditBalance` | wallet (external) and the block manager's credit |

Abstractions. Timestamps are flags; `submitted_at` is set with the hash. The
timestamp filter of `transferMatchesBatch` admits the batch's own transfer and
may or may not admit an equal foreign one. The 31-day lookback is not modelled:
histories are complete once revealed. Grouping, thresholds and fees of a plan
are any amounts the rows showed when the plan was read. The total-fee
plausibility test cannot fail for amounts the planner made. Retries of the
post-submit search are one scan, merged with the tx-key lookup. A query that
fails after its effect is the effect followed by `SqlError` at the next
point of control. A crash frees the MySQL session at once. Reconcile counters,
the last-cycle cache, e-mails and log lines are left out.

### BlockManager

| Module | Code |
|---|---|
| `blocks` | records of `blockDB` and `altblockDB` |
| `rows`, `paid`, `acct` | `block_balance`, `paid_blocks` (hex unique), `balance` |
| `cache`, `isFullStop`, `mem` | `balanceIdCache`, `isFullStop`, locals and list of the cycle |
| `GetTopBlockHeight`, `SkipMain`, `HeaderByHeight` | `runBlockUnlocker` |
| `SkipAlt`, `AltHeader`, `AltByHeight`, `AnchorHeader`, `AnchorsDone` | `runAltblockUnlocker`, `handleAltBlock` |
| `PrecalcDelete`, `PrecalcInsert`, `MarkReady` | `preCalculatePPLNSPayments`, `replaceBlockBalanceRows`, `preCalculateAndMark` |
| `HeaderByHash`, `SumBefore`, `LoadRows`, `ResolveBalance`, `CreditBalances`, `SumAfter` | `executePayout`, `doPPLNSPayments` |
| `CollectLocked` … `DeleteStale` | `cleanBlockBalanceTable` of the long runner |
| `PaySet`, `MarkUnpaid`, `Relock`, `Revalidate`, `ReadyReset`, `RewardFix`, `DeleteUser` | operator scripts |
| `NewTop`, `Reorg`, `Found`, `Exchanged`, `Debit` | daemon, pending jobs, exchange, payments |

Abstractions. `init.js` starts one process with one chain of cycles, so
`paymentInProgress`, `inFlightPrecalc` and `pendingBalanceLookups` are free
whenever they are tested. Only the block manager inserts balance rows, so the
full stop on multiple rows of an account cannot be reached. The 24 parallel
balance lookups are sequential in any order. A query in flight at a crash lands
before the queries of the restarted process. The share scan is any split of
`Window` parts. A key is recorded once (the replacement of a tombstone is in
`PendingBlocks`). `moveAltBlockReward`, the pay-stage texts and alt-block pruning
are left out. `CleanGap + LateFind <= ConfirmDelay` in the runs is the cleaner's
timing: the seconds between its queries are less than the minutes between a
found block and its precalculation.

### PendingBlocks

| Module | Code |
|---|---|
| `leaf` | the uplink's task for a frame (`sendUntilSuccess`) |
| `jobs`, `due` | `pending_blocks` ordered by `nextAttemptAt`, the prefix that is due |
| `gate` | `state.nextDueJobCheckAt` |
| `work`, `resolved` | jobs of the sweep; recorded but not yet removed |
| `orphanSince`, `maybeBad`, `bad` | the maps of the same meaning |
| `Receive` | `handleLeafFrame`, `enqueuePendingJob` in a cluster worker |
| `Sweep` | `processDueJobs`, `selectJobsForProcessing` |
| `AnswerOrphan`, `AnswerReward`, `AnswerShallow`, `AnswerNothing` | callbacks of `processBlockJob`, `processAltBlockJob` |
| `SaveResolvedBlock`, `SaveResolvedAltBlock`, `SaveDrop` | recording with key probing, removal |
| `RejectWrites`, `Stop`, `Closed`, `Start`, `Crash` | reject mode, shutdown, restart |

Abstractions. Time is an order: a retried job goes anywhere behind the due
prefix, and to the end after the longest delay, the stale one. Which jobs are
older than the stale age is the constant `Old`. A worker's enqueue does not
reset the primary's `gate`, as in cluster mode. A frame that is lost or refused
changes nothing and is no action. The orphan grace is assumed to outlast
reorganisations (`GracePasses` needs a settled block); it starts again with the
process. A header callback that throws ends the process (`Crash`). The 100-job
load limit, malformed frames, the 12-hour limit of `orphanSince`, e-mails and
round-hash caches are left out. Two main blocks of one height are possible in
the module; the run's instance has one.

`BlockDelivery` is the promise: a block is kept before its sender is told so and
leaves the queue only into the tables, under its key, or by being dropped.
`PendingBlocks` maps its state with `Place` (job store, block tables, history of
drops) and the told blocks with the uplink's finished tasks (`ImplementsDelivery`).

### PoolShares

One pool worker. JavaScript runs one callback at a time, so an action is a
callback with everything it calls synchronously; what waits is the `stage` of its
share, or an entry of `asks` where it is not the share that waits.

| Module | Code |
|---|---|
| `sess`, `wal` | trust of a session and of a wallet, `checkBan` counters, `last_ver_shares`, verifier tasks |
| `gate` | `trustVerificationGates`: `inFlight`, `queue`, `draining`, `forceVerify` |
| `keys` | reserved submission keys of jobs and of the template |
| `Submit`, `SubmitRefused`, `Answer` | submit handler and its completion callback in `protocol.js` |
| `Verify`, `VerifySpecial`, `Complete`, `Finish`, `Drain`, … | `shares.js`: pipeline, special verifiers, gate |
| `HashStarts` … `HashArrives` | `slowHashAsync` of `coins/index.js`: queue, expiry, timeout, host failure, retry |
| `SubmitOutcome`, `BlockAccepted`, `BlockRefused`, `BlockReplyLost`, `BlockResent` | `share_blocks.js` |
| `asks`, `AskAlso`, `AskStarts`, `AskExpires`, `AskAnswered`, `AskEnds`, `MailDue` | hashes asked for besides a share's own: by `shouldNotifySubmitFailure`, `getBlockSubmitDiffMessage`, `sendSubmitFailureEmail` and `verifyExtraWalletHash` |
| `Disconnect`, `BanWallet`, `ResetWindow`, `CheckNextShare`, `TemplateExpires` | what happens around a share |

Abstractions. What a share contains is fixed on arrival: the targets its claimed
hash reaches and whether the claim is true. All shares have one reward, so trust
is counted in shares; the two trust thresholds and the random draw decide as in
`isSafeToTrust`. `kind` names the verifier the coin's profile selects. A trust key
is a wallet. The hash bytes, the difficulty arithmetic and the statistics are
left out. Verifier hosts are configured (`verify_shares_host`); without them a hash
is computed in the same callback and no count is taken.

A block that is finally refused makes the code ask for one more hash, which takes a
place in the wallet's verifier count (`miner_address_verify`): a trusted parent's
before its trust is reset and its caller called back, the others for the mail two
seconds later; a submission without a usable reply asks for one before its caller
is called back; and a trusted share of a wallet in `extraWalletVerify` (the constant
`Watched`; its reload is left out) asks for one beside its delay. A refused main
block of the coin `""` is retried once; the module gives that choice to shares of
kind `standard` and takes the child of a merged-mined pair for another coin. An
unusable reply is retried on every chain. The second submission of dual display
ports and the suppression of mails in test mode are left out.

### ShareDelivery

| Module | Code |
|---|---|
| `acc`, `named`, `finalizer` | `walletAcc`, `walletWorkerCount`, `isWalletAccFinalizer` of a pool worker |
| `frames`, `requests` | share frames and their posts by the master's uplink |
| `front`, `primary` | receiver processes: reject flags, messages, `shareQueue`, timer, drain, stop |
| `rows`, `counted` | share rows in LMDB, totals in the cache |
| `RecordShare`, `Finalize`, `AccAges` | `recordShareData`, `walletAccFinalizer` |
| `StartPost`, `Retry`, `PostTimesOut`, `PostFails`, `Answered` | `sendUntilSuccess` and its slots |
| `FrontHandles`, `PrimaryReceives`, `Flush`, `FlushFails`, `Drain`, `TimerIdles` | `remote_share.js`, `share_store.js` |
| `FrontCrash`, `ReceiverCrash`, `ReceiverStops`, `ReceiverStarts`, `PoolWorkerCrash`, `PoolCrash` | process ends and starts |

Abstractions. A share is a number worth one unit; a frame is its encoded row
(shares, height, name and payee) and nothing else, so its copies are equal and the
table, which sorts duplicates, keeps one. `frames` maps each frame made so far to
the place of its task. One wallet
stands for all: accumulators of different wallets share no state. The age of an
accumulator is a flag set by an action; a full one is flushed by the next share, as
an old one is. A share's height is that of its own template (`dbJobHeight`), any
height in any order, so a late share may join an accumulator that was opened at a
later one, and does not change its height.

A front that dies takes with it what the primary has not read: its listener is
removed on `exit` (`remote_share.js:509`, `:615`), and what the front had not sent
is gone. Those frames are counted as `dropped`, with those of a dead receiver. A new
front is forked unless `stop()` is under way.

### ShareRetention

| Module | Code |
|---|---|
| `vol`, `gone` | volume per height, heights deleted |
| `blocks` | found, recorded, with precalculated rows |
| `cl` | `cleanShareDB`'s locals and `cleanShareInProgress` |
| `StartClean` … `DeleteBatch` | `cleanShareDB`, its header requests, retries, scan and deletes |
| `Window`, `PreCalc` | `collectPplnsSharePayments` and the precalculation's use of it |

Abstractions. Volume is in units of difficulty, time is the chain's height.
`Timely` is the environment's pace and `SlackAssumption` what makes it enough: the
cleaner counts two windows of its difficulty, a payout needs one of its own, and
the volume the cleaner counts above the payout is at most `Late`. A header answer
that never comes is a request that fails.

### PoolSessions

| Module | Code |
|---|---|
| `con` | socket, TLS state, reservation, timers, final reply, extranonce ids |
| `who`, `older` | miner of a socket, the order of `activeMiners` |
| `byIp`, `bySubnet`, `delayed`, `free`, `direct`, `proxy` | the counters and pools of the same meaning |
| `bans`, `mail`, `audit` | ban tables, ban messages, the running audit |
| `Accept` … `FinalEnds`, `Close` | `servers.js` |
| `Login`, `Subscribe`, `RefuseRequest`, `BadShare`, … | `protocol.js`, `miners.js` |
| `AddActiveMiner`, `RemoveMiners`, `StartAudit`, `InBatch`, `AuditBatch` | `miner_registry.js` |
| `BanArrives`, `ReloadBans`, `ShortBansEnd`, `LongBansEnd` | `messages.js`, `lifecycle.js` |

Abstractions. A connection is a slot that is used again after its close event.
Request contents, buckets and the quality of a share are choices. The insertion
order of the Map `activeMiners` is the set of earlier sessions of each session; the
audit's iterator is the set of sessions it has passed, and its next turns reach
those with the fewest unpassed sessions before them. A loop that removes miners one
after the other is one removal of them all: the decrements stop at zero in both.

### PoolTemplates

| Module | Code |
|---|---|
| `newF`, `lastF`, `head`, `polls`, `fetches`, `grace`, `failing` | the master's tables in `templates.js` |
| `tmpl`, `mm`, `ipc` | templates and factors per process, messages to a worker |
| `TemplateUpdate`, `HeaderArrives`, `TemplateArrives`, `TemplateFails`, `RetryTemplate` | `templateUpdate`, `templateUpdate2` |
| `UpdateCoinHashFactor`, `GraceEnds` | factor updates and failure timers |
| `Publish`, `Receive` | `templateUpdate3`, `setNewBlockTemplate` and `setNewCoinHashFactor` in master and worker |
| `Monitor`, `WorkerCrash`, `StartWorker`, `OwnTemplate` | `lifecycle.js` |

Abstractions. A block is its height; a factor is 0 or 1. A template of the height
its receiver has may be the very one (`idHash`), which is then ignored with the
factor it carries, or another one. Reorganisations to a lower height,
merged-mining children and coins whose header answer is the template are left out.

### MinerJobs

| Module | Code |
|---|---|
| `work`, `factor` | `activeBlockTemplates`, `lastCoinHashFactorMM` of the worker |
| `session` | a miner's coin, algorithms, difficulty, `cachedJob` and `jobLastBlockHash`, and the job its client holds |
| `Fits`, `Offers`, `Keeps`, `Best`, `Taken` | `selectBestCoin` in `miners.js` |
| `Hit`, `Noted`, `Built`, `Unbuilt`, `CoinJob` | `getCoinJob` in `jobs.js`: the cache, the note, the build and its null returns |
| `NewTemplate`, `NewFactor`, `Notify` | `setNewBlockTemplate`, `setNewCoinHashFactor`, `notifyBestCoinMiners`, `notifySameCoinMiners` |
| `Login`, `GetJob`, `RefusedGetJob`, `NativeGetJob`, `Resend`, `Leave` | `protocol.js`, `miner_registry.js` |

`PoolTemplates` says how templates and factors reach a worker; `MinerJobs` lets any
of them arrive at any moment and follows what each miner is given. A miner without
a coin stays, with the job it has: only a `mo-native` session is ended then
(`protocol.js:805`). A refused `getjob` leaves its overwritten algorithms behind
(`miners.js:291`). The template is noted before the job is built, so a job that
cannot be built is not tried again before the next template.

Abstractions. An algorithm stands for the coins mined with it. Which measured coin
pays best and whether `algo_min_time` has passed is a choice; a miner's difficulty
is low or too high for an easy template (the 3-fold exclusion), and any retarget is
possible whenever a job is built. The layout of jobs is left out.

## 4. Runs

| Run | Shows | Instance |
|---|---|---|
| `split` | `TypeOK`, `AtMostOneTransfer`, `LedgerBooksOwnTransfer`, `OnlyOwedIsSent`, `FreedNeverSent`, `OnlyBatchMoves` | two runtimes that overlap after a lost lock, crashes, plain unlocks, one row, two batches |
| `attest` | `PinsMatchBatches` | one runtime, every fault, attested unlocks, two rows, a credit while pinned |
| `live` | `SentIsSettled` | crashes and lost SQL answers |
| `rewards` | `PaidOnMainChain`, `OnlyOrphansDropped`, `BalancesAddUp`, `UnlockedIsPaid` | a main block and two alt blocks of one anchor group, a reorganisation, one fault, debits, deletions, edited records |
| `paid_in_the_end` | `PayableHasRows`, `NeverOverCredited`, `EventuallyPaid` | a main and an alt block, the cleaner, relocking, one fault |
| `found_blocks` | `RecordedOnce`, `OnlyOrphansFinalized`, `EventuallyRecorded`, `ImplementsDelivery` | a contested main block, two alt blocks of one port that want one key, one of them stuck |
| `trust` | `SuspectsAreChecked`, `CreditedOnce`, `CreditedBlockIsSubmitted` | three shares of two sessions of one wallet, child blocks, broken shares, one event (ban, disconnect, …) |
| `settled` | `CountersMatchWork`, `FakeOnlyByTrust`, `EventuallySettled` | two shares of one watched wallet: a session of special coins, a standard one, fake claims, main blocks, a template shared by both, hashes of the pool's own |
| `share_delivery` | `CreditIsConserved`, `AckedIsKept`, `PaidOnce`, `BookedAtFirst`, `EventuallyStored` | two shares of any of two heights, of two rigs, accumulators of two shares, one of them named, two fronts, one send slot, two faults of any kind |
| `sessions` | `ResourcesMatchSockets`, `WorkerCountsDoNotDriftUp`, `AuditMissesNobody`, `EveryoneIsOnAClock` | two connections, one from loopback, one wallet, every limit 1 except the subnet's |
| `templates` | `HeaderIsServed`, `FrozenIsNoticed`, `WorkersAgree`, `JobIsCurrent` | one worker, main coin and one alt, two requests under way, two unread messages, two events; and one miner of such a worker with templates of two difficulties |
| `retention` | `WindowIsWhole`, `EventuallyPruned` | five heights, two difficulties, a main and an alt block, one fault |

Why the bounds are enough. Two batches on one row are the least for a stale plan
to reserve again, and for a foreign transfer with equal destinations; two
transfers the least for a double send. Two runtimes suffice for the lock, which
has one owner. A window of two parts gives even, uneven and vanishing shares of a
reward; blocks on a chain a few blocks longer than the largest delay meet every
test at its boundary and the next value. One fault per run of the block manager
and of the pending jobs hits every await, since the checker tries each. A stuck,
stale alt block in front of a live one with a limit of one stale job per sweep is
the tightest throttle. Three shares of one wallet are one in verification, one in
a queue of one place and one that finds it full; two nonces repeat a key. Two
faults in the delivery of a share are the timeout that makes a frame be sent again
and the death of a process that has the first copy. Two connections at limits of
one contend for every limit; a third only repeats the second. Two requests of the
master are a late answer and the newer one that overtakes it. Miners do not share
state, so one is enough for its job; the two instances of `templates` share no
variable either and are explored side by side (`MCPoolTemplates`), not interleaved.
A verifier limit of one is met by one share's own hash and one the pool asks for
itself. Difficulties 2 and 3
with `Late` 1 meet `SlackAssumption` with equality.

Deadlock is checked where a process can always be stopped or started again. It is
not in `trust`, `settled`, `share_delivery` and `sessions`: there the bounded
shares, faults and events run out and the system rests.

The `TypeOK` of the other modules is kept for reading and for the proofs; in the
runs the stronger invariants stand for it.

### Fairness

* `Payments`: the process manager restarts a crashed runtime and the interval
  timer starts cycles (WF); each step of a cycle that is reached again and again
  succeeds at some time although single attempts crash or fail (SF), which is
  the assumption that MySQL and the wallet are not down for ever; a transfer the
  wallet carried out is listed in the end (WF). `live` has no lost lock and no
  operator: a lost lock fail-stops the runtime until somebody restarts it by hand,
  and an operator may release what the cycle would have settled.
* `BlockManager`: restart (WF), restart by the operator after a full stop (WF),
  cycle steps (SF), the main chain grows (WF), a started cleaner goes on (WF),
  the exchange values an alt block (WF). Operators' edits, faults and
  reorganisations have none.
* `PendingBlocks`: the receiver's steps, the next check time and the restart of
  a rejecting receiver (one WF over all of them), grace timers and the end of
  reorganisations (WF), and each job that is not stuck becomes due (WF).
* `PoolShares`: one WF over the steps of all shares and tasks: a verifier task
  starts, ends or times out, a delay's timer fires, an RPC call is answered or fails, the event
  loop runs what `setImmediate` queued. No share is favoured; since each makes
  finitely many steps that is enough.
* `ShareDelivery`: one WF over everything that moves on by itself: timers, posts
  and their retries, messages, flushes, the restart of the receiver.
* `ShareRetention`: WF over the cleaner: the long runner starts a cleanup every
  four hours and the daemon answers some of them.
* `PoolSessions`, `PoolTemplates` and `MinerJobs` state safety only.

### Observations

Behaviour of the code the models show, or that reading it for them showed, which
no property forbids.

* Payments: the attestation check scans the wallet once
  (`payment_batch_unlock.js:276`); a transfer carried out but not yet listed is
  missed and its batch released. `FreedNeverSent` is therefore stated without
  attested unlocks.
* Block manager: `SUM` over an empty `balance` table is NULL and full-stops the
  first payout (`block_manager.js:361`), again after every restart. `isFullStop` is
  tested when an unlocker starts, so the rest of its list is still credited
  (`:852`), though the log line at `:150` says "balance credits
  disabled until restart". A payout
  committed but not acknowledged leaves its block locked until an operator unlocks
  it; a record unlocked by `block_mark_unpaid.js` during a cycle is still paid
  from the cycle's copy.
* Pending jobs: a missed reward, another resolved block of the port and a second
  miss drop an alt block the chain has (`pending_jobs.js:784`).
* Share verification: a block whose accepting reply was lost and whose
  resubmission is refused is not stored (`share_blocks.js:469`); the rate limit
  throttles a share before anybody sees that it is a block (`shares.js:592`); an
  exception thrown by the callback of a local hash calls it a second time
  (`coins/index.js:938`).
* Share delivery: a frame posted again is one row but is added twice to the cached
  totals, which only the statistics read; a late share that joins an accumulator of
  a later height is booked above its own (`shares.js:495`); a frame answered with
  200 is lost with the front that took it as well as with the primary.
* Sessions: `removeMiner` decrements the wallet's worker count also for sessions
  that were never counted (`miner_registry.js:187`), so a count may be too low and
  the limit too generous; a socket that was ended waits for its peer without a
  deadline (`:170`).
* Templates: a fetch that began before a coin was switched off and on publishes
  and leaves `lastCoinHashFactor` at 0 (`templates.js:375`); a coin switched on
  again serves its old template until the next one (`:447`); a worker's own first
  fetch of the main template may overwrite a newer one (`lifecycle.js:629`); before
  the first template the health monitor never exits. A template with the `idHash` of the
  active one is ignored with its factor (`:594`), by the master although a restarted
  worker takes it: until the next factor or template the two differ (`split`), and if
  the coin is switched off before that, the master, which has it as off, tells
  nobody and it stays on in that worker.
* Jobs: a `mining.authorize` session that logs in while no coin is live waits
  without a job, and a template that changes no factor does not reach it, for it has
  no coin (`templates.js:492`). A job that could not be built is noted all the same
  (`jobs.js:128`), so with an older cached one the miner is told that there is
  nothing new until the next template. A refused `getjob` leaves algorithms that
  nobody checked (`miners.js:291`); a template or factor may then pass the miner by.
* Retention: `altblock_pay_ready_reset.js` reopens the precalculation of a block
  whose window may be gone; an alt block that is never valued keeps every later
  share.
* Statistics worker (not modelled): a failed cache write after a worker went down
  and up again may mail a stop that is over; the totals of a miner are read and
  written back in two steps; statistics written before the set of miners are
  repaired, after a crash between the two, only by the cleaner a day later.

## 5. Proofs

Every theorem holds for every value of the constants that meets the named
assumptions of the module, which TLC evaluates on each run, and the hypotheses
given here.

### Payments

`PaymentsProofs` proves, for any number of runtimes, rows, batches and transfers,
any set of faults and any unlock modes (`FreedNeverSent`: without attested ones):

| Theorem | Property |
|---|---|
| `TypeCorrect` | `TypeOK` |
| `NeverSentTwice` | `AtMostOneTransfer` |
| `PinsCorrect` | `PinsMatchBatches` |
| `ReleaseIsSafe` | `FreedNeverSent` |
| `StatusesMoveAsDocumented` | `OnlyBatchMoves` |

Assumptions: the module's `RuntimesAssumption` (the names of the lock's other
owners are no runtimes) and `BoundsAssumption` (the bounds are naturals).

The inductive invariant is

    Inv == TypeOK /\ MemOK /\ StartedOK /\ SendOK /\ ReleaseOK /\ PinsMatchBatches

None of the properties is inductive alone. `AtMostOneTransfer` holds because the
claim compares the row's status with the copy the cycle made, and that copy was
`reserved` or `retrying` (`MemOK`); so a batch about to be sent has left those
statuses in the database and can never be claimed again, by this runtime, by one
that lost its lock or by one restarted (`SendOK`). The lock plays no part in that
argument: the theorem holds for runtimes that all believe to own it.
`ReleaseOK` carries the same comparison to the two releases: recovery's, which
needs a batch that was never claimed, and the tool's, whose transaction tests the
status again. `StartedOK` (a `reserved` row has no `submit_started_at`) is what
makes recovery's classification of a loaded row sound. `PinsMatchBatches` is
inductive beside these since reservation, finalization and release change pins
and status in one transaction. `OnlyBatchMoves` follows from `Inv` step by step:
each guarded write starts from the status its copy shows.

The proof has one lemma per group of actions and per part of the invariant
(`LifecycleTyped`, `SubmissionTyped`, …); facts used in several places, such as
the types of the row updates, are lemmas of their own.

About the money that is moved, without attested unlocks:

| Theorem | Property |
|---|---|
| `LedgerIsTrue` | `LedgerBooksOwnTransfer` |
| `NeverOverpaid` | `OnlyOwedIsSent` |

Attested unlocks are excluded because they may release a batch whose transfer the
wallet does not list yet (see Observations). `LInv` follows a transaction hash from
the wallet's answer through a runtime's copy into the row and the ledger: the hash
stored with a batch is that of its own transfer (`RowHashOK`, `MemHashOK`,
`FoundOK`). A foreign transfer that pays the same is of a batch with the same
accounts, which the pins say is settled already; it is finalized with that very
hash, and the uniqueness of hashes refuses it. `MInv` is about the
balances. A batch that was claimed, or that a runtime is sure to claim, is covered
by the balance rows (`CoverOK`). Only the lock keeps two such batches apart, so
`LockOK` says what its owner knows (every batch that may still be paid is in its
snapshot, is the one in its hands, or is a reservation that nobody will submit) and
`PlanOK` that a plan fits the balances as long as the lock under which it was read
is held. Every action of a runtime is put in one of seven forms (`Ends`, `Goes`,
`Clears`, `Loads`, `Picks`, `Plans`, `Reserves`), and the parts of the invariant
follow from those.

### Block manager

`BlockManagerProofs`, for any blocks, accounts, rewards, delays and bounds:

| Theorem | Property | Hypothesis |
|---|---|---|
| `PaidOnMainChainHolds` | `PaidOnMainChain` | `DelaysOutlastReorgs` |
| `OnlyOrphansDroppedHolds` | `OnlyOrphansDropped` | `DelaysOutlastReorgs` |
| `UnlockedIsPaidHolds` | `UnlockedIsPaid` | none |
| `NeverOverCreditedHolds` | `NeverOverCredited` | none |
| `PayableHasRowsHolds` | `PayableHasRows` | `DelaysOutlastCleaner`, `NoRevival` |
| `BalancesAddUpHolds` | `BalancesAddUp` | none |

`DelaysOutlastReorgs` is what the delays are for: no reorganisation reaches a block
at which the unlocker looks. `DelaysOutlastCleaner` is the cleaner's timing of
section 3. `NoRevival` leaves out the scripts that unlock an unpaid block or make an
invalid one valid again: the cleaner may have deleted its rows meanwhile. The runs
that check the properties meet these hypotheses.

A cycle decides on a height it asked for earlier and on copies of the records,
while reorganisations, scripts and the cleaner go on. `BaseInv` says what those
copies are worth: the height bounds the chain's from below (`TopReached`), so the
block in work is deep (`CurIsDeep`), and past the payment it is paid (`CurIsPaid`).
`ChainInv` adds that what was paid or dropped is out of the reach of a
reorganisation, hence is so for good; the properties alone say only what the chain
shows now. `CreditInv` carries a reward to the balances: the copy to pay is not
credited yet (`UnpaidUncredited`), its reward is the record's (`RewardChecked`), and
the rows are those of one split (`SplitStored`). That the floors of the parts of a
reward add up to no more than the reward is the lemma `RoundedDown`.
`RowsInv` is about the cleaner, which collects the locked blocks, then the row
groups, and deletes later: a group it may delete belongs to a block that had left
the locked ones for good when it looked (`StaleIsOver`), and what it has not seen
yet is too young to have rows (`KeepIsEnough`, `RowsAreDeep`).

`BalancesAddUp` equates a sum over the accounts with a sum over the blocks. What a
sum is after one summand or all have changed is proved from the fold that defines it
by induction over finite sets, as a minimal counterexample in the well-founded order
of their strict subsets. A credit could then miss only what it adds to a row that
does not exist: `SumInv` says that the ids are cached when the credit is reached
(`RecipientsCached`) and that ids are not used again, so an `UPDATE` by the id of a
deleted row changes no row, and the transaction is refused.

### Pending blocks

`PendingBlocksProofs`, for any blocks, keys, limits and faults:

| Theorem | Property |
|---|---|
| `TypeCorrect` | `TypeOK` |
| `RecordedOnceHolds` | `RecordedOnce` |
| `OnlyOrphansFinalizedHolds` | `OnlyOrphansFinalized` |
| `Implementation` | `ImplementsDelivery`: every step is a step of `BlockDelivery` or a stutter |
| `ProbingEnds` | the key probing of `saveResolvedAltBlock` finds a slot |

`IInv` joins to these that a sweep is a part of the job store without repetition
and that a resolved job is in the tables (`SweepInStore`): that is why a removal is
a step of the abstract specification and no loss. `ProbedFrom`: every slot between
the key a block asked for and the one it has is taken, and not by the block itself.
Probing that starts again after a crash or for a repeated frame therefore passes
those slots and ends at the block's own. `GraceIsLong`: a block whose orphan grace
is over is settled.

### Shares

`PoolSharesProofs`, for any number of sessions, wallets, nonces and shares and any
limits of the gate, the verifier and the retries:

| Theorem | Property |
|---|---|
| `CountersMatchWorkHolds` | `CountersMatchWork` |
| `SuspectsAreCheckedHolds` | `SuspectsAreChecked` |
| `CreditedOnceHolds` | `CreditedOnce` |
| `CreditedBlockIsSubmittedHolds` | `CreditedBlockIsSubmitted` |
| `FakeOnlyByTrustHolds` | `FakeOnlyByTrust` |

The only assumption is the module's `PoolSharesAssumption`. `IInv` is `Good` of the
current state. `KeysOK`: a share holds its keys while it is checked and once it is
credited, and no two shares hold the same, so a key that a throttled share gives
back is nobody else's. `Local` says per stage what a share must not lose on the way
to its answer: one that waits in the queue reaches no chain's target, one that waits
for a hash knows which path asked for it (`Asking`), one whose submission is under
way was sent. `Checked` adds for a share of an invalidated generation that only a
verification can still credit it; while it is queued, the gate forces that (`ShareOK`).
`Gates` is `CountersMatchWork` with the order of the queue (`Lines`). The verifier's
count (`Tasks`) is that of the shares that wait and of the waiting entries of `asks`
(`AskWaiting`), which outlive their share: it is answered while the hash for a mail
is still to come. Each step of `asks` is put in the form `Reasked`, and
`ReviseKeeps` says what a change of one entry does to the count.

A callback runs through several functions before the invariant holds again: the
verifier's task is over but the gate still counts it, the queue's head has been
answered but the drain is still marked. `Loose(S, p, f, asleep, idle)` is the
invariant of such a state: the shares `p` are in hand (`InHand`) and no longer tasks,
the gate does not count `f` any more, a wallet in `asleep` may have a queue that
nobody drains yet, one in `idle` a mark without a share. Each operator of the model
has a lemma that says which of these it takes and which it leaves, and an action is
their chain: `FinishVerification` and `Drain`, which end `f`, `asleep` and `idle`,
are the lemmas at which a wrong order of the calls would show.

### Share delivery

`ShareDeliveryProofs`, for any number of rigs, payees, fronts and slots and any set
of faults:

| Theorem | Property |
|---|---|
| `TypeCorrect` | `TypeOK` |
| `CreditIsConservedHolds` | `CreditIsConserved` |
| `AckedIsKeptHolds` | `AckedIsKept` |
| `PaidOnceHolds` | `PaidOnce` |
| `BookedAtFirstHolds` | `BookedAtFirst` |

`Conserved` locates each share: in one accumulator (`OneHolder`), or in one frame of
each payee (`OneFrame`, `EveryPayee`), never in both (`HeldOrMade`), or lost with its
process (`Placed`). `Arrives` follows the frames from the answer to the table; what
it needs about the stop of the receiver is that the drain begins when no front has
a message under way (`DrainedIsEmpty`). What a step does to the accumulators is
first put in the form `Moves`: which are kept, which are flushed, which are lost.
`HeldAtFirst` says of the accumulators what `BookedAtFirst` says of the frames: the
height of each is that of its first share, for a share that joins comes later and
leaves the height alone.

### Share retention

`ShareRetentionProofs`, for any heights, volumes, difficulties, blocks, delays and
batches:

| Theorem | Property |
|---|---|
| `TypeCorrect` | `TypeOK` |
| `WindowIsWholeHolds` | `WindowIsWhole` |

The assumptions are the module's: `SizeAssumption` (the difficulties are finitely
many, the first anchor is a height) and `SlackAssumption`; and the environment keeps
to `Timely`, which is a guard of its actions and which the cleaner's and the block
manager's actions are shown to keep. `WindowIsWhole` says nothing of heights that
are about to be deleted nor of blocks that are not recorded yet, so it is not
inductive. `IInv` speaks of both: above every height that is deleted or on the
cleaner's list lie two windows of the cheapest difficulty (`Counted`), and between
it and the payout height of every block that waits, recorded or not, lies one of the
dearest (`Covered`). The first is established by `scanShares` and lasts because
neither the chain nor the volume shrinks. The second follows from the first for a
block the cleanup did not know of (`CoverNewNext`, `DoomedIsCovered`): at most `Late`
of what was counted lies above its payout height (`Reach`). A window over what is
stored then agrees with one over what was ever stored, because above the highest
deleted height both are the same and already full (`WindowSame`). The sums over
heights have lemmas of their own (`TotalWider`, `TotalJoin`, `TotalGrows`,
`TotalSame`), from those about sums over any finite set.

### Sessions

`PoolSessionsProofs`, for any number of connections, addresses, subnets and wallets
and any limits:

| Theorem | Property |
|---|---|
| `TypeCorrect` | `TypeOK` |
| `ResourcesMatchSocketsHolds` | `ResourcesMatchSockets` |
| `WorkerCountsDoNotDriftUpHolds` | `WorkerCountsDoNotDriftUp` |
| `AuditMissesNobodyHolds` | `AuditMissesNobody` |
| `EveryoneIsOnAClockHolds` | `EveryoneIsOnAClock` |

The only assumption is the module's `PoolSessionsAssumption`: the connections are
finitely many, a batch of the audit and the proxy limit are not empty, and the
names of connections, addresses and wallets are told apart. `IInv` is `Good` of the
current state. `SlotOK` ties a socket's fields to each other and to its miner (a
slot in use keeps its reservation until it is destroyed, holds an announced or a
claimed id and not both, and is known to its miner); `ClockOK` is
`EveryoneIsOnAClock` with the two facts it needs: a final reply that is only marked
is a delayed one, and a session without a valid share has its deadline. `SeatsOK`
and `WorkersOK` say what each counter counts, `IdsOK` where each id is.

`Loose(S, X, R, Z)` is the invariant in the middle of an action: the sockets in `X`
are without a clock, the sessions in `R` are counted and not yet registered, and the
proxy count of a wallet in `Z` may be below its sessions. A login goes through all
of it: the id is claimed, the worker counted, the session entered, the timer
replaced; a refused proxy removes every session of its wallet and is itself never
entered. Each operator has a lemma that says which exceptions it takes and which it
leaves.

The audit takes the size of the registry when it starts and then walks a Map from
which sessions are removed and to which others are added. `OrderOK` says that `older`
orders the live sessions. `AuditOK` is the reason that nobody is missed: a banned
session has fewer unpassed sessions before it than turns remain. Removals only lower
the first number; additions come last; a full batch lowers both by its size, since
the sessions before a missed one are numbered without a gap (`FirstOnes`, `NextOnes`,
`BatchReaches`); and a batch that ends the audit early has reached them all.

### Templates

`PoolTemplatesProofs`, for any number of workers, coins and miners:

| Theorem | Property |
|---|---|
| `HeaderIsServedHolds` | `HeaderIsServed` |
| `FrozenIsNoticedHolds` | `FrozenIsNoticed` |
| `WorkersAgreeHolds` | `WorkersAgree` |
| `JobIsCurrentHolds` | `JobIsCurrent` (of `JobsSpec`) |

The actions are compositions of operators on the record of all variables, so the
invariant `IInv` is a predicate on such a record and each operator has a lemma on
what it keeps. `WorkersAgree` speaks of a worker with no unread messages; the
invariant speaks of the last unread message about each coin (`TemplateAgrees`,
`FactorAgrees`), from which it follows when there is none. `HeaderIsServed` needs
that the fetch under way is for the recorded header and not for an older one
(`Served`), and that no template is fetched for a coin that is off (`Sane`).

`JobIsCurrent` is a theorem of `MinerJobs` alone, with templates and factors in any
order. Its invariant `JInv` (`SessionsHold`) adds what makes an answer from the job
cache safe (`Base`): while `cachedJob` and `jobLastBlockHash` are both set, the
client's job is the one of that template, unless no job could be built from it. A
change of the coin clears both (`Taken`), and a new template finds the miner either
by its coin or by its algorithms. The exceptions of the property are what the code
leaves behind: a coin that is none of the miner's or that `selectBestCoin` does not
find, the algorithms of a refused request, a job that was not built.

### Only model-checked

* Liveness (`SentIsSettled`, `EventuallyPaid`, `EventuallyRecorded`,
  `EventuallySettled`, `EventuallyStored`, `EventuallyPruned`): fairness is outside
  the prover's reach.
* The `TypeOK` of the modules whose theorems above do not state it.

## 6. Not modelled

See the components of `PROJECT.json`.

* Statistics worker, pool statistics, worker history: derived caches that are
  recomputed and that no payment reads.
* HTTP API: one query per request.
* The coins' byte formats, address checks and RPC dialects: conversions without
  state; the native library they call is not part of the repository.
* Support services, start-up, deployment and the remaining scripts: they are the
  environment of the modules (calls that answer, fail or never answer; one
  process of each kind; edits by hand).
* In modelled parts: merged-mining children, the computation of difficulties, the
  layout of jobs, token buckets, cache and alt-block cleanup of the long runner,
  thresholds and fees of the planner, frames that reach a front between its
  disconnection from the primary and its exit.
