------------------------------ MODULE Payments ------------------------------
(***************************************************************************)
(* The payout state machine: lib/payments.js, lib/payments/processor.js,   *)
(* the reservation half of lib/payments/planner.js and the operator tool   *)
(* manage_scripts/payment_batch_unlock.js, against one MySQL server and    *)
(* one wallet.                                                             *)
(*                                                                         *)
(* A payment runtime is a process whose cycle is cut at every await that   *)
(* reads or writes shared state: one action is one query, one transaction  *)
(* or one wallet call together with the local code up to the next one.     *)
(* Between two actions any other runtime, the tool, the wallet and the     *)
(* block manager may act; the advisory lock's connection may die without   *)
(* stopping the cycle that relied on it; and the process may crash.        *)
(*                                                                         *)
(* Data is abstracted to what the control depends on.  A timestamp column  *)
(* is a flag (null or not).  A balance row stands for one recipient.  The  *)
(* timestamp test of transferMatchesBatch always admits the batch's own    *)
(* transfer and may or may not admit an equal transfer of another batch:   *)
(* a transfer carries its block's time once mined, which can lie on either *)
(* side of a later batch's submit_started_at.                              *)
(***************************************************************************)
EXTENDS Integers, FiniteSets

CONSTANTS
    Runtimes,        \* processes that run lib/payments.js
    Accounts,        \* rows of the balance table, one per recipient
    MaxBatches,      \* bound: rows payment_batches may ever hold
    MaxTransfers,    \* bound: transfer RPCs ever issued
    MaxAmount,       \* bound: how far credits may raise a balance row
    MaxPaymentTxns,  \* config.payout.maxPaymentTxns
    Faults,          \* subset of {"crash", "lock", "sql"} that may occur
    UnlockModes      \* subset of {"plain", "confirm"} the operator may use

ASSUME RuntimesAssumption == Runtimes \cap {"nobody", "tool"} = {}
ASSUME BoundsAssumption ==
    /\ MaxBatches \in Nat /\ MaxTransfers \in Nat /\ MaxAmount \in Nat
    /\ MaxPaymentTxns \in Nat \ {0}

Batches == 1..MaxBatches
Transfers == 1..MaxTransfers
NoBatch == 0
NoTx == 0

VARIABLES
    row,        \* payment_batches, by id
    items,      \* payment_batch_items: gross amount by account, 0 if absent
    amount,     \* balance.amount
    pending,    \* balance.pending_batch_id
    ledger,     \* transactions/payments: the batch a tx hash was booked for
    wallet,     \* the wallet's transfers, by tx hash
    lockOwner,  \* session that holds the MySQL advisory lock
    pc,         \* the await a runtime's cycle is at
    failStop,   \* state.isFailStop
    conn,       \* state.lockConnection is set
    cur,        \* id of the batch the cycle works on
    mem,        \* the in-memory batch object
    snap,       \* rows of recoverPendingBatches' SELECT still to handle
    plan,       \* planned gross amounts still to reserve
    found,      \* wallet result carried to the next write
    tool        \* the operator's unlock command

sqlVars == <<row, items, amount, pending, ledger>>
batchVars == <<cur, mem, snap, plan, found>>
vars == <<row, items, amount, pending, ledger, wallet, lockOwner, pc,
          failStop, conn, cur, mem, snap, plan, found, tool>>

Statuses == {"none", "reserved", "retrying", "submitting", "submitted",
             "finalized", "retryable", "manual_review"}
InFlight == {"reserved", "retrying", "submitting", "submitted"}
Terminal == {"finalized", "retryable", "manual_review"}

Row == [status: Statuses, started: BOOLEAN, hash: Transfers \cup {NoTx},
        key: BOOLEAN, recon: BOOLEAN]
NoRow == [status |-> "none", started |-> FALSE, hash |-> NoTx,
          key |-> FALSE, recon |-> FALSE]

WalletStates == {"free", "inflight", "rejected", "hidden", "visible"}
WalletTx == [batch: Batches \cup {NoBatch}, st: WalletStates]

Pcs == {"down", "idle", "reensure", "load", "check", "release",
        "submit", "preflight", "holdRetry", "recheck", "claim", "transfer",
        "reply", "ambiguous", "history", "reconcile", "search", "visible",
        "persist", "hold", "review", "finalize", "finalizeFailed",
        "refresh", "refreshReview", "plan", "verify", "reserve"}

\* After persistSubmittedBatch: where the caller goes on.
Found == [tx: Transfers \cup {NoTx}, key: BOOLEAN,
          then: {"none", "visible", "finalize", "hold", "review", "unsettled"}]
NoFound == [tx |-> NoTx, key |-> FALSE, then |-> "none"]

ToolOff == [pc |-> "off", batch |-> NoBatch, confirm |-> FALSE]
ToolStates == [pc: {"off", "search", "apply"},
               batch: Batches \cup {NoBatch}, confirm: BOOLEAN]

NoSnap == [b \in Batches |-> NoRow]
NoPlan == [a \in Accounts |-> 0]

TypeOK ==
    /\ row \in [Batches -> Row]
    /\ items \in [Batches -> [Accounts -> Nat]]
    /\ amount \in [Accounts -> Int]
    /\ pending \in [Accounts -> Batches \cup {NoBatch}]
    /\ ledger \in [Transfers -> Batches \cup {NoBatch}]
    /\ wallet \in [Transfers -> WalletTx]
    /\ lockOwner \in Runtimes \cup {"nobody", "tool"}
    /\ pc \in [Runtimes -> Pcs]
    /\ failStop \in [Runtimes -> BOOLEAN]
    /\ conn \in [Runtimes -> BOOLEAN]
    /\ cur \in [Runtimes -> Batches \cup {NoBatch}]
    /\ mem \in [Runtimes -> Row]
    /\ snap \in [Runtimes -> [Batches -> Row]]
    /\ plan \in [Runtimes -> [Accounts -> Nat]]
    /\ found \in [Runtimes -> Found]
    /\ tool \in ToolStates

Init ==
    /\ row = [b \in Batches |-> NoRow]
    /\ items = [b \in Batches |-> NoPlan]
    /\ amount = [a \in Accounts |-> 1]
    /\ pending = [a \in Accounts |-> NoBatch]
    /\ ledger = [t \in Transfers |-> NoBatch]
    /\ wallet = [t \in Transfers |-> [batch |-> NoBatch, st |-> "free"]]
    /\ lockOwner = "nobody"
    /\ pc = [r \in Runtimes |-> "down"]
    /\ failStop = [r \in Runtimes |-> FALSE]
    /\ conn = [r \in Runtimes |-> FALSE]
    /\ cur = [r \in Runtimes |-> NoBatch]
    /\ mem = [r \in Runtimes |-> NoRow]
    /\ snap = [r \in Runtimes |-> NoSnap]
    /\ plan = [r \in Runtimes |-> NoPlan]
    /\ found = [r \in Runtimes |-> NoFound]
    /\ tool = ToolOff

-----------------------------------------------------------------------------
(* Control.                                                                *)

Goto(r, label) == pc' = [pc EXCEPT ![r] = label]

\* runCycle returned or threw: nothing of the cycle survives in memory.
EndCycle(r) ==
    /\ Goto(r, "idle")
    /\ cur' = [cur EXCEPT ![r] = NoBatch]
    /\ mem' = [mem EXCEPT ![r] = NoRow]
    /\ snap' = [snap EXCEPT ![r] = NoSnap]
    /\ plan' = [plan EXCEPT ![r] = NoPlan]
    /\ found' = [found EXCEPT ![r] = NoFound]

\* What a wallet answer leaves for the next write.
Remember(r, t, k, then) ==
    found' = [found EXCEPT ![r] = [tx |-> t, key |-> k, then |-> then]]

Recovering(r) == cur[r] # NoBatch /\ snap[r][cur[r]] # NoRow

\* Outcome "cleared": recovery goes on with its next row and then plans; the
\* payout loop goes on with its next batch or completes the cycle.
Cleared(r) ==
    LET rest == [snap[r] EXCEPT ![cur[r]] = NoRow]
    IN  /\ cur' = [cur EXCEPT ![r] = NoBatch]
        /\ mem' = [mem EXCEPT ![r] = NoRow]
        /\ found' = [found EXCEPT ![r] = NoFound]
        /\ UNCHANGED plan
        /\ IF Recovering(r)
           THEN /\ snap' = [snap EXCEPT ![r] = rest]
                /\ Goto(r, IF rest = NoSnap THEN "plan" ELSE "check")
           ELSE /\ UNCHANGED snap
                /\ Goto(r, IF plan[r] = NoPlan THEN "idle" ELSE "verify")

Release(owner) == IF lockOwner = owner THEN "nobody" ELSE lockOwner

-----------------------------------------------------------------------------
(* Process life cycle and the advisory lock (lib/payments.js).             *)

Start(r) ==
    /\ pc[r] = "down"
    /\ Goto(r, "idle")
    /\ UNCHANGED <<sqlVars, wallet, lockOwner, failStop, conn, batchVars, tool>>

\* A process that ends takes its memory and its MySQL session with it.
Terminate(r) ==
    /\ pc' = [pc EXCEPT ![r] = "down"]
    /\ failStop' = [failStop EXCEPT ![r] = FALSE]
    /\ conn' = [conn EXCEPT ![r] = FALSE]
    /\ cur' = [cur EXCEPT ![r] = NoBatch]
    /\ mem' = [mem EXCEPT ![r] = NoRow]
    /\ snap' = [snap EXCEPT ![r] = NoSnap]
    /\ plan' = [plan EXCEPT ![r] = NoPlan]
    /\ found' = [found EXCEPT ![r] = NoFound]
    /\ lockOwner' = Release(r)
    /\ UNCHANGED <<sqlVars, wallet, tool>>

\* stop() waits for the running cycle, then releases the lock.
Stop(r) == pc[r] = "idle" /\ Terminate(r)

Crash(r) == "crash" \in Faults /\ pc[r] # "down" /\ Terminate(r)

\* Mutant of LockVerified: an open connection is taken for the lock.
ConnectionTrusted(r) == conn[r]

\* verifyAdvisoryLock answered that this session owns the lock.
LockVerified(r) == conn[r] /\ lockOwner = r

\* The lock check failed: wrong owner, or the query itself failed and the
\* connection (and with it the lock) is destroyed.  The cycle ends.
LockCheckFails(r) ==
    /\ ~LockVerified(r) \/ "lock" \in Faults
    /\ failStop' = [failStop EXCEPT ![r] = TRUE]
    /\ conn' = [conn EXCEPT ![r] = FALSE]
    /\ lockOwner' = Release(r)
    /\ EndCycle(r)

\* The timer starts runCycle, unless fail-stop is latched, and runCycle calls
\* ensureAdvisoryLock: GET_LOCK(name, 0) on a fresh connection, or a check of
\* the one already held.  A busy lock or an error latches fail-stop.
EnsureAdvisoryLock(r) ==
    /\ pc[r] = "idle" /\ ~failStop[r]
    /\ \/ /\ conn[r] /\ LockVerified(r)
          /\ Goto(r, "reensure")
          /\ UNCHANGED <<lockOwner, failStop, conn, batchVars>>
       \/ /\ conn[r]
          /\ LockCheckFails(r)
       \/ /\ ~conn[r] /\ lockOwner = "nobody"
          /\ lockOwner' = r
          /\ conn' = [conn EXCEPT ![r] = TRUE]
          /\ Goto(r, "reensure")
          /\ UNCHANGED <<failStop, batchVars>>
       \/ /\ ~conn[r]
          /\ lockOwner # "nobody" \/ "lock" \in Faults
          /\ failStop' = [failStop EXCEPT ![r] = TRUE]
          /\ EndCycle(r)
          /\ UNCHANGED <<lockOwner, conn>>
    /\ UNCHANGED <<sqlVars, wallet, tool>>

\* The server drops the session: the lock is free, the process unaware.
LoseLock(r) ==
    /\ "lock" \in Faults
    /\ lockOwner = r
    /\ lockOwner' = "nobody"
    /\ UNCHANGED <<sqlVars, wallet, pc, failStop, conn, batchVars, tool>>

\* The connection's error/end event: fail-stop is latched, the cycle goes on.
HandleAdvisoryLockConnectionClose(r) ==
    /\ conn[r] /\ lockOwner # r
    /\ conn' = [conn EXCEPT ![r] = FALSE]
    /\ failStop' = [failStop EXCEPT ![r] = TRUE]
    /\ UNCHANGED <<sqlVars, wallet, lockOwner, pc, batchVars, tool>>

\* checkExclusiveAccess in front of a critical phase: go on to label, or end.
CheckExclusiveAccess(r, label) ==
    \/ /\ ~failStop[r] /\ LockVerified(r)
       /\ Goto(r, label)
       /\ UNCHANGED <<lockOwner, failStop, conn, batchVars>>
    \/ /\ failStop[r]
       /\ EndCycle(r)
       /\ UNCHANGED <<lockOwner, failStop, conn>>
    \/ /\ ~failStop[r]
       /\ LockCheckFails(r)

\* A pool query rejects, before or after it took effect: the error reaches
\* runCycle, which gives the cycle up until the next timer.
SqlPcs == {"load", "check", "release", "submit", "holdRetry", "claim",
           "transfer", "ambiguous", "reconcile", "visible", "persist", "hold",
           "review", "finalize", "finalizeFailed", "refresh",
           "refreshReview", "plan", "verify", "reserve"}

SqlError(r) ==
    /\ "sql" \in Faults
    /\ pc[r] \in SqlPcs
    /\ EndCycle(r)
    /\ UNCHANGED <<sqlVars, wallet, lockOwner, failStop, conn, tool>>

-----------------------------------------------------------------------------
(* Guarded writes to payment_batches.                                      *)

\* Mutant of Current: the UPDATE does not compare the status.
NoCompare(r) == TRUE

\* updateBatchStatusIfCurrent: WHERE status = <the in-memory status>.  The
\* further conditions finalized_at IS NULL and transaction_id IS NULL hold of
\* every row whose status is not finalized.
Current(r) == row[cur[r]].status = mem[r].status

\* payment_batches_tx_hash_uindex
HashFree(b, t) == \A c \in Batches \ {b} : row[c].hash # t

Retrying(x) == [x EXCEPT !.status = "retrying", !.started = FALSE,
                         !.hash = NoTx, !.key = FALSE, !.recon = TRUE]
Submitting(x) == [x EXCEPT !.status = "submitting", !.started = TRUE]
Submitted(x, f) == [x EXCEPT !.status = "submitted", !.hash = f.tx,
                             !.key = f.key]
Held(x) == [x EXCEPT !.recon = TRUE]
Reviewed(x, f) ==
    [x EXCEPT !.status = "manual_review",
              !.hash = IF f.tx = NoTx THEN @ ELSE f.tx,
              !.key = @ \/ f.key]
Finalized(x, t) == [x EXCEPT !.status = "finalized", !.hash = t,
                             !.key = TRUE]
ReleasedTypo(x) == [x EXCEPT !.status = "released"]  \* mutant of Released
Released(x) == [x EXCEPT !.status = "retryable"]
Unlocked(x, confirm) ==
    [x EXCEPT !.status = "retryable",
              !.started = IF confirm THEN FALSE ELSE @]

\* Mutant of Unpinned: the balance rows are not given back.
PinsForgotten(b) == pending

Unpinned(b) == [a \in Accounts |-> IF pending[a] = b THEN NoBatch
                                                    ELSE pending[a]]

\* The guarded write found another status: re-read the row, then decide.
LostUpdate(r, label) ==
    /\ ~Current(r)
    /\ Goto(r, label)
    /\ UNCHANGED <<sqlVars, failStop, batchVars>>

\* refreshBatchObject + guardedTransitionOutcome.  A lost claim or a lost
\* escalation of a batch under manual review also latches fail-stop; what
\* finalizeBatch lost is unresolved whatever the row says.
RefreshBatch(r) ==
    /\ pc[r] \in {"refresh", "refreshReview"}
    /\ failStop' = [failStop EXCEPT ![r] = @ \/
                       (/\ pc[r] = "refreshReview"
                        /\ row[cur[r]].status = "manual_review")]
    /\ IF row[cur[r]].status = "finalized" /\ found[r].then # "unsettled"
       THEN Cleared(r)
       ELSE EndCycle(r)
    /\ UNCHANGED <<sqlVars, wallet, lockOwner, conn, tool>>

\* holdBatch and holdAfterReconcile: note the attempt, keep the reservation.
HoldBatch(r) ==
    /\ pc[r] = "hold"
    /\ \/ /\ Current(r)
          /\ row' = [row EXCEPT ![cur[r]] = Held(@)]
          /\ EndCycle(r)
          /\ UNCHANGED <<items, amount, pending, ledger, failStop>>
       \/ LostUpdate(r, "refresh")
    /\ UNCHANGED <<wallet, lockOwner, conn, tool>>

\* markBatchManualReview: escalate and latch fail-stop.  A duplicate tx hash
\* or a lost reply throws out of the cycle before the latch.
MarkBatchManualReview(r) ==
    /\ pc[r] = "review"
    /\ \/ /\ Current(r)
          /\ found[r].tx = NoTx \/ HashFree(cur[r], found[r].tx)
          /\ row' = [row EXCEPT ![cur[r]] = Reviewed(@, found[r])]
          /\ \/ failStop' = [failStop EXCEPT ![r] = TRUE]
             \/ "sql" \in Faults /\ UNCHANGED failStop
          /\ EndCycle(r)
          /\ UNCHANGED <<items, amount, pending, ledger>>
       \/ /\ Current(r) /\ found[r].tx # NoTx /\ ~HashFree(cur[r], found[r].tx)
          /\ EndCycle(r)
          /\ UNCHANGED <<sqlVars, failStop>>
       \/ LostUpdate(r, "refreshReview")
    /\ UNCHANGED <<wallet, lockOwner, conn, tool>>

\* persistSubmittedBatch: the durable edge between "the wallet accepted a
\* transfer" and "the ledger is written".
PersistSubmittedBatch(r) ==
    /\ pc[r] = "persist"
    /\ \/ /\ Current(r) /\ HashFree(cur[r], found[r].tx)
          /\ row' = [row EXCEPT ![cur[r]] = Submitted(@, found[r])]
          /\ mem' = [mem EXCEPT ![r] = Submitted(@, found[r])]
          /\ Goto(r, found[r].then)
          /\ UNCHANGED <<items, amount, pending, ledger, failStop, cur, snap,
                         plan, found>>
       \/ /\ Current(r) /\ ~HashFree(cur[r], found[r].tx)
          /\ EndCycle(r)
          /\ UNCHANGED <<sqlVars, failStop>>
       \/ LostUpdate(r, "refresh")
    /\ UNCHANGED <<wallet, lockOwner, conn, tool>>

-----------------------------------------------------------------------------
(* Recovery: every durable in-flight batch, before any planning.           *)

\* runCycle calls recoverPendingBatches, which checks the lock once more.
EnterRecovery(r) ==
    /\ pc[r] = "reensure"
    /\ CheckExclusiveAccess(r, "load")
    /\ UNCHANGED <<sqlVars, wallet, tool>>

\* Mutant of Unsettled: recovery does not load claimed batches.
UnclaimedOnly == (InFlight \ {"submitting"}) \cup {"manual_review"}

Unsettled == InFlight \cup {"manual_review"}

\* The SELECT of recoverPendingBatches: the rows are copies from here on.
RecoverPendingBatches(r) ==
    LET rows == [b \in Batches |-> IF row[b].status \in Unsettled
                                   THEN row[b] ELSE NoRow]
    IN  /\ pc[r] = "load"
        /\ snap' = [snap EXCEPT ![r] = rows]
        /\ Goto(r, IF rows = NoSnap THEN "plan" ELSE "check")
        /\ UNCHANGED <<sqlVars, wallet, lockOwner, failStop, conn, cur, mem,
                       plan, found, tool>>

\* Where recovery takes a batch, by the status its copy shows.
RecoveryStep(x) ==
    CASE x.status = "retrying" -> "submit"
      [] x.status = "reserved" /\ ~x.started -> "release"
      [] OTHER -> "reconcile"

\* The loop body: lock check, then dispatch on the lowest id left.
RecoverBatch(r) ==
    /\ pc[r] = "check"
    /\ \E b \in Batches :
          /\ snap[r][b] # NoRow
          /\ \A c \in Batches : c < b => snap[r][c] = NoRow
          /\ \/ /\ failStop[r]
                /\ EndCycle(r)
                /\ UNCHANGED <<lockOwner, failStop, conn>>
             \/ /\ ~failStop[r]
                /\ LockCheckFails(r)
             \/ /\ ~failStop[r] /\ LockVerified(r)
                /\ snap[r][b].status = "manual_review"
                /\ failStop' = [failStop EXCEPT ![r] = TRUE]
                /\ EndCycle(r)
                /\ UNCHANGED <<lockOwner, conn>>
             \/ /\ ~failStop[r] /\ LockVerified(r)
                /\ snap[r][b].status # "manual_review"
                /\ cur' = [cur EXCEPT ![r] = b]
                /\ mem' = [mem EXCEPT ![r] = snap[r][b]]
                /\ Goto(r, RecoveryStep(snap[r][b]))
                /\ UNCHANGED <<lockOwner, failStop, conn, snap, plan, found>>
    /\ UNCHANGED <<sqlVars, wallet, tool>>

\* The guard of the release transaction.
ReleaseGuard(r) ==
    /\ Current(r)
    /\ ~row[cur[r]].started /\ row[cur[r]].hash = NoTx /\ ~row[cur[r]].key

\* releaseBatchReservation: status and pins in one transaction.
ReleaseBatchReservation(r) ==
    /\ pc[r] = "release"
    /\ \/ /\ ReleaseGuard(r)
          /\ row' = [row EXCEPT ![cur[r]] = Released(@)]
          /\ pending' = Unpinned(cur[r])
          /\ Cleared(r)
       \/ /\ ~ReleaseGuard(r)
          /\ EndCycle(r)
          /\ UNCHANGED <<row, pending>>
    /\ UNCHANGED <<items, amount, ledger, wallet, lockOwner, failStop, conn,
                   tool>>

-----------------------------------------------------------------------------
(* Submission of a reserved or retrying batch.                             *)

\* The two lock checks of submitReservedBatch, before preflight and before
\* the claim.
SubmitReservedBatch(r) ==
    /\ pc[r] \in {"submit", "recheck"}
    /\ CheckExclusiveAccess(r, IF pc[r] = "submit" THEN "preflight"
                                                  ELSE "claim")
    /\ UNCHANGED <<sqlVars, wallet, tool>>

\* Where a failed preflight leads: holdBatchForRetry stays clear of a batch
\* that crossed the submit boundary.
RetryStep(x) == IF x.started \/ x.hash # NoTx \/ x.key THEN "hold"
                                                     ELSE "holdRetry"

\* preflightWalletBalance: enough unlocked funds, or not, or no answer.
PreflightWalletBalance(r) ==
    /\ pc[r] = "preflight"
    /\ Goto(r, "recheck") \/ Goto(r, RetryStep(mem[r]))
    /\ UNCHANGED <<sqlVars, wallet, lockOwner, failStop, conn, batchVars, tool>>

HoldBatchForRetry(r) ==
    /\ pc[r] = "holdRetry"
    /\ \/ /\ Current(r)
          /\ row' = [row EXCEPT ![cur[r]] = Retrying(@)]
          /\ EndCycle(r)
          /\ UNCHANGED <<items, amount, pending, ledger, failStop>>
       \/ LostUpdate(r, "refresh")
    /\ UNCHANGED <<wallet, lockOwner, conn, tool>>

\* Mutant of ClaimGuard: the claim does not look at the row.
ClaimAlways(r) == TRUE

\* claimBatchForSubmit's WHERE clause.
ClaimGuard(r) == Current(r)

\* submit_started_at is durable before the wallet hears of the batch.
ClaimBatchForSubmit(r) ==
    /\ pc[r] = "claim"
    /\ \/ /\ ClaimGuard(r)
          /\ row' = [row EXCEPT ![cur[r]] = Submitting(@)]
          /\ mem' = [mem EXCEPT ![r] = Submitting(@)]
          /\ Goto(r, "transfer")
          /\ UNCHANGED <<items, amount, pending, ledger, failStop, cur, snap,
                         plan, found>>
       \/ /\ ~ClaimGuard(r)
          /\ Goto(r, "refreshReview")
          /\ UNCHANGED <<sqlVars, failStop, batchVars>>
    /\ UNCHANGED <<wallet, lockOwner, conn, tool>>

\* callWallet("transfer"): the request leaves the process.
IssueTransfer(r) ==
    /\ pc[r] = "transfer"
    /\ \E t \in Transfers :
          /\ wallet[t].st = "free"
          /\ \A u \in Transfers : u < t => wallet[u].st # "free"
          /\ wallet' = [wallet EXCEPT ![t] = [batch |-> cur[r],
                                             st |-> "inflight"]]
          /\ Remember(r, t, FALSE, "none")
    /\ Goto(r, "reply")
    /\ UNCHANGED <<sqlVars, lockOwner, failStop, conn, cur, mem, snap, plan,
                   tool>>

Sent(t) == wallet[t].st \in {"hidden", "visible"}

\* The wallet's answer, or a transport error in its place at any time.  The
\* tx key comes with the answer or from resolveSubmittedTxKey.
TransferReply(r) ==
    /\ pc[r] = "reply"
    /\ \/ /\ Sent(found[r].tx)
          /\ \E k \in BOOLEAN : Remember(r, found[r].tx, k, "visible")
          /\ Goto(r, "persist")
       \/ /\ Sent(found[r].tx)
          /\ Remember(r, found[r].tx, FALSE, "review")
          /\ Goto(r, "persist")
       \/ /\ wallet[found[r].tx].st # "inflight"
          /\ Remember(r, NoTx, FALSE, "none")
          /\ Goto(r, "history")
       \/ /\ Remember(r, NoTx, FALSE, "none")
          /\ Goto(r, "ambiguous")
    /\ UNCHANGED <<sqlVars, wallet, lockOwner, failStop, conn, cur, mem, snap,
                   plan, tool>>

-----------------------------------------------------------------------------
(* Reconciliation against wallet history.                                  *)

\* transferMatchesBatch compares destinations and amounts as multisets.
SameDestinations(b, t) == items[wallet[t].batch] = items[b]

\* What one scan of out/pending/pool may show as matching batch b: its own
\* visible transfers, and equal ones of other batches if their timestamp is
\* late enough.
Scans(b) ==
    LET visible == {t \in Transfers : wallet[t].st = "visible"}
        own == {t \in visible : wallet[t].batch = b}
        alike == {t \in visible : SameDestinations(b, t)}
    IN  {own \cup more : more \in SUBSET alike}

\* reconcileAmbiguousSubmit: a guarded note, then reconcile at once.
ReconcileAmbiguousSubmit(r) ==
    /\ pc[r] = "ambiguous"
    /\ \/ /\ Current(r)
          /\ Goto(r, "reconcile")
          /\ UNCHANGED <<sqlVars, failStop, batchVars>>
       \/ LostUpdate(r, "refresh")
    /\ UNCHANGED <<wallet, lockOwner, conn, tool>>

\* reconcileBatch's throttle: within ten minutes of the last attempt the
\* batch stays as it is.  Otherwise the wallet is asked.
ReconcileBatch(r) ==
    /\ pc[r] = "reconcile"
    /\ \/ /\ mem[r].recon
          /\ EndCycle(r)
       \/ /\ Goto(r, IF mem[r].status = "submitted" /\ mem[r].hash # NoTx
                     THEN "visible" ELSE "search")
          /\ UNCHANGED batchVars
    /\ UNCHANGED <<sqlVars, wallet, lockOwner, failStop, conn, tool>>

\* The wallet does not answer a scan, or answers without hash or fee: hold.
WalletUnavailable(r) ==
    /\ pc[r] \in {"search", "history", "visible"}
    /\ Goto(r, "hold")
    /\ UNCHANGED <<sqlVars, wallet, lockOwner, failStop, conn, batchVars, tool>>

\* findWalletTransferMatch and what reconcileBatch makes of it: hold on no
\* match, escalate on several, and on one persist its hash, then finalize
\* with its key, wait for the key, or escalate if there is none.
FindWalletTransferMatch(r) ==
    /\ pc[r] = "search"
    /\ \E m \in Scans(cur[r]) :
          \/ /\ m = {}
             /\ Goto(r, "hold")
             /\ UNCHANGED found
          \/ /\ Cardinality(m) > 1
             /\ Goto(r, "review")
             /\ UNCHANGED found
          \/ \E t \in m :
                /\ m = {t}
                /\ \/ Remember(r, t, TRUE, "finalize") /\ Goto(r, "persist")
                   \/ Remember(r, t, FALSE, "hold") /\ Goto(r, "persist")
                   \/ Remember(r, t, FALSE, "none") /\ Goto(r, "review")
    /\ UNCHANGED <<sqlVars, wallet, lockOwner, failStop, conn, cur, mem, snap,
                   plan, tool>>

\* reconcileHistoryCheckedSubmitError: the wallet refused the transfer, so
\* any match at all is a contradiction and is escalated.
ReconcileHistoryCheckedSubmitError(r) ==
    /\ pc[r] = "history"
    /\ \E m \in Scans(cur[r]) :
          \/ /\ m = {}
             /\ Goto(r, "hold")
             /\ UNCHANGED found
          \/ /\ m # {}
             /\ Goto(r, "review")
             /\ \/ UNCHANGED found
                \/ \E t \in m, k \in BOOLEAN :
                      m = {t} /\ Remember(r, t, k, "none")
    /\ UNCHANGED <<sqlVars, wallet, lockOwner, failStop, conn, cur, mem, snap,
                   plan, tool>>

\* findSubmittedTransferVisibility: the exact hash, with our destinations.
FindSubmittedTransferVisibility(r) ==
    LET t == mem[r].hash
    IN  /\ pc[r] = "visible"
        /\ Goto(r, IF wallet[t].st = "visible" /\ SameDestinations(cur[r], t)
                   THEN "finalize" ELSE "hold")
        /\ UNCHANGED <<sqlVars, wallet, lockOwner, failStop, conn, batchVars,
                       tool>>

-----------------------------------------------------------------------------
(* Finalization: ledger, balances and batch in one transaction.            *)

\* finalizeBatch without a stored key: ask the wallet for it again.
ResolveTxKeyFails(r) ==
    /\ pc[r] = "finalize"
    /\ ~mem[r].key
    /\ \/ Goto(r, "hold") /\ Remember(r, NoTx, FALSE, "unsettled")
       \/ Goto(r, "review") /\ Remember(r, mem[r].hash, FALSE, "unsettled")
    /\ UNCHANGED <<sqlVars, wallet, lockOwner, failStop, conn, cur, mem, snap,
                   plan, tool>>

\* Every statement of the transaction affects the rows it must: the hash is
\* new to transactions, all balances are still pinned, the batch is current.
FinalizeGuard(r) ==
    /\ ledger[mem[r].hash] = NoBatch
    /\ \A a \in Accounts : items[cur[r]][a] > 0 => pending[a] = cur[r]
    /\ Current(r)

\* The transaction commits; its acknowledgement may still be lost.
FinalizeBatch(r) ==
    LET b == cur[r]
    IN  /\ pc[r] = "finalize"
        /\ FinalizeGuard(r)
        /\ ledger' = [ledger EXCEPT ![mem[r].hash] = b]
        /\ amount' = [a \in Accounts |-> amount[a] - items[b][a]]
        /\ pending' = Unpinned(b)
        /\ row' = [row EXCEPT ![b] = Finalized(@, mem[r].hash)]
        /\ \/ Cleared(r)
           \/ "sql" \in Faults /\ Goto(r, "finalizeFailed") /\ UNCHANGED batchVars
        /\ UNCHANGED <<items, wallet, lockOwner, failStop, conn, tool>>

\* Some statement failed: rolled back.
FinalizeRollsBack(r) ==
    /\ pc[r] = "finalize"
    /\ ~FinalizeGuard(r) \/ "sql" \in Faults
    /\ Goto(r, "finalizeFailed")
    /\ UNCHANGED <<sqlVars, wallet, lockOwner, failStop, conn, batchVars, tool>>

\* finalizeBatch's catch: a guarded note; the outcome is unresolved.
FinalizeFailed(r) ==
    /\ pc[r] = "finalizeFailed"
    /\ row' = [row EXCEPT ![cur[r]] = IF Current(r) THEN Held(@) ELSE @]
    /\ EndCycle(r)
    /\ UNCHANGED <<items, amount, pending, ledger, wallet, lockOwner, failStop,
                   conn, tool>>

-----------------------------------------------------------------------------
(* Planning and reservation (lib/payments/planner.js).                     *)

\* planBatches reads unpinned rows; what it pays of each is at most what the
\* row holds.  Thresholds, truncation and grouping are abstracted.
PlanBatches(r) ==
    /\ pc[r] = "plan"
    /\ \E p \in [Accounts -> 0..MaxAmount] :
          /\ \A a \in Accounts : p[a] > 0 => /\ p[a] <= amount[a]
                                             /\ pending[a] = NoBatch
          /\ plan' = [plan EXCEPT ![r] = p]
          /\ Goto(r, IF p = NoPlan THEN "idle" ELSE "verify")
    /\ UNCHANGED <<sqlVars, wallet, lockOwner, failStop, conn, cur, mem, snap,
                   found, tool>>

\* runCycle's own lock check in front of each reservation.
VerifyBeforeReserve(r) ==
    /\ pc[r] = "verify"
    /\ \/ /\ LockVerified(r)
          /\ Goto(r, "reserve")
          /\ UNCHANGED <<lockOwner, failStop, conn, batchVars>>
       \/ LockCheckFails(r)
    /\ UNCHANGED <<sqlVars, wallet, tool>>

\* The reservation updates only unpinned rows and must affect all of them.
ReserveGuard(chunk) == \A a \in chunk : pending[a] = NoBatch

NewRow == [NoRow EXCEPT !.status = "reserved"]

\* reserveBatch: batch, items and pins in one transaction, or none of them.
ReserveBatch(r) ==
    /\ pc[r] = "reserve"
    /\ \E chunk \in SUBSET {a \in Accounts : plan[r][a] > 0} :
          /\ chunk # {} /\ Cardinality(chunk) <= MaxPaymentTxns
          /\ \/ \E b \in Batches :
                   /\ ReserveGuard(chunk)
                   /\ row[b].status = "none"
                   /\ \A c \in Batches : c < b => row[c].status # "none"
                   /\ row' = [row EXCEPT ![b] = NewRow]
                   /\ items' = [items EXCEPT ![b] =
                         [a \in Accounts |-> IF a \in chunk THEN plan[r][a]
                                                           ELSE 0]]
                   /\ pending' = [a \in Accounts |-> IF a \in chunk THEN b
                                                     ELSE pending[a]]
                   /\ cur' = [cur EXCEPT ![r] = b]
                   /\ mem' = [mem EXCEPT ![r] = NewRow]
                   /\ plan' = [plan EXCEPT ![r] =
                         [a \in Accounts |-> IF a \in chunk THEN 0
                                                           ELSE plan[r][a]]]
                   /\ Goto(r, "submit")
                   /\ UNCHANGED <<snap, found>>
             \/ /\ ~ReserveGuard(chunk)
                   \/ \A b \in Batches : row[b].status # "none"
                /\ EndCycle(r)
                /\ UNCHANGED <<row, items, pending>>
    /\ UNCHANGED <<amount, ledger, wallet, lockOwner, failStop, conn, tool>>

-----------------------------------------------------------------------------
(* The wallet and the block manager.                                       *)

\* The wallet carries a transfer out, whether or not anyone still waits for
\* the answer; the transaction shows in its history only later.
ExecuteTransfer(t) ==
    /\ wallet[t].st = "inflight"
    /\ wallet' = [wallet EXCEPT ![t].st = "hidden"]
    /\ UNCHANGED <<sqlVars, lockOwner, pc, failStop, conn, batchVars, tool>>

RevealTransfer(t) ==
    /\ wallet[t].st = "hidden"
    /\ wallet' = [wallet EXCEPT ![t].st = "visible"]
    /\ UNCHANGED <<sqlVars, lockOwner, pc, failStop, conn, batchVars, tool>>

\* The wallet refuses the transfer, or the request never arrived.
RejectTransfer(t) ==
    /\ wallet[t].st = "inflight"
    /\ wallet' = [wallet EXCEPT ![t].st = "rejected"]
    /\ UNCHANGED <<sqlVars, lockOwner, pc, failStop, conn, batchVars, tool>>

\* lib/block_manager.js applyBalanceCredits, pinned rows included.
CreditBalance(a) ==
    /\ amount[a] < MaxAmount
    /\ amount' = [amount EXCEPT ![a] = @ + 1]
    /\ UNCHANGED <<row, items, pending, ledger, wallet, lockOwner, pc,
                   failStop, conn, batchVars, tool>>

-----------------------------------------------------------------------------
(* The operator's tool (manage_scripts/payment_batch_unlock.js).           *)

\* assertUnlockAllowed, on the row as loaded.
UnlockAllowed(x, confirm) ==
    /\ x.status \notin {"none", "finalized"}
    /\ x.hash = NoTx /\ ~x.key
    /\ ~x.started \/ confirm

\* Take the lock, load the batch, decide whether the wallet must be asked.
UnlockStart(b, confirm) ==
    /\ tool.pc = "off"
    /\ (IF confirm THEN "confirm" ELSE "plain") \in UnlockModes
    /\ lockOwner = "nobody"
    /\ UnlockAllowed(row[b], confirm)
    /\ lockOwner' = "tool"
    /\ tool' = [pc |-> IF confirm /\ row[b].started THEN "search" ELSE "apply",
                batch |-> b, confirm |-> confirm]
    /\ UNCHANGED <<sqlVars, wallet, pc, failStop, conn, batchVars>>

\* assertWalletHistoryClear: go on only if the history shows no match.
AssertWalletHistoryClear ==
    /\ tool.pc = "search"
    /\ {} \in Scans(tool.batch)
    /\ tool' = [tool EXCEPT !.pc = "apply"]
    /\ UNCHANGED <<sqlVars, wallet, lockOwner, pc, failStop, conn, batchVars>>

\* Mutant of UnlockGuard: the status checked when the row was loaded is not
\* checked again.
UnlockAsLoaded(x, confirm) == x.status \notin {"none", "finalized"}

\* The WHERE clause of the status update, by mode.
UnlockGuard(x, confirm) ==
    IF confirm THEN x.status \in {"reserved", "retrying", "submitting"}
               ELSE x.status \in {"reserved", "retrying"} /\ ~x.started

\* The transaction: unpin, update the batch, roll both back if it moved on.
UnlockBatch ==
    LET b == tool.batch
    IN  /\ tool.pc = "apply"
        /\ \/ /\ UnlockGuard(row[b], tool.confirm)
              /\ row' = [row EXCEPT ![b] = Unlocked(@, tool.confirm)]
              /\ pending' = Unpinned(b)
           \/ /\ ~UnlockGuard(row[b], tool.confirm)
              /\ UNCHANGED <<row, pending>>
        /\ tool' = ToolOff
        /\ lockOwner' = Release("tool")
        /\ UNCHANGED <<items, amount, ledger, wallet, pc, failStop, conn,
                       batchVars>>

\* A match, an unreachable wallet or a lost connection: nothing is changed.
UnlockRefused ==
    /\ tool.pc # "off"
    /\ tool' = ToolOff
    /\ lockOwner' = Release("tool")
    /\ UNCHANGED <<sqlVars, wallet, pc, failStop, conn, batchVars>>

-----------------------------------------------------------------------------
Lifecycle(r) ==
    \/ Start(r) \/ Stop(r) \/ Crash(r)
    \/ EnsureAdvisoryLock(r) \/ LoseLock(r)
    \/ HandleAdvisoryLockConnectionClose(r) \/ SqlError(r)

Recovery(r) ==
    \/ EnterRecovery(r) \/ RecoverPendingBatches(r) \/ RecoverBatch(r)
    \/ ReleaseBatchReservation(r) \/ ReconcileBatch(r)
    \/ WalletUnavailable(r) \/ FindWalletTransferMatch(r)
    \/ FindSubmittedTransferVisibility(r)

Submission(r) ==
    \/ PlanBatches(r) \/ VerifyBeforeReserve(r) \/ ReserveBatch(r)
    \/ SubmitReservedBatch(r) \/ PreflightWalletBalance(r)
    \/ HoldBatchForRetry(r) \/ ClaimBatchForSubmit(r) \/ IssueTransfer(r)
    \/ TransferReply(r) \/ ReconcileAmbiguousSubmit(r)
    \/ ReconcileHistoryCheckedSubmitError(r)

Settlement(r) ==
    \/ RefreshBatch(r) \/ HoldBatch(r) \/ MarkBatchManualReview(r)
    \/ PersistSubmittedBatch(r) \/ ResolveTxKeyFails(r) \/ FinalizeBatch(r)
    \/ FinalizeRollsBack(r) \/ FinalizeFailed(r)

Environment ==
    \/ \E t \in Transfers : \/ ExecuteTransfer(t) \/ RevealTransfer(t)
                           \/ RejectTransfer(t)
    \/ \E a \in Accounts : CreditBalance(a)

Operator ==
    \/ \E b \in Batches, confirm \in BOOLEAN : UnlockStart(b, confirm)
    \/ AssertWalletHistoryClear \/ UnlockBatch \/ UnlockRefused

Next ==
    \/ \E r \in Runtimes : \/ Lifecycle(r) \/ Recovery(r)
                          \/ Submission(r) \/ Settlement(r)
    \/ Environment
    \/ Operator

Spec == Init /\ [][Next]_vars

\* Process managers restart a dead process, timers fire, MySQL and the wallet
\* answer in the end, and whatever a runtime keeps coming back to succeeds at
\* some point although any single attempt may crash, time out or find the
\* wallet unavailable.
Fairness ==
    /\ \A r \in Runtimes :
          /\ WF_vars(Start(r))
          /\ WF_vars(Recovery(r) \/ Submission(r) \/ Settlement(r))
          /\ SF_vars(EnsureAdvisoryLock(r))
          /\ SF_vars(EnterRecovery(r))
          /\ SF_vars(RecoverPendingBatches(r))
          /\ SF_vars(RecoverBatch(r))
          /\ SF_vars(ReconcileBatch(r) /\ pc'[r] # "idle")
          /\ SF_vars(FindWalletTransferMatch(r) /\ pc'[r] # "hold")
          /\ SF_vars(PersistSubmittedBatch(r))
          /\ SF_vars(FindSubmittedTransferVisibility(r) /\ pc'[r] # "hold")
          /\ SF_vars(FinalizeBatch(r))
          /\ SF_vars(MarkBatchManualReview(r))
    /\ \A t \in Transfers : WF_vars(RevealTransfer(t))

LiveSpec == Spec /\ Fairness

-----------------------------------------------------------------------------
(* Properties.                                                             *)

\* No batch is ever handed to the wallet twice, whatever crashes, lost locks,
\* overlapping runtimes and operator unlocks come between: once a batch left
\* reserved/retrying it is reconciled, never resubmitted.
AtMostOneTransfer ==
    \A t, u \in Transfers :
        wallet[t].batch # NoBatch /\ wallet[t].batch = wallet[u].batch => t = u

\* Pins and batches agree: a balance row points at a batch exactly while that
\* batch holds the row as an item and is neither finalized nor released.
PinsMatchBatches ==
    \A a \in Accounts, b \in Batches :
        pending[a] = b <=> /\ items[b][a] > 0
                           /\ row[b].status \in Unsettled

\* A released batch was never sent: recovery and the plain unlock give
\* reservations back only for batches the wallet never executed.
FreedNeverSent ==
    \A t \in Transfers :
        Sent(t) => row[wallet[t].batch].status # "retryable"

\* Each ledger entry books the wallet's own transfer for that batch, and the
\* batch row names it: reconciliation never settles a batch with a transfer
\* of another one, even when the destinations are the same.
LedgerBooksOwnTransfer ==
    \A t \in Transfers :
        ledger[t] # NoBatch =>
            /\ Sent(t) /\ wallet[t].batch = ledger[t]
            /\ row[ledger[t]].status = "finalized" /\ row[ledger[t]].hash = t

\* What the wallet sent an account and the ledger does not show yet.
Unbooked(a) == {t \in Transfers : /\ Sent(t) /\ ledger[t] = NoBatch
                                  /\ items[wallet[t].batch][a] > 0}

\* Money sent but not yet booked is still owed: at most one unbooked transfer
\* pays an account and its balance row covers it, so no account is ever paid
\* what it did not earn, however stale the plan a runtime reserves from.
OnlyOwedIsSent ==
    \A a \in Accounts :
        /\ amount[a] >= 0
        /\ \A t, u \in Unbooked(a) : t = u
        /\ \A t \in Unbooked(a) : items[wallet[t].batch][a] <= amount[a]

\* The status changes of the state machine documented in processor.js, and
\* the operator's releases.
BatchMoves ==
    {<<"none", "reserved">>, <<"reserved", "retrying">>,
     <<"reserved", "retryable">>, <<"retrying", "retryable">>,
     <<"reserved", "submitting">>, <<"retrying", "submitting">>,
     <<"submitting", "submitted">>, <<"submitted", "finalized">>,
     <<"submitting", "manual_review">>, <<"submitted", "manual_review">>}
    \cup {<<"submitting", "retryable">> : m \in UnlockModes \cap {"confirm"}}

\* A batch changes its status only along these edges, although runtimes write
\* from copies of the row that may be many steps old: nothing goes back over
\* the submit boundary, and no stale runtime reopens a finalized, released or
\* escalated batch.
OnlyBatchMoves ==
    [][\A b \in Batches :
          \/ row'[b].status = row[b].status
          \/ <<row[b].status, row'[b].status>> \in BatchMoves]_row

\* Money that left the wallet is accounted for: its batch is eventually booked
\* in the ledger or put before the operator, whatever crashes come between.
SentIsSettled ==
    \A t \in Transfers, b \in Batches :
        Sent(t) /\ wallet[t].batch = b
            ~> ledger[t] # NoBatch \/ row[b].status = "manual_review"

=============================================================================
