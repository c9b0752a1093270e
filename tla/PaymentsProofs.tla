--------------------------- MODULE PaymentsProofs ---------------------------
(***************************************************************************)
(* Theorems about Payments for every set of runtimes and accounts, every   *)
(* bound, every combination of faults and every unlock mode; those about   *)
(* the money that is moved, in the second half, as long as no operator     *)
(* attests the wallet history.                                             *)
(***************************************************************************)
EXTENDS Payments, TLAPS

\* What a cycle keeps in memory, typed.
LocalOK ==
    /\ pc \in [Runtimes -> Pcs]
    /\ cur \in [Runtimes -> Batches \cup {NoBatch}]
    /\ mem \in [Runtimes -> Row]
    /\ snap \in [Runtimes -> [Batches -> Row]]
    /\ plan \in [Runtimes -> [Accounts -> Nat]]
    /\ found \in [Runtimes -> Found]

\* Cycles that work on a batch: all, those on the way to the claim, and those
\* that claimed it.
Working == {"release", "submit", "preflight", "holdRetry", "recheck", "claim",
            "transfer", "reply", "ambiguous", "history", "reconcile",
            "search", "visible", "persist", "hold", "review", "finalize",
            "finalizeFailed", "refresh", "refreshReview"}
Claiming == {"submit", "preflight", "holdRetry", "recheck", "claim"}
Sending == {"transfer", "reply", "ambiguous", "history"}
Fresh == {"reserved", "retrying"}

\* A row recovery may load; submit_started_at is set with the claim only.
Loadable(x) == x.status \in Unsettled /\ (x.status = "reserved" => ~x.started)
StartedOK == \A b \in Batches : row[b].status = "reserved" => ~row[b].started

\* A cycle works on a batch whose copy showed an in-flight status; towards
\* the claim and towards a release that status is one the batch was never
\* sent under.
CycleOK(r) ==
    /\ pc[r] \in Working => cur[r] \in Batches /\ mem[r].status \in InFlight
    /\ pc[r] \in Claiming => mem[r].status \in Fresh
    /\ pc[r] = "release" => mem[r].status = "reserved"
    /\ pc[r] \in Sending => mem[r].status = "submitting"
    /\ pc[r] \in {"reconcile", "search", "persist", "review"} =>
          mem[r].status \in {"submitting", "submitted"}
    /\ pc[r] \in {"visible", "finalize", "finalizeFailed"} =>
          mem[r].status = "submitted"
    /\ pc[r] = "persist" =>
          found[r].then \in {"visible", "finalize", "hold", "review"}
    /\ \A b \in Batches : snap[r][b] = NoRow \/ Loadable(snap[r][b])

MemOK == \A r \in Runtimes : CycleOK(r)

\* A batch known to the wallet, or about to be, has left the statuses it can
\* be claimed from, and only one cycle is about to send it.
SendOK ==
    /\ \A t \in Transfers : wallet[t].batch = NoBatch => wallet[t].st = "free"
    /\ \A t \in Transfers :
          wallet[t].batch # NoBatch =>
              row[wallet[t].batch].status \notin Fresh \cup {"none"}
    /\ \A r \in Runtimes :
          pc[r] = "transfer" =>
              /\ row[cur[r]].status \notin Fresh \cup {"none"}
              /\ \A t \in Transfers : wallet[t].batch # cur[r]
    /\ \A r, s \in Runtimes :
          pc[r] = "transfer" /\ pc[s] = "transfer" /\ cur[r] = cur[s] => r = s
    /\ AtMostOneTransfer

\* Without attested unlocks, what may have been sent is never released.
ReleaseOK ==
    /\ tool.confirm => "confirm" \in UnlockModes
    /\ "confirm" \notin UnlockModes =>
          /\ \A t \in Transfers :
                wallet[t].batch # NoBatch =>
                    row[wallet[t].batch].status # "retryable"
          /\ \A r \in Runtimes :
                pc[r] = "transfer" => row[cur[r]].status # "retryable"

\* The empty values are of their types.
LEMMA EmptyValues ==
    /\ NoRow \in Row /\ NewRow \in Row
    /\ NoFound \in Found
    /\ NoSnap \in [Batches -> Row]
    /\ NoPlan \in [Accounts -> Nat]
    /\ ToolOff \in ToolStates
  BY DEF NoRow, NewRow, Row, Statuses, NoFound, Found, NoSnap, NoPlan,
         ToolOff, ToolStates

\* The row updates yield rows.
LEMMA RowUpdates ==
    /\ \A x \in Row : /\ Retrying(x) \in Row /\ Submitting(x) \in Row
                      /\ Held(x) \in Row /\ Released(x) \in Row
    /\ \A x \in Row, f \in Found : Submitted(x, f) \in Row
    /\ \A x \in Row, f \in Found : Reviewed(x, f) \in Row
    /\ \A x \in Row, t \in Transfers \cup {NoTx} : Finalized(x, t) \in Row
    /\ \A x \in Row, confirm \in BOOLEAN : Unlocked(x, confirm) \in Row
<1>1. \A x \in Row : /\ Retrying(x) \in Row /\ Submitting(x) \in Row
                     /\ Held(x) \in Row /\ Released(x) \in Row
  BY DEF Retrying, Submitting, Held, Released, Row, Statuses
<1>2. \A x \in Row, f \in Found : Submitted(x, f) \in Row
  BY DEF Submitted, Row, Statuses, Found
<1>3. \A x \in Row, f \in Found : Reviewed(x, f) \in Row
  BY DEF Reviewed, Row, Statuses, Found
<1>4. \A x \in Row, t \in Transfers \cup {NoTx} : Finalized(x, t) \in Row
  BY DEF Finalized, Row, Statuses
<1>5. \A x \in Row, confirm \in BOOLEAN : Unlocked(x, confirm) \in Row
  BY DEF Unlocked, Row, Statuses
<1>6. QED
  BY <1>1, <1>2, <1>3, <1>4, <1>5

\* A write of one row, if the row exists.
LEMMA RowWrite ==
    ASSUME TypeOK, NEW b, NEW x, b \in Batches => x \in Row,
           row' = [row EXCEPT ![b] = x]
    PROVE  row' \in [Batches -> Row]
  BY DEF TypeOK

\* What a wallet scan carries to the next write is typed.
LEMMA RememberTyped ==
    ASSUME TypeOK, NEW r \in Runtimes, NEW t \in Transfers \cup {NoTx},
           NEW k \in BOOLEAN,
           NEW then \in {"none", "visible", "finalize", "hold", "review",
                         "unsettled"},
           Remember(r, t, k, then)
    PROVE  found' \in [Runtimes -> Found]
  BY DEF TypeOK, Remember, Found

\* A wallet scan shows transfers of the wallet.
LEMMA ScansOfTransfers == \A b : \A m \in Scans(b) : m \subseteq Transfers
  BY DEF Scans

\* A cycle that returns or throws leaves typed memory (runCycle).
LEMMA EndCycleTyped ==
    ASSUME TypeOK, NEW r \in Runtimes, EndCycle(r)
    PROVE  LocalOK'
  BY EmptyValues DEF TypeOK, EndCycle, LocalOK, Goto, Pcs

\* The step to the next batch leaves typed memory.
LEMMA ClearedTyped ==
    ASSUME TypeOK, NEW r \in Runtimes, Cleared(r)
    PROVE  LocalOK'
<1> DEFINE rest == [snap[r] EXCEPT ![cur[r]] = NoRow]
<1>1. rest \in [Batches -> Row]
  BY EmptyValues DEF TypeOK
<1>2. pc' \in [Runtimes -> Pcs]
  BY DEF TypeOK, Cleared, Goto, Pcs
<1>3. snap' \in [Runtimes -> [Batches -> Row]]
  <2>1. snap' = [snap EXCEPT ![r] = rest] \/ snap' = snap
    BY DEF Cleared
  <2>2. snap \in [Runtimes -> [Batches -> Row]]
    BY DEF TypeOK
  <2> HIDE DEF rest
  <2>3. QED
    BY <1>1, <2>1, <2>2
<1>4. QED
  BY <1>2, <1>3, EmptyValues DEF TypeOK, Cleared, LocalOK

\* A failed verifyAdvisoryLock leaves typed state.
LEMMA LockCheckFailsTyped ==
    ASSUME TypeOK, NEW r \in Runtimes, LockCheckFails(r)
    PROVE  /\ LocalOK'
           /\ failStop' \in [Runtimes -> BOOLEAN]
           /\ conn' \in [Runtimes -> BOOLEAN]
           /\ lockOwner' \in Runtimes \cup {"nobody", "tool"}
  BY EndCycleTyped DEF TypeOK, LockCheckFails, Release

\* checkExclusiveAccess leaves typed state, whatever it answers.
LEMMA CheckExclusiveAccessTyped ==
    ASSUME TypeOK, NEW r \in Runtimes, NEW label \in Pcs,
           CheckExclusiveAccess(r, label)
    PROVE  /\ LocalOK'
           /\ failStop' \in [Runtimes -> BOOLEAN]
           /\ conn' \in [Runtimes -> BOOLEAN]
           /\ lockOwner' \in Runtimes \cup {"nobody", "tool"}
  BY EndCycleTyped, LockCheckFailsTyped
     DEF TypeOK, LocalOK, CheckExclusiveAccess, Goto, batchVars

\* A process that ends leaves typed state.
LEMMA TerminateTyped ==
    ASSUME TypeOK, NEW r \in Runtimes, Terminate(r)
    PROVE  TypeOK'
  BY EmptyValues DEF TypeOK, Terminate, Release, Pcs, sqlVars

\* Start, stop, crash and the lock's events keep TypeOK.
LEMMA LifecycleTyped ==
    ASSUME TypeOK, NEW r \in Runtimes, Lifecycle(r)
    PROVE  TypeOK'
<1>1. CASE Start(r)
  BY <1>1 DEF TypeOK, Start, Goto, Pcs, sqlVars, batchVars
<1>2. CASE Stop(r)
  BY <1>2, TerminateTyped DEF Stop
<1>3. CASE Crash(r)
  BY <1>3, TerminateTyped DEF Crash
<1>4. CASE EnsureAdvisoryLock(r)
  <2>1. /\ LocalOK'
        /\ failStop' \in [Runtimes -> BOOLEAN]
        /\ conn' \in [Runtimes -> BOOLEAN]
        /\ lockOwner' \in Runtimes \cup {"nobody", "tool"}
    BY <1>4, EndCycleTyped, LockCheckFailsTyped
       DEF TypeOK, LocalOK, EnsureAdvisoryLock, Goto, Pcs, batchVars
  <2>2. QED
    BY <1>4, <2>1 DEF TypeOK, LocalOK, EnsureAdvisoryLock, sqlVars
<1>5. CASE LoseLock(r)
  BY <1>5 DEF TypeOK, LoseLock, sqlVars, batchVars
<1>6. CASE HandleAdvisoryLockConnectionClose(r)
  BY <1>6 DEF TypeOK, HandleAdvisoryLockConnectionClose, sqlVars, batchVars
<1>7. CASE SqlError(r)
  BY <1>7, EndCycleTyped DEF TypeOK, LocalOK, SqlError, sqlVars
<1>8. QED
  BY <1>1, <1>2, <1>3, <1>4, <1>5, <1>6, <1>7 DEF Lifecycle

\* recoverPendingBatches and reconciliation keep TypeOK.
LEMMA RecoveryTyped ==
    ASSUME TypeOK, NEW r \in Runtimes, Recovery(r)
    PROVE  TypeOK'
<1>1. CASE EnterRecovery(r)
  <2>1. "load" \in Pcs
    BY DEF Pcs
  <2>2. QED
    BY <1>1, <2>1, CheckExclusiveAccessTyped
       DEF TypeOK, LocalOK, EnterRecovery, sqlVars
<1>2. CASE RecoverPendingBatches(r)
  <2> DEFINE rows == [b \in Batches |-> IF row[b].status \in Unsettled
                                        THEN row[b] ELSE NoRow]
  <2>1. rows \in [Batches -> Row]
    BY EmptyValues DEF TypeOK
  <2>2. snap' = [snap EXCEPT ![r] = rows]
    BY <1>2 DEF RecoverPendingBatches
  <2>3. pc' \in [Runtimes -> Pcs]
    BY <1>2 DEF TypeOK, RecoverPendingBatches, Goto, Pcs
  <2> HIDE DEF rows
  <2>4. snap' \in [Runtimes -> [Batches -> Row]]
    BY <2>1, <2>2 DEF TypeOK
  <2>5. QED
    BY <1>2, <2>3, <2>4 DEF TypeOK, RecoverPendingBatches, sqlVars
<1>3. CASE RecoverBatch(r)
  <2>1. PICK b \in Batches :
          \/ /\ EndCycle(r)
             /\ UNCHANGED <<lockOwner, failStop, conn>>
          \/ LockCheckFails(r)
          \/ /\ failStop' = [failStop EXCEPT ![r] = TRUE]
             /\ EndCycle(r)
             /\ UNCHANGED <<lockOwner, conn>>
          \/ /\ cur' = [cur EXCEPT ![r] = b]
             /\ mem' = [mem EXCEPT ![r] = snap[r][b]]
             /\ Goto(r, RecoveryStep(snap[r][b]))
             /\ UNCHANGED <<lockOwner, failStop, conn, snap, plan, found>>
    BY <1>3 DEF RecoverBatch
  <2>2. \A x : RecoveryStep(x) \in Pcs
    BY DEF RecoveryStep, Pcs
  <2>3. CASE LockCheckFails(r)
    BY <1>3, <2>3, LockCheckFailsTyped DEF TypeOK, LocalOK, RecoverBatch, sqlVars
  <2>6. CASE /\ EndCycle(r)
             /\ \/ UNCHANGED failStop
                \/ failStop' = [failStop EXCEPT ![r] = TRUE]
             /\ UNCHANGED <<lockOwner, conn>>
    <3>1. failStop' \in [Runtimes -> BOOLEAN]
      BY <2>6 DEF TypeOK
    <3>2. QED
      BY <1>3, <2>6, <3>1, EndCycleTyped
         DEF TypeOK, LocalOK, RecoverBatch, sqlVars
  <2>4. CASE /\ cur' = [cur EXCEPT ![r] = b]
             /\ mem' = [mem EXCEPT ![r] = snap[r][b]]
             /\ Goto(r, RecoveryStep(snap[r][b]))
             /\ UNCHANGED <<lockOwner, failStop, conn, snap, plan, found>>
    <3>1. snap[r][b] \in Row
      BY DEF TypeOK
    <3>2. QED
      BY <1>3, <2>2, <2>4, <3>1 DEF TypeOK, RecoverBatch, Goto, sqlVars
  <2>5. QED
    BY <2>1, <2>3, <2>4, <2>6
<1>4. CASE ReleaseBatchReservation(r)
  <2>1. LocalOK'
    BY <1>4, EndCycleTyped, ClearedTyped DEF ReleaseBatchReservation
  <2>2. row' \in [Batches -> Row]
    <3>1. cur[r] \in Batches => Released(row[cur[r]]) \in Row
      BY RowUpdates DEF TypeOK
    <3>2. row' = row \/ row' = [row EXCEPT ![cur[r]] = Released(row[cur[r]])]
      BY <1>4 DEF ReleaseBatchReservation
    <3>3. QED
      BY <3>1, <3>2, RowWrite DEF TypeOK
  <2>3. pending' \in [Accounts -> Batches \cup {NoBatch}]
    BY <1>4 DEF TypeOK, ReleaseBatchReservation, Unpinned
  <2>4. QED
    BY <1>4, <2>1, <2>2, <2>3 DEF TypeOK, LocalOK, ReleaseBatchReservation
<1>5. CASE ReconcileBatch(r)
  BY <1>5, EndCycleTyped
     DEF TypeOK, LocalOK, ReconcileBatch, Goto, Pcs, sqlVars, batchVars
<1>6. CASE WalletUnavailable(r)
  BY <1>6 DEF TypeOK, WalletUnavailable, Goto, Pcs, sqlVars, batchVars
<1>7. CASE FindWalletTransferMatch(r)
  <2>1. pc' \in [Runtimes -> Pcs]
    BY <1>7 DEF TypeOK, FindWalletTransferMatch, Goto, Pcs
  <2>2. \/ found' = found
        \/ \E t \in Transfers : \/ Remember(r, t, TRUE, "finalize")
                                \/ Remember(r, t, FALSE, "hold")
                                \/ Remember(r, t, FALSE, "none")
    BY <1>7, ScansOfTransfers DEF FindWalletTransferMatch
  <2>3. found' \in [Runtimes -> Found]
    BY <2>2, RememberTyped DEF TypeOK
  <2>4. QED
    BY <1>7, <2>1, <2>3 DEF TypeOK, FindWalletTransferMatch, sqlVars
<1>8. CASE FindSubmittedTransferVisibility(r)
  BY <1>8 DEF TypeOK, FindSubmittedTransferVisibility, Goto, Pcs, sqlVars,
              batchVars
<1>9. QED
  BY <1>1, <1>2, <1>3, <1>4, <1>5, <1>6, <1>7, <1>8 DEF Recovery

\* Planning, reservation and submission keep TypeOK.
LEMMA SubmissionTyped ==
    ASSUME TypeOK, NEW r \in Runtimes, Submission(r)
    PROVE  TypeOK'
<1>1. CASE PlanBatches(r)
  <2>1. PICK p \in [Accounts -> 0..MaxAmount] :
          /\ plan' = [plan EXCEPT ![r] = p]
          /\ Goto(r, IF p = NoPlan THEN "idle" ELSE "verify")
    BY <1>1 DEF PlanBatches
  <2>2. p \in [Accounts -> Nat]
    BY BoundsAssumption
  <2>3. plan' \in [Runtimes -> [Accounts -> Nat]]
    BY <2>1, <2>2 DEF TypeOK
  <2>4. pc' \in [Runtimes -> Pcs]
    BY <2>1 DEF TypeOK, Goto, Pcs
  <2>5. QED
    BY <1>1, <2>3, <2>4 DEF TypeOK, PlanBatches, sqlVars
<1>2. CASE VerifyBeforeReserve(r)
  <2>1. CASE LockCheckFails(r)
    BY <1>2, <2>1, LockCheckFailsTyped
       DEF TypeOK, LocalOK, VerifyBeforeReserve, sqlVars
  <2>2. CASE ~LockCheckFails(r)
    BY <1>2, <2>2
       DEF TypeOK, VerifyBeforeReserve, Goto, Pcs, sqlVars, batchVars
  <2>3. QED
    BY <2>1, <2>2
<1>3. CASE ReserveBatch(r)
  <2>1. PICK chunk \in SUBSET {a \in Accounts : plan[r][a] > 0} :
          \/ \E b \in Batches :
                /\ row' = [row EXCEPT ![b] = NewRow]
                /\ items' = [items EXCEPT ![b] =
                      [a \in Accounts |-> IF a \in chunk THEN plan[r][a]
                                                        ELSE 0]]
                /\ pending' = [a \in Accounts |-> IF a \in chunk THEN b
                                                  ELSE pending[a]]
                /\ cur' = [cur EXCEPT ![r] = b]
                /\ mem' = [mem EXCEPT ![r] = NewRow]
                /\ plan' = [plan EXCEPT ![r] =
                      [a \in Accounts |-> IF a \in chunk THEN 0
                                                        ELSE plan[r][a]]]
                /\ Goto(r, "submit")
                /\ UNCHANGED <<snap, found>>
          \/ EndCycle(r) /\ UNCHANGED <<row, items, pending>>
    BY <1>3 DEF ReserveBatch
  <2>2. CASE EndCycle(r) /\ UNCHANGED <<row, items, pending>>
    BY <1>3, <2>2, EndCycleTyped DEF TypeOK, LocalOK, ReserveBatch
  <2>3. CASE ~(EndCycle(r) /\ UNCHANGED <<row, items, pending>>)
    <3> DEFINE part == [a \in Accounts |-> IF a \in chunk THEN plan[r][a]
                                                         ELSE 0]
               rest == [a \in Accounts |-> IF a \in chunk THEN 0
                                                         ELSE plan[r][a]]
    <3>1. PICK b \in Batches :
                /\ row' = [row EXCEPT ![b] = NewRow]
                /\ items' = [items EXCEPT ![b] = part]
                /\ pending' = [a \in Accounts |-> IF a \in chunk THEN b
                                                  ELSE pending[a]]
                /\ cur' = [cur EXCEPT ![r] = b]
                /\ mem' = [mem EXCEPT ![r] = NewRow]
                /\ plan' = [plan EXCEPT ![r] = rest]
                /\ Goto(r, "submit")
                /\ UNCHANGED <<snap, found>>
      BY <2>1, <2>3
    <3>2. part \in [Accounts -> Nat] /\ rest \in [Accounts -> Nat]
      BY DEF TypeOK
    <3>3. pending' \in [Accounts -> Batches \cup {NoBatch}]
      BY <3>1 DEF TypeOK
    <3> HIDE DEF part, rest
    <3>4. /\ items' \in [Batches -> [Accounts -> Nat]]
          /\ plan' \in [Runtimes -> [Accounts -> Nat]]
      BY <3>1, <3>2 DEF TypeOK
    <3>5. /\ row' \in [Batches -> Row] /\ mem' \in [Runtimes -> Row]
          /\ cur' \in [Runtimes -> Batches \cup {NoBatch}]
          /\ pc' \in [Runtimes -> Pcs]
      BY <3>1, EmptyValues DEF TypeOK, Goto, Pcs
    <3>6. QED
      BY <1>3, <3>1, <3>3, <3>4, <3>5 DEF TypeOK, ReserveBatch
  <2>4. QED
    BY <2>2, <2>3
<1>4. CASE SubmitReservedBatch(r)
  <2>1. "preflight" \in Pcs /\ "claim" \in Pcs
    BY DEF Pcs
  <2>2. QED
    BY <1>4, <2>1, CheckExclusiveAccessTyped
       DEF TypeOK, LocalOK, SubmitReservedBatch, sqlVars
<1>5. CASE PreflightWalletBalance(r)
  BY <1>5 DEF TypeOK, PreflightWalletBalance, RetryStep, Goto, Pcs, sqlVars,
              batchVars
<1>6. CASE HoldBatchForRetry(r)
  <2>1. CASE LostUpdate(r, "refresh")
    BY <1>6, <2>1 DEF TypeOK, HoldBatchForRetry, LostUpdate, Goto, Pcs,
                      sqlVars, batchVars
  <2>2. CASE ~LostUpdate(r, "refresh")
    <3>1. row' \in [Batches -> Row]
      <4>1. cur[r] \in Batches => Retrying(row[cur[r]]) \in Row
        BY RowUpdates DEF TypeOK
      <4>2. QED
        BY <1>6, <2>2, <4>1, RowWrite DEF HoldBatchForRetry
    <3>2. QED
      BY <1>6, <2>2, <3>1, EndCycleTyped DEF TypeOK, LocalOK, HoldBatchForRetry
  <2>3. QED
    BY <2>1, <2>2
<1>7. CASE ClaimBatchForSubmit(r)
  <2>1. CASE ClaimGuard(r)
    <3>1. row' \in [Batches -> Row]
      <4>1. cur[r] \in Batches => Submitting(row[cur[r]]) \in Row
        BY RowUpdates DEF TypeOK
      <4>2. QED
        BY <1>7, <2>1, <4>1, RowWrite DEF ClaimBatchForSubmit
    <3>2. mem' \in [Runtimes -> Row]
      <4>1. Submitting(mem[r]) \in Row
        BY RowUpdates DEF TypeOK
      <4>2. QED
        BY <1>7, <2>1, <4>1 DEF TypeOK, ClaimBatchForSubmit
    <3>3. QED
      BY <1>7, <2>1, <3>1, <3>2 DEF TypeOK, ClaimBatchForSubmit, Goto, Pcs
  <2>2. CASE ~ClaimGuard(r)
    BY <1>7, <2>2 DEF TypeOK, ClaimBatchForSubmit, Goto, Pcs, sqlVars, batchVars
  <2>3. QED
    BY <2>1, <2>2
<1>8. CASE IssueTransfer(r)
  <2>1. wallet' \in [Transfers -> WalletTx]
    BY <1>8 DEF TypeOK, IssueTransfer, WalletTx, WalletStates
  <2>2. found' \in [Runtimes -> Found]
    BY <1>8, RememberTyped DEF IssueTransfer
  <2>3. QED
    BY <1>8, <2>1, <2>2 DEF TypeOK, IssueTransfer, Goto, Pcs, sqlVars
<1>9. CASE TransferReply(r)
  <2>1. pc' \in [Runtimes -> Pcs]
    BY <1>9 DEF TypeOK, TransferReply, Goto, Pcs
  <2>2. found' \in [Runtimes -> Found]
    <3>1. found[r].tx \in Transfers \cup {NoTx}
      BY DEF TypeOK, Found
    <3>2. QED
      BY <1>9, <3>1, RememberTyped DEF TransferReply
  <2>3. QED
    BY <1>9, <2>1, <2>2 DEF TypeOK, TransferReply, sqlVars
<1>10. CASE ReconcileAmbiguousSubmit(r)
  BY <1>10 DEF TypeOK, ReconcileAmbiguousSubmit, LostUpdate, Goto, Pcs,
               sqlVars, batchVars
<1>11. CASE ReconcileHistoryCheckedSubmitError(r)
  <2>1. pc' \in [Runtimes -> Pcs]
    BY <1>11 DEF TypeOK, ReconcileHistoryCheckedSubmitError, Goto, Pcs
  <2>2. \/ found' = found
        \/ \E t \in Transfers, k \in BOOLEAN : Remember(r, t, k, "none")
    BY <1>11, ScansOfTransfers DEF ReconcileHistoryCheckedSubmitError
  <2>3. found' \in [Runtimes -> Found]
    BY <2>2, RememberTyped DEF TypeOK
  <2>4. QED
    BY <1>11, <2>1, <2>3
       DEF TypeOK, ReconcileHistoryCheckedSubmitError, sqlVars
<1>12. QED
  BY <1>1, <1>2, <1>3, <1>4, <1>5, <1>6, <1>7, <1>8, <1>9, <1>10, <1>11
     DEF Submission

\* Holds, escalation, persistence and finalization keep TypeOK.  The label
\* persistSubmittedBatch returns to and the batch finalizeBatch books are
\* typed by MemOK only.
LEMMA SettlementTyped ==
    ASSUME TypeOK, MemOK, NEW r \in Runtimes, Settlement(r)
    PROVE  TypeOK'
<1>1. CASE RefreshBatch(r)
  <2>1. failStop' \in [Runtimes -> BOOLEAN]
    BY <1>1 DEF TypeOK, RefreshBatch
  <2>2. LocalOK'
    BY <1>1, EndCycleTyped, ClearedTyped DEF RefreshBatch
  <2>3. QED
    BY <1>1, <2>1, <2>2 DEF TypeOK, LocalOK, RefreshBatch, sqlVars
<1>2. CASE HoldBatch(r)
  <2>1. CASE LostUpdate(r, "refresh")
    BY <1>2, <2>1 DEF TypeOK, HoldBatch, LostUpdate, Goto, Pcs, sqlVars,
                      batchVars
  <2>2. CASE ~LostUpdate(r, "refresh")
    <3>1. cur[r] \in Batches => Held(row[cur[r]]) \in Row
      BY RowUpdates DEF TypeOK
    <3>2. row' \in [Batches -> Row]
      BY <1>2, <2>2, <3>1, RowWrite DEF HoldBatch
    <3>3. QED
      BY <1>2, <2>2, <3>2, EndCycleTyped DEF TypeOK, LocalOK, HoldBatch
  <2>3. QED
    BY <2>1, <2>2
<1>3. CASE MarkBatchManualReview(r)
  <2>1. CASE LostUpdate(r, "refreshReview")
    BY <1>3, <2>1 DEF TypeOK, MarkBatchManualReview, LostUpdate, Goto, Pcs,
                      sqlVars, batchVars
  <2>2. CASE ~LostUpdate(r, "refreshReview")
    <3>1. cur[r] \in Batches => Reviewed(row[cur[r]], found[r]) \in Row
      BY RowUpdates DEF TypeOK
    <3>2. \/ row' = row
          \/ row' = [row EXCEPT ![cur[r]] = Reviewed(row[cur[r]], found[r])]
      BY <1>3, <2>2 DEF MarkBatchManualReview, sqlVars
    <3>3. row' \in [Batches -> Row]
      BY <3>1, <3>2, RowWrite DEF TypeOK
    <3>4. failStop' \in [Runtimes -> BOOLEAN]
      BY <1>3, <2>2 DEF TypeOK, MarkBatchManualReview
    <3>5. LocalOK'
      BY <1>3, <2>2, EndCycleTyped DEF MarkBatchManualReview
    <3>6. QED
      BY <1>3, <2>2, <3>3, <3>4, <3>5
         DEF TypeOK, LocalOK, MarkBatchManualReview, sqlVars
  <2>3. QED
    BY <2>1, <2>2
<1>4. CASE PersistSubmittedBatch(r)
  <2>1. CASE LostUpdate(r, "refresh")
    BY <1>4, <2>1 DEF TypeOK, PersistSubmittedBatch, LostUpdate, Goto, Pcs,
                      sqlVars, batchVars
  <2>2. CASE EndCycle(r) /\ UNCHANGED <<sqlVars, failStop>>
    BY <1>4, <2>2, EndCycleTyped
       DEF TypeOK, LocalOK, PersistSubmittedBatch, sqlVars
  <2>3. CASE /\ ~LostUpdate(r, "refresh")
             /\ ~(EndCycle(r) /\ UNCHANGED <<sqlVars, failStop>>)
    <3>1. /\ row' = [row EXCEPT ![cur[r]] = Submitted(row[cur[r]], found[r])]
          /\ mem' = [mem EXCEPT ![r] = Submitted(mem[r], found[r])]
          /\ Goto(r, found[r].then)
          /\ UNCHANGED <<items, amount, pending, ledger, failStop, cur, snap,
                         plan, found>>
      BY <1>4, <2>3 DEF PersistSubmittedBatch
    <3>2. /\ cur[r] \in Batches => Submitted(row[cur[r]], found[r]) \in Row
          /\ Submitted(mem[r], found[r]) \in Row
      BY RowUpdates DEF TypeOK
    <3>3. row' \in [Batches -> Row]
      BY <3>1, <3>2, RowWrite
    <3>4. mem' \in [Runtimes -> Row]
      BY <3>1, <3>2 DEF TypeOK
    <3>5. found[r].then \in Pcs
      BY <1>4 DEF MemOK, CycleOK, PersistSubmittedBatch, Pcs
    <3>6. QED
      BY <1>4, <3>1, <3>3, <3>4, <3>5 DEF TypeOK, PersistSubmittedBatch, Goto
  <2>4. QED
    BY <2>1, <2>2, <2>3
<1>5. CASE ResolveTxKeyFails(r)
  <2>1. mem[r].hash \in Transfers \cup {NoTx}
    BY DEF TypeOK, Row
  <2>2. found' \in [Runtimes -> Found]
    BY <1>5, <2>1, RememberTyped DEF ResolveTxKeyFails
  <2>3. QED
    BY <1>5, <2>2 DEF TypeOK, ResolveTxKeyFails, Goto, Pcs, sqlVars
<1>6. CASE FinalizeBatch(r)
  <2>1. cur[r] \in Batches
    BY <1>6 DEF MemOK, CycleOK, Working, FinalizeBatch
  <2>2. mem[r].hash \in Transfers \cup {NoTx}
    BY DEF TypeOK, Row
  <2>3. Finalized(row[cur[r]], mem[r].hash) \in Row
    BY <2>1, <2>2, RowUpdates DEF TypeOK
  <2>4. row' \in [Batches -> Row]
    BY <1>6, <2>3, RowWrite DEF FinalizeBatch
  <2>5. pending' \in [Accounts -> Batches \cup {NoBatch}]
    BY <1>6 DEF TypeOK, FinalizeBatch, Unpinned
  <2>6. ledger' \in [Transfers -> Batches \cup {NoBatch}]
    BY <1>6, <2>1 DEF TypeOK, FinalizeBatch
  <2>7. amount' \in [Accounts -> Int]
    <3>1. \A a \in Accounts : amount[a] - items[cur[r]][a] \in Int
      <4>1. \A a \in Accounts : amount[a] \in Int /\ items[cur[r]][a] \in Nat
        BY <2>1 DEF TypeOK
      <4>2. QED
        BY <4>1
    <3>2. QED
      BY <1>6, <3>1 DEF FinalizeBatch
  <2>8. LocalOK'
    BY <1>6, ClearedTyped
       DEF TypeOK, LocalOK, FinalizeBatch, Goto, Pcs, batchVars
  <2>9. QED
    BY <1>6, <2>4, <2>5, <2>6, <2>7, <2>8 DEF TypeOK, LocalOK, FinalizeBatch
<1>7. CASE FinalizeRollsBack(r)
  BY <1>7 DEF TypeOK, FinalizeRollsBack, Goto, Pcs, sqlVars, batchVars
<1>8. CASE FinalizeFailed(r)
  <2> DEFINE x == IF Current(r) THEN Held(row[cur[r]]) ELSE row[cur[r]]
  <2>1. cur[r] \in Batches => x \in Row
    BY RowUpdates DEF TypeOK
  <2>2. row' = [row EXCEPT ![cur[r]] = x]
    BY <1>8 DEF FinalizeFailed
  <2> HIDE DEF x
  <2>3. row' \in [Batches -> Row]
    BY <2>1, <2>2, RowWrite
  <2>4. QED
    BY <1>8, <2>3, EndCycleTyped DEF TypeOK, LocalOK, FinalizeFailed
<1>9. QED
  BY <1>1, <1>2, <1>3, <1>4, <1>5, <1>6, <1>7, <1>8 DEF Settlement

\* The wallet and applyBalanceCredits keep TypeOK.
LEMMA EnvironmentTyped == TypeOK /\ Environment => TypeOK'
<1> SUFFICES ASSUME TypeOK, Environment PROVE TypeOK'
  OBVIOUS
<1>1. ASSUME NEW t \in Transfers,
             ExecuteTransfer(t) \/ RevealTransfer(t) \/ RejectTransfer(t)
      PROVE  TypeOK'
  <2>1. PICK st \in WalletStates : wallet' = [wallet EXCEPT ![t].st = st]
    BY <1>1 DEF ExecuteTransfer, RevealTransfer, RejectTransfer, WalletStates
  <2>3. [wallet[t] EXCEPT !.st = st] \in WalletTx
    BY DEF TypeOK, WalletTx
  <2>4. wallet' \in [Transfers -> WalletTx]
    BY <2>1, <2>3 DEF TypeOK
  <2>2. QED
    BY <1>1, <2>4 DEF TypeOK, ExecuteTransfer, RevealTransfer, RejectTransfer,
                      sqlVars, batchVars
<1>2. ASSUME NEW a \in Accounts, CreditBalance(a)
      PROVE  TypeOK'
  <2>1. amount' \in [Accounts -> Int]
    BY <1>2 DEF TypeOK, CreditBalance
  <2>2. QED
    BY <1>2, <2>1 DEF TypeOK, CreditBalance, batchVars
<1>3. QED
  BY <1>1, <1>2 DEF Environment

\* payment_batch_unlock.js keeps TypeOK.
LEMMA OperatorTyped == TypeOK /\ Operator => TypeOK'
<1> SUFFICES ASSUME TypeOK, Operator PROVE TypeOK'
  OBVIOUS
<1>1. ASSUME NEW b \in Batches, NEW confirm \in BOOLEAN,
             UnlockStart(b, confirm)
      PROVE  TypeOK'
  BY <1>1 DEF TypeOK, UnlockStart, ToolStates, sqlVars, batchVars
<1>2. CASE AssertWalletHistoryClear
  BY <1>2 DEF TypeOK, AssertWalletHistoryClear, ToolStates, sqlVars, batchVars
<1>3. CASE UnlockBatch
  <2>1. tool.batch \in Batches => Unlocked(row[tool.batch], tool.confirm) \in Row
    BY RowUpdates DEF TypeOK, ToolStates
  <2>2. \/ row' = row
        \/ row' = [row EXCEPT ![tool.batch] = Unlocked(@, tool.confirm)]
    BY <1>3 DEF UnlockBatch
  <2>3. row' \in [Batches -> Row]
    BY <2>1, <2>2, RowWrite DEF TypeOK
  <2>4. pending' \in [Accounts -> Batches \cup {NoBatch}]
    BY <1>3 DEF TypeOK, UnlockBatch, Unpinned
  <2>5. QED
    BY <1>3, <2>3, <2>4, EmptyValues DEF TypeOK, UnlockBatch, Release, batchVars
<1>4. CASE UnlockRefused
  BY <1>4, EmptyValues DEF TypeOK, UnlockRefused, Release, sqlVars, batchVars
<1>5. QED
  BY <1>1, <1>2, <1>3, <1>4 DEF Operator

-----------------------------------------------------------------------------
(* What the cycles remember.                                               *)

\* A step of runtime r leaves every other runtime's cycle alone.
OnlyCycle(r) ==
    \A s \in Runtimes \ {r} :
        /\ pc'[s] = pc[s] /\ cur'[s] = cur[s] /\ mem'[s] = mem[s]
        /\ snap'[s] = snap[s] /\ found'[s] = found[s]

\* A cycle that ends remembers nothing.
LEMMA EndCycleKeeps ==
    ASSUME TypeOK, NEW r \in Runtimes, EndCycle(r)
    PROVE  OnlyCycle(r) /\ CycleOK(r)' /\ pc'[r] = "idle"
<1>1. /\ pc'[r] = "idle" /\ snap'[r] = NoSnap
      /\ OnlyCycle(r)
  BY DEF TypeOK, EndCycle, Goto, OnlyCycle
<1>2. \A b \in Batches : NoSnap[b] = NoRow
  BY DEF NoSnap
<1>3. QED
  BY <1>1, <1>2 DEF CycleOK, Working, Claiming, Sending

\* The step to the next batch keeps the rows still to recover.
LEMMA ClearedKeeps ==
    ASSUME TypeOK, NEW r \in Runtimes, CycleOK(r), Cleared(r)
    PROVE  OnlyCycle(r) /\ CycleOK(r)'
           /\ pc'[r] \in {"plan", "check", "idle", "verify"}
<1> DEFINE rest == [snap[r] EXCEPT ![cur[r]] = NoRow]
<1>1. OnlyCycle(r)
  BY DEF TypeOK, Cleared, Goto, OnlyCycle
<1>2. pc'[r] \in {"plan", "check", "idle", "verify"}
  BY DEF TypeOK, Cleared, Goto
<1>3. snap'[r] = snap[r] \/ snap'[r] = rest
  BY DEF TypeOK, Cleared
<1>4. \A b \in Batches : rest[b] = NoRow \/ rest[b] = snap[r][b]
  BY DEF TypeOK
<1> HIDE DEF rest
<1>5. \A b \in Batches : snap'[r][b] = NoRow \/ Loadable(snap'[r][b])
  BY <1>3, <1>4 DEF CycleOK
<1>6. QED
  BY <1>1, <1>2, <1>5 DEF CycleOK, Working, Claiming, Sending

\* A step to a control point outside any batch's work.
LEMMA GotoKeeps ==
    ASSUME TypeOK, NEW r \in Runtimes, CycleOK(r), NEW label \in Pcs,
           Goto(r, label), UNCHANGED <<cur, mem, snap>>,
           \/ found' = found
           \/ \E t, k, then : Remember(r, t, k, then)
    PROVE  /\ OnlyCycle(r)
           /\ pc'[r] = label
           /\ cur'[r] = cur[r] /\ mem'[r] = mem[r] /\ snap'[r] = snap[r]
  BY DEF TypeOK, Goto, OnlyCycle, Remember

\* A lock check on the way to recovery or to the claim keeps CycleOK.
LEMMA CheckKeeps ==
    ASSUME TypeOK, NEW r \in Runtimes, CycleOK(r), NEW label \in Pcs,
           CheckExclusiveAccess(r, label),
           \/ label = "load"
           \/ label \in Claiming /\ pc[r] \in Claiming
    PROVE  OnlyCycle(r) /\ CycleOK(r)' /\ pc'[r] \in {label, "idle"}
<1>1. CASE EndCycle(r)
  BY <1>1, EndCycleKeeps
<1>2. CASE Goto(r, label) /\ UNCHANGED batchVars
  <2>1. /\ OnlyCycle(r) /\ pc'[r] = label
        /\ cur'[r] = cur[r] /\ mem'[r] = mem[r] /\ snap'[r] = snap[r]
    BY <1>2, GotoKeeps DEF batchVars
  <2>2. QED
    BY <2>1 DEF CycleOK, Working, Claiming, Sending
<1>3. QED
  BY <1>1, <1>2 DEF CheckExclusiveAccess, LockCheckFails

\* Life-cycle events keep CycleOK and never start a transfer.
LEMMA LifecycleKeeps ==
    ASSUME TypeOK, MemOK, NEW r \in Runtimes, Lifecycle(r)
    PROVE  /\ OnlyCycle(r) /\ CycleOK(r)'
           /\ pc'[r] = "transfer" => pc[r] = "transfer" /\ cur'[r] = cur[r]
<1> USE DEF MemOK
<1>1. CASE Start(r)
  BY <1>1 DEF TypeOK, Start, Goto, OnlyCycle, CycleOK, Working, Claiming,
              Sending, batchVars
<1>2. CASE Stop(r) \/ Crash(r)
  <2>1. /\ pc'[r] = "down" /\ snap'[r] = NoSnap
        /\ OnlyCycle(r)
    BY <1>2 DEF TypeOK, Stop, Crash, Terminate, OnlyCycle
  <2>2. \A b \in Batches : NoSnap[b] = NoRow
    BY DEF NoSnap
  <2>3. QED
    BY <2>1, <2>2 DEF CycleOK, Working, Claiming, Sending
<1>3. CASE EnsureAdvisoryLock(r)
  <2>1. CASE EndCycle(r)
    BY <2>1, EndCycleKeeps DEF Working
  <2>2. CASE Goto(r, "reensure") /\ UNCHANGED batchVars
    BY <2>2 DEF TypeOK, Goto, OnlyCycle, CycleOK, Working, Claiming, Sending,
                batchVars
  <2>3. QED
    BY <1>3, <2>1, <2>2 DEF EnsureAdvisoryLock, LockCheckFails
<1>4. CASE LoseLock(r) \/ HandleAdvisoryLockConnectionClose(r)
  BY <1>4 DEF LoseLock, HandleAdvisoryLockConnectionClose, OnlyCycle, CycleOK,
              batchVars
<1>5. CASE SqlError(r)
  BY <1>5, EndCycleKeeps DEF SqlError, Working
<1>6. QED
  BY <1>1, <1>2, <1>3, <1>4, <1>5 DEF Lifecycle

\* Recovery keeps CycleOK: what it loads is Loadable, what it dispatches to
\* submission is retrying, what it dispatches to release is reserved.
LEMMA RecoveryKeeps ==
    ASSUME TypeOK, MemOK, StartedOK, NEW r \in Runtimes, Recovery(r)
    PROVE  OnlyCycle(r) /\ CycleOK(r)' /\ pc'[r] # "transfer"
<1> USE DEF MemOK
<1>1. CASE EnterRecovery(r)
  BY <1>1, CheckKeeps DEF EnterRecovery, Pcs
<1>2. CASE RecoverPendingBatches(r)
  <2> DEFINE rows == [b \in Batches |-> IF row[b].status \in Unsettled
                                        THEN row[b] ELSE NoRow]
  <2>1. /\ OnlyCycle(r) /\ pc'[r] \in {"plan", "check"}
        /\ snap'[r] = rows
    BY <1>2 DEF TypeOK, RecoverPendingBatches, Goto, OnlyCycle
  <2>2. \A b \in Batches : rows[b] = NoRow \/ Loadable(rows[b])
    BY DEF StartedOK, Loadable
  <2> HIDE DEF rows
  <2>3. QED
    BY <2>1, <2>2 DEF CycleOK, Working, Claiming, Sending
<1>3. CASE RecoverBatch(r)
  <2>1. CASE EndCycle(r)
    BY <2>1, EndCycleKeeps
  <2>2. CASE ~EndCycle(r)
    <3>1. PICK b \in Batches :
             /\ snap[r][b] # NoRow
             /\ snap[r][b].status # "manual_review"
             /\ cur' = [cur EXCEPT ![r] = b]
             /\ mem' = [mem EXCEPT ![r] = snap[r][b]]
             /\ Goto(r, RecoveryStep(snap[r][b]))
             /\ UNCHANGED <<lockOwner, failStop, conn, snap, plan, found>>
      BY <1>3, <2>2 DEF RecoverBatch, LockCheckFails
    <3>2. Loadable(snap[r][b]) /\ snap[r][b].status # "manual_review"
      BY <3>1 DEF CycleOK
    <3>3. /\ OnlyCycle(r) /\ pc'[r] = RecoveryStep(snap[r][b])
          /\ cur'[r] = b /\ mem'[r] = snap[r][b] /\ snap'[r] = snap[r]
      BY <3>1 DEF TypeOK, Goto, OnlyCycle
    <3>4. /\ mem'[r].status \in InFlight
          /\ \/ pc'[r] = "submit" /\ mem'[r].status = "retrying"
             \/ pc'[r] = "release" /\ mem'[r].status = "reserved"
             \/ /\ pc'[r] = "reconcile"
                /\ mem'[r].status \in {"submitting", "submitted"}
      BY <3>2, <3>3 DEF RecoveryStep, Loadable, Unsettled, InFlight
    <3>5. QED
      BY <3>3, <3>4 DEF CycleOK, Working, Claiming, Sending, Fresh
  <2>3. QED
    BY <2>1, <2>2
<1>4. CASE ReleaseBatchReservation(r)
  BY <1>4, EndCycleKeeps, ClearedKeeps DEF ReleaseBatchReservation
<1>5. CASE ReconcileBatch(r)
  <2>1. CASE EndCycle(r)
    BY <2>1, EndCycleKeeps
  <2>2. CASE ~EndCycle(r)
    BY <1>5, <2>2 DEF TypeOK, ReconcileBatch, Goto, OnlyCycle, CycleOK,
                      Working, Claiming, Sending, batchVars
  <2>3. QED
    BY <2>1, <2>2
<1>6. CASE WalletUnavailable(r)
  BY <1>6 DEF TypeOK, WalletUnavailable, Goto, OnlyCycle, CycleOK, Working,
              Claiming, Sending, batchVars
<1>7. CASE FindWalletTransferMatch(r)
  <2>1. /\ pc[r] = "search" /\ cur' = cur /\ mem' = mem /\ snap' = snap
        /\ \/ pc'[r] \in {"hold", "review"}
           \/ pc'[r] = "persist" /\ found'[r].then \in {"finalize", "hold"}
    BY <1>7 DEF TypeOK, FindWalletTransferMatch, Goto, Remember
  <2>2. OnlyCycle(r)
    BY <1>7 DEF TypeOK, FindWalletTransferMatch, Goto, Remember, OnlyCycle
  <2>3. QED
    BY <2>1, <2>2 DEF CycleOK, Working, Claiming, Sending
<1>8. CASE FindSubmittedTransferVisibility(r)
  BY <1>8 DEF TypeOK, FindSubmittedTransferVisibility, Goto, OnlyCycle,
              CycleOK, Working, Claiming, Sending, batchVars
<1>9. QED
  BY <1>1, <1>2, <1>3, <1>4, <1>5, <1>6, <1>7, <1>8 DEF Recovery

\* Submission keeps CycleOK; only the claim leads to the wallet call.
LEMMA SubmissionKeeps ==
    ASSUME TypeOK, MemOK, NEW r \in Runtimes, Submission(r)
    PROVE  /\ OnlyCycle(r) /\ CycleOK(r)'
           /\ pc'[r] = "transfer" => ClaimBatchForSubmit(r)
<1> USE DEF MemOK
<1>1. CASE PlanBatches(r)
  <2>1. /\ pc'[r] \in {"idle", "verify"} /\ OnlyCycle(r) /\ snap' = snap
    BY <1>1 DEF TypeOK, PlanBatches, Goto, OnlyCycle
  <2>2. QED
    BY <2>1 DEF CycleOK, Working, Claiming, Sending
<1>2. CASE VerifyBeforeReserve(r)
  <2>1. CASE EndCycle(r)
    BY <2>1, EndCycleKeeps
  <2>2. CASE ~EndCycle(r)
    BY <1>2, <2>2 DEF TypeOK, VerifyBeforeReserve, LockCheckFails, Goto,
                      OnlyCycle, CycleOK, Working, Claiming, Sending, batchVars
  <2>3. QED
    BY <2>1, <2>2
<1>3. CASE ReserveBatch(r)
  <2>1. CASE EndCycle(r)
    BY <2>1, EndCycleKeeps
  <2>2. CASE ~EndCycle(r)
    <3>1. PICK b \in Batches :
             /\ cur' = [cur EXCEPT ![r] = b]
             /\ mem' = [mem EXCEPT ![r] = NewRow]
             /\ Goto(r, "submit")
             /\ UNCHANGED <<snap, found>>
      BY <1>3, <2>2 DEF ReserveBatch
    <3>2. /\ OnlyCycle(r) /\ pc'[r] = "submit" /\ cur'[r] \in Batches
          /\ mem'[r] = NewRow /\ snap'[r] = snap[r]
      BY <3>1 DEF TypeOK, Goto, OnlyCycle
    <3>3. NewRow.status = "reserved"
      BY DEF NewRow, NoRow
    <3>4. QED
      BY <3>2, <3>3 DEF CycleOK, Working, Claiming, Sending, Fresh, InFlight
  <2>3. QED
    BY <2>1, <2>2
<1>4. CASE SubmitReservedBatch(r)
  <2>1. {"preflight", "claim"} \subseteq Pcs \cap Claiming /\ pc[r] \in Claiming
    BY <1>4 DEF Pcs, Claiming, SubmitReservedBatch
  <2>2. QED
    BY <1>4, <2>1, CheckKeeps DEF SubmitReservedBatch
<1>5. CASE PreflightWalletBalance(r)
  BY <1>5 DEF TypeOK, PreflightWalletBalance, RetryStep, Goto, OnlyCycle,
              CycleOK, Working, Claiming, Sending, batchVars
<1>6. CASE HoldBatchForRetry(r)
  <2>1. CASE EndCycle(r)
    BY <2>1, EndCycleKeeps
  <2>2. CASE ~EndCycle(r)
    BY <1>6, <2>2 DEF TypeOK, HoldBatchForRetry, LostUpdate, Goto, OnlyCycle,
                      CycleOK, Working, Claiming, Sending, batchVars
  <2>3. QED
    BY <2>1, <2>2
<1>7. CASE ClaimBatchForSubmit(r)
  <2>1. CASE ClaimGuard(r)
    <3>1. /\ OnlyCycle(r) /\ pc'[r] = "transfer" /\ cur'[r] = cur[r]
          /\ mem'[r] = Submitting(mem[r]) /\ snap'[r] = snap[r]
      BY <1>7, <2>1 DEF TypeOK, ClaimBatchForSubmit, Goto, OnlyCycle
    <3>2. Submitting(mem[r]).status = "submitting"
      BY DEF TypeOK, Submitting, Row
    <3>3. cur[r] \in Batches
      BY <1>7 DEF ClaimBatchForSubmit, CycleOK, Working
    <3>4. QED
      BY <1>7, <3>1, <3>2, <3>3
         DEF CycleOK, Working, Claiming, Sending, InFlight
  <2>2. CASE ~ClaimGuard(r)
    BY <1>7, <2>2 DEF TypeOK, ClaimBatchForSubmit, Goto, OnlyCycle, CycleOK,
                      Working, Claiming, Sending, batchVars
  <2>3. QED
    BY <2>1, <2>2
<1>8. CASE IssueTransfer(r)
  <2>1. /\ pc[r] = "transfer" /\ cur' = cur /\ mem' = mem /\ snap' = snap
        /\ pc'[r] = "reply"
        /\ OnlyCycle(r)
    BY <1>8 DEF TypeOK, IssueTransfer, Goto, Remember, OnlyCycle
  <2>2. QED
    BY <2>1 DEF CycleOK, Working, Claiming, Sending
<1>9. CASE TransferReply(r)
  <2>1. /\ pc[r] = "reply" /\ cur' = cur /\ mem' = mem /\ snap' = snap
        /\ \/ pc'[r] \in {"history", "ambiguous"}
           \/ pc'[r] = "persist" /\ found'[r].then \in {"visible", "review"}
    BY <1>9 DEF TypeOK, TransferReply, Goto, Remember
  <2>2. OnlyCycle(r)
    BY <1>9 DEF TypeOK, TransferReply, Goto, Remember, OnlyCycle
  <2>3. QED
    BY <2>1, <2>2 DEF CycleOK, Working, Claiming, Sending
<1>10. CASE ReconcileAmbiguousSubmit(r)
  BY <1>10 DEF TypeOK, ReconcileAmbiguousSubmit, LostUpdate, Goto, OnlyCycle,
               CycleOK, Working, Claiming, Sending, batchVars
<1>11. CASE ReconcileHistoryCheckedSubmitError(r)
  <2>1. /\ pc[r] = "history" /\ cur' = cur /\ mem' = mem /\ snap' = snap
        /\ pc'[r] \in {"hold", "review"}
        /\ OnlyCycle(r)
    BY <1>11 DEF TypeOK, ReconcileHistoryCheckedSubmitError, Goto, Remember,
                 OnlyCycle
  <2>2. QED
    BY <2>1 DEF CycleOK, Working, Claiming, Sending
<1>12. QED
  BY <1>1, <1>2, <1>3, <1>4, <1>5, <1>6, <1>7, <1>8, <1>9, <1>10, <1>11
     DEF Submission

\* Settlement keeps CycleOK and never leads to the wallet call.
LEMMA SettlementKeeps ==
    ASSUME TypeOK, MemOK, NEW r \in Runtimes, Settlement(r)
    PROVE  OnlyCycle(r) /\ CycleOK(r)' /\ pc'[r] # "transfer"
<1> USE DEF MemOK
<1>1. CASE EndCycle(r)
  BY <1>1, EndCycleKeeps
<1>2. CASE Cleared(r)
  BY <1>2, ClearedKeeps
<1>3. CASE \E label \in {"refresh", "refreshReview"} : LostUpdate(r, label)
      /\ pc[r] \in {"hold", "review", "persist"}
  BY <1>3 DEF TypeOK, LostUpdate, Goto, OnlyCycle, CycleOK, Working, Claiming,
              Sending, batchVars
<1>4. CASE PersistSubmittedBatch(r) /\ ~EndCycle(r) /\ ~LostUpdate(r, "refresh")
  <2>1. /\ pc'[r] = found[r].then /\ OnlyCycle(r) /\ cur' = cur
        /\ mem'[r] = Submitted(mem[r], found[r]) /\ snap' = snap
        /\ pc[r] = "persist"
    BY <1>4 DEF TypeOK, PersistSubmittedBatch, Goto, OnlyCycle
  <2>2. Submitted(mem[r], found[r]).status = "submitted"
    BY DEF TypeOK, Submitted, Row
  <2>3. pc'[r] \in {"visible", "finalize", "hold", "review"}
    BY <2>1 DEF CycleOK
  <2>4. QED
    BY <2>1, <2>2, <2>3 DEF CycleOK, Working, Claiming, Sending, InFlight
<1>5. CASE ResolveTxKeyFails(r)
  <2>1. /\ pc[r] = "finalize" /\ cur' = cur /\ mem' = mem /\ snap' = snap
        /\ pc'[r] \in {"hold", "review"}
        /\ OnlyCycle(r)
    BY <1>5 DEF TypeOK, ResolveTxKeyFails, Goto, Remember, OnlyCycle
  <2>2. QED
    BY <2>1 DEF CycleOK, Working, Claiming, Sending
<1>6. CASE /\ pc[r] = "finalize" /\ Goto(r, "finalizeFailed")
           /\ UNCHANGED batchVars
  BY <1>6 DEF TypeOK, Goto, OnlyCycle, CycleOK, Working, Claiming, Sending,
              batchVars
<1>7. QED
  BY <1>1, <1>2, <1>3, <1>4, <1>5, <1>6
     DEF Settlement, RefreshBatch, HoldBatch, MarkBatchManualReview,
         PersistSubmittedBatch, FinalizeBatch, FinalizeRollsBack,
         FinalizeFailed

\* What one runtime remembers stays right whoever moves.
LEMMA MemKept ==
    ASSUME MemOK, NEW r \in Runtimes, OnlyCycle(r), CycleOK(r)'
    PROVE  MemOK'
<1>1. ASSUME NEW s \in Runtimes, s # r PROVE CycleOK(s)'
  BY <1>1 DEF MemOK, OnlyCycle, CycleOK
<1>2. QED
  BY <1>1 DEF MemOK

-----------------------------------------------------------------------------
(* What a step does to the batch rows and the pins.                        *)

\* One step of OnlyBatchMoves.
BatchesMove ==
    \A b \in Batches :
        \/ row'[b].status = row[b].status
        \/ <<row[b].status, row'[b].status>> \in BatchMoves

\* No reservation begins or ends.
PinsKept ==
    /\ UNCHANGED <<items, pending>>
    /\ \A b \in Batches :
          row'[b].status \in Unsettled <=> row[b].status \in Unsettled

\* The reservation of batch b ends.
PinsFreed(b) ==
    /\ items' = items /\ pending' = Unpinned(b)
    /\ row'[b].status \notin Unsettled
    /\ \A c \in Batches \ {b} : row'[c] = row[c]

\* The reservation of batch b begins, on unpinned rows only.
PinsTaken(b) ==
    /\ row[b].status = "none" /\ row'[b].status = "reserved"
    /\ \A c \in Batches \ {b} : row'[c] = row[c] /\ items'[c] = items[c]
    /\ \A a \in Accounts :
          \/ items'[b][a] > 0 /\ pending[a] = NoBatch /\ pending'[a] = b
          \/ items'[b][a] = 0 /\ pending'[a] = pending[a]

RowsOK == BatchesMove /\ StartedOK'

\* The status each row update leaves.
LEMMA UpdateStatus ==
    /\ \A x \in Row : /\ Retrying(x).status = "retrying"
                      /\ Submitting(x).status = "submitting"
                      /\ Held(x).status = x.status
                      /\ Held(x).started = x.started
                      /\ Released(x).status = "retryable"
    /\ \A f : \A x \in Row : /\ Submitted(x, f).status = "submitted"
                            /\ Reviewed(x, f).status = "manual_review"
    /\ \A t : \A x \in Row : Finalized(x, t).status = "finalized"
    /\ \A c : \A x \in Row : Unlocked(x, c).status = "retryable"
  BY DEF Retrying, Submitting, Held, Released, Submitted, Reviewed, Finalized,
         Unlocked, Row

\* A step that writes no row.
LEMMA SameRows ==
    ASSUME StartedOK, row' = row
    PROVE  RowsOK /\ (UNCHANGED <<items, pending>> => PinsKept)
  BY DEF StartedOK, RowsOK, BatchesMove, PinsKept

\* A step that writes one row.
LEMMA OneRow ==
    ASSUME TypeOK, StartedOK, NEW b \in Batches, NEW x,
           row' = [row EXCEPT ![b] = x],
           \/ x.status = row[b].status
           \/ <<row[b].status, x.status>> \in BatchMoves,
           x.status = "reserved" => ~x.started
    PROVE  /\ RowsOK
           /\ row'[b] = x /\ \A c \in Batches \ {b} : row'[c] = row[c]
<1>1. row'[b] = x /\ \A c \in Batches \ {b} : row'[c] = row[c]
  BY DEF TypeOK
<1>2. RowsOK
  BY <1>1 DEF RowsOK, BatchesMove, StartedOK
<1>3. QED
  BY <1>1, <1>2

\* A step that writes the row of a batch which stays unsettled.
LEMMA OneUnsettledRow ==
    ASSUME TypeOK, StartedOK, NEW b \in Batches, NEW x,
           row' = [row EXCEPT ![b] = x], UNCHANGED <<items, pending>>,
           \/ x.status = row[b].status
           \/ <<row[b].status, x.status>> \in BatchMoves,
           x.status \in Unsettled, row[b].status \in Unsettled,
           x.status = "reserved" => ~x.started
    PROVE  RowsOK /\ PinsKept
  BY OneRow DEF PinsKept

\* Life-cycle events write no row.
LEMMA LifecycleRows ==
    ASSUME StartedOK, NEW r \in Runtimes, Lifecycle(r)
    PROVE  RowsOK /\ PinsKept
<1>1. row' = row /\ UNCHANGED <<items, pending>>
  BY DEF Lifecycle, Start, Stop, Crash, Terminate, EnsureAdvisoryLock,
         LoseLock, HandleAdvisoryLockConnectionClose, SqlError, sqlVars
<1>2. QED
  BY <1>1, SameRows

\* Recovery moves a row only to release a reserved batch.
LEMMA RecoveryRows ==
    ASSUME TypeOK, MemOK, StartedOK, NEW r \in Runtimes, Recovery(r)
    PROVE  RowsOK /\ (PinsKept \/ PinsFreed(cur[r]))
<1>1. CASE ReleaseBatchReservation(r) /\ ReleaseGuard(r)
  <2>1. cur[r] \in Batches /\ row[cur[r]].status = "reserved"
    BY <1>1 DEF ReleaseBatchReservation, ReleaseGuard, Current, MemOK, CycleOK,
                Working
  <2>2. row' = [row EXCEPT ![cur[r]] = Released(row[cur[r]])]
    BY <1>1 DEF ReleaseBatchReservation
  <2>3. Released(row[cur[r]]).status = "retryable"
    BY <2>1, UpdateStatus DEF TypeOK
  <2>4. <<"reserved", "retryable">> \in BatchMoves
    BY DEF BatchMoves
  <2>5. /\ RowsOK /\ row'[cur[r]].status = "retryable"
        /\ \A c \in Batches \ {cur[r]} : row'[c] = row[c]
    BY <2>1, <2>2, <2>3, <2>4, OneRow
  <2>6. "retryable" \notin Unsettled
    BY DEF Unsettled, InFlight
  <2>7. QED
    BY <1>1, <2>5, <2>6 DEF PinsFreed, ReleaseBatchReservation
<1>2. CASE ~(ReleaseBatchReservation(r) /\ ReleaseGuard(r))
  <2>1. row' = row /\ UNCHANGED <<items, pending>>
    BY <1>2 DEF Recovery, EnterRecovery, RecoverPendingBatches, RecoverBatch,
                ReleaseBatchReservation, ReconcileBatch, WalletUnavailable,
                FindWalletTransferMatch, FindSubmittedTransferVisibility,
                sqlVars
  <2>2. QED
    BY <2>1, SameRows
<1>3. QED
  BY <1>1, <1>2

\* Submission reserves, holds for retry and claims.
LEMMA SubmissionRows ==
    ASSUME TypeOK, MemOK, StartedOK, NEW r \in Runtimes, Submission(r)
    PROVE  RowsOK /\ (PinsKept \/ \E b \in Batches : PinsTaken(b))
<1>1. CASE ReserveBatch(r) /\ row' # row
  <2>1. PICK chunk \in SUBSET {a \in Accounts : plan[r][a] > 0}, b \in Batches :
             /\ ReserveGuard(chunk)
             /\ row[b].status = "none"
             /\ row' = [row EXCEPT ![b] = NewRow]
             /\ items' = [items EXCEPT ![b] =
                   [a \in Accounts |-> IF a \in chunk THEN plan[r][a]
                                                     ELSE 0]]
             /\ pending' = [a \in Accounts |-> IF a \in chunk THEN b
                                               ELSE pending[a]]
    BY <1>1 DEF ReserveBatch
  <2>2. NewRow.status = "reserved" /\ NewRow.started = FALSE
    BY DEF NewRow, NoRow
  <2>3. <<"none", "reserved">> \in BatchMoves
    BY DEF BatchMoves
  <2>4. /\ RowsOK /\ row'[b] = NewRow
        /\ \A c \in Batches \ {b} : row'[c] = row[c]
    BY <2>1, <2>2, <2>3, OneRow
  <2>5. \A c \in Batches \ {b} : items'[c] = items[c]
    BY <2>1 DEF TypeOK
  <2>6. \A a \in Accounts :
          \/ items'[b][a] > 0 /\ pending[a] = NoBatch /\ pending'[a] = b
          \/ items'[b][a] = 0 /\ pending'[a] = pending[a]
    BY <2>1 DEF TypeOK, ReserveGuard
  <2>7. PinsTaken(b)
    BY <2>1, <2>2, <2>4, <2>5, <2>6 DEF PinsTaken
  <2>8. QED
    BY <2>4, <2>7
<1>2. CASE ReserveBatch(r) /\ row' = row
  <2>1. \A b \in Batches : row' = [row EXCEPT ![b] = NewRow] => row[b] = NewRow
    BY <1>2 DEF TypeOK
  <2>2. NewRow.status = "reserved"
    BY DEF NewRow, NoRow
  <2>3. UNCHANGED <<items, pending>>
    BY <1>2, <2>1, <2>2 DEF ReserveBatch
  <2>4. QED
    BY <1>2, <2>3, SameRows
<1>3. CASE HoldBatchForRetry(r) /\ Current(r)
  <2>1. cur[r] \in Batches /\ row[cur[r]].status \in Fresh
    BY <1>3 DEF HoldBatchForRetry, Current, MemOK, CycleOK, Working, Claiming
  <2>2. /\ row' = [row EXCEPT ![cur[r]] = Retrying(row[cur[r]])]
        /\ UNCHANGED <<items, pending>>
    BY <1>3 DEF HoldBatchForRetry, LostUpdate
  <2>3. Retrying(row[cur[r]]).status = "retrying"
    BY <2>1, UpdateStatus DEF TypeOK
  <2>4. <<"reserved", "retrying">> \in BatchMoves
    BY DEF BatchMoves
  <2>5. Fresh \subseteq Unsettled /\ "retrying" \in Unsettled
    BY DEF Fresh, Unsettled, InFlight
  <2>6. \/ Retrying(row[cur[r]]).status = row[cur[r]].status
        \/ <<row[cur[r]].status, Retrying(row[cur[r]]).status>> \in BatchMoves
    BY <2>1, <2>3, <2>4 DEF Fresh
  <2>9. /\ Retrying(row[cur[r]]).status \in Unsettled
        /\ row[cur[r]].status \in Unsettled
        /\ Retrying(row[cur[r]]).status # "reserved"
    BY <2>1, <2>3, <2>5
  <2>7. RowsOK /\ PinsKept
    BY <2>1, <2>2, <2>6, <2>9, OneUnsettledRow
  <2>8. QED
    BY <2>7
<1>4. CASE ClaimBatchForSubmit(r) /\ ClaimGuard(r)
  <2>1. cur[r] \in Batches /\ row[cur[r]].status \in Fresh
    BY <1>4 DEF ClaimBatchForSubmit, ClaimGuard, Current, MemOK, CycleOK,
                Working, Claiming
  <2>2. /\ row' = [row EXCEPT ![cur[r]] = Submitting(row[cur[r]])]
        /\ UNCHANGED <<items, pending>>
    BY <1>4 DEF ClaimBatchForSubmit
  <2>3. Submitting(row[cur[r]]).status = "submitting"
    BY <2>1, UpdateStatus DEF TypeOK
  <2>4. \A x \in Fresh : <<x, "submitting">> \in BatchMoves
    BY DEF BatchMoves, Fresh
  <2>5. Fresh \subseteq Unsettled /\ "submitting" \in Unsettled
    BY DEF Fresh, Unsettled, InFlight
  <2>6. <<row[cur[r]].status, Submitting(row[cur[r]]).status>> \in BatchMoves
    BY <2>1, <2>3, <2>4
  <2>9. /\ Submitting(row[cur[r]]).status \in Unsettled
        /\ row[cur[r]].status \in Unsettled
        /\ Submitting(row[cur[r]]).status # "reserved"
    BY <2>1, <2>3, <2>5
  <2>7. RowsOK /\ PinsKept
    BY <2>1, <2>2, <2>6, <2>9, OneUnsettledRow
  <2>8. QED
    BY <2>7
<1>5. CASE /\ ~ReserveBatch(r)
           /\ ~(HoldBatchForRetry(r) /\ Current(r))
           /\ ~(ClaimBatchForSubmit(r) /\ ClaimGuard(r))
  <2>1. row' = row /\ UNCHANGED <<items, pending>>
    BY <1>5 DEF Submission, PlanBatches, VerifyBeforeReserve,
                SubmitReservedBatch, PreflightWalletBalance, HoldBatchForRetry,
                ClaimBatchForSubmit, IssueTransfer, TransferReply, LostUpdate,
                ReconcileAmbiguousSubmit, ReconcileHistoryCheckedSubmitError,
                sqlVars
  <2>2. QED
    BY <2>1, SameRows
<1>6. QED
  BY <1>1, <1>2, <1>3, <1>4, <1>5

\* Settlement persists, escalates, notes or finalizes the batch it works on.
LEMMA SettlementRows ==
    ASSUME TypeOK, MemOK, StartedOK, NEW r \in Runtimes, Settlement(r)
    PROVE  RowsOK /\ (PinsKept \/ PinsFreed(cur[r]))
<1> DEFINE x == row[cur[r]]
<1>1. CASE row' = row /\ UNCHANGED <<items, pending>>
  BY <1>1, SameRows
<1>2. ASSUME Current(r), pc[r] \in Working
      PROVE  /\ cur[r] \in Batches /\ x \in Row /\ x.status = mem[r].status
             /\ x.status \in Unsettled
  BY <1>2 DEF Current, MemOK, CycleOK, TypeOK, Unsettled
<1>3. CASE /\ Current(r) /\ pc[r] \in Working
           /\ row' = [row EXCEPT ![cur[r]] = Held(x)]
           /\ UNCHANGED <<items, pending>>
  <2>1. Held(x).status = x.status /\ Held(x).started = x.started
    BY <1>2, <1>3, UpdateStatus
  <2>2. RowsOK /\ PinsKept
    BY <1>2, <1>3, <2>1, OneUnsettledRow DEF StartedOK
  <2>3. QED
    BY <2>2
<1>4. CASE /\ Current(r) /\ pc[r] = "review"
           /\ row' = [row EXCEPT ![cur[r]] = Reviewed(x, found[r])]
           /\ UNCHANGED <<items, pending>>
  <2>1. pc[r] \in Working /\ mem[r].status \in {"submitting", "submitted"}
    BY <1>4 DEF MemOK, CycleOK, Working
  <2>2. Reviewed(x, found[r]).status = "manual_review"
    BY <1>2, <1>4, <2>1, UpdateStatus
  <2>3. "manual_review" \in Unsettled
    BY DEF Unsettled
  <2>4. <<x.status, "manual_review">> \in BatchMoves
    BY <1>2, <1>4, <2>1 DEF BatchMoves
  <2>5. RowsOK /\ PinsKept
    BY <1>2, <1>4, <2>1, <2>2, <2>3, <2>4, OneUnsettledRow
  <2>6. QED
    BY <2>5
<1>5. CASE /\ Current(r) /\ pc[r] = "persist"
           /\ row' = [row EXCEPT ![cur[r]] = Submitted(x, found[r])]
           /\ UNCHANGED <<items, pending>>
  <2>1. pc[r] \in Working /\ mem[r].status \in {"submitting", "submitted"}
    BY <1>5 DEF MemOK, CycleOK, Working
  <2>2. Submitted(x, found[r]).status = "submitted"
    BY <1>2, <1>5, <2>1, UpdateStatus
  <2>3. "submitted" \in Unsettled
    BY DEF Unsettled, InFlight
  <2>4. x.status = "submitted" \/ <<x.status, "submitted">> \in BatchMoves
    BY <1>2, <1>5, <2>1 DEF BatchMoves
  <2>5. RowsOK /\ PinsKept
    BY <1>2, <1>5, <2>1, <2>2, <2>3, <2>4, OneUnsettledRow
  <2>6. QED
    BY <2>5
<1>6. CASE FinalizeBatch(r)
  <2>1. /\ Current(r) /\ pc[r] \in Working /\ mem[r].status = "submitted"
        /\ row' = [row EXCEPT ![cur[r]] = Finalized(x, mem[r].hash)]
        /\ items' = items /\ pending' = Unpinned(cur[r])
    BY <1>6 DEF FinalizeBatch, FinalizeGuard, MemOK, CycleOK, Working
  <2>2. Finalized(x, mem[r].hash).status = "finalized"
    BY <1>2, <2>1, UpdateStatus
  <2>3. <<x.status, "finalized">> \in BatchMoves
    BY <1>2, <2>1 DEF BatchMoves
  <2>4. /\ RowsOK /\ row'[cur[r]].status = "finalized"
        /\ \A c \in Batches \ {cur[r]} : row'[c] = row[c]
    BY <1>2, <2>1, <2>2, <2>3, OneRow
  <2>5. "finalized" \notin Unsettled
    BY DEF Unsettled, InFlight
  <2>6. QED
    BY <2>1, <2>4, <2>5 DEF PinsFreed
<1>7. CASE FinalizeFailed(r)
  <2>1. CASE Current(r)
    <3>1. pc[r] \in Working /\ row' = [row EXCEPT ![cur[r]] = Held(x)]
          /\ UNCHANGED <<items, pending>>
      BY <1>7, <2>1 DEF FinalizeFailed, Working
    <3>2. QED
      BY <1>3, <2>1, <3>1
  <2>2. CASE ~Current(r)
    <3>1. row' = [row EXCEPT ![cur[r]] = row[cur[r]]]
          /\ UNCHANGED <<items, pending>>
      BY <1>7, <2>2 DEF FinalizeFailed
    <3>2. row' = row
      BY <3>1 DEF TypeOK
    <3>3. QED
      BY <1>1, <3>1, <3>2
  <2>3. QED
    BY <2>1, <2>2
<1>8. QED
  <2>1. CASE HoldBatch(r)
    BY <1>1, <1>3, <2>1 DEF HoldBatch, LostUpdate, sqlVars, Working
  <2>2. CASE MarkBatchManualReview(r)
    BY <1>1, <1>4, <2>2 DEF MarkBatchManualReview, LostUpdate, sqlVars
  <2>3. CASE PersistSubmittedBatch(r)
    BY <1>1, <1>5, <2>3 DEF PersistSubmittedBatch, LostUpdate, sqlVars
  <2>4. CASE RefreshBatch(r) \/ ResolveTxKeyFails(r) \/ FinalizeRollsBack(r)
    BY <1>1, <2>4 DEF RefreshBatch, ResolveTxKeyFails, FinalizeRollsBack,
                      sqlVars
  <2>5. QED
    BY <1>6, <1>7, <2>1, <2>2, <2>3, <2>4 DEF Settlement

\* The wallet and the block manager write no batch row.
LEMMA EnvironmentRows == StartedOK /\ Environment => RowsOK /\ PinsKept
<1> SUFFICES ASSUME StartedOK, Environment PROVE RowsOK /\ PinsKept
  OBVIOUS
<1>1. row' = row /\ UNCHANGED <<items, pending>>
  BY DEF Environment, ExecuteTransfer, RevealTransfer, RejectTransfer,
         CreditBalance, sqlVars
<1>2. QED
  BY <1>1, SameRows

\* The unlock tool moves a row only to release it.
LEMMA OperatorRows ==
    ASSUME TypeOK, StartedOK, ReleaseOK, Operator
    PROVE  RowsOK /\ (PinsKept \/ PinsFreed(tool.batch))
<1>1. CASE UnlockBatch /\ UnlockGuard(row[tool.batch], tool.confirm)
  <2> DEFINE x == row[tool.batch]
  <2>1. tool.batch \in Batches \cup {NoBatch} /\ tool.confirm \in BOOLEAN
    BY DEF TypeOK, ToolStates
  <2>2. CASE tool.batch \in Batches
    <3>1. /\ row' = [row EXCEPT ![tool.batch] = Unlocked(x, tool.confirm)]
          /\ items' = items /\ pending' = Unpinned(tool.batch)
      BY <1>1 DEF UnlockBatch
    <3>2. Unlocked(x, tool.confirm).status = "retryable"
      BY <2>2, UpdateStatus DEF TypeOK
    <3>3. <<x.status, "retryable">> \in BatchMoves
      <4>1. CASE tool.confirm
        BY <1>1, <4>1 DEF UnlockGuard, BatchMoves, ReleaseOK
      <4>2. CASE ~tool.confirm
        BY <1>1, <4>2 DEF UnlockGuard, BatchMoves
      <4>3. QED
        BY <4>1, <4>2
    <3> DEFINE y == Unlocked(x, tool.confirm)
    <3>7. <<row[tool.batch].status, y.status>> \in BatchMoves
          /\ y.status # "reserved"
      BY <3>2, <3>3
    <3>8. row' = [row EXCEPT ![tool.batch] = y]
      BY <3>1
    <3> HIDE DEF y
    <3>4. /\ RowsOK /\ row'[tool.batch].status = "retryable"
          /\ \A c \in Batches \ {tool.batch} : row'[c] = row[c]
      <4>1. /\ RowsOK /\ row'[tool.batch] = y
            /\ \A c \in Batches \ {tool.batch} : row'[c] = row[c]
        BY <2>2, <3>7, <3>8, OneRow
      <4>2. QED
        BY <3>2, <4>1 DEF y
    <3>5. "retryable" \notin Unsettled
      BY DEF Unsettled, InFlight
    <3>6. QED
      BY <3>1, <3>4, <3>5 DEF PinsFreed
  <2>3. CASE tool.batch = NoBatch
    <3>1. NoBatch \notin Batches
      BY DEF NoBatch, Batches
    <3>2. row' = row
      BY <1>1, <2>3, <3>1 DEF TypeOK, UnlockBatch
    <3>3. pending' = pending /\ items' = items
      BY <1>1, <2>3 DEF TypeOK, UnlockBatch, Unpinned
    <3>4. QED
      BY <3>2, <3>3, SameRows
  <2>4. QED
    BY <2>1, <2>2, <2>3
<1>2. CASE ~(UnlockBatch /\ UnlockGuard(row[tool.batch], tool.confirm))
  <2>1. row' = row /\ UNCHANGED <<items, pending>>
    BY <1>2 DEF Operator, UnlockStart, AssertWalletHistoryClear, UnlockBatch,
                UnlockRefused, sqlVars
  <2>2. QED
    BY <2>1, SameRows
<1>3. QED
  BY <1>1, <1>2

-----------------------------------------------------------------------------
(* The inductive invariant.                                                *)

Inv == /\ TypeOK /\ MemOK /\ StartedOK /\ SendOK /\ ReleaseOK
       /\ PinsMatchBatches

\* Pins and batches keep agreeing when no reservation begins or ends, when
\* one ends and when one begins.
LEMMA PinsStep ==
    ASSUME TypeOK, PinsMatchBatches, TypeOK',
           \/ PinsKept
           \/ \E b : PinsFreed(b)
           \/ \E b \in Batches : PinsTaken(b)
    PROVE  PinsMatchBatches'
<1>0. NoBatch \notin Batches
  BY DEF NoBatch, Batches
<1>1. CASE PinsKept
  BY <1>1 DEF PinsKept, PinsMatchBatches
<1>2. ASSUME NEW b, PinsFreed(b) PROVE PinsMatchBatches'
  <2>1. \A a \in Accounts, c \in Batches :
           pending'[a] = c <=> pending[a] = c /\ c # b
    BY <1>0, <1>2 DEF TypeOK, PinsFreed, Unpinned
  <2>2. QED
    BY <1>2, <2>1 DEF PinsFreed, PinsMatchBatches
<1>3. ASSUME NEW b \in Batches, PinsTaken(b) PROVE PinsMatchBatches'
  <2>1. "none" \notin Unsettled /\ "reserved" \in Unsettled
    BY DEF Unsettled, InFlight
  <2>2. ASSUME NEW a \in Accounts
        PROVE  pending'[a] = b <=> items'[b][a] > 0
    BY <1>0, <1>3, <2>1, <2>2 DEF PinsTaken, PinsMatchBatches
  <2>3. ASSUME NEW a \in Accounts, NEW c \in Batches \ {b}
        PROVE  pending'[a] = c <=> pending[a] = c
    BY <1>0, <1>3, <2>3 DEF PinsTaken
  <2>4. QED
    BY <1>3, <2>1, <2>2, <2>3 DEF PinsTaken, PinsMatchBatches
<1>4. QED
  BY <1>1, <1>2, <1>3

\* No move leads back over the submit boundary, and none from beyond it to
\* a released batch unless the operator attests.
LEMMA MovesForward ==
    ASSUME BatchesMove, NEW b \in Batches,
           row[b].status \notin Fresh \cup {"none"}
    PROVE  /\ row'[b].status \notin Fresh \cup {"none"}
           /\ "confirm" \notin UnlockModes /\ row[b].status # "retryable"
              => row'[b].status # "retryable"
  BY DEF BatchesMove, BatchMoves, Fresh

\* A step that neither hands a batch to the wallet nor claims one.
QuietStep ==
    /\ \A t \in Transfers :
          /\ wallet'[t].batch = wallet[t].batch
          /\ wallet[t].st = "free" => wallet'[t].st = "free"
    /\ \A r \in Runtimes :
          pc'[r] = "transfer" => pc[r] = "transfer" /\ cur'[r] = cur[r]

\* Steps that neither claim nor send keep SendOK and ReleaseOK.
LEMMA QuietSends ==
    ASSUME TypeOK, MemOK, SendOK, ReleaseOK, BatchesMove, QuietStep,
           tool'.confirm => "confirm" \in UnlockModes
    PROVE  SendOK' /\ ReleaseOK'
<1>1. ASSUME NEW t \in Transfers, wallet'[t].batch # NoBatch
      PROVE  /\ wallet'[t].batch = wallet[t].batch
             /\ wallet[t].batch \in Batches
  BY <1>1 DEF TypeOK, WalletTx, QuietStep
<1>2. ASSUME NEW r \in Runtimes, pc'[r] = "transfer"
      PROVE  /\ pc[r] = "transfer" /\ cur'[r] = cur[r] /\ cur[r] \in Batches
  BY <1>2 DEF QuietStep, MemOK, CycleOK, Working
<1>3. \A t \in Transfers :
        wallet'[t].batch # NoBatch =>
            /\ row'[wallet'[t].batch].status \notin Fresh \cup {"none"}
            /\ "confirm" \notin UnlockModes =>
                  row'[wallet'[t].batch].status # "retryable"
  BY <1>1, MovesForward DEF SendOK, ReleaseOK
<1>4. \A r \in Runtimes :
        pc'[r] = "transfer" =>
            /\ row'[cur'[r]].status \notin Fresh \cup {"none"}
            /\ "confirm" \notin UnlockModes =>
                  row'[cur'[r]].status # "retryable"
  BY <1>2, MovesForward DEF SendOK, ReleaseOK
<1>5. \A r \in Runtimes :
        pc'[r] = "transfer" => \A t \in Transfers : wallet'[t].batch # cur'[r]
  BY <1>2 DEF SendOK, QuietStep
<1>6. \A r, s \in Runtimes :
        pc'[r] = "transfer" /\ pc'[s] = "transfer" /\ cur'[r] = cur'[s] => r = s
  BY <1>2 DEF SendOK
<1>7. AtMostOneTransfer'
  BY DEF SendOK, AtMostOneTransfer, QuietStep
<1>8. \A t \in Transfers : wallet'[t].batch = NoBatch => wallet'[t].st = "free"
  BY DEF SendOK, QuietStep
<1>9. QED
  BY <1>3, <1>4, <1>5, <1>6, <1>7, <1>8 DEF SendOK, ReleaseOK

\* The claim keeps them: it finds a batch nobody sent or is about to send.
LEMMA ClaimSends ==
    ASSUME TypeOK, MemOK, SendOK, ReleaseOK, BatchesMove,
           NEW r \in Runtimes, ClaimBatchForSubmit(r), pc'[r] = "transfer"
    PROVE  SendOK' /\ ReleaseOK'
<1> DEFINE b == cur[r]
<1>1. /\ b \in Batches /\ row[b].status \in Fresh
      /\ row' = [row EXCEPT ![b] = Submitting(row[b])]
      /\ wallet' = wallet /\ cur' = cur /\ tool' = tool
      /\ \A s \in Runtimes \ {r} : pc'[s] = pc[s]
  <2>1. ClaimGuard(r)
    BY DEF TypeOK, ClaimBatchForSubmit, Goto
  <2>2. QED
    BY <2>1 DEF TypeOK, ClaimBatchForSubmit, ClaimGuard, Current, MemOK,
                CycleOK, Working, Claiming, Goto
<1>2. row'[b].status = "submitting"
  BY <1>1, UpdateStatus DEF TypeOK
<1> HIDE DEF b
<1>3. ASSUME NEW t \in Transfers, wallet[t].batch # NoBatch
      PROVE  /\ wallet[t].batch \in Batches /\ wallet[t].batch # b
             /\ row[wallet[t].batch].status \notin Fresh \cup {"none"}
  BY <1>1, <1>3 DEF TypeOK, WalletTx, SendOK
<1>4. ASSUME NEW s \in Runtimes \ {r}, pc'[s] = "transfer"
      PROVE  /\ pc[s] = "transfer" /\ cur[s] \in Batches /\ cur[s] # b
             /\ row[cur[s]].status \notin Fresh \cup {"none"}
  BY <1>1, <1>4 DEF MemOK, CycleOK, Working, SendOK
<1>5. \A t \in Transfers :
        wallet'[t].batch # NoBatch =>
            /\ row'[wallet'[t].batch].status \notin Fresh \cup {"none"}
            /\ "confirm" \notin UnlockModes =>
                  row'[wallet'[t].batch].status # "retryable"
  BY <1>1, <1>3, MovesForward DEF ReleaseOK
<1>6. \A s \in Runtimes :
        pc'[s] = "transfer" =>
            /\ row'[cur'[s]].status \notin Fresh \cup {"none"}
            /\ "confirm" \notin UnlockModes =>
                  row'[cur'[s]].status # "retryable"
  <2>1. ASSUME NEW s \in Runtimes \ {r}, pc'[s] = "transfer"
        PROVE  /\ row'[cur'[s]].status \notin Fresh \cup {"none"}
               /\ "confirm" \notin UnlockModes =>
                     row'[cur'[s]].status # "retryable"
    BY <1>1, <1>4, <2>1, MovesForward DEF ReleaseOK
  <2>2. /\ row'[cur'[r]].status \notin Fresh \cup {"none"}
        /\ row'[cur'[r]].status # "retryable"
    BY <1>1, <1>2 DEF b, Fresh
  <2>3. QED
    BY <2>1, <2>2
<1>7. \A s \in Runtimes :
        pc'[s] = "transfer" => \A t \in Transfers : wallet'[t].batch # cur'[s]
  <2>1. NoBatch \notin Batches
    BY DEF NoBatch, Batches
  <2>2. QED
    BY <1>1, <1>3, <1>4, <2>1 DEF SendOK, b
<1>8. \A s, q \in Runtimes :
        pc'[s] = "transfer" /\ pc'[q] = "transfer" /\ cur'[s] = cur'[q] => s = q
  BY <1>1, <1>4 DEF SendOK, b
<1>9. AtMostOneTransfer'
  BY <1>1 DEF SendOK, AtMostOneTransfer
<1>10. ReleaseOK'
  BY <1>1, <1>5, <1>6 DEF ReleaseOK
<1>11. QED
  BY <1>1, <1>5, <1>6, <1>7, <1>8, <1>9, <1>10 DEF SendOK

\* The wallet call keeps them: the claim is spent with it.
LEMMA IssueSends ==
    ASSUME TypeOK, MemOK, SendOK, ReleaseOK, NEW r \in Runtimes,
           IssueTransfer(r)
    PROVE  SendOK' /\ ReleaseOK'
<1>1. PICK u \in Transfers :
        wallet' = [wallet EXCEPT ![u] = [batch |-> cur[r], st |-> "inflight"]]
  BY DEF IssueTransfer
<1>2. /\ pc[r] = "transfer" /\ pc'[r] # "transfer" /\ row' = row
      /\ cur' = cur /\ tool' = tool
      /\ \A s \in Runtimes \ {r} : pc'[s] = pc[s]
  BY DEF TypeOK, IssueTransfer, Goto, sqlVars
<1>3. /\ wallet'[u].batch = cur[r]
      /\ \A t \in Transfers \ {u} : wallet'[t] = wallet[t]
  BY <1>1 DEF TypeOK
<1>4. \A t \in Transfers : wallet[t].batch # cur[r]
  BY <1>2 DEF SendOK
<1>5. AtMostOneTransfer'
  BY <1>3, <1>4 DEF SendOK, AtMostOneTransfer
<1>6. \A s \in Runtimes :
        pc'[s] = "transfer" => \A t \in Transfers : wallet'[t].batch # cur'[s]
  BY <1>2, <1>3 DEF SendOK
<1>7. ReleaseOK'
  BY <1>2, <1>3 DEF ReleaseOK
<1>8. cur[r] # NoBatch
  BY <1>2 DEF MemOK, CycleOK, Working, NoBatch, Batches
<1>9. QED
  BY <1>2, <1>3, <1>5, <1>6, <1>7, <1>8 DEF SendOK

\* The initial state satisfies the inductive invariant.
LEMMA InitInv == Init => Inv
<1> SUFFICES ASSUME Init PROVE Inv
  OBVIOUS
<1> USE DEF Init
<1>0. NoBatch \notin Batches
  BY DEF NoBatch, Batches
<1>1. TypeOK
  <2>1. [batch |-> NoBatch, st |-> "free"] \in WalletTx
    BY DEF WalletTx, WalletStates
  <2>2. QED
    BY <2>1, EmptyValues DEF TypeOK, Pcs
<1>2. MemOK
  <2>1. \A b \in Batches : NoSnap[b] = NoRow
    BY DEF NoSnap
  <2>2. QED
    BY <2>1 DEF MemOK, CycleOK, Working, Claiming, Sending
<1>3. \A b \in Batches : row[b].status = "none"
  BY DEF NoRow
<1>4. StartedOK
  BY <1>3 DEF StartedOK
<1>5. SendOK /\ ReleaseOK
  BY DEF SendOK, AtMostOneTransfer, ReleaseOK, ToolOff
<1>6. PinsMatchBatches
  <2>1. "none" \notin Unsettled
    BY DEF Unsettled, InFlight
  <2>2. QED
    BY <1>0, <1>3, <2>1 DEF PinsMatchBatches
<1>7. QED
  BY <1>1, <1>2, <1>4, <1>5, <1>6 DEF Inv

\* One step of a runtime.
LEMMA RuntimeStep ==
    ASSUME Inv, NEW r \in Runtimes,
           Lifecycle(r) \/ Recovery(r) \/ Submission(r) \/ Settlement(r)
    PROVE  Inv' /\ BatchesMove
<1> USE DEF Inv
<1>1. TypeOK'
  BY LifecycleTyped, RecoveryTyped, SubmissionTyped, SettlementTyped
<1>2. RowsOK
  BY LifecycleRows, RecoveryRows, SubmissionRows, SettlementRows
<1>3. /\ OnlyCycle(r) /\ CycleOK(r)'
      /\ pc'[r] = "transfer" => \/ pc[r] = "transfer" /\ cur'[r] = cur[r]
                                \/ ClaimBatchForSubmit(r)
  BY LifecycleKeeps, RecoveryKeeps, SubmissionKeeps, SettlementKeeps
<1>4. MemOK'
  BY <1>3, MemKept
<1>5. PinsMatchBatches'
  BY <1>1, PinsStep, LifecycleRows, RecoveryRows, SubmissionRows,
     SettlementRows
<1>6. SendOK' /\ ReleaseOK'
  <2>1. BatchesMove
    BY <1>2 DEF RowsOK
  <2>2. CASE IssueTransfer(r)
    BY <2>2, IssueSends
  <2>3. CASE ClaimBatchForSubmit(r) /\ pc'[r] = "transfer"
    BY <2>1, <2>3, ClaimSends
  <2>4. CASE ~IssueTransfer(r) /\ ~(ClaimBatchForSubmit(r) /\ pc'[r] = "transfer")
    <3>1. wallet' = wallet /\ tool' = tool
      <4>1. CASE Lifecycle(r)
        BY <4>1 DEF Lifecycle, Start, Stop, Crash, Terminate,
              EnsureAdvisoryLock, LoseLock, HandleAdvisoryLockConnectionClose,
              SqlError
      <4>2. CASE Recovery(r)
        BY <4>2 DEF Recovery, EnterRecovery, RecoverPendingBatches,
              RecoverBatch, ReleaseBatchReservation, ReconcileBatch,
              WalletUnavailable, FindWalletTransferMatch,
              FindSubmittedTransferVisibility
      <4>3. CASE Submission(r)
        BY <2>4, <4>3 DEF Submission, PlanBatches, VerifyBeforeReserve,
              ReserveBatch, SubmitReservedBatch, PreflightWalletBalance,
              HoldBatchForRetry, ClaimBatchForSubmit, TransferReply,
              ReconcileAmbiguousSubmit, ReconcileHistoryCheckedSubmitError
      <4>4. CASE Settlement(r)
        BY <4>4 DEF Settlement, RefreshBatch, HoldBatch,
              MarkBatchManualReview, PersistSubmittedBatch, ResolveTxKeyFails,
              FinalizeBatch, FinalizeRollsBack, FinalizeFailed
      <4>5. QED
        BY <4>1, <4>2, <4>3, <4>4
    <3>2. QuietStep
      BY <1>3, <2>4, <3>1 DEF QuietStep, OnlyCycle
    <3>3. QED
      BY <2>1, <3>1, <3>2, QuietSends DEF ReleaseOK
  <2>5. QED
    BY <2>2, <2>3, <2>4
<1>7. QED
  BY <1>1, <1>2, <1>4, <1>5, <1>6 DEF RowsOK

\* One step of the wallet, the block manager or the operator.
LEMMA OutsideStep ==
    ASSUME Inv, Environment \/ Operator
    PROVE  Inv' /\ BatchesMove
<1> USE DEF Inv
<1>1. TypeOK'
  BY EnvironmentTyped, OperatorTyped
<1>2. RowsOK
  BY EnvironmentRows, OperatorRows
<1>3. UNCHANGED <<pc, batchVars>>
  BY DEF Environment, ExecuteTransfer, RevealTransfer, RejectTransfer,
         CreditBalance, Operator, UnlockStart, AssertWalletHistoryClear,
         UnlockBatch, UnlockRefused
<1>4. MemOK'
  BY <1>3 DEF MemOK, CycleOK, batchVars
<1>5. PinsMatchBatches'
  BY <1>1, PinsStep, EnvironmentRows, OperatorRows
<1>6. tool'.confirm => "confirm" \in UnlockModes
  BY DEF Environment, ExecuteTransfer, RevealTransfer, RejectTransfer,
         CreditBalance, Operator, UnlockStart, AssertWalletHistoryClear,
         UnlockBatch, UnlockRefused, ReleaseOK, ToolOff, TypeOK, ToolStates
<1>7. \A t \in Transfers : /\ wallet'[t].batch = wallet[t].batch
                           /\ wallet[t].st = "free" => wallet'[t].st = "free"
  <2>1. CASE wallet' = wallet
    BY <2>1
  <2>2. ASSUME NEW u \in Transfers, NEW st, wallet[u].st # "free",
               wallet' = [wallet EXCEPT ![u].st = st]
        PROVE  \A t \in Transfers :
                  /\ wallet'[t].batch = wallet[t].batch
                  /\ wallet[t].st = "free" => wallet'[t].st = "free"
    BY <2>2 DEF TypeOK, WalletTx
  <2>3. QED
    BY <2>1, <2>2
       DEF Environment, ExecuteTransfer, RevealTransfer, RejectTransfer,
           CreditBalance, Operator, UnlockStart, AssertWalletHistoryClear,
           UnlockBatch, UnlockRefused
<1>8. QuietStep
  BY <1>3, <1>7 DEF QuietStep, batchVars
<1>9. BatchesMove
  BY <1>2 DEF RowsOK
<1>10. SendOK' /\ ReleaseOK'
  BY <1>6, <1>8, <1>9, QuietSends
<1>11. QED
  BY <1>1, <1>2, <1>4, <1>5, <1>9, <1>10 DEF RowsOK

\* Every step keeps the inductive invariant and moves rows as documented.
LEMMA NextStep == Inv /\ [Next]_vars => Inv' /\ BatchesMove
<1> SUFFICES ASSUME Inv, [Next]_vars PROVE Inv' /\ BatchesMove
  OBVIOUS
<1>1. CASE Next
  BY <1>1, RuntimeStep, OutsideStep DEF Next
<1>2. CASE UNCHANGED vars
  <2> USE <1>2 DEF vars
  <2>1. TypeOK'
    BY DEF Inv, TypeOK
  <2>2. MemOK' /\ StartedOK'
    BY DEF Inv, MemOK, CycleOK, StartedOK
  <2>3. SendOK' /\ ReleaseOK' /\ PinsMatchBatches'
    BY DEF Inv, SendOK, AtMostOneTransfer, ReleaseOK, PinsMatchBatches
  <2>4. BatchesMove
    BY DEF BatchesMove
  <2>5. QED
    BY <2>1, <2>2, <2>3, <2>4 DEF Inv
<1>3. QED
  BY <1>1, <1>2

\* The inductive invariant holds throughout.
LEMMA Invariance == Spec => []Inv
  BY InitInv, NextStep, PTL DEF Spec

-----------------------------------------------------------------------------
(* The theorems.                                                           *)

\* The tables, the locks and every runtime's memory keep their types through
\* all of payments.js, processor.js and the unlock tool.
THEOREM TypeCorrect == Spec => []TypeOK
<1>1. Inv => TypeOK
  BY DEF Inv
<1>2. QED
  BY <1>1, Invariance, PTL

\* No batch is handed to the wallet twice: for any number of runtimes, with
\* or without the advisory lock, with crashes, lost SQL answers and any
\* operator unlock.  The durable claim alone carries this.
THEOREM NeverSentTwice == Spec => []AtMostOneTransfer
<1>1. Inv => AtMostOneTransfer
  BY DEF Inv, SendOK
<1>2. QED
  BY <1>1, Invariance, PTL

\* balance.pending_batch_id points at a batch exactly while that batch holds
\* the row and is neither finalized nor released.
THEOREM PinsCorrect == Spec => []PinsMatchBatches
<1>1. Inv => PinsMatchBatches
  BY DEF Inv
<1>2. QED
  BY <1>1, Invariance, PTL

\* As long as no operator attests the wallet history, a released batch was
\* never sent.
THEOREM ReleaseIsSafe ==
    ASSUME "confirm" \notin UnlockModes
    PROVE  Spec => []FreedNeverSent
<1>1. Inv => FreedNeverSent
  <2> SUFFICES ASSUME Inv, NEW t \in Transfers, Sent(t)
               PROVE  row[wallet[t].batch].status # "retryable"
    BY DEF FreedNeverSent
  <2>1. CASE wallet[t].batch # NoBatch
    BY <2>1 DEF Inv, ReleaseOK
  <2>2. CASE wallet[t].batch = NoBatch
    BY <2>2 DEF Inv, SendOK, Sent
  <2>3. QED
    BY <2>1, <2>2
<1>2. QED
  BY <1>1, Invariance, PTL

\* Every status change of every batch is an edge of the documented state
\* machine, whatever stale copies the runtimes write from.
THEOREM StatusesMoveAsDocumented == Spec => OnlyBatchMoves
<1>1. Inv /\ [Next]_vars =>
        [\A b \in Batches :
            \/ row'[b].status = row[b].status
            \/ <<row[b].status, row'[b].status>> \in BatchMoves]_row
  BY NextStep DEF BatchesMove
<1>2. QED
  BY <1>1, Invariance, PTL DEF Spec, OnlyBatchMoves
-----------------------------------------------------------------------------
(* What the ledger books, and what an account may be sent *)

\* Transfer t is the wallet's own transfer of batch b, and it was carried out.
Own(b, t) == t \in Transfers /\ Sent(t) /\ wallet[t].batch = b

\* A runtime works on a batch that exists, and remembers only existing rows;
\* every batch pays somebody.
ExistOK ==
    /\ \A r \in Runtimes :
          /\ pc[r] \in Working => row[cur[r]].status # "none"
          /\ pc[r] \notin Working => cur[r] = NoBatch /\ mem[r] = NoRow
          /\ \A b \in Batches : snap[r][b] # NoRow => row[b].status # "none"
    /\ \A b \in Batches :
          row[b].status # "none" => \E a \in Accounts : items[b][a] > 0

\* A hash stored with a submitted or finalized batch, in its row or in a
\* runtime's copy of it, is the hash of the batch's own transfer.
RowHashOK ==
    \A b \in Batches :
        row[b].status \in {"submitted", "finalized"} => Own(b, row[b].hash)
MemHashOK ==
    \A r \in Runtimes :
        /\ mem[r].status = "submitted" => Own(cur[r], mem[r].hash)
        /\ \A b \in Batches :
              snap[r][b].status = "submitted" => Own(b, snap[r][b].hash)

\* A wallet answer on its way to persistSubmittedBatch is a transfer of the
\* batch, or one that pays the same.
FoundOK ==
    \A r \in Runtimes :
        /\ pc[r] = "reply" => /\ found[r].tx \in Transfers
                              /\ wallet[found[r].tx].st # "free"
                              /\ wallet[found[r].tx].batch = cur[r]
        /\ pc[r] = "persist" =>
              /\ found[r].tx \in Transfers /\ Sent(found[r].tx)
              /\ \/ wallet[found[r].tx].batch = cur[r]
                 \/ SameDestinations(cur[r], found[r].tx)

\* The ledger and the finalized batches agree.
LedgerOK ==
    /\ LedgerBooksOwnTransfer
    /\ \A b \in Batches :
          row[b].status = "finalized" => ledger[row[b].hash] = b

LInv == ExistOK /\ RowHashOK /\ MemHashOK /\ FoundOK /\ LedgerOK

\* A runtime that may still claim the batch it reserved: past the lock check
\* of submitReservedBatch, or sure to pass it.
Backed(r) ==
    /\ mem[r].status = "reserved"
    /\ \/ pc[r] \in {"preflight", "holdRetry", "recheck", "claim"}
       \/ pc[r] = "submit" /\ lockOwner = r

\* The batch pays no account more than its balance row holds.
Covers(b) == \A a \in Accounts : items[b][a] <= amount[a]

\* A batch that was claimed, or may still be.
Payable(b) ==
    /\ row[b].status \in Unsettled
    /\ row[b].status = "reserved" =>
          \E r \in Runtimes : cur[r] = b /\ Backed(r)

CoverOK ==
    /\ \A a \in Accounts : amount[a] >= 0
    /\ \A b \in Batches : Payable(b) => Covers(b)

\* Control points of a cycle that has loaded the unsettled batches.
Loaded == Working \cup {"check", "plan", "verify", "reserve"}

\* A reservation left by a runtime that lost the lock after it had planned:
\* nobody will submit it.
Stray(r, b) ==
    /\ row[b].status = "reserved"
    /\ \A s \in Runtimes \ {r} : cur[s] = b => pc[s] = "submit"

\* The lock's owner knows every batch that may still be paid.
LockOK ==
    \A r \in Runtimes :
        lockOwner = r /\ pc[r] \in Loaded =>
            \A b \in Batches :
                row[b].status \in Unsettled =>
                    cur[r] = b \/ snap[r][b] # NoRow \/ Stray(r, b)

\* What is left of a plan fits the balances as long as the lock is held, and
\* excludes the accounts of the batch in work.
PlanOK ==
    \A r \in Runtimes :
        /\ plan[r] # NoPlan => snap[r] = NoSnap /\ pc[r] \in Loaded
        /\ pc[r] = "plan" => snap[r] = NoSnap
        /\ \A a \in Accounts :
              plan[r][a] > 0 =>
                 /\ lockOwner = r => plan[r][a] <= amount[a]
                 /\ cur[r] # NoBatch => items[cur[r]][a] = 0

MInv == CoverOK /\ LockOK /\ PlanOK

-----------------------------------------------------------------------------
(* What a step of runtime r does to its own cycle.                         *)

OnlyPlan(r) == \A s \in Runtimes \ {r} : plan'[s] = plan[s]

\* Only a cycle that begins can have obtained the lock.
OwnerMoves ==
    \A s \in Runtimes :
        lockOwner' = s => lockOwner = s \/ pc'[s] = "reensure"

\* The cycle ends, or the process does.
Ends(r) ==
    /\ pc'[r] \in {"idle", "down"} /\ cur'[r] = NoBatch /\ mem'[r] = NoRow
    /\ snap'[r] = NoSnap /\ plan'[r] = NoPlan

\* The cycle goes on with what it was doing.
Goes(r) ==
    /\ pc'[r] \in Working <=> pc[r] \in Working
    /\ pc'[r] \in Loaded <=> pc[r] \in Loaded
    /\ cur'[r] = cur[r] /\ snap'[r] = snap[r] /\ plan'[r] = plan[r]
    /\ \/ mem'[r] = mem[r]
       \/ pc[r] \in Working /\ mem'[r].status = "submitting"
       \/ /\ PersistSubmittedBatch(r) /\ Current(r)
          /\ HashFree(cur[r], found[r].tx)
          /\ mem'[r].hash = found[r].tx
    /\ Backed(r)' => Backed(r)
    /\ \A p \in {"submit", "plan"} : pc'[r] = p => pc[r] = p
    /\ pc[r] = "submit" => pc'[r] = "submit" \/ lockOwner = r

\* The cycle is done with its batch, whose reservation is over.
Clears(r) ==
    /\ pc[r] \in Working /\ pc'[r] \in {"plan", "check", "idle", "verify"}
    /\ pc'[r] = "idle" => plan[r] = NoPlan
    /\ cur'[r] = NoBatch /\ mem'[r] = NoRow /\ plan'[r] = plan[r]
    /\ \A b \in Batches : \/ snap'[r][b] = snap[r][b]
                          \/ b = cur[r] /\ snap'[r][b] = NoRow
    /\ pc'[r] = "plan" => snap'[r] = NoSnap
    /\ row'[cur[r]].status \notin Unsettled

\* Recovery loads the unsettled rows.
Loads(r) ==
    /\ pc[r] = "load" /\ pc'[r] \in {"plan", "check"}
    /\ cur'[r] = cur[r] /\ mem'[r] = mem[r] /\ plan'[r] = plan[r]
    /\ pc'[r] = "plan" => snap'[r] = NoSnap
    /\ \A b \in Batches : snap'[r][b] = IF row[b].status \in Unsettled
                                        THEN row[b] ELSE NoRow

\* Recovery takes up a loaded row.
Picks(r) ==
    /\ lockOwner = r /\ pc[r] = "check" /\ pc'[r] \in Working
    /\ cur'[r] \in Batches /\ snap[r][cur'[r]] # NoRow
    /\ mem'[r] = snap[r][cur'[r]] /\ ~Backed(r)'
    /\ snap'[r] = snap[r] /\ plan'[r] = plan[r]

\* The payout loop is planned, from unpinned balances that cover it.
Plans(r) ==
    /\ pc[r] = "plan" /\ pc'[r] \in {"idle", "verify"}
    /\ pc'[r] = "idle" => plan'[r] = NoPlan
    /\ cur'[r] = cur[r] /\ mem'[r] = mem[r] /\ snap'[r] = snap[r]
    /\ \A a \in Accounts : plan'[r][a] > 0 => plan'[r][a] <= amount[a]

\* A part of the plan is reserved under a new batch.
Reserves(r) ==
    /\ pc[r] = "reserve" /\ pc'[r] = "submit" /\ cur'[r] \in Batches
    /\ row[cur'[r]].status = "none"
    /\ row' = [row EXCEPT ![cur'[r]] = NewRow]
    /\ mem'[r] = NewRow /\ snap'[r] = snap[r]
    /\ \A b \in Batches \ {cur'[r]} : items'[b] = items[b]
    /\ \E a \in Accounts : items'[cur'[r]][a] > 0
    /\ \A a \in Accounts :
          \/ items'[cur'[r]][a] = plan[r][a] /\ plan'[r][a] = 0
          \/ items'[cur'[r]][a] = 0 /\ plan'[r][a] = plan[r][a]

Moves(r) ==
    /\ OnlyPlan(r) /\ OwnerMoves
    /\ Ends(r) \/ Goes(r) \/ Clears(r) \/ Loads(r) \/ Picks(r) \/ Plans(r)
       \/ Reserves(r)

LEMMA ControlPoints ==
    /\ Working \subseteq Loaded /\ Loaded \subseteq Pcs
    /\ {"check", "plan", "verify", "reserve"} \cap Working = {}
    /\ {"down", "idle", "reensure", "load"} \cap Loaded = {}
    /\ \A p \in Pcs :
          p \in {"down", "idle", "reensure", "load"} \/ p \in Loaded
  BY DEF Working, Loaded, Pcs

\* A cycle that ends.
LEMMA EndCycleMoves ==
    ASSUME TypeOK, NEW r \in Runtimes, EndCycle(r)
    PROVE  OnlyPlan(r) /\ Ends(r)
  BY DEF TypeOK, EndCycle, Goto, OnlyPlan, Ends

\* A cycle that goes on with its next batch.
LEMMA ClearedMoves ==
    ASSUME TypeOK, NEW r \in Runtimes, Cleared(r), pc[r] \in Working,
           row'[cur[r]].status \notin Unsettled
    PROVE  OnlyPlan(r) /\ Clears(r)
<1> DEFINE rest == [snap[r] EXCEPT ![cur[r]] = NoRow]
<1>1. /\ OnlyPlan(r) /\ plan'[r] = plan[r]
      /\ cur'[r] = NoBatch /\ mem'[r] = NoRow
  BY DEF TypeOK, Cleared, OnlyPlan
<1>2. /\ pc'[r] \in {"plan", "check", "idle", "verify"}
      /\ pc'[r] = "idle" => plan[r] = NoPlan
  BY DEF TypeOK, Cleared, Goto
<1>7. pc'[r] = "plan" => snap'[r] = NoSnap
  BY DEF TypeOK, Cleared, Goto
<1>3. snap'[r] = snap[r] \/ snap'[r] = rest
  BY DEF TypeOK, Cleared
<1>4. \A b \in Batches : \/ rest[b] = snap[r][b]
                         \/ b = cur[r] /\ rest[b] = NoRow
  BY DEF TypeOK
<1> HIDE DEF rest
<1>5. \A b \in Batches : \/ snap'[r][b] = snap[r][b]
                         \/ b = cur[r] /\ snap'[r][b] = NoRow
  BY <1>3, <1>4
<1>6. QED
  BY <1>1, <1>2, <1>5, <1>7 DEF Clears

\* A step that leaves the cycle's data alone.
LEMMA GotoMoves ==
    ASSUME TypeOK, NEW r \in Runtimes, NEW label \in Pcs, Goto(r, label),
           UNCHANGED <<cur, mem, snap, plan, lockOwner>>,
           label \in Working <=> pc[r] \in Working,
           label \in Loaded <=> pc[r] \in Loaded,
           label \in {"submit", "preflight", "holdRetry", "recheck", "claim"} =>
              \/ pc[r] \in {"preflight", "holdRetry", "recheck", "claim"}
              \/ pc[r] = "submit" /\ lockOwner = r,
           label \notin {"submit", "plan"},
           pc[r] = "submit" => lockOwner = r
    PROVE  Moves(r)
<1>1. /\ pc'[r] = label /\ cur'[r] = cur[r] /\ mem'[r] = mem[r]
      /\ snap'[r] = snap[r] /\ plan'[r] = plan[r]
      /\ OnlyPlan(r) /\ OwnerMoves
  BY DEF TypeOK, Goto, OnlyPlan, OwnerMoves
<1>2. Backed(r)' => Backed(r)
  BY <1>1 DEF Backed
<1>3. QED
  BY <1>1, <1>2 DEF Moves, Goes

\* A step that leaves every cycle alone.
LEMMA SameCycle ==
    ASSUME TypeOK, NEW r \in Runtimes,
           UNCHANGED <<pc, cur, mem, snap, plan>>,
           lockOwner' \in {lockOwner, "nobody"}
    PROVE  Moves(r)
<1>1. OnlyPlan(r) /\ OwnerMoves
  BY RuntimesAssumption DEF OnlyPlan, OwnerMoves
<1>2. Backed(r)' => Backed(r)
  BY RuntimesAssumption DEF Backed
<1>3. QED
  BY <1>1, <1>2 DEF Moves, Goes

\* A failed verifyAdvisoryLock ends the cycle.
LEMMA LockCheckFailsMoves ==
    ASSUME TypeOK, NEW r \in Runtimes, LockCheckFails(r)
    PROVE  Moves(r)
  BY EndCycleMoves, RuntimesAssumption
     DEF LockCheckFails, Release, Moves, OwnerMoves

\* A cycle that ends with the lock as it was.
LEMMA EndMoves ==
    ASSUME TypeOK, NEW r \in Runtimes, EndCycle(r), lockOwner' = lockOwner
    PROVE  Moves(r)
  BY EndCycleMoves DEF Moves, OwnerMoves

\* Start, stop, crash and the lock's events.
LEMMA LifecycleMoves ==
    ASSUME TypeOK, NEW r \in Runtimes, Lifecycle(r)
    PROVE  Moves(r)
<1>1. CASE Start(r)
  BY <1>1, GotoMoves DEF Start, batchVars, Pcs, Working, Loaded
<1>2. CASE Stop(r) \/ Crash(r)
  <2>1. OnlyPlan(r) /\ Ends(r)
    BY <1>2 DEF TypeOK, Stop, Crash, Terminate, OnlyPlan, Ends
  <2>2. OwnerMoves
    BY <1>2, RuntimesAssumption
       DEF Stop, Crash, Terminate, Release, OwnerMoves
  <2>3. QED
    BY <2>1, <2>2 DEF Moves
<1>3. CASE EnsureAdvisoryLock(r)
  <2>1. CASE LockCheckFails(r)
    BY <2>1, LockCheckFailsMoves
  <2>2. CASE EndCycle(r) /\ lockOwner' = lockOwner
    BY <2>2, EndMoves
  <2>3. CASE /\ pc[r] = "idle" /\ Goto(r, "reensure") /\ UNCHANGED batchVars
             /\ lockOwner' \in {lockOwner, r}
    <3>1. /\ pc'[r] = "reensure" /\ cur'[r] = cur[r] /\ mem'[r] = mem[r]
          /\ snap'[r] = snap[r] /\ plan'[r] = plan[r] /\ OnlyPlan(r)
      BY <2>3 DEF TypeOK, Goto, batchVars, OnlyPlan
    <3>2. OwnerMoves
      BY <2>3, <3>1 DEF OwnerMoves
    <3>3. QED
      BY <2>3, <3>1, <3>2 DEF Moves, Goes, Backed, Working, Loaded
  <2>4. QED
    BY <1>3, <2>1, <2>2, <2>3 DEF EnsureAdvisoryLock
<1>4. CASE LoseLock(r) \/ HandleAdvisoryLockConnectionClose(r)
  BY <1>4, SameCycle
     DEF LoseLock, HandleAdvisoryLockConnectionClose, batchVars
<1>5. CASE SqlError(r)
  BY <1>5, EndMoves DEF SqlError
<1>6. QED
  BY <1>1, <1>2, <1>3, <1>4, <1>5 DEF Lifecycle

\* A lock check on the way to recovery or to the claim.
LEMMA CheckMoves ==
    ASSUME TypeOK, NEW r \in Runtimes, NEW label \in Pcs,
           CheckExclusiveAccess(r, label),
           \/ label = "load" /\ pc[r] = "reensure"
           \/ label = "preflight" /\ pc[r] = "submit"
           \/ label = "claim" /\ pc[r] = "recheck"
    PROVE  Moves(r)
<1>1. CASE LockCheckFails(r)
  BY <1>1, LockCheckFailsMoves
<1>2. CASE EndCycle(r) /\ lockOwner' = lockOwner
  BY <1>2, EndMoves
<1>3. CASE /\ lockOwner = r /\ Goto(r, label)
           /\ UNCHANGED <<lockOwner, batchVars>>
  BY <1>3, GotoMoves DEF batchVars, Working, Loaded
<1>4. QED
  BY <1>1, <1>2, <1>3 DEF CheckExclusiveAccess, LockVerified

\* recoverPendingBatches and reconciliation.
LEMMA RecoveryMoves ==
    ASSUME TypeOK, MemOK, NEW r \in Runtimes, Recovery(r)
    PROVE  Moves(r)
<1>1. CASE EnterRecovery(r)
  BY <1>1, CheckMoves DEF EnterRecovery, Pcs
<1>2. CASE RecoverPendingBatches(r)
  <2> DEFINE rows == [b \in Batches |-> IF row[b].status \in Unsettled
                                        THEN row[b] ELSE NoRow]
  <2>1. /\ pc[r] = "load" /\ pc'[r] \in {"plan", "check"}
        /\ cur'[r] = cur[r] /\ mem'[r] = mem[r] /\ plan'[r] = plan[r]
        /\ snap'[r] = rows
        /\ pc'[r] = "plan" => rows = NoSnap
        /\ OnlyPlan(r) /\ OwnerMoves
    BY <1>2 DEF TypeOK, RecoverPendingBatches, Goto, OnlyPlan, OwnerMoves
  <2>2. QED
    BY <2>1 DEF Moves, Loads
<1>3. CASE RecoverBatch(r)
  <2>1. CASE LockCheckFails(r)
    BY <2>1, LockCheckFailsMoves
  <2>2. CASE EndCycle(r) /\ lockOwner' = lockOwner
    BY <2>2, EndMoves
  <2>3. CASE ~LockCheckFails(r) /\ ~(EndCycle(r) /\ lockOwner' = lockOwner)
    <3>1. PICK b \in Batches :
             /\ snap[r][b] # NoRow /\ snap[r][b].status # "manual_review"
             /\ lockOwner = r
             /\ cur' = [cur EXCEPT ![r] = b]
             /\ mem' = [mem EXCEPT ![r] = snap[r][b]]
             /\ Goto(r, RecoveryStep(snap[r][b]))
             /\ UNCHANGED <<lockOwner, snap, plan, found>>
      BY <1>3, <2>3 DEF RecoverBatch, LockVerified
    <3>2. /\ pc'[r] = RecoveryStep(snap[r][b]) /\ cur'[r] = b
          /\ mem'[r] = snap[r][b] /\ snap'[r] = snap[r] /\ plan'[r] = plan[r]
          /\ OnlyPlan(r) /\ OwnerMoves
      BY <3>1 DEF TypeOK, Goto, OnlyPlan, OwnerMoves
    <3>3. \/ pc'[r] = "submit" /\ mem'[r].status = "retrying"
          \/ pc'[r] \in {"release", "reconcile"}
      BY <3>2 DEF RecoveryStep
    <3>4. QED
      BY <1>3, <3>1, <3>2, <3>3
         DEF RecoverBatch, Moves, Picks, Backed, Working
  <2>4. QED
    BY <2>1, <2>2, <2>3
<1>4. CASE ReleaseBatchReservation(r)
  <2>1. CASE EndCycle(r)
    BY <1>4, <2>1, EndMoves DEF ReleaseBatchReservation
  <2>2. CASE ~EndCycle(r)
    <3>1. /\ row' = [row EXCEPT ![cur[r]] = Released(row[cur[r]])]
          /\ Cleared(r) /\ lockOwner' = lockOwner /\ pc[r] \in Working
      BY <1>4, <2>2 DEF ReleaseBatchReservation, Working
    <3>2. row'[cur[r]].status = "retryable"
      BY <3>1, UpdateStatus DEF TypeOK, MemOK, CycleOK
    <3>3. row'[cur[r]].status \notin Unsettled
      BY <3>2 DEF Unsettled, InFlight
    <3>4. QED
      BY <3>1, <3>3, ClearedMoves DEF Moves, OwnerMoves
  <2>3. QED
    BY <2>1, <2>2
<1>5. CASE ReconcileBatch(r)
  <2>1. CASE EndCycle(r)
    BY <1>5, <2>1, EndMoves DEF ReconcileBatch
  <2>2. CASE ~EndCycle(r)
    <3>1. /\ pc[r] = "reconcile" /\ UNCHANGED <<batchVars, lockOwner>>
          /\ Goto(r, "visible") \/ Goto(r, "search")
      BY <1>5, <2>2 DEF ReconcileBatch
    <3>2. QED
      BY <3>1, GotoMoves DEF batchVars, Pcs, Working, Loaded
  <2>3. QED
    BY <2>1, <2>2
<1>6. CASE WalletUnavailable(r)
  BY <1>6, GotoMoves DEF WalletUnavailable, batchVars, Pcs, Working, Loaded
<1>7. CASE FindWalletTransferMatch(r)
  <2>1. /\ pc[r] = "search" /\ UNCHANGED <<cur, mem, snap, plan, lockOwner>>
        /\ Goto(r, "hold") \/ Goto(r, "review") \/ Goto(r, "persist")
    BY <1>7 DEF FindWalletTransferMatch
  <2>2. QED
    BY <2>1, GotoMoves DEF Pcs, Working, Loaded
<1>8. CASE FindSubmittedTransferVisibility(r)
  <2>1. /\ pc[r] = "visible" /\ UNCHANGED <<batchVars, lockOwner>>
        /\ Goto(r, "finalize") \/ Goto(r, "hold")
    BY <1>8 DEF FindSubmittedTransferVisibility
  <2>2. QED
    BY <2>1, GotoMoves DEF batchVars, Pcs, Working, Loaded
<1>9. QED
  BY <1>1, <1>2, <1>3, <1>4, <1>5, <1>6, <1>7, <1>8 DEF Recovery

\* reserveBatch.
LEMMA ReserveMoves ==
    ASSUME TypeOK, NEW r \in Runtimes, ReserveBatch(r)
    PROVE  Moves(r) /\ (Reserves(r) \/ UNCHANGED <<row, items>>)
<1>1. CASE EndCycle(r) /\ UNCHANGED <<row, items>>
  BY <1>1, EndMoves DEF ReserveBatch
<1>2. CASE ~(EndCycle(r) /\ UNCHANGED <<row, items>>)
  <2>1. PICK chunk \in SUBSET {a \in Accounts : plan[r][a] > 0}, b \in Batches :
           /\ chunk # {} /\ row[b].status = "none"
           /\ row' = [row EXCEPT ![b] = NewRow]
           /\ items' = [items EXCEPT ![b] =
                 [a \in Accounts |-> IF a \in chunk THEN plan[r][a] ELSE 0]]
           /\ cur' = [cur EXCEPT ![r] = b]
           /\ mem' = [mem EXCEPT ![r] = NewRow]
           /\ plan' = [plan EXCEPT ![r] =
                 [a \in Accounts |-> IF a \in chunk THEN 0 ELSE plan[r][a]]]
           /\ Goto(r, "submit")
           /\ UNCHANGED <<snap, found>>
    BY <1>2 DEF ReserveBatch
  <2>2. /\ pc[r] = "reserve" /\ pc'[r] = "submit" /\ cur'[r] = b
        /\ mem'[r] = NewRow /\ snap'[r] = snap[r]
        /\ OnlyPlan(r) /\ OwnerMoves
    BY <1>2, <2>1 DEF TypeOK, ReserveBatch, Goto, OnlyPlan, OwnerMoves
  <2>3. /\ items'[b] =
              [a \in Accounts |-> IF a \in chunk THEN plan[r][a] ELSE 0]
        /\ plan'[r] =
              [a \in Accounts |-> IF a \in chunk THEN 0 ELSE plan[r][a]]
        /\ \A c \in Batches \ {b} : items'[c] = items[c]
    BY <2>1 DEF TypeOK
  <2>4. \A a \in Accounts :
           \/ a \in chunk /\ items'[b][a] = plan[r][a] /\ plan'[r][a] = 0
           \/ items'[b][a] = 0 /\ plan'[r][a] = plan[r][a]
    BY <2>3
  <2>5. \E a \in Accounts : items'[b][a] > 0
    BY <2>1, <2>3
  <2>8. row[b].status = "none" /\ row' = [row EXCEPT ![b] = NewRow]
    BY <2>1
  <2>9. \A c \in Batches \ {b} : items'[c] = items[c]
    BY <2>3
  <2>6. Reserves(r)
    BY <2>2, <2>4, <2>5, <2>8, <2>9 DEF Reserves
  <2>7. QED
    BY <2>2, <2>6 DEF Moves
<1>3. QED
  BY <1>1, <1>2

\* Planning, reservation and submission.
LEMMA SubmissionMoves ==
    ASSUME TypeOK, MemOK, NEW r \in Runtimes, Submission(r)
    PROVE  Moves(r)
<1>1. CASE PlanBatches(r)
  <2>1. PICK p \in [Accounts -> 0..MaxAmount] :
           /\ \A a \in Accounts : p[a] > 0 => p[a] <= amount[a]
           /\ plan' = [plan EXCEPT ![r] = p]
           /\ Goto(r, IF p = NoPlan THEN "idle" ELSE "verify")
    BY <1>1 DEF PlanBatches
  <2>2. /\ pc[r] = "plan" /\ plan'[r] = p
        /\ cur'[r] = cur[r] /\ mem'[r] = mem[r] /\ snap'[r] = snap[r]
        /\ pc'[r] = IF p = NoPlan THEN "idle" ELSE "verify"
        /\ OnlyPlan(r) /\ OwnerMoves
    BY <1>1, <2>1 DEF TypeOK, PlanBatches, Goto, OnlyPlan, OwnerMoves
  <2>3. QED
    BY <2>1, <2>2 DEF Moves, Plans
<1>2. CASE VerifyBeforeReserve(r)
  <2>1. CASE LockCheckFails(r)
    BY <2>1, LockCheckFailsMoves
  <2>2. CASE ~LockCheckFails(r)
    BY <1>2, <2>2, GotoMoves
       DEF VerifyBeforeReserve, batchVars, Pcs, Working, Loaded
  <2>3. QED
    BY <2>1, <2>2
<1>3. CASE ReserveBatch(r)
  BY <1>3, ReserveMoves
<1>4. CASE SubmitReservedBatch(r)
  <2>1. "preflight" \in Pcs /\ "claim" \in Pcs
    BY DEF Pcs
  <2>2. QED
    BY <1>4, <2>1, CheckMoves DEF SubmitReservedBatch
<1>5. CASE PreflightWalletBalance(r)
  <2>1. /\ pc[r] = "preflight" /\ UNCHANGED <<batchVars, lockOwner>>
        /\ Goto(r, "recheck") \/ Goto(r, "hold") \/ Goto(r, "holdRetry")
    BY <1>5 DEF PreflightWalletBalance, RetryStep
  <2>2. QED
    BY <2>1, GotoMoves DEF batchVars, Pcs, Working, Loaded
<1>6. CASE HoldBatchForRetry(r)
  <2>1. CASE EndCycle(r)
    BY <1>6, <2>1, EndMoves DEF HoldBatchForRetry
  <2>2. CASE ~EndCycle(r)
    BY <1>6, <2>2, GotoMoves
       DEF HoldBatchForRetry, LostUpdate, batchVars, Pcs, Working, Loaded
  <2>3. QED
    BY <2>1, <2>2
<1>7. CASE ClaimBatchForSubmit(r)
  <2>1. CASE ClaimGuard(r)
    <3>1. /\ pc[r] = "claim" /\ pc'[r] = "transfer" /\ cur'[r] = cur[r]
          /\ mem'[r] = Submitting(mem[r]) /\ snap'[r] = snap[r]
          /\ plan'[r] = plan[r] /\ OnlyPlan(r) /\ OwnerMoves
      BY <1>7, <2>1 DEF TypeOK, ClaimBatchForSubmit, Goto, OnlyPlan, OwnerMoves
    <3>2. mem'[r].status = "submitting"
      BY <3>1, UpdateStatus DEF TypeOK
    <3>3. QED
      BY <3>1, <3>2 DEF Moves, Goes, Backed, Working, Loaded
  <2>2. CASE ~ClaimGuard(r)
    BY <1>7, <2>2, GotoMoves
       DEF ClaimBatchForSubmit, batchVars, Pcs, Working, Loaded
  <2>3. QED
    BY <2>1, <2>2
<1>8. CASE IssueTransfer(r)
  BY <1>8, GotoMoves DEF IssueTransfer, Pcs, Working, Loaded
<1>9. CASE TransferReply(r)
  <2>1. /\ pc[r] = "reply" /\ UNCHANGED <<cur, mem, snap, plan, lockOwner>>
        /\ Goto(r, "persist") \/ Goto(r, "history") \/ Goto(r, "ambiguous")
    BY <1>9 DEF TransferReply
  <2>2. QED
    BY <2>1, GotoMoves DEF Pcs, Working, Loaded
<1>10. CASE ReconcileAmbiguousSubmit(r)
  <2>1. /\ pc[r] = "ambiguous" /\ UNCHANGED <<batchVars, lockOwner>>
        /\ Goto(r, "reconcile") \/ Goto(r, "refresh")
    BY <1>10 DEF ReconcileAmbiguousSubmit, LostUpdate
  <2>2. QED
    BY <2>1, GotoMoves DEF batchVars, Pcs, Working, Loaded
<1>11. CASE ReconcileHistoryCheckedSubmitError(r)
  <2>1. /\ pc[r] = "history" /\ UNCHANGED <<cur, mem, snap, plan, lockOwner>>
        /\ Goto(r, "hold") \/ Goto(r, "review")
    BY <1>11 DEF ReconcileHistoryCheckedSubmitError
  <2>2. QED
    BY <2>1, GotoMoves DEF Pcs, Working, Loaded
<1>12. QED
  BY <1>1, <1>2, <1>3, <1>4, <1>5, <1>6, <1>7, <1>8, <1>9, <1>10, <1>11
     DEF Submission

\* Persisting, escalating, noting and finalizing.
LEMMA SettlementMoves ==
    ASSUME TypeOK, MemOK, NEW r \in Runtimes, Settlement(r)
    PROVE  Moves(r)
<1>0. lockOwner' = lockOwner /\ pc[r] \in Working
  BY DEF Settlement, RefreshBatch, HoldBatch, MarkBatchManualReview,
         PersistSubmittedBatch, ResolveTxKeyFails, FinalizeBatch,
         FinalizeRollsBack, FinalizeFailed, Working
<1>1. CASE EndCycle(r)
  BY <1>0, <1>1, EndMoves
<1>2. CASE RefreshBatch(r) /\ ~EndCycle(r)
  <2>1. Cleared(r) /\ row' = row /\ row[cur[r]].status = "finalized"
    BY <1>2 DEF RefreshBatch, sqlVars
  <2>2. row'[cur[r]].status \notin Unsettled
    BY <2>1 DEF Unsettled, InFlight
  <2>3. QED
    BY <1>0, <2>1, <2>2, ClearedMoves DEF Moves, OwnerMoves
<1>3. CASE FinalizeBatch(r) /\ Cleared(r)
  <2>1. /\ row' = [row EXCEPT ![cur[r]] = Finalized(row[cur[r]], mem[r].hash)]
        /\ cur[r] \in Batches
    BY <1>0, <1>3 DEF FinalizeBatch, MemOK, CycleOK
  <2>2. row'[cur[r]].status = "finalized"
    BY <2>1, UpdateStatus DEF TypeOK
  <2>3. row'[cur[r]].status \notin Unsettled
    BY <2>2 DEF Unsettled, InFlight
  <2>4. QED
    BY <1>0, <1>3, <2>3, ClearedMoves DEF Moves, OwnerMoves
<1>4. CASE /\ pc[r] \in {"hold", "review", "persist", "finalize"}
           /\ UNCHANGED <<cur, mem, snap, plan>>
           /\ \E label \in {"refresh", "refreshReview", "hold", "review",
                            "finalizeFailed"} : Goto(r, label)
  BY <1>0, <1>4, GotoMoves DEF Pcs, Working, Loaded
<1>5. CASE PersistSubmittedBatch(r) /\ ~EndCycle(r) /\ ~LostUpdate(r, "refresh")
  <2>1. /\ pc[r] = "persist" /\ pc'[r] = found[r].then /\ cur'[r] = cur[r]
        /\ mem'[r] = Submitted(mem[r], found[r]) /\ snap'[r] = snap[r]
        /\ plan'[r] = plan[r] /\ OnlyPlan(r) /\ OwnerMoves
        /\ Current(r) /\ HashFree(cur[r], found[r].tx)
    BY <1>0, <1>5
       DEF TypeOK, PersistSubmittedBatch, Goto, OnlyPlan, OwnerMoves
  <2>2. /\ mem'[r].status = "submitted" /\ mem'[r].hash = found[r].tx
    BY <2>1 DEF TypeOK, Submitted, Row
  <2>3. pc'[r] \in {"visible", "finalize", "hold", "review"}
    BY <2>1 DEF MemOK, CycleOK
  <2>4. ~Backed(r)'
    BY <2>2 DEF Backed
  <2>5. QED
    BY <1>5, <2>1, <2>2, <2>3, <2>4 DEF Moves, Goes, Working, Loaded
<1>6. QED
  BY <1>1, <1>2, <1>3, <1>4, <1>5
     DEF Settlement, HoldBatch, MarkBatchManualReview, PersistSubmittedBatch,
         FinalizeBatch, FinalizeRollsBack, FinalizeFailed, ResolveTxKeyFails,
         LostUpdate, batchVars

-----------------------------------------------------------------------------
(* What a step does to the wallet and the tables.                          *)

\* The wallet forgets no transfer it was asked for.
WalletMoves ==
    \A t \in Transfers :
        wallet[t].st # "free" =>
            /\ wallet'[t].st # "free" /\ wallet'[t].batch = wallet[t].batch
            /\ Sent(t) => Sent(t)'

\* A row gets a hash to stand for only from persistSubmittedBatch and from
\* finalizeBatch, and is made only by reserveBatch.
RowMoves(r) ==
    \A b \in Batches :
        /\ row'[b].status = "reserved" =>
              row[b].status = "reserved" \/ (Reserves(r) /\ b = cur'[r])
        /\ row'[b].status \in {"retrying", "submitting"} =>
              \/ row'[b].status = row[b].status
              \/ b = cur[r] /\ Current(r) /\ pc[r] \in {"holdRetry", "claim"}
        /\ \/ row'[b].hash = row[b].hash /\ row'[b].status = row[b].status
           \/ row'[b].status \notin {"submitted", "finalized"}
           \/ /\ b = cur[r] /\ PersistSubmittedBatch(r) /\ Current(r)
              /\ HashFree(b, found[r].tx) /\ row'[b].hash = found[r].tx
           \/ /\ b = cur[r] /\ FinalizeBatch(r)
              /\ row'[b].hash = mem[r].hash

\* What a batch pays is written once.
ItemsMove ==
    \A b \in Batches :
        /\ row[b].status # "none" =>
              row'[b].status # "none" /\ items'[b] = items[b]
        /\ row[b].status = "none" /\ row'[b].status # "none" =>
              \E a \in Accounts : items'[b][a] > 0

\* A step that does not touch the wallet.
LEMMA SameWallet == wallet' = wallet => WalletMoves
  BY DEF WalletMoves, Sent

\* The runtimes and the wallet.
LEMMA RuntimeWallet ==
    ASSUME TypeOK, NEW r \in Runtimes,
           Lifecycle(r) \/ Recovery(r) \/ Submission(r) \/ Settlement(r)
    PROVE  WalletMoves /\ (wallet' = wallet \/ IssueTransfer(r))
<1>1. CASE IssueTransfer(r)
  <2>1. PICK u \in Transfers :
           /\ wallet[u].st = "free"
           /\ wallet' = [wallet EXCEPT ![u] = [batch |-> cur[r],
                                               st |-> "inflight"]]
    BY <1>1 DEF IssueTransfer
  <2>2. \A t \in Transfers : wallet[t].st # "free" => wallet'[t] = wallet[t]
    BY <2>1 DEF TypeOK
  <2>3. QED
    BY <1>1, <2>2 DEF WalletMoves, Sent
<1>2. CASE ~IssueTransfer(r)
  <2>1. CASE Lifecycle(r)
    BY <2>1, SameWallet DEF Lifecycle, Start, Stop, Crash, Terminate,
          EnsureAdvisoryLock, LoseLock, HandleAdvisoryLockConnectionClose,
          SqlError
  <2>2. CASE Recovery(r)
    BY <2>2, SameWallet DEF Recovery, EnterRecovery, RecoverPendingBatches,
          RecoverBatch, ReleaseBatchReservation, ReconcileBatch,
          WalletUnavailable, FindWalletTransferMatch,
          FindSubmittedTransferVisibility
  <2>3. CASE Submission(r)
    BY <1>2, <2>3, SameWallet DEF Submission, PlanBatches,
          VerifyBeforeReserve, ReserveBatch, SubmitReservedBatch,
          PreflightWalletBalance, HoldBatchForRetry, ClaimBatchForSubmit,
          TransferReply, ReconcileAmbiguousSubmit,
          ReconcileHistoryCheckedSubmitError
  <2>4. CASE Settlement(r)
    BY <2>4, SameWallet DEF Settlement, RefreshBatch, HoldBatch,
          MarkBatchManualReview, PersistSubmittedBatch, ResolveTxKeyFails,
          FinalizeBatch, FinalizeRollsBack, FinalizeFailed
  <2>5. QED
    BY <2>1, <2>2, <2>3, <2>4
<1>3. QED
  BY <1>1, <1>2

\* A step that writes no row.
LEMMA NoRowMoves == \A r : row' = row => RowMoves(r)
  BY DEF RowMoves

\* A step that writes the row of batch b.
LEMMA OneRowMoves ==
    ASSUME TypeOK, NEW r, NEW b \in Batches, NEW x,
           row' = [row EXCEPT ![b] = x],
           \/ x.status # "reserved" \/ x.status = row[b].status
           \/ Reserves(r) /\ b = cur'[r],
           \/ x.status \notin {"retrying", "submitting"}
           \/ x.status = row[b].status
           \/ b = cur[r] /\ Current(r) /\ pc[r] \in {"holdRetry", "claim"},
           \/ x.hash = row[b].hash /\ x.status = row[b].status
           \/ x.status \notin {"submitted", "finalized"}
           \/ /\ b = cur[r] /\ PersistSubmittedBatch(r) /\ Current(r)
              /\ HashFree(b, found[r].tx) /\ x.hash = found[r].tx
           \/ b = cur[r] /\ FinalizeBatch(r) /\ x.hash = mem[r].hash
    PROVE  RowMoves(r)
<1>1. /\ row'[b] = x
      /\ \A c \in Batches \ {b} : row'[c] = row[c]
  BY DEF TypeOK
<1>2. QED
  BY <1>1 DEF RowMoves

\* The hash each row update leaves.
LEMMA UpdateHash ==
    /\ \A x \in Row : Held(x).hash = x.hash
    /\ \A f : \A x \in Row : Submitted(x, f).hash = f.tx
    /\ \A t : \A x \in Row : Finalized(x, t).hash = t
  BY DEF Held, Submitted, Finalized, Row

\* The runtimes and the batch rows.
LEMMA RuntimeRows ==
    ASSUME TypeOK, MemOK, NEW r \in Runtimes,
           Lifecycle(r) \/ Recovery(r) \/ Submission(r) \/ Settlement(r)
    PROVE  RowMoves(r)
<1> DEFINE b == cur[r]
<1>0. pc[r] \in Working => b \in Batches /\ row[b] \in Row
  BY DEF MemOK, CycleOK, TypeOK
<1>1. CASE Lifecycle(r)
  BY <1>1, NoRowMoves
     DEF Lifecycle, Start, Stop, Crash, Terminate, EnsureAdvisoryLock,
         LoseLock, HandleAdvisoryLockConnectionClose, SqlError, sqlVars
<1>2. CASE Recovery(r)
  <2>1. CASE row' = row
    BY <2>1, NoRowMoves
  <2>2. CASE row' # row
    <3>1. row' = [row EXCEPT ![b] = Released(row[b])] /\ pc[r] \in Working
      BY <1>2, <2>2
         DEF Recovery, EnterRecovery, RecoverPendingBatches, RecoverBatch,
             ReleaseBatchReservation, ReconcileBatch, WalletUnavailable,
             FindWalletTransferMatch, FindSubmittedTransferVisibility,
             sqlVars, Working
    <3>2. Released(row[b]).status = "retryable"
      BY <1>0, <3>1, UpdateStatus
    <3>3. QED
      BY <1>0, <3>1, <3>2, OneRowMoves
  <2>3. QED
    BY <2>1, <2>2
<1>3. CASE Submission(r)
  <2>1. CASE row' = row
    BY <2>1, NoRowMoves
  <2>2. CASE ReserveBatch(r) /\ row' # row
    <3>1. Reserves(r)
      BY <2>2, ReserveMoves
    <3>2. NewRow.status = "reserved"
      BY DEF NewRow, NoRow
    <3>3. QED
      BY <3>1, <3>2, OneRowMoves DEF Reserves
  <2>3. CASE ~ReserveBatch(r) /\ row' # row
    <3>1. /\ pc[r] \in Working /\ pc[r] \in {"holdRetry", "claim"}
          /\ Current(r)
          /\ \/ row' = [row EXCEPT ![b] = Retrying(row[b])]
             \/ row' = [row EXCEPT ![b] = Submitting(row[b])]
      BY <1>3, <2>3 DEF Submission, PlanBatches, VerifyBeforeReserve,
            SubmitReservedBatch, PreflightWalletBalance, HoldBatchForRetry,
            ClaimBatchForSubmit, ClaimGuard, IssueTransfer, TransferReply,
            LostUpdate, ReconcileAmbiguousSubmit,
            ReconcileHistoryCheckedSubmitError, sqlVars, Working
    <3>2. /\ Retrying(row[b]).status = "retrying"
          /\ Submitting(row[b]).status = "submitting"
      BY <1>0, <3>1, UpdateStatus
    <3>3. QED
      BY <1>0, <3>1, <3>2, OneRowMoves
  <2>4. QED
    BY <2>1, <2>2, <2>3
<1>4. CASE Settlement(r)
  <2>0. pc[r] \in Working
    BY <1>4 DEF Settlement, RefreshBatch, HoldBatch, MarkBatchManualReview,
          PersistSubmittedBatch, ResolveTxKeyFails, FinalizeBatch,
          FinalizeRollsBack, FinalizeFailed, Working
  <2>1. CASE row' = row
    BY <2>1, NoRowMoves
  <2>2. CASE row' = [row EXCEPT ![b] = Held(row[b])]
    <3>1. Held(row[b]).status = row[b].status /\ Held(row[b]).hash = row[b].hash
      BY <1>0, <2>0, UpdateStatus, UpdateHash
    <3>2. QED
      BY <1>0, <2>0, <2>2, <3>1, OneRowMoves
  <2>3. CASE row' = [row EXCEPT ![b] = Reviewed(row[b], found[r])]
    <3>1. Reviewed(row[b], found[r]).status = "manual_review"
      BY <1>0, <2>0, UpdateStatus
    <3>2. QED
      BY <1>0, <2>0, <2>3, <3>1, OneRowMoves
  <2>4. CASE PersistSubmittedBatch(r) /\ row' # row
    <3>1. /\ row' = [row EXCEPT ![b] = Submitted(row[b], found[r])]
          /\ Current(r) /\ HashFree(b, found[r].tx)
      BY <2>4 DEF PersistSubmittedBatch, LostUpdate, sqlVars
    <3>2. /\ Submitted(row[b], found[r]).hash = found[r].tx
          /\ Submitted(row[b], found[r]).status = "submitted"
      BY <1>0, <2>0, UpdateHash, UpdateStatus
    <3>3. QED
      BY <1>0, <2>0, <2>4, <3>1, <3>2, OneRowMoves
  <2>5. CASE FinalizeBatch(r)
    <3>1. row' = [row EXCEPT ![b] = Finalized(row[b], mem[r].hash)]
      BY <2>5 DEF FinalizeBatch
    <3>2. /\ Finalized(row[b], mem[r].hash).hash = mem[r].hash
          /\ Finalized(row[b], mem[r].hash).status = "finalized"
      BY <1>0, <2>0, UpdateHash, UpdateStatus
    <3>3. QED
      BY <1>0, <2>0, <2>5, <3>1, <3>2, OneRowMoves
  <2>6. CASE FinalizeFailed(r)
    <3>1. \/ row' = [row EXCEPT ![b] = Held(row[b])]
          \/ row' = [row EXCEPT ![b] = row[b]]
      BY <2>6 DEF FinalizeFailed
    <3>2. row = [row EXCEPT ![b] = row[b]]
      BY DEF TypeOK
    <3>3. QED
      BY <2>1, <2>2, <3>1, <3>2
  <2>7. QED
    BY <1>4, <2>1, <2>2, <2>3, <2>4, <2>5, <2>6
       DEF Settlement, RefreshBatch, HoldBatch, MarkBatchManualReview,
           ResolveTxKeyFails, FinalizeRollsBack, LostUpdate, sqlVars
<1>5. QED
  BY <1>1, <1>2, <1>3, <1>4

\* Only finalizeBatch books and pays, only reserveBatch writes items.
LEMMA RuntimeMoney ==
    ASSUME TypeOK, NEW r \in Runtimes,
           Lifecycle(r) \/ Recovery(r) \/ Submission(r) \/ Settlement(r)
    PROVE  /\ FinalizeBatch(r) \/ UNCHANGED <<amount, ledger>>
           /\ Reserves(r) \/ items' = items
<1>1. CASE Lifecycle(r)
  BY <1>1 DEF Lifecycle, Start, Stop, Crash, Terminate, EnsureAdvisoryLock,
        LoseLock, HandleAdvisoryLockConnectionClose, SqlError, sqlVars
<1>2. CASE Recovery(r)
  BY <1>2 DEF Recovery, EnterRecovery, RecoverPendingBatches, RecoverBatch,
        ReleaseBatchReservation, ReconcileBatch, WalletUnavailable,
        FindWalletTransferMatch, FindSubmittedTransferVisibility, sqlVars
<1>3. CASE ReserveBatch(r)
  BY <1>3, ReserveMoves DEF ReserveBatch
<1>4. CASE Submission(r) /\ ~ReserveBatch(r)
  BY <1>4 DEF Submission, PlanBatches, VerifyBeforeReserve,
        SubmitReservedBatch, PreflightWalletBalance, HoldBatchForRetry,
        ClaimBatchForSubmit, IssueTransfer, TransferReply, LostUpdate,
        ReconcileAmbiguousSubmit, ReconcileHistoryCheckedSubmitError, sqlVars
<1>5. CASE Settlement(r)
  BY <1>5 DEF Settlement, RefreshBatch, HoldBatch, MarkBatchManualReview,
        PersistSubmittedBatch, ResolveTxKeyFails, FinalizeBatch,
        FinalizeRollsBack, FinalizeFailed, LostUpdate, sqlVars
<1>6. QED
  BY <1>1, <1>2, <1>3, <1>4, <1>5

\* What a batch pays stays as it was reserved.
LEMMA RuntimeItems ==
    ASSUME TypeOK, NEW r \in Runtimes, BatchesMove, RowMoves(r),
           Reserves(r) \/ items' = items
    PROVE  ItemsMove
<1>1. ASSUME NEW b \in Batches, row[b].status # "none"
      PROVE  /\ row'[b].status # "none"
             /\ items'[b] = items[b]
  <2>1. row'[b].status # "none"
    BY <1>1 DEF BatchesMove, BatchMoves
  <2>2. items'[b] = items[b]
    BY <1>1 DEF Reserves
  <2>3. QED
    BY <2>1, <2>2
<1>2. ASSUME NEW b \in Batches, row[b].status = "none", row'[b].status # "none"
      PROVE  \E a \in Accounts : items'[b][a] > 0
  <2>1. row'[b].status = "reserved"
    BY <1>2 DEF BatchesMove, BatchMoves
  <2>2. Reserves(r) /\ b = cur'[r]
    BY <1>2, <2>1 DEF RowMoves
  <2>3. QED
    BY <2>2 DEF Reserves
<1>3. QED
  BY <1>1, <1>2 DEF ItemsMove

\* The wallet, the block manager and the operator: no cycle moves, no batch is
\* made, submitted or booked, no balance falls.
OutsideMoves ==
    /\ UNCHANGED <<pc, cur, mem, snap, plan, found, items, ledger>>
    /\ WalletMoves /\ OwnerMoves
    /\ \A b \in Batches : \/ row'[b] = row[b]
                          \/ /\ row[b].status \notin {"none", "finalized"}
                             /\ row'[b].status = "retryable"
    /\ \A a \in Accounts : amount'[a] >= amount[a]

LEMMA OutsideEffects ==
    ASSUME Inv, BatchesMove, Environment \/ Operator
    PROVE  OutsideMoves
<1> USE DEF Inv
<1>1. UNCHANGED <<pc, cur, mem, snap, plan, found, items, ledger>>
  BY DEF Environment, ExecuteTransfer, RevealTransfer, RejectTransfer,
         CreditBalance, Operator, UnlockStart, AssertWalletHistoryClear,
         UnlockBatch, UnlockRefused, sqlVars, batchVars
<1>2. WalletMoves
  <2>1. ASSUME NEW u \in Transfers, NEW st, wallet[u].st # "free",
               st # "free", Sent(u) => st \in {"hidden", "visible"},
               wallet' = [wallet EXCEPT ![u].st = st]
        PROVE  WalletMoves
    <3>1. \A t \in Transfers \ {u} : wallet'[t] = wallet[t]
      BY <2>1 DEF TypeOK
    <3>2. wallet'[u].st = st /\ wallet'[u].batch = wallet[u].batch
      BY <2>1 DEF TypeOK, WalletTx
    <3>3. QED
      BY <2>1, <3>1, <3>2 DEF WalletMoves, Sent
  <2>2. CASE wallet' = wallet
    BY <2>2, SameWallet
  <2>3. QED
    BY <2>1, <2>2
       DEF Environment, ExecuteTransfer, RevealTransfer, RejectTransfer,
           CreditBalance, Operator, UnlockStart, AssertWalletHistoryClear,
           UnlockBatch, UnlockRefused, Sent
<1>3. OwnerMoves
  BY RuntimesAssumption
     DEF OwnerMoves, Environment, ExecuteTransfer, RevealTransfer,
         RejectTransfer, CreditBalance, Operator, UnlockStart,
         AssertWalletHistoryClear, UnlockBatch, UnlockRefused, Release
<1>4. \A b \in Batches : \/ row'[b] = row[b]
                        \/ /\ row[b].status \notin {"none", "finalized"}
                           /\ row'[b].status = "retryable"
  <2>1. CASE row' = row
    BY <2>1
  <2>2. CASE row' # row
    <3>1. row' = [row EXCEPT ![tool.batch] =
                     Unlocked(row[tool.batch], tool.confirm)]
      BY <2>2 DEF Environment, ExecuteTransfer, RevealTransfer, RejectTransfer,
            CreditBalance, Operator, UnlockStart, AssertWalletHistoryClear,
            UnlockBatch, UnlockRefused, sqlVars
    <3>2. \A b \in Batches : Unlocked(row[b], tool.confirm).status = "retryable"
      BY UpdateStatus DEF TypeOK
    <3>3. \A b \in Batches : row'[b] = row[b] \/ row'[b].status = "retryable"
      BY <3>1, <3>2 DEF TypeOK
    <3>4. QED
      BY <3>3 DEF BatchesMove, BatchMoves
  <2>3. QED
    BY <2>1, <2>2
<1>5. \A a \in Accounts : amount'[a] >= amount[a]
  <2>1. amount' = amount \/ \E a \in Accounts : CreditBalance(a)
    BY DEF Environment, ExecuteTransfer, RevealTransfer, RejectTransfer,
           Operator, UnlockStart, AssertWalletHistoryClear, UnlockBatch,
           UnlockRefused, sqlVars
  <2>2. \A a \in Accounts : amount[a] \in Int
    BY DEF TypeOK
  <2>3. ASSUME NEW c \in Accounts, CreditBalance(c)
        PROVE  \A a \in Accounts : amount'[a] >= amount[a]
    <3>1. amount' = [amount EXCEPT ![c] = amount[c] + 1]
      BY <2>3 DEF CreditBalance
    <3>2. \A a \in Accounts : amount'[a] = IF a = c THEN amount[c] + 1
                                                    ELSE amount[a]
      BY <3>1 DEF TypeOK
    <3>3. QED
      BY <2>2, <3>2
  <2>4. QED
    BY <2>1, <2>2, <2>3
<1>6. QED
  BY <1>1, <1>2, <1>3, <1>4, <1>5 DEF OutsideMoves

-----------------------------------------------------------------------------
(* What exists, and which hash belongs to which batch.                     *)

\* A batch's own transfer stays its own.
OwnNext(b, t) ==
    /\ t \in Transfers /\ wallet'[t].st \in {"hidden", "visible"}
    /\ wallet'[t].batch = b

LEMMA OwnStays == WalletMoves => \A b, t : Own(b, t) => OwnNext(b, t)
  BY DEF WalletMoves, Own, OwnNext, Sent

\* A runtime's step keeps ExistOK.
LEMMA ExistStep ==
    ASSUME Inv, Inv', ExistOK, NEW r \in Runtimes, OnlyCycle(r), Moves(r),
           ItemsMove
    PROVE  ExistOK'
<1>1. \A b \in Batches :
         row'[b].status # "none" => \E a \in Accounts : items'[b][a] > 0
  BY DEF ExistOK, ItemsMove
<1>2. \A s \in Runtimes : pc[s] \in Working => cur[s] \in Batches
  BY DEF Inv, MemOK, CycleOK
<1> DEFINE Ok(s) == /\ pc[s] \in Working => row[cur[s]].status # "none"
                    /\ pc[s] \notin Working => cur[s] = NoBatch /\ mem[s] = NoRow
                    /\ \A b \in Batches :
                          snap[s][b] # NoRow => row[b].status # "none"
<1>3. \A s \in Runtimes : Ok(s)
  BY DEF ExistOK
<1>4. ASSUME NEW s \in Runtimes \ {r} PROVE Ok(s)'
  BY <1>2, <1>3 DEF OnlyCycle, ItemsMove
<1>5. Ok(r)'
  <2>0. Ok(r)
    BY <1>3
  <2>1. \A b \in Batches : row[b].status # "none" => row'[b].status # "none"
    BY DEF ItemsMove
  <2>2. CASE Ends(r)
    <3>1. \A b \in Batches : NoSnap[b] = NoRow
      BY DEF NoSnap
    <3>2. QED
      BY <2>2, <3>1 DEF Ends, Working
  <2>3. CASE Goes(r)
    <3>1. pc[r] \in Working \/ mem'[r] = mem[r]
      BY <2>3 DEF Goes, PersistSubmittedBatch, Working
    <3>2. QED
      BY <1>2, <2>0, <2>1, <2>3, <3>1 DEF Goes
  <2>4. CASE Clears(r)
    BY <2>0, <2>1, <2>4 DEF Clears, Working
  <2>5. CASE Loads(r)
    <3>1. "none" \notin Unsettled
      BY DEF Unsettled, InFlight
    <3>2. QED
      BY <2>0, <2>1, <2>5, <3>1 DEF Loads, Working
  <2>6. CASE Picks(r)
    BY <2>0, <2>1, <2>6 DEF Picks
  <2>7. CASE Plans(r)
    BY <2>0, <2>1, <2>7 DEF Plans, Working
  <2>8. CASE Reserves(r)
    <3>1. row'[cur'[r]] = NewRow
      BY <2>8 DEF Reserves, Inv, TypeOK
    <3>2. NewRow.status # "none" /\ pc'[r] \in Working
      BY <2>8 DEF NewRow, NoRow, Reserves, Working
    <3>3. QED
      BY <2>0, <2>1, <2>8, <3>1, <3>2 DEF Reserves
  <2>9. QED
    BY <2>2, <2>3, <2>4, <2>5, <2>6, <2>7, <2>8 DEF Moves
<1>6. QED
  <2> HIDE DEF Ok
  <2>1. \A s \in Runtimes : Ok(s)'
    BY <1>4, <1>5
  <2>2. QED
    BY <1>1, <2>1 DEF ExistOK, Ok

\* A transfer that is persisted for batch b is the batch's own: a transfer of
\* another batch that pays the same is of a batch already finalized with it.
LEMMA PersistedIsOwn ==
    ASSUME Inv, ExistOK, RowHashOK, FoundOK, "confirm" \notin UnlockModes,
           NEW r \in Runtimes, PersistSubmittedBatch(r), Current(r),
           HashFree(cur[r], found[r].tx)
    PROVE  Own(cur[r], found[r].tx)
<1> DEFINE b == cur[r]
           t == found[r].tx
           c == wallet[t].batch
<1>1. /\ pc[r] = "persist" /\ b \in Batches /\ t \in Transfers /\ Sent(t)
      /\ c = b \/ items[c] = items[b]
      /\ row[b].status \in {"submitting", "submitted"}
  BY DEF PersistSubmittedBatch, Current, FoundOK, SameDestinations, Inv, MemOK,
         CycleOK, Working
<1>0. NoBatch \notin Batches
  BY DEF NoBatch, Batches
<1>2. c \in Batches
  <2>1. c # NoBatch
    BY <1>1 DEF Inv, SendOK, Sent
  <2>2. QED
    BY <1>1, <2>1 DEF Inv, TypeOK, WalletTx
<1>3. CASE c # b
  <2>1. PICK a \in Accounts : items[b][a] > 0
    BY <1>1 DEF ExistOK
  <2>2. row[b].status \in Unsettled
    BY <1>1 DEF Unsettled, InFlight
  <2>3. pending[a] = b
    BY <1>1, <2>1, <2>2 DEF Inv, PinsMatchBatches
  <2>4. row[c].status \notin Unsettled
    BY <1>1, <1>2, <1>3, <2>1, <2>3 DEF Inv, PinsMatchBatches
  <2>5. row[c].status \notin Fresh \cup {"none", "retryable"}
    BY <1>0, <1>1, <1>2 DEF Inv, SendOK, ReleaseOK
  <2>6. row[c].status = "finalized"
    BY <1>2, <2>4, <2>5 DEF Inv, TypeOK, Row, Statuses, Unsettled, InFlight
  <2>7. Own(c, row[c].hash)
    BY <1>2, <2>6 DEF RowHashOK
  <2>8. row[c].hash = t
    BY <1>0, <1>1, <1>2, <2>7
       DEF Own, Inv, SendOK, AtMostOneTransfer
  <2>9. QED
    BY <1>2, <1>3, <2>8 DEF HashFree
<1>4. QED
  BY <1>1, <1>3 DEF Own

\* A runtime's step keeps the hashes right.
LEMMA HashStep ==
    ASSUME Inv, Inv', ExistOK, RowHashOK, MemHashOK, FoundOK,
           "confirm" \notin UnlockModes, NEW r \in Runtimes, OnlyCycle(r),
           Moves(r), RowMoves(r), WalletMoves
    PROVE  RowHashOK' /\ MemHashOK'
<1>0. /\ NoRow.status = "none" /\ NewRow.status = "reserved"
      /\ \A b \in Batches : NoSnap[b] = NoRow
  BY DEF NoRow, NewRow, NoSnap
<1>1. RowHashOK'
  <2> SUFFICES ASSUME NEW b \in Batches,
                      row'[b].status \in {"submitted", "finalized"}
               PROVE  OwnNext(b, row'[b].hash)
    BY DEF RowHashOK, Own, OwnNext, Sent
  <2>1. CASE row'[b].hash = row[b].hash /\ row'[b].status = row[b].status
    <3>1. Own(b, row[b].hash)
      BY <2>1 DEF RowHashOK
    <3>2. QED
      BY <2>1, <3>1, OwnStays
  <2>2. CASE /\ b = cur[r] /\ PersistSubmittedBatch(r) /\ Current(r)
             /\ HashFree(b, found[r].tx) /\ row'[b].hash = found[r].tx
    <3>1. Own(b, found[r].tx)
      BY <2>2, PersistedIsOwn
    <3>2. QED
      BY <2>2, <3>1, OwnStays
  <2>3. CASE b = cur[r] /\ FinalizeBatch(r) /\ row'[b].hash = mem[r].hash
    <3>1. mem[r].status = "submitted"
      BY <2>3 DEF FinalizeBatch, Inv, MemOK, CycleOK
    <3>2. Own(b, mem[r].hash)
      BY <2>3, <3>1 DEF MemHashOK
    <3>3. QED
      BY <2>3, <3>2, OwnStays
  <2>4. QED
    BY <2>1, <2>2, <2>3 DEF RowMoves
<1> DEFINE Ok(s) == /\ mem[s].status = "submitted" => Own(cur[s], mem[s].hash)
                    /\ \A b \in Batches : snap[s][b].status = "submitted" =>
                                             Own(b, snap[s][b].hash)
<1>2. \A s \in Runtimes : Ok(s)
  BY DEF MemHashOK
<1>3. ASSUME NEW s \in Runtimes \ {r} PROVE Ok(s)'
  <2>1. /\ mem'[s].status = "submitted" => OwnNext(cur'[s], mem'[s].hash)
        /\ \A b \in Batches : snap'[s][b].status = "submitted" =>
                               OwnNext(b, snap'[s][b].hash)
    BY <1>2, <1>3, OwnStays DEF OnlyCycle
  <2>2. QED
    BY <2>1 DEF Own, OwnNext, Sent
<1>4. Ok(r)'
  <2>1. ASSUME mem'[r].status = "submitted" PROVE OwnNext(cur'[r], mem'[r].hash)
    <3>1. CASE Ends(r) \/ Clears(r) \/ Reserves(r)
      BY <1>0, <2>1, <3>1 DEF Ends, Clears, Reserves
    <3>2. CASE cur'[r] = cur[r] /\ mem'[r] = mem[r]
      <4>1. Own(cur[r], mem[r].hash)
        BY <1>2, <2>1, <3>2
      <4>2. QED
        BY <3>2, <4>1, OwnStays
    <3>3. CASE /\ cur'[r] = cur[r] /\ PersistSubmittedBatch(r) /\ Current(r)
               /\ HashFree(cur[r], found[r].tx)
               /\ mem'[r].hash = found[r].tx
      <4>1. Own(cur[r], found[r].tx)
        BY <3>3, PersistedIsOwn
      <4>2. QED
        BY <3>3, <4>1, OwnStays
    <3>4. CASE Picks(r)
      <4>1. Own(cur'[r], snap[r][cur'[r]].hash)
        BY <1>2, <2>1, <3>4 DEF Picks
      <4>2. QED
        BY <3>4, <4>1, OwnStays DEF Picks
    <3>5. QED
      BY <2>1, <3>1, <3>2, <3>3, <3>4 DEF Moves, Goes, Loads, Plans
  <2>2. ASSUME NEW b \in Batches, snap'[r][b].status = "submitted"
        PROVE  OwnNext(b, snap'[r][b].hash)
    <3>1. CASE snap'[r][b] = NoRow \/ Ends(r)
      BY <1>0, <2>2, <3>1 DEF Ends
    <3>2. CASE snap'[r][b] = snap[r][b]
      <4>1. Own(b, snap[r][b].hash)
        BY <1>2, <2>2, <3>2
      <4>2. QED
        BY <3>2, <4>1, OwnStays
    <3>3. CASE snap'[r][b] = row[b]
      <4>1. Own(b, row[b].hash)
        BY <2>2, <3>3 DEF RowHashOK
      <4>2. QED
        BY <3>3, <4>1, OwnStays
    <3>4. QED
      BY <3>1, <3>2, <3>3
         DEF Moves, Goes, Clears, Loads, Picks, Plans, Reserves
  <2>3. QED
    BY <2>1, <2>2 DEF Own, OwnNext, Sent
<1>5. QED
  <2> HIDE DEF Ok
  <2>1. \A s \in Runtimes : Ok(s)'
    BY <1>3, <1>4
  <2>2. QED
    BY <1>1, <2>1 DEF MemHashOK, Ok

\* A runtime's step keeps what the wallet answered right.
LEMMA FoundStep ==
    ASSUME Inv, ExistOK, FoundOK, NEW r \in Runtimes, OnlyCycle(r),
           Lifecycle(r) \/ Recovery(r) \/ Submission(r) \/ Settlement(r),
           WalletMoves, ItemsMove
    PROVE  FoundOK'
<1> DEFINE Ok(s) ==
        /\ pc[s] = "reply" => /\ found[s].tx \in Transfers
                              /\ wallet[found[s].tx].st # "free"
                              /\ wallet[found[s].tx].batch = cur[s]
        /\ pc[s] = "persist" =>
              /\ found[s].tx \in Transfers /\ Sent(found[s].tx)
              /\ \/ wallet[found[s].tx].batch = cur[s]
                 \/ SameDestinations(cur[s], found[s].tx)
<1>1. \A s \in Runtimes : Ok(s)
  BY DEF FoundOK
<1>2. ASSUME NEW t \in Transfers, Sent(t)
      PROVE  /\ wallet[t].batch \in Batches /\ row[wallet[t].batch].status # "none"
             /\ wallet'[t].batch = wallet[t].batch /\ Sent(t)'
             /\ items'[wallet[t].batch] = items[wallet[t].batch]
  <2>1. wallet[t].batch # NoBatch
    BY <1>2 DEF Inv, SendOK, Sent
  <2>2. wallet[t].batch \in Batches
    BY <1>2, <2>1 DEF Inv, TypeOK, WalletTx
  <2>3. row[wallet[t].batch].status # "none"
    BY <1>2, <2>1 DEF Inv, SendOK
  <2>4. QED
    BY <1>2, <2>2, <2>3 DEF WalletMoves, ItemsMove, Sent
<1>3. ASSUME NEW s \in Runtimes, pc'[s] = pc[s], cur'[s] = cur[s],
             found'[s] = found[s]
      PROVE  Ok(s)'
  <2>1. CASE pc[s] = "reply"
    BY <1>1, <1>3, <2>1 DEF WalletMoves
  <2>2. CASE pc[s] = "persist"
    <3>1. cur[s] \in Batches /\ row[cur[s]].status # "none"
      BY <2>2 DEF ExistOK, Inv, MemOK, CycleOK, Working
    <3>2. items'[cur[s]] = items[cur[s]]
      BY <3>1 DEF ItemsMove
    <3>3. QED
      BY <1>1, <1>2, <1>3, <2>2, <3>2 DEF SameDestinations
  <2>3. QED
    BY <1>3, <2>1, <2>2
<1>4. \A s \in Runtimes \ {r} : Ok(s)'
  BY <1>3 DEF OnlyCycle
<1>5. Ok(r)'
  <2>1. CASE IssueTransfer(r)
    <3>1. PICK u \in Transfers :
             /\ wallet' = [wallet EXCEPT ![u] = [batch |-> cur[r],
                                                 st |-> "inflight"]]
             /\ Remember(r, u, FALSE, "none")
      BY <2>1 DEF IssueTransfer
    <3>2. found'[r].tx = u /\ cur'[r] = cur[r] /\ pc'[r] = "reply"
      BY <2>1, <3>1 DEF Inv, TypeOK, IssueTransfer, Remember, Goto
    <3>3. wallet'[u].batch = cur[r] /\ wallet'[u].st = "inflight"
      BY <3>1 DEF Inv, TypeOK
    <3>4. QED
      BY <3>2, <3>3
  <2>2. CASE TransferReply(r)
    <3>1. /\ cur'[r] = cur[r] /\ pc[r] = "reply" /\ pc'[r] # "reply"
          /\ pc'[r] = "persist" =>
                found'[r].tx = found[r].tx /\ Sent(found[r].tx)
      BY <2>2 DEF Inv, TypeOK, TransferReply, Remember, Goto
    <3>2. QED
      BY <1>1, <1>2, <3>1
  <2>3. CASE FindWalletTransferMatch(r)
    <3>1. /\ cur'[r] = cur[r] /\ pc'[r] # "reply" /\ pc[r] = "search"
          /\ items' = items
      BY <2>3 DEF Inv, TypeOK, FindWalletTransferMatch, Goto, sqlVars
    <3>2. ASSUME pc'[r] = "persist"
          PROVE  \E m \in Scans(cur[r]) : found'[r].tx \in m
      BY <2>3, <3>2 DEF Inv, TypeOK, FindWalletTransferMatch, Remember, Goto
    <3>3. \A m \in Scans(cur[r]) : \A t \in m :
             /\ t \in Transfers /\ wallet[t].st = "visible"
             /\ wallet[t].batch = cur[r] \/ SameDestinations(cur[r], t)
      BY DEF Scans
    <3>4. ASSUME pc'[r] = "persist"
          PROVE  /\ found'[r].tx \in Transfers /\ Sent(found'[r].tx)
                 /\ \/ wallet[found'[r].tx].batch = cur[r]
                    \/ SameDestinations(cur[r], found'[r].tx)
      BY <3>2, <3>3, <3>4 DEF Sent
    <3>5. QED
      BY <1>2, <3>1, <3>4 DEF SameDestinations
  <2>4. CASE ~(IssueTransfer(r) \/ TransferReply(r) \/ FindWalletTransferMatch(r))
    <3>1. \/ pc'[r] \notin {"reply", "persist"}
          \/ pc'[r] = pc[r] /\ cur'[r] = cur[r] /\ found'[r] = found[r]
      <4>1. CASE EndCycle(r) \/ Cleared(r)
        BY <4>1, EndCycleKeeps, ClearedKeeps DEF Inv, MemOK
      <4>2. CASE Lifecycle(r) /\ ~EndCycle(r)
        BY <4>2 DEF Inv, TypeOK, Lifecycle, Start, Stop, Crash, Terminate,
              EnsureAdvisoryLock, LoseLock, HandleAdvisoryLockConnectionClose,
              LockCheckFails, SqlError, Goto, batchVars
      <4>3. CASE Recovery(r) /\ ~EndCycle(r) /\ ~Cleared(r)
        BY <2>4, <4>3 DEF Inv, TypeOK, Recovery, EnterRecovery,
              RecoverPendingBatches, RecoverBatch, ReleaseBatchReservation,
              ReconcileBatch, WalletUnavailable, CheckExclusiveAccess,
              LockCheckFails, RecoveryStep, FindSubmittedTransferVisibility,
              Goto
      <4>4. CASE Submission(r) /\ ~EndCycle(r)
        BY <2>4, <4>4 DEF Inv, TypeOK, Submission, PlanBatches,
              VerifyBeforeReserve, ReserveBatch, SubmitReservedBatch,
              PreflightWalletBalance, RetryStep, HoldBatchForRetry,
              ClaimBatchForSubmit, CheckExclusiveAccess, LockCheckFails,
              LostUpdate, ReconcileAmbiguousSubmit,
              ReconcileHistoryCheckedSubmitError, Goto
      <4>5. CASE Settlement(r) /\ ~EndCycle(r) /\ ~Cleared(r)
        BY <4>5 DEF Inv, TypeOK, MemOK, CycleOK, Settlement, RefreshBatch,
              HoldBatch, MarkBatchManualReview, PersistSubmittedBatch,
              ResolveTxKeyFails, FinalizeBatch, FinalizeRollsBack,
              FinalizeFailed, LostUpdate, Goto
      <4>6. QED
        BY <4>1, <4>2, <4>3, <4>4, <4>5
    <3>2. QED
      BY <1>3, <3>1
  <2>5. QED
    BY <2>1, <2>2, <2>3, <2>4
<1>6. QED
  <2> HIDE DEF Ok
  <2>1. \A s \in Runtimes : Ok(s)'
    BY <1>4, <1>5
  <2>2. QED
    BY <2>1 DEF FoundOK, Ok

\* A runtime's step keeps ledger and finalized batches in agreement.
LEMMA LedgerStep ==
    ASSUME Inv, Inv', BatchesMove, RowHashOK, RowHashOK', MemHashOK, LedgerOK,
           NEW r \in Runtimes, RowMoves(r), WalletMoves,
           FinalizeBatch(r) \/ UNCHANGED <<amount, ledger>>
    PROVE  LedgerOK'
<1> DEFINE b == cur[r]
           h == mem[r].hash
<1>0. NoBatch \notin Batches
  BY DEF NoBatch, Batches
<1>1. ASSUME FinalizeBatch(r)
      PROVE  /\ b \in Batches /\ Own(b, h) /\ ledger[h] = NoBatch
             /\ row[b].status = "submitted"
             /\ row'[b].status = "finalized" /\ row'[b].hash = h
             /\ ledger' = [ledger EXCEPT ![h] = b]
             /\ \A c \in Batches \ {b} : row'[c] = row[c]
  <2>1. /\ b \in Batches /\ mem[r].status = "submitted"
        /\ row[b].status = "submitted" /\ ledger[h] = NoBatch
        /\ ledger' = [ledger EXCEPT ![h] = b]
        /\ row' = [row EXCEPT ![b] = Finalized(row[b], h)]
    BY <1>1 DEF FinalizeBatch, FinalizeGuard, Current, Inv, MemOK, CycleOK,
                Working
  <2>2. Own(b, h)
    BY <2>1 DEF MemHashOK
  <2>3. /\ Finalized(row[b], h).status = "finalized"
        /\ Finalized(row[b], h).hash = h
    BY <2>1, UpdateStatus, UpdateHash DEF Inv, TypeOK
  <2>4. /\ row'[b] = Finalized(row[b], h)
        /\ \A c \in Batches \ {b} : row'[c] = row[c]
    BY <2>1 DEF Inv, TypeOK
  <2>5. QED
    BY <2>1, <2>2, <2>3, <2>4
<1>2. ASSUME NEW c \in Batches, row[c].status = "finalized"
      PROVE  row'[c].status = "finalized" /\ row'[c].hash = row[c].hash
  <2>1. row'[c].status = "finalized"
    BY <1>2 DEF BatchesMove, BatchMoves
  <2>2. CASE c = b /\ PersistSubmittedBatch(r) /\ Current(r)
    BY <1>2, <2>2 DEF PersistSubmittedBatch, Current, Inv, MemOK, CycleOK
  <2>3. CASE c = b /\ FinalizeBatch(r)
    BY <1>1, <1>2, <2>3
  <2>4. QED
    BY <2>1, <2>2, <2>3 DEF RowMoves
<1>3. ASSUME NEW t \in Transfers, ledger'[t] # NoBatch
      PROVE  /\ OwnNext(ledger'[t], t) /\ row'[ledger'[t]].status = "finalized"
             /\ row'[ledger'[t]].hash = t
  <2>1. CASE FinalizeBatch(r) /\ t = h
    <3>1. ledger'[t] = b
      BY <1>1, <2>1 DEF Inv, TypeOK
    <3>2. QED
      BY <1>1, <2>1, <3>1, OwnStays
  <2>2. CASE ledger'[t] = ledger[t]
    <3>1. /\ Own(ledger[t], t) /\ row[ledger[t]].status = "finalized"
          /\ row[ledger[t]].hash = t
      BY <1>3, <2>2 DEF LedgerOK, LedgerBooksOwnTransfer, Own
    <3>2. ledger[t] \in Batches
      BY <1>3, <2>2 DEF Inv, TypeOK
    <3>3. QED
      BY <1>2, <2>2, <3>1, <3>2, OwnStays
  <2>3. QED
    BY <1>1, <2>1, <2>2 DEF Inv, TypeOK
<1>4. ASSUME NEW c \in Batches, row'[c].status = "finalized"
      PROVE  ledger'[row'[c].hash] = c
  <2>1. CASE FinalizeBatch(r) /\ c = b
    BY <1>1, <2>1 DEF Own, Inv, TypeOK
  <2>2. CASE ~(FinalizeBatch(r) /\ c = b)
    <3>1. row[c].status = "finalized" /\ row[c].hash = row'[c].hash
      <4>1. CASE PersistSubmittedBatch(r) /\ Current(r) /\ c = b
        <5>1. row[c].status \in {"submitting", "submitted"}
          BY <4>1 DEF PersistSubmittedBatch, Current, Inv, MemOK, CycleOK
        <5>2. row' = [row EXCEPT ![c] = Submitted(row[c], found[r])] \/ row' = row
          BY <4>1 DEF PersistSubmittedBatch, LostUpdate, sqlVars
        <5>3. Submitted(row[c], found[r]).status = "submitted"
          BY UpdateStatus DEF Inv, TypeOK
        <5>4. QED
          BY <1>4, <5>1, <5>2, <5>3 DEF Inv, TypeOK
      <4>2. QED
        BY <1>4, <2>2, <4>1 DEF RowMoves
    <3>2. ledger[row[c].hash] = c /\ row[c].hash \in Transfers
      BY <3>1 DEF LedgerOK, RowHashOK, Own
    <3>3. ledger'[row[c].hash] = ledger[row[c].hash]
      BY <1>0, <1>1, <3>2 DEF Inv, TypeOK
    <3>4. QED
      BY <3>1, <3>2, <3>3
  <2>3. QED
    BY <2>1, <2>2
<1>5. LedgerBooksOwnTransfer'
  BY <1>3 DEF LedgerBooksOwnTransfer, OwnNext, Sent
<1>6. QED
  BY <1>4, <1>5 DEF LedgerOK

\* One step of a runtime.
LEMMA RuntimeLedgerStep ==
    ASSUME Inv, Inv', BatchesMove, LInv, "confirm" \notin UnlockModes,
           NEW r \in Runtimes,
           Lifecycle(r) \/ Recovery(r) \/ Submission(r) \/ Settlement(r)
    PROVE  LInv'
<1>1. OnlyCycle(r)
  BY LifecycleKeeps, RecoveryKeeps, SubmissionKeeps, SettlementKeeps DEF Inv
<1>2. Moves(r)
  BY LifecycleMoves, RecoveryMoves, SubmissionMoves, SettlementMoves DEF Inv
<1>3. WalletMoves /\ RowMoves(r)
  BY RuntimeWallet, RuntimeRows DEF Inv
<1>4. /\ FinalizeBatch(r) \/ UNCHANGED <<amount, ledger>>
      /\ Reserves(r) \/ items' = items
  BY RuntimeMoney DEF Inv
<1>5. ItemsMove
  BY <1>3, <1>4, RuntimeItems DEF Inv
<1>6. ExistOK'
  BY <1>1, <1>2, <1>5, ExistStep DEF LInv
<1>7. RowHashOK' /\ MemHashOK'
  BY <1>1, <1>2, <1>3, HashStep DEF LInv
<1>8. FoundOK'
  BY <1>1, <1>3, <1>5, FoundStep DEF LInv
<1>9. LedgerOK'
  BY <1>3, <1>4, <1>7, LedgerStep DEF LInv
<1>10. QED
  BY <1>6, <1>7, <1>8, <1>9 DEF LInv

\* One step of the wallet, the block manager or the operator.
LEMMA OutsideLedgerStep ==
    ASSUME Inv, LInv, OutsideMoves
    PROVE  LInv'
<1> USE DEF OutsideMoves
<1>0. NoBatch \notin Batches
  BY DEF NoBatch, Batches
<1>1. ExistOK'
  <2>1. \A b \in Batches : row'[b].status # "none" <=> row[b].status # "none"
    OBVIOUS
  <2>2. \A r \in Runtimes : pc[r] \in Working => cur[r] \in Batches
    BY DEF Inv, MemOK, CycleOK
  <2>3. QED
    BY <2>1, <2>2 DEF LInv, ExistOK
<1>2. RowHashOK'
  <2>1. ASSUME NEW b \in Batches,
               row'[b].status \in {"submitted", "finalized"}
        PROVE  OwnNext(b, row'[b].hash)
    BY <2>1, OwnStays DEF LInv, RowHashOK
  <2>2. QED
    BY <2>1 DEF RowHashOK, Own, OwnNext, Sent
<1>3. MemHashOK'
  <2>1. \A r \in Runtimes :
           /\ mem[r].status = "submitted" => OwnNext(cur[r], mem[r].hash)
           /\ \A b \in Batches : snap[r][b].status = "submitted" =>
                                    OwnNext(b, snap[r][b].hash)
    BY OwnStays DEF LInv, MemHashOK
  <2>2. QED
    BY <2>1 DEF MemHashOK, Own, OwnNext, Sent
<1>4. FoundOK'
  <2>1. \A t \in Transfers : Sent(t) => /\ wallet'[t].batch = wallet[t].batch
                                       /\ Sent(t)'
    BY DEF WalletMoves, Sent
  <2>2. QED
    BY <2>1 DEF LInv, FoundOK, WalletMoves, SameDestinations
<1>5. LedgerOK'
  <2>1. ASSUME NEW b \in Batches, row'[b].status = "finalized"
        PROVE  row'[b] = row[b]
    BY <2>1
  <2>2. ASSUME NEW t \in Transfers, ledger[t] # NoBatch
        PROVE  /\ OwnNext(ledger[t], t) /\ row'[ledger[t]].hash = t
               /\ row'[ledger[t]].status = "finalized"
    <3>1. /\ Own(ledger[t], t) /\ row[ledger[t]].status = "finalized"
          /\ row[ledger[t]].hash = t /\ ledger[t] \in Batches
      BY <2>2 DEF LInv, LedgerOK, LedgerBooksOwnTransfer, Own, Inv, TypeOK
    <3>2. OwnNext(ledger[t], t)
      BY <3>1, OwnStays
    <3>3. row'[ledger[t]] = row[ledger[t]]
      BY <3>1
    <3>4. QED
      BY <3>1, <3>2, <3>3
  <2>3. QED
    BY <2>1, <2>2
       DEF LInv, LedgerOK, LedgerBooksOwnTransfer, OwnNext, Sent
<1>6. QED
  BY <1>1, <1>2, <1>3, <1>4, <1>5 DEF LInv

LEMMA InitLedger == Init => LInv
<1> SUFFICES ASSUME Init PROVE LInv
  OBVIOUS
<1> USE DEF Init
<1>1. /\ NoRow.status = "none" /\ \A b \in Batches : NoSnap[b] = NoRow
      /\ "down" \notin Working
  BY DEF NoRow, NoSnap, Working
<1>2. ExistOK
  BY <1>1 DEF ExistOK
<1>3. RowHashOK /\ MemHashOK /\ FoundOK
  BY <1>1 DEF RowHashOK, MemHashOK, FoundOK
<1>4. LedgerOK
  BY <1>1 DEF LedgerOK, LedgerBooksOwnTransfer
<1>5. QED
  BY <1>2, <1>3, <1>4 DEF LInv

\* Every step keeps the ledger invariant.
LEMMA NextLedger ==
    ASSUME "confirm" \notin UnlockModes
    PROVE  Inv /\ LInv /\ [Next]_vars => LInv'
<1> SUFFICES ASSUME Inv, LInv, [Next]_vars PROVE LInv'
  OBVIOUS
<1>1. Inv' /\ BatchesMove
  BY NextStep
<1>2. ASSUME NEW r \in Runtimes,
             Lifecycle(r) \/ Recovery(r) \/ Submission(r) \/ Settlement(r)
      PROVE  LInv'
  BY <1>1, <1>2, RuntimeLedgerStep
<1>3. CASE Environment \/ Operator
  BY <1>1, <1>3, OutsideEffects, OutsideLedgerStep
<1>4. CASE UNCHANGED vars
  BY <1>4 DEF vars, sqlVars, batchVars, LInv, ExistOK, RowHashOK, MemHashOK,
       FoundOK, LedgerOK, LedgerBooksOwnTransfer, Own, Sent, SameDestinations
<1>5. QED
  BY <1>2, <1>3, <1>4 DEF Next

-----------------------------------------------------------------------------
(* What may still be sent is owed.                                         *)

\* What finalizeBatch takes from the balances was pinned for its batch.
LEMMA FinalizeTakes ==
    ASSUME Inv, NEW r \in Runtimes, FinalizeBatch(r)
    PROVE  /\ cur[r] \in Batches /\ row[cur[r]].status = "submitted"
           /\ row'[cur[r]].status = "finalized"
           /\ \A a \in Accounts : amount'[a] = amount[a] - items[cur[r]][a]
           /\ \A a \in Accounts, b \in Batches \ {cur[r]} :
                 items[cur[r]][a] > 0 /\ row[b].status \in Unsettled =>
                    items[b][a] = 0
<1> DEFINE c == cur[r]
<1>1. /\ c \in Batches /\ row[c].status = "submitted"
      /\ amount' = [a \in Accounts |-> amount[a] - items[c][a]]
      /\ row' = [row EXCEPT ![c] = Finalized(row[c], mem[r].hash)]
  BY DEF FinalizeBatch, FinalizeGuard, Current, Inv, MemOK, CycleOK, Working
<1>2. row'[c].status = "finalized"
  BY <1>1, UpdateStatus DEF Inv, TypeOK
<1>3. ASSUME NEW a \in Accounts, NEW b \in Batches \ {c},
             items[c][a] > 0, row[b].status \in Unsettled
      PROVE  items[b][a] = 0
  <2>1. pending[a] = c
    BY <1>1, <1>3 DEF Inv, PinsMatchBatches, Unsettled, InFlight
  <2>2. ~(items[b][a] > 0)
    BY <1>3, <2>1 DEF Inv, PinsMatchBatches
  <2>3. items[b][a] \in Nat
    BY <1>3 DEF Inv, TypeOK
  <2>4. QED
    BY <2>2, <2>3
<1>4. \A a \in Accounts : amount'[a] = amount[a] - items[c][a]
  BY <1>1
<1>5. QED
  BY <1>1, <1>2, <1>3, <1>4

\* The facts about a runtime's step that the money invariants need.
MoneyStep(r) ==
    /\ OnlyCycle(r) /\ Moves(r) /\ RowMoves(r) /\ ItemsMove
    /\ FinalizeBatch(r) \/ UNCHANGED <<amount, ledger>>
    /\ Reserves(r) \/ items' = items

\* A batch is unsettled after a step if it was before or is new; on the way
\* it stays reserved, or the runtime that may claim it moves it.
LEMMA UnsettledStep ==
    ASSUME BatchesMove, NEW r \in Runtimes, RowMoves(r), NEW b \in Batches,
           row'[b].status \in Unsettled
    PROVE  /\ \/ row[b].status \in Unsettled
              \/ row[b].status = "none" /\ Reserves(r) /\ b = cur'[r]
           /\ row[b].status = "reserved" =>
                 \/ row'[b].status = "reserved"
                 \/ b = cur[r] /\ Current(r) /\ pc[r] \in {"holdRetry", "claim"}
  BY DEF BatchesMove, BatchMoves, RowMoves, Unsettled, InFlight

\* Nobody works on a batch that does not exist.
LEMMA NobodyAhead ==
    ASSUME Inv, ExistOK, NEW b \in Batches, row[b].status = "none",
           NEW s \in Runtimes
    PROVE  cur[s] # b
<1>1. NoBatch \notin Batches
  BY DEF NoBatch, Batches
<1>2. QED
  BY <1>1 DEF ExistOK

\* A batch that may be paid after a step and existed before it might have
\* been paid before it.
LEMMA PayableBefore ==
    ASSUME Inv, ExistOK, BatchesMove, NEW r \in Runtimes, MoneyStep(r),
           NEW b \in Batches, row[b].status # "none", Payable(b)'
    PROVE  Payable(b)
<1>1. row[b].status \in Unsettled
  BY UnsettledStep DEF MoneyStep, Payable
<1>2. ASSUME row[b].status = "reserved", row'[b].status = "reserved"
      PROVE  \E s \in Runtimes : cur[s] = b /\ Backed(s)
  <2>1. PICK s \in Runtimes : cur'[s] = b /\ Backed(s)'
    BY <1>2 DEF Payable
  <2>2. CASE s # r
    BY <2>1, <2>2 DEF MoneyStep, Moves, OwnerMoves, OnlyCycle, Backed
  <2>3. CASE s = r
    <3>1. NoRow.status # "reserved"
      BY DEF NoRow
    <3>2. Goes(r)
      BY <1>2, <2>1, <2>3, <3>1
         DEF MoneyStep, Moves, Ends, Clears, Loads, Picks, Plans, Reserves,
             Backed
    <3>3. QED
      BY <2>1, <2>3, <3>2 DEF Goes
  <2>4. QED
    BY <2>2, <2>3
<1>3. ASSUME row[b].status = "reserved", row'[b].status # "reserved"
      PROVE  \E s \in Runtimes : cur[s] = b /\ Backed(s)
  <2>1. b = cur[r] /\ Current(r) /\ pc[r] \in {"holdRetry", "claim"}
    BY <1>3, UnsettledStep DEF MoneyStep, Payable
  <2>2. Backed(r)
    BY <1>3, <2>1 DEF Current, Backed
  <2>3. QED
    BY <2>1, <2>2
<1>4. QED
  BY <1>1, <1>2, <1>3 DEF Payable

\* A runtime's step keeps CoverOK.
LEMMA CoverStep ==
    ASSUME Inv, Inv', ExistOK, BatchesMove, CoverOK, PlanOK,
           NEW r \in Runtimes, MoneyStep(r)
    PROVE  CoverOK'
<1>0. /\ amount \in [Accounts -> Int] /\ amount' \in [Accounts -> Int]
      /\ items \in [Batches -> [Accounts -> Nat]]
      /\ items' \in [Batches -> [Accounts -> Nat]]
      /\ plan \in [Runtimes -> [Accounts -> Nat]]
  BY DEF Inv, TypeOK
<1>1. CASE FinalizeBatch(r)
  <2> DEFINE c == cur[r]
  <2>1. /\ c \in Batches /\ row[c].status = "submitted"
        /\ row'[c].status = "finalized"
        /\ \A a \in Accounts : amount'[a] = amount[a] - items[c][a]
        /\ \A a \in Accounts, b \in Batches \ {c} :
              items[c][a] > 0 /\ row[b].status \in Unsettled => items[b][a] = 0
    BY <1>1, FinalizeTakes
  <2>2. Covers(c)
    BY <2>1 DEF CoverOK, Payable, Unsettled, InFlight
  <2>3. \A a \in Accounts : amount'[a] >= 0
    BY <1>0, <2>1, <2>2 DEF Covers
  <2>4. items' = items
    <3>1. pc[r] # "reserve"
      BY <1>1 DEF FinalizeBatch
    <3>2. QED
      BY <3>1 DEF MoneyStep, Reserves
  <2>5. ASSUME NEW b \in Batches, Payable(b)' PROVE Covers(b)'
    <3>1. row[b].status # "none" /\ b # c /\ row[b].status \in Unsettled
      <4>1. pc[r] # "reserve"
        BY <1>1 DEF FinalizeBatch
      <4>2. "none" \notin Unsettled /\ "finalized" \notin Unsettled
        BY DEF Unsettled, InFlight
      <4>3. QED
        BY <2>1, <2>5, <4>1, <4>2, UnsettledStep
           DEF MoneyStep, Payable, Reserves
    <3>2. Covers(b)
      BY <2>5, <3>1, PayableBefore DEF CoverOK
    <3>3. ASSUME NEW a \in Accounts PROVE items[b][a] <= amount'[a]
      <4>1. CASE items[c][a] > 0
        BY <2>1, <2>3, <3>1, <4>1
      <4>2. CASE items[c][a] = 0
        BY <1>0, <2>1, <3>2, <4>2 DEF Covers
      <4>3. QED
        BY <1>0, <2>1, <4>1, <4>2
    <3>4. QED
      BY <2>4, <3>3 DEF Covers
  <2>6. QED
    BY <2>3, <2>5 DEF CoverOK
<1>2. CASE ~FinalizeBatch(r)
  <2>1. amount' = amount
    BY <1>2 DEF MoneyStep
  <2>2. ASSUME NEW b \in Batches, Payable(b)' PROVE Covers(b)'
    <3>1. CASE row[b].status # "none"
      <4>1. items'[b] = items[b]
        BY <3>1 DEF MoneyStep, ItemsMove
      <4>2. Covers(b)
        BY <2>2, <3>1, PayableBefore DEF CoverOK
      <4>3. QED
        BY <2>1, <4>1, <4>2 DEF Covers
    <3>2. CASE row[b].status = "none"
      <4>1. Reserves(r) /\ b = cur'[r]
        <5>1. "none" \notin Unsettled
          BY DEF Unsettled, InFlight
        <5>2. QED
          BY <2>2, <3>2, <5>1, UnsettledStep DEF MoneyStep, Payable
      <4>2. row'[b].status = "reserved"
        BY <4>1 DEF Reserves, NewRow, NoRow, Inv, TypeOK
      <4>3. PICK s \in Runtimes : cur'[s] = b /\ Backed(s)'
        BY <2>2, <4>2 DEF Payable
      <4>4. s = r
        BY <3>2, <4>3, NobodyAhead DEF MoneyStep, OnlyCycle
      <4>5. lockOwner = r
        BY <4>1, <4>3, <4>4 DEF Backed, Reserves, MoneyStep, Moves, OwnerMoves
      <4>6. \A a \in Accounts : plan[r][a] > 0 => plan[r][a] <= amount[a]
        BY <4>5 DEF PlanOK
      <4>7. \A a \in Accounts : items'[b][a] = plan[r][a] \/ items'[b][a] = 0
        BY <4>1 DEF Reserves
      <4>8. \A a \in Accounts : items'[b][a] <= amount[a]
        BY <1>0, <4>6, <4>7 DEF CoverOK
      <4>9. QED
        BY <2>1, <4>8 DEF Covers
    <3>3. QED
      BY <3>1, <3>2
  <2>3. QED
    BY <2>1, <2>2 DEF CoverOK
<1>3. QED
  BY <1>1, <1>2

\* Another runtime's step leaves a stray reservation stray: without the lock
\* it gets no further than the check in front of the claim.
LEMMA StrayElsewhere ==
    ASSUME Inv, ExistOK, BatchesMove, NEW r \in Runtimes, MoneyStep(r),
           NEW s \in Runtimes \ {r}, lockOwner = s, NEW b \in Batches,
           Stray(s, b), row'[b].status \in Unsettled
    PROVE  Stray(s, b)'
<1>1. row'[b].status = "reserved"
  BY UnsettledStep DEF MoneyStep, Stray
<1>2. ASSUME cur'[r] = b PROVE pc'[r] = "submit"
  <2>0. NoBatch \notin Batches
    BY DEF NoBatch, Batches
  <2>1. CASE Goes(r)
    BY <1>2, <2>1 DEF Goes, Stray
  <2>2. CASE Loads(r) \/ Plans(r)
    BY <1>2, <2>0, <2>2 DEF Loads, Plans, ExistOK, Working
  <2>3. CASE Reserves(r)
    BY <2>3 DEF Reserves
  <2>4. QED
    BY <1>2, <2>0, <2>1, <2>2, <2>3
       DEF MoneyStep, Moves, Ends, Clears, Picks
<1>3. \A q \in Runtimes \ {s} : cur'[q] = b => pc'[q] = "submit"
  BY <1>2 DEF MoneyStep, OnlyCycle, Stray
<1>4. QED
  BY <1>1, <1>3 DEF Stray

\* A runtime's step keeps LockOK.
LEMMA LockStep ==
    ASSUME Inv, Inv', ExistOK, BatchesMove, LockOK, NEW r \in Runtimes,
           MoneyStep(r)
    PROVE  LockOK'
<1> SUFFICES ASSUME NEW s \in Runtimes, lockOwner' = s, pc'[s] \in Loaded,
                    NEW b \in Batches, row'[b].status \in Unsettled
             PROVE  cur'[s] = b \/ snap'[s][b] # NoRow \/ Stray(s, b)'
  BY DEF LockOK
<1>0. /\ "none" \notin Unsettled /\ NoRow.status = "none"
      /\ NewRow.status = "reserved" /\ NoBatch \notin Batches
  BY DEF Unsettled, InFlight, NoRow, NewRow, NoBatch, Batches
<1>1. lockOwner = s
  BY DEF MoneyStep, Moves, OwnerMoves, Loaded, Working
<1>2. CASE s # r
  <2>1. /\ pc'[s] = pc[s] /\ cur'[s] = cur[s] /\ snap'[s] = snap[s]
    BY <1>2 DEF MoneyStep, OnlyCycle
  <2>2. CASE row[b].status = "none"
    <3>1. Reserves(r) /\ b = cur'[r]
      BY <1>0, <2>2, UnsettledStep DEF MoneyStep
    <3>2. row'[b].status = "reserved" /\ pc'[r] = "submit"
      BY <1>0, <3>1 DEF Reserves, Inv, TypeOK
    <3>3. \A q \in Runtimes \ {s} : cur'[q] = b => pc'[q] = "submit"
      BY <2>2, <3>2, NobodyAhead DEF MoneyStep, OnlyCycle
    <3>4. QED
      BY <3>2, <3>3 DEF Stray
  <2>3. CASE row[b].status # "none"
    <3>1. row[b].status \in Unsettled
      BY <2>3, UnsettledStep DEF MoneyStep
    <3>2. cur[s] = b \/ snap[s][b] # NoRow \/ Stray(s, b)
      BY <1>1, <2>1, <3>1 DEF LockOK
    <3>3. QED
      BY <1>1, <1>2, <2>1, <3>2, StrayElsewhere
  <2>4. QED
    BY <2>2, <2>3
<1>3. CASE s = r
  <2>1. CASE Reserves(r)
    <3>1. ASSUME b # cur'[r]
          PROVE  /\ row'[b] = row[b] /\ pc[r] \in Loaded /\ cur[r] # b
                 /\ snap'[r] = snap[r]
      <4>1. row'[b] = row[b]
        BY <2>1, <3>1 DEF Reserves, Inv, TypeOK
      <4>2. pc[r] = "reserve" /\ snap'[r] = snap[r]
        BY <2>1 DEF Reserves
      <4>3. cur[r] = NoBatch /\ pc[r] \in Loaded
        BY <4>2 DEF ExistOK, Working, Loaded
      <4>4. QED
        BY <1>0, <4>1, <4>2, <4>3
    <3>2. ASSUME b # cur'[r] PROVE snap[r][b] # NoRow \/ Stray(r, b)
      BY <1>1, <1>3, <3>1, <3>2 DEF LockOK
    <3>3. ASSUME b # cur'[r], Stray(r, b) PROVE Stray(r, b)'
      BY <3>1, <3>3 DEF Stray, MoneyStep, OnlyCycle
    <3>4. QED
      BY <1>3, <3>1, <3>2, <3>3
  <2>2. CASE ~Reserves(r)
    <3>1. row[b].status \in Unsettled
      BY <2>2, UnsettledStep DEF MoneyStep
    <3>2. ASSUME Stray(r, b), cur[r] # b PROVE Stray(r, b)'
      <4>1. row'[b].status = "reserved"
        BY <3>2, UnsettledStep DEF MoneyStep, Stray
      <4>2. QED
        BY <3>2, <4>1 DEF Stray, MoneyStep, OnlyCycle
    <3>3. CASE Loads(r)
      BY <1>0, <1>3, <3>1, <3>3 DEF Loads
    <3>4. CASE Goes(r)
      <4>1. cur[r] = b \/ snap[r][b] # NoRow \/ Stray(r, b)
        BY <1>1, <1>3, <3>1, <3>4 DEF LockOK, Goes
      <4>2. CASE cur[r] = b
        BY <1>3, <3>4, <4>2 DEF Goes
      <4>3. CASE snap[r][b] # NoRow
        BY <1>3, <3>4, <4>3 DEF Goes
      <4>4. QED
        BY <1>3, <3>2, <4>1, <4>2, <4>3
    <3>5. CASE Clears(r)
      <4>1. pc[r] \in Loaded /\ cur[r] # b
        BY <3>5, ControlPoints DEF Clears
      <4>2. snap[r][b] # NoRow \/ Stray(r, b)
        BY <1>1, <1>3, <3>1, <4>1 DEF LockOK
      <4>3. QED
        BY <1>3, <3>2, <3>5, <4>1, <4>2 DEF Clears
    <3>6. CASE Picks(r) \/ Plans(r)
      <4>1. /\ pc[r] \in {"check", "plan"} /\ snap'[r] = snap[r]
        BY <3>6 DEF Picks, Plans
      <4>2. pc[r] \in Loaded /\ cur[r] # b
        BY <1>0, <4>1 DEF ExistOK, Working, Loaded
      <4>3. snap[r][b] # NoRow \/ Stray(r, b)
        BY <1>1, <1>3, <3>1, <4>2 DEF LockOK
      <4>4. QED
        BY <1>3, <3>2, <4>1, <4>2, <4>3
    <3>7. CASE Ends(r)
      BY <1>3, <3>7 DEF Ends, Loaded, Working
    <3>8. QED
      BY <2>2, <3>3, <3>4, <3>5, <3>6, <3>7 DEF MoneyStep, Moves
  <2>3. QED
    BY <2>1, <2>2
<1>4. QED
  BY <1>2, <1>3

\* Finalizing a batch takes nothing from the accounts the lock's owner has
\* still to reserve for.
LEMMA PlanSpared ==
    ASSUME Inv, LockOK, PlanOK, NEW r \in Runtimes, FinalizeBatch(r),
           NEW s \in Runtimes, lockOwner = s, NEW a \in Accounts,
           plan[s][a] > 0
    PROVE  amount'[a] = amount[a]
<1> DEFINE c == cur[r]
<1>1. /\ c \in Batches /\ row[c].status = "submitted"
      /\ amount'[a] = amount[a] - items[c][a]
  BY FinalizeTakes
<1>2. plan[s] # NoPlan
  BY DEF NoPlan
<1>3. snap[s] = NoSnap /\ pc[s] \in Loaded
  BY <1>2 DEF PlanOK
<1>4. snap[s][c] = NoRow /\ ~Stray(s, c) /\ row[c].status \in Unsettled
  BY <1>1, <1>3 DEF NoSnap, Stray, Unsettled, InFlight
<1>5. cur[s] = c
  BY <1>1, <1>3, <1>4 DEF LockOK
<1>6. items[c][a] = 0
  BY <1>1, <1>5 DEF PlanOK, NoBatch, Batches
<1>7. amount[a] \in Int
  BY DEF Inv, TypeOK
<1>8. QED
  BY <1>1, <1>6, <1>7

\* A runtime's step keeps PlanOK.
LEMMA PlanStep ==
    ASSUME Inv, Inv', ExistOK, BatchesMove, LockOK, PlanOK,
           NEW r \in Runtimes, MoneyStep(r)
    PROVE  PlanOK'
<1>0. /\ plan \in [Runtimes -> [Accounts -> Nat]]
      /\ plan' \in [Runtimes -> [Accounts -> Nat]]
      /\ snap \in [Runtimes -> [Batches -> Row]]
      /\ snap' \in [Runtimes -> [Batches -> Row]]
      /\ NoBatch \notin Batches
  BY DEF Inv, TypeOK, NoBatch, Batches
<1>1. \A s \in Runtimes \ {r} :
         /\ pc'[s] = pc[s] /\ cur'[s] = cur[s] /\ snap'[s] = snap[s]
         /\ plan'[s] = plan[s]
  BY DEF MoneyStep, Moves, OnlyCycle, OnlyPlan
<1>2. \A s \in Runtimes :
         /\ plan'[s] # NoPlan => snap'[s] = NoSnap /\ pc'[s] \in Loaded
         /\ pc'[s] = "plan" => snap'[s] = NoSnap
  <2>1. CASE Ends(r)
    BY <1>1, <2>1 DEF PlanOK, Ends
  <2>2. CASE Goes(r)
    BY <1>1, <2>2 DEF PlanOK, Goes
  <2>3. CASE Clears(r)
    <3>1. snap[r] = NoSnap => snap'[r] = NoSnap
      <4> SUFFICES ASSUME snap[r] = NoSnap PROVE snap'[r] = NoSnap
        OBVIOUS
      <4>1. \A b \in Batches : snap'[r][b] = NoRow
        BY <2>3 DEF Clears, NoSnap
      <4>2. QED
        BY <1>0, <4>1 DEF NoSnap
    <3>2. QED
      BY <1>1, <2>3, <3>1 DEF PlanOK, Clears, Loaded
  <2>4. CASE Loads(r)
    BY <1>1, <2>4 DEF PlanOK, Loads, Loaded, Working
  <2>5. CASE Picks(r)
    <3>1. snap[r] # NoSnap
      BY <2>5 DEF Picks, NoSnap
    <3>2. pc'[r] \in Loaded /\ pc'[r] # "plan"
      BY <2>5 DEF Picks, Loaded, Working
    <3>3. QED
      BY <1>1, <2>5, <3>1, <3>2 DEF PlanOK, Picks
  <2>6. CASE Plans(r)
    BY <1>1, <2>6 DEF PlanOK, Plans, Loaded
  <2>7. CASE Reserves(r)
    <3>1. PICK a \in Accounts : items'[cur'[r]][a] > 0
      BY <2>7 DEF Reserves
    <3>2. plan[r][a] > 0
      BY <2>7, <3>1 DEF Reserves
    <3>3. plan[r] # NoPlan
      BY <3>2 DEF NoPlan
    <3>4. QED
      BY <1>1, <2>7, <3>3 DEF PlanOK, Reserves, Loaded, Working
  <2>8. QED
    BY <2>1, <2>2, <2>3, <2>4, <2>5, <2>6, <2>7 DEF MoneyStep, Moves
<1>3. ASSUME NEW s \in Runtimes, NEW a \in Accounts, plan'[s][a] > 0,
             lockOwner' = s
      PROVE  plan'[s][a] <= amount'[a]
  <2>1. plan'[s] # NoPlan
    BY <1>3 DEF NoPlan
  <2>2. lockOwner = s
    BY <1>2, <1>3, <2>1 DEF MoneyStep, Moves, OwnerMoves, Loaded, Working
  <2>3. CASE plan'[s][a] = plan[s][a]
    <3>1. plan[s][a] > 0 /\ plan[s][a] <= amount[a]
      BY <1>3, <2>2, <2>3 DEF PlanOK
    <3>2. amount'[a] = amount[a]
      BY <2>2, <3>1, PlanSpared DEF MoneyStep
    <3>3. QED
      BY <2>3, <3>1, <3>2
  <2>4. CASE plan'[s][a] # plan[s][a]
    <3>1. s = r /\ Plans(r)
      <4>1. s = r
        BY <1>1, <2>4
      <4>2. ~Ends(r)
        BY <2>1, <4>1 DEF Ends
      <4>3. ~Reserves(r)
        BY <1>3, <2>4, <4>1 DEF Reserves
      <4>4. QED
        BY <2>4, <4>1, <4>2, <4>3
           DEF MoneyStep, Moves, Goes, Clears, Loads, Picks
    <3>2. plan'[r][a] <= amount[a] /\ pc[r] = "plan"
      BY <1>3, <3>1 DEF Plans
    <3>3. amount' = amount
      BY <3>2 DEF MoneyStep, FinalizeBatch
    <3>4. QED
      BY <3>1, <3>2, <3>3
  <2>5. QED
    BY <2>3, <2>4
<1>4. ASSUME NEW s \in Runtimes, NEW a \in Accounts, plan'[s][a] > 0,
             cur'[s] # NoBatch
      PROVE  items'[cur'[s]][a] = 0
  <2>1. CASE cur'[s] = cur[s] /\ plan'[s][a] = plan[s][a]
    <3>1. items[cur[s]][a] = 0
      BY <1>4, <2>1 DEF PlanOK
    <3>2. cur[s] \in Batches /\ row[cur[s]].status # "none"
      BY <1>4, <2>1 DEF ExistOK, Inv, MemOK, CycleOK
    <3>3. items'[cur[s]] = items[cur[s]]
      BY <3>2 DEF MoneyStep, ItemsMove
    <3>4. QED
      BY <2>1, <3>1, <3>3
  <2>2. CASE ~(cur'[s] = cur[s] /\ plan'[s][a] = plan[s][a])
    <3>1. s = r
      BY <1>1, <2>2
    <3>2. plan'[r] # NoPlan
      BY <1>4, <3>1 DEF NoPlan
    <3>3. ~Picks(r)
      <4>1. Picks(r) => snap'[r] # NoSnap
        BY DEF Picks, NoSnap
      <4>2. QED
        BY <1>2, <3>2, <4>1
    <3>4. ~Plans(r)
      BY <1>4, <3>1 DEF Plans, ExistOK, Working
    <3>5. Reserves(r)
      BY <1>4, <2>2, <3>1, <3>2, <3>3, <3>4
         DEF MoneyStep, Moves, Ends, Goes, Clears, Loads
    <3>6. QED
      BY <1>4, <3>1, <3>5 DEF Reserves
  <2>3. QED
    BY <2>1, <2>2
<1>5. QED
  BY <1>2, <1>3, <1>4 DEF PlanOK

\* One step of the wallet, the block manager or the operator.
LEMMA OutsideMoneyStep ==
    ASSUME Inv, Inv', MInv, OutsideMoves
    PROVE  MInv'
<1> USE DEF OutsideMoves
<1>0. "retryable" \notin Unsettled
  BY DEF Unsettled, InFlight
<1>1. \A a \in Accounts : amount[a] \in Int /\ amount'[a] \in Int
                          /\ \A b \in Batches : items[b][a] \in Nat
  BY DEF Inv, TypeOK
<1>2. \A b \in Batches : row'[b].status \in Unsettled => row'[b] = row[b]
  BY <1>0
<1>3. \A s \in Runtimes : lockOwner' = s /\ pc[s] # "reensure" => lockOwner = s
  BY DEF OwnerMoves
<1>4. CoverOK'
  <2>1. ASSUME NEW b \in Batches, Payable(b)' PROVE Payable(b)
    BY <1>2, <1>3, <2>1 DEF Payable, Backed
  <2>2. ASSUME NEW b \in Batches, Payable(b)' PROVE Covers(b)'
    <3>1. Covers(b)
      BY <2>1, <2>2 DEF MInv, CoverOK
    <3>2. QED
      BY <1>1, <3>1 DEF Covers
  <2>3. \A a \in Accounts : amount'[a] >= 0
    BY <1>1 DEF MInv, CoverOK
  <2>4. QED
    BY <2>2, <2>3 DEF CoverOK
<1>5. LockOK'
  BY <1>2, <1>3 DEF MInv, LockOK, Stray, Loaded, Working
<1>6. PlanOK'
  <2>1. \A s \in Runtimes : \A a \in Accounts :
           plan[s][a] > 0 /\ lockOwner' = s => plan[s][a] <= amount'[a]
    <3> SUFFICES ASSUME NEW s \in Runtimes, NEW a \in Accounts,
                        plan[s][a] > 0, lockOwner' = s
                 PROVE  plan[s][a] <= amount'[a]
      OBVIOUS
    <3>1. plan[s] # NoPlan
      BY DEF NoPlan
    <3>2. pc[s] # "reensure"
      BY <3>1 DEF MInv, PlanOK, Loaded, Working
    <3>3. plan[s][a] <= amount[a] /\ plan[s][a] \in Nat
      BY <1>3, <3>2 DEF MInv, PlanOK, Inv, TypeOK
    <3>4. QED
      BY <1>1, <3>3
  <2>2. QED
    BY <2>1 DEF MInv, PlanOK
<1>7. QED
  BY <1>4, <1>5, <1>6 DEF MInv

LEMMA InitMoney == Init => MInv
<1> SUFFICES ASSUME Init PROVE MInv
  OBVIOUS
<1> USE DEF Init
<1>1. NoRow.status = "none" /\ "none" \notin Unsettled
  BY DEF NoRow, Unsettled, InFlight
<1>2. CoverOK
  BY <1>1 DEF CoverOK, Payable
<1>3. LockOK /\ PlanOK
  BY <1>1 DEF LockOK, PlanOK, NoPlan
<1>4. QED
  BY <1>2, <1>3 DEF MInv

\* Every step keeps the money invariant.
LEMMA NextMoney ==
    ASSUME "confirm" \notin UnlockModes
    PROVE  Inv /\ LInv /\ MInv /\ [Next]_vars => MInv'
<1> SUFFICES ASSUME Inv, LInv, MInv, [Next]_vars PROVE MInv'
  OBVIOUS
<1>1. Inv' /\ BatchesMove
  BY NextStep
<1>2. ASSUME NEW r \in Runtimes,
             Lifecycle(r) \/ Recovery(r) \/ Submission(r) \/ Settlement(r)
      PROVE  MInv'
  <2>1. OnlyCycle(r)
    BY <1>2, LifecycleKeeps, RecoveryKeeps, SubmissionKeeps, SettlementKeeps
       DEF Inv
  <2>2. Moves(r) /\ RowMoves(r)
    BY <1>2, LifecycleMoves, RecoveryMoves, SubmissionMoves, SettlementMoves,
       RuntimeRows DEF Inv
  <2>3. /\ FinalizeBatch(r) \/ UNCHANGED <<amount, ledger>>
        /\ Reserves(r) \/ items' = items
    BY <1>2, RuntimeMoney DEF Inv
  <2>4. ItemsMove
    BY <1>1, <2>2, <2>3, RuntimeItems DEF Inv
  <2>5. MoneyStep(r)
    BY <2>1, <2>2, <2>3, <2>4 DEF MoneyStep
  <2>6. QED
    BY <1>1, <2>5, CoverStep, LockStep, PlanStep DEF LInv, MInv
<1>3. CASE Environment \/ Operator
  BY <1>1, <1>3, OutsideEffects, OutsideMoneyStep
<1>4. CASE UNCHANGED vars
  BY <1>4 DEF vars, sqlVars, batchVars, MInv, CoverOK, Payable, Covers, Backed,
       LockOK, Stray, PlanOK
<1>5. QED
  BY <1>2, <1>3, <1>4 DEF Next

\* The ledger and money invariants hold throughout.
LEMMA MoneyInvariance ==
    ASSUME "confirm" \notin UnlockModes
    PROVE  Spec => [](Inv /\ LInv /\ MInv)
<1>1. Init => Inv /\ LInv /\ MInv
  BY InitInv, InitLedger, InitMoney
<1>2. Inv /\ LInv /\ MInv /\ [Next]_vars => (Inv /\ LInv /\ MInv)'
  BY NextStep, NextLedger, NextMoney
<1>3. QED
  BY <1>1, <1>2, PTL DEF Spec

\* An unbooked transfer is of a claimed batch that still pins its accounts.
LEMMA UnbookedIsPinned ==
    ASSUME Inv, LInv, MInv, "confirm" \notin UnlockModes, NEW a \in Accounts,
           NEW t \in Unbooked(a)
    PROVE  /\ pending[a] = wallet[t].batch /\ wallet[t].batch # NoBatch
           /\ items[wallet[t].batch][a] <= amount[a]
<1> DEFINE b == wallet[t].batch
<1>1. t \in Transfers /\ Sent(t) /\ ledger[t] = NoBatch /\ items[b][a] > 0
  BY DEF Unbooked
<1>2. b \in Batches /\ b # NoBatch
  <2>1. b # NoBatch
    BY <1>1 DEF Inv, SendOK, Sent
  <2>2. QED
    BY <1>1, <2>1 DEF Inv, TypeOK, WalletTx
<1>3. row[b].status \notin Fresh \cup {"none", "retryable"}
  BY <1>1, <1>2 DEF Inv, SendOK, ReleaseOK
<1>4. row[b].status # "finalized"
  <2>1. ASSUME row[b].status = "finalized" PROVE FALSE
    <3>1. Own(b, row[b].hash) /\ ledger[row[b].hash] = b
      BY <1>2, <2>1 DEF LInv, RowHashOK, LedgerOK
    <3>2. row[b].hash = t
      BY <1>1, <1>2, <3>1 DEF Own, Inv, SendOK, AtMostOneTransfer
    <3>3. QED
      BY <1>1, <1>2, <3>1, <3>2
  <2>2. QED
    BY <2>1
<1>5. row[b].status \in {"submitting", "submitted", "manual_review"}
  BY <1>2, <1>3, <1>4 DEF Inv, TypeOK, Row, Statuses, Fresh
<1>6. row[b].status \in Unsettled
  BY <1>5 DEF Unsettled, InFlight
<1>7. pending[a] = b
  BY <1>1, <1>2, <1>6 DEF Inv, PinsMatchBatches
<1>8. Covers(b)
  BY <1>2, <1>5, <1>6 DEF MInv, CoverOK, Payable
<1>9. QED
  BY <1>2, <1>7, <1>8 DEF Covers

-----------------------------------------------------------------------------
(* The theorems.                                                           *)

\* As long as no operator attests the wallet history, every ledger entry
\* books the wallet's own transfer for its batch: reconciliation that takes
\* another batch's equal transfer for its own is stopped by the unique hash,
\* because that batch is finalized with it.
THEOREM LedgerIsTrue ==
    ASSUME "confirm" \notin UnlockModes
    PROVE  Spec => []LedgerBooksOwnTransfer
<1>1. Inv /\ LInv /\ MInv => LedgerBooksOwnTransfer
  BY DEF LInv, LedgerOK
<1>2. QED
  BY <1>1, MoneyInvariance, PTL

\* Under the same condition no account is ever paid what it did not earn, for
\* any number of runtimes that lose the lock, crash and reserve from stale
\* plans: what the wallet sent and the ledger does not show is one transfer,
\* pinned and covered by the balance.
THEOREM NeverOverpaid ==
    ASSUME "confirm" \notin UnlockModes
    PROVE  Spec => []OnlyOwedIsSent
<1>1. Inv /\ LInv /\ MInv => OnlyOwedIsSent
  <2> SUFFICES ASSUME Inv, LInv, MInv, NEW a \in Accounts
               PROVE  /\ amount[a] >= 0
                      /\ \A t, u \in Unbooked(a) : t = u
                      /\ \A t \in Unbooked(a) :
                            items[wallet[t].batch][a] <= amount[a]
    BY DEF OnlyOwedIsSent
  <2>1. amount[a] >= 0
    BY DEF MInv, CoverOK
  <2>2. \A t \in Unbooked(a) :
           /\ pending[a] = wallet[t].batch /\ wallet[t].batch # NoBatch
           /\ items[wallet[t].batch][a] <= amount[a]
    BY UnbookedIsPinned
  <2>3. \A t, u \in Unbooked(a) : t = u
    BY <2>2 DEF Unbooked, Inv, SendOK, AtMostOneTransfer
  <2>4. QED
    BY <2>1, <2>2, <2>3
<1>2. QED
  BY <1>1, MoneyInvariance, PTL

=============================================================================
