---------------------------- MODULE PendingBlocks ----------------------------
(***************************************************************************)
(* How a found block reaches the block tables: the pool master posts its   *)
(* frame until it is answered with 200 (lib/pool/remote_uplink.js), a      *)
(* cluster worker of lib/remote_share.js stores it as a durable job, and   *)
(* the primary works through the due jobs, asking the daemon for each      *)
(* block's header (lib/remote_share/pending_jobs.js).                      *)
(*                                                                         *)
(* A block stands for its hash; Id is the LMDB key its frame asks for (the *)
(* height of a main block, the second an alt block was found in).  Time is *)
(* kept as an order: the stored jobs form a sequence by nextAttemptAt, of  *)
(* which a prefix is due.  A job is put back somewhere behind that prefix, *)
(* and at the end when it waits for the longest delay, the stale one.      *)
(***************************************************************************)
EXTENDS Integers, Sequences, FiniteSets, SequencesExt

CONSTANTS
    MainBlocks,  \* blocks of the main chain
    AltBlocks,   \* blocks of other chains
    Id,          \* blockId of the frame, by block
    Port,        \* daemon port, by block
    Deep,        \* blocks of a coin with unlockConfirmationDepth
    Stuck,       \* blocks whose header never shows a reward
    Old,         \* blocks whose job is older than stalePendingBlockAgeMs
    Contested,   \* blocks a reorganisation may reach
    StaleLimit,  \* stalePendingBlockProcessLimit
    NoBlock,     \* an empty table slot
    MaxFaults    \* bound: restarts, lost answers, failed writes, failed RPCs

Blocks == MainBlocks \cup AltBlocks
\* Slots an alt block may be probed into, and main heights.
Slots == {Id[b] : b \in Blocks} \cup {Id[b] + n : b \in AltBlocks, n \in 1..Cardinality(AltBlocks)}

ASSUME PendingBlocksAssumption ==
    /\ IsFiniteSet(Blocks) /\ MainBlocks \cap AltBlocks = {} /\ NoBlock \notin Blocks
    /\ Id \in [Blocks -> Nat] /\ DOMAIN Port = Blocks
    /\ Deep \subseteq AltBlocks /\ Stuck \subseteq Blocks /\ Old \subseteq Blocks
    /\ Contested \subseteq Blocks
ASSUME PendingBoundsAssumption ==
    StaleLimit \in Nat /\ MaxFaults \in Nat

VARIABLES
    leaf,         \* the uplink's task for a block's frame
    up,           \* the receiver runs
    closed,       \* state.closed of the primary's pending jobs
    rejecting,    \* state.lmdbRejecting
    jobs,         \* pending_blocks, in order of nextAttemptAt
    due,          \* how many of them are due
    gate,         \* state.nextDueJobCheckAt lies in the future
    work,         \* what is left of the running sweep; <<>>: not processing
    resolved,     \* the sweep's first job is recorded and not yet removed
    orphanSince,  \* "no", "recent", or "old" beyond orphanGraceMs
    maybeBad,     \* state.potentiallyBadAltBlocks
    bad,          \* state.badAltBlocks
    blockDB, altblockDB,
    canon,        \* the daemon has the block on its chain
    settled,      \* no reorganisation reaches the block any more
    faults,
    dropped       \* history: jobs dropped as invalid

store == <<jobs, due>>
memory == <<gate, work, resolved, orphanSince, maybeBad, bad>>
control == <<up, closed, rejecting>>
tables == <<blockDB, altblockDB>>
chain == <<canon, settled>>
vars == <<leaf, store, memory, control, tables, chain, faults, dropped>>

Empty == [hash |-> NoBlock, valid |-> FALSE]

Init ==
    /\ leaf = [b \in Blocks |-> "none"] 
    /\ up = TRUE /\ closed = FALSE /\ rejecting = FALSE
    /\ jobs = <<>> /\ due = 0
    /\ gate = FALSE /\ work = <<>> /\ resolved = FALSE
    /\ orphanSince = [b \in Blocks |-> "no"] /\ maybeBad = {} /\ bad = {}
    /\ blockDB = [s \in Slots |-> Empty] /\ altblockDB = [s \in Slots |-> Empty]
    /\ canon = [b \in Blocks |-> b \notin Contested] /\ settled = {}
    /\ faults = 0 /\ dropped = {}

Fault == faults < MaxFaults /\ faults' = faults + 1
NoFault == UNCHANGED faults

-----------------------------------------------------------------------------
(* The job store *)

Pending(b) == b \in Range(jobs)
Position(b) == CHOOSE i \in 1..Len(jobs) : jobs[i] = b

Without(b) == IF Pending(b) THEN RemoveAt(jobs, Position(b)) ELSE jobs
DueWithout(b) == IF Pending(b) /\ Position(b) <= due THEN due - 1 ELSE due

\* save: a job that is due at once, the latest of the due ones.
EnqueueJob(b) ==
    /\ jobs' = InsertAt(Without(b), DueWithout(b) + 1, b)
    /\ due' = DueWithout(b) + 1

\* saveRetry: with the stale delay behind every other job, else anywhere
\* behind the due ones.
SaveRetryAnywhere(b, longest) ==
    /\ due' = DueWithout(b)
    /\ \E i \in (DueWithout(b) + 1)..(Len(Without(b)) + 1) : jobs' = InsertAt(Without(b), i, b)
SaveRetry(b, longest) ==
    /\ due' = DueWithout(b)
    /\ \E i \in (DueWithout(b) + 1)..(Len(Without(b)) + 1) :
         /\ longest => i = Len(Without(b)) + 1
         /\ jobs' = InsertAt(Without(b), i, b)

\* storage.remove.
RemoveJob(b) == jobs' = Without(b) /\ due' = DueWithout(b)

-----------------------------------------------------------------------------
(* The uplink and the receiver's workers *)

\* storeBlock, storeAltBlock after the daemon accepted the block.
Find(b) ==
    /\ leaf[b] = "none"
    /\ leaf' = [leaf EXCEPT ![b] = "sending"]
    /\ UNCHANGED <<store, memory, control, tables, chain, faults, dropped>>

\* sendUntilSuccess posts until 200; handleLeafFrame answers 200 once the job is
\* stored.  A lost frame, 503 while rejecting and 500 when the job cannot be
\* stored change nothing; a worker may not know yet that the primary rejects.
\* The answer may be lost, and a request the uplink gave up may arrive after the
\* one that was answered.
Receive(b) ==
    /\ up /\ ~closed
    /\ \/ leaf[b] = "sending" /\ NoFault /\ leaf' = [leaf EXCEPT ![b] = "done"]
       \/ leaf[b] # "none" /\ Fault /\ UNCHANGED leaf
    /\ EnqueueJob(b)
    /\ UNCHANGED <<memory, control, tables, chain, dropped>>

-----------------------------------------------------------------------------
(* The primary: processDueJobs *)

\* isStalePendingBlock jobs beyond the limit are saved with the stale delay and
\* left out of the sweep.
Throttled ==
    {i \in 1..due : jobs[i] \in Old
                    /\ Cardinality({k \in 1..(i - 1) : jobs[k] \in Old}) >= StaleLimit}
\* The schedule afterwards: the jobs of the sweep, those not yet due, the
\* throttled ones, each in their order.
Rank(i) == IF i \in Throttled THEN 3 ELSE IF i <= due THEN 1 ELSE 2
Earlier(i, k) == Rank(i) < Rank(k) \/ (Rank(i) = Rank(k) /\ i < k)
Orders == {[n \in 1..Len(jobs) |-> jobs[p[n]]] :
               p \in {q \in Bijection(1..Len(jobs), 1..Len(jobs)) :
                          \A i, k \in 1..Len(jobs) : i < k => Earlier(q[i], q[k])}}
Loaded == due - Cardinality(Throttled)
\* Loading leaves the jobs in the store.
LoadedAreTaken(order) == SubSeq(order, Loaded + 1, Len(order))
LoadedStay(order) == order

\* pruneState: entries of the two bad-block maps whose TTL is over.
Forget == \E keep \in SUBSET (maybeBad \cup bad) :
             maybeBad' = maybeBad \cap keep /\ bad' = bad \cap keep

Sweep ==
    /\ up /\ ~closed /\ ~rejecting /\ work = <<>> /\ ~gate
    /\ Forget
    /\ \/ /\ NoFault /\ due = 0
          /\ gate' = (jobs # <<>>) /\ UNCHANGED <<work, store, rejecting>>
       \/ /\ NoFault /\ due > 0
          /\ \E order \in Orders : work' = SubSeq(order, 1, Loaded) /\ jobs' = LoadedStay(order)
          /\ due' = Loaded + Len(jobs') - Len(jobs)
          /\ UNCHANGED <<gate, rejecting>>
       \* The throttle's save finds the map full.
       \/ /\ Throttled # {} /\ Fault
          /\ rejecting' = TRUE /\ UNCHANGED <<gate, work, store>>
    /\ UNCHANGED <<leaf, resolved, orphanSince, up, closed, tables, chain, dropped>>

\* The first job of the sweep is done with.
NextJob == work' = Tail(work) /\ resolved' = FALSE

\* saveResolvedBlock: a main block is keyed by its height; only an orphan's
\* record gives way.
Keeps(existing, b) == existing # Empty /\ (existing.hash = b \/ existing.valid)
SaveResolvedBlock(b, valid) ==
    /\ blockDB' = IF Keeps(blockDB[Id[b]], b) THEN blockDB
                  ELSE [blockDB EXCEPT ![Id[b]] = [hash |-> b, valid |-> valid]]
    /\ UNCHANGED altblockDB

\* saveResolvedAltBlock: the slot s probing ends at, the hash itself or a free one.
ProbeFree(b, s) ==
    /\ s >= Id[b] /\ altblockDB[s] = Empty
    /\ \A t \in Slots : Id[b] <= t /\ t < s => altblockDB[t] # Empty
Probe(b, s) ==
    /\ s >= Id[b] /\ altblockDB[s].hash \in {b, NoBlock}
    /\ \A t \in Slots : Id[b] <= t /\ t < s => altblockDB[t].hash \notin {b, NoBlock}
SaveResolvedAltBlock(b, valid) ==
    /\ \E s \in Slots :
         /\ Probe(b, s)
         /\ altblockDB' = IF altblockDB[s] # Empty THEN altblockDB
                          ELSE [altblockDB EXCEPT ![s] = [hash |-> b, valid |-> valid]]
    /\ UNCHANGED blockDB

SaveResolved(b, valid) ==
    IF b \in MainBlocks THEN SaveResolvedBlock(b, valid) ELSE SaveResolvedAltBlock(b, valid)

\* A header answer finds the receiver with an unanswered job.
Asked(b) == up /\ work # <<>> /\ ~resolved /\ b = Head(work)

\* orphanGraceMs has passed since the block was first reported orphaned.
NoGrace(b) == TRUE
GraceOver(b) == orphanSince[b] = "old"

\* isOrphanHeader: the daemon does not have the block on its chain.
AnswerOrphan(b) ==
    /\ Asked(b) /\ ~canon[b]
    /\ \/ /\ GraceOver(b) /\ SaveResolved(b, FALSE) /\ resolved' = TRUE
          /\ UNCHANGED <<store, work, orphanSince>>
       \/ /\ ~GraceOver(b) /\ SaveRetry(b, FALSE) /\ NextJob
          /\ orphanSince' = [orphanSince EXCEPT ![b] = IF @ = "no" THEN "recent" ELSE @]
          /\ UNCHANGED tables
    /\ UNCHANGED <<leaf, gate, maybeBad, bad, control, chain, faults, dropped>>

\* A header with a reward; alt blocks of its port that missed theirs before are
\* marked bad.
AnswerReward(b) ==
    /\ Asked(b) /\ canon[b] /\ b \notin Stuck
    /\ b \in Deep => b \in settled
    /\ SaveResolved(b, TRUE) /\ resolved' = TRUE
    /\ LET marked == {o \in maybeBad : b \in AltBlocks /\ Port[o] = Port[b]}
       IN maybeBad' = maybeBad \ marked /\ bad' = bad \cup marked
    /\ UNCHANGED <<leaf, store, gate, work, orphanSince, control, chain, faults, dropped>>

\* isWaitingForAltDepth.
AnswerShallow(b) ==
    /\ Asked(b) /\ canon[b] /\ b \in Deep \ settled
    /\ SaveRetry(b, b \in Old) /\ NextJob
    /\ UNCHANGED <<leaf, gate, orphanSince, maybeBad, bad, control, tables, chain, faults, dropped>>

\* No header, or one without a reward (the wallet may not know it yet).
AnswerNothing(b) ==
    /\ Asked(b)
    /\ IF b \in Stuck THEN NoFault ELSE Fault
    /\ NextJob
    /\ \/ /\ b \in bad /\ RemoveJob(b)
          /\ dropped' = dropped \cup {b}
          /\ orphanSince' = [orphanSince EXCEPT ![b] = "no"]
          /\ UNCHANGED maybeBad
       \/ /\ b \notin bad /\ SaveRetry(b, b \in Old)
          /\ maybeBad' = maybeBad \cup ({b} \cap AltBlocks)
          /\ UNCHANGED <<dropped, orphanSince>>
    /\ UNCHANGED <<leaf, gate, bad, control, tables, chain>>

\* saveDrop of the job whose block was just recorded, or found recorded.
SaveDrop ==
    /\ up /\ resolved
    /\ RemoveJob(Head(work)) /\ NextJob
    /\ orphanSince' = [orphanSince EXCEPT ![Head(work)] = "no"]
    /\ UNCHANGED <<leaf, gate, maybeBad, bad, control, tables, chain, faults, dropped>>

-----------------------------------------------------------------------------
(* Start, stop and crash *)

Forgotten ==
    /\ gate' = FALSE /\ work' = <<>> /\ resolved' = FALSE
    /\ orphanSince' = [b \in Blocks |-> "no"] /\ maybeBad' = {} /\ bad' = {}

\* An exception in a header callback or a write failure there ends the process too.
Crash ==
    /\ up /\ Fault /\ Forgotten
    /\ up' = FALSE /\ closed' = FALSE /\ rejecting' = FALSE
    /\ UNCHANGED <<leaf, store, tables, chain, dropped>>

\* A share flush that cannot be written puts the receiver into reject mode.
RejectWrites ==
    /\ up /\ ~rejecting /\ Fault
    /\ rejecting' = TRUE
    /\ UNCHANGED <<leaf, store, memory, up, closed, tables, chain, dropped>>

\* stop: no frame and no sweep from here on, the running sweep is awaited.
Stop ==
    /\ up /\ ~closed
    /\ IF rejecting THEN NoFault ELSE Fault
    /\ closed' = TRUE
    /\ UNCHANGED <<leaf, store, memory, up, rejecting, tables, chain, dropped>>

\* finishCloseIfIdle, and the process is gone.
Closed ==
    /\ up /\ closed /\ work = <<>>
    /\ Forgotten
    /\ up' = FALSE /\ closed' = FALSE /\ rejecting' = FALSE
    /\ UNCHANGED <<leaf, store, tables, chain, faults, dropped>>

Start ==
    /\ ~up /\ up' = TRUE
    /\ UNCHANGED <<leaf, store, memory, closed, rejecting, tables, chain, faults, dropped>>

-----------------------------------------------------------------------------
(* Time, the chains and the block manager *)

BecomeDue ==
    /\ due < Len(jobs) /\ due' \in (due + 1)..Len(jobs)
    /\ UNCHANGED <<leaf, jobs, memory, control, tables, chain, faults, dropped>>

OpenGate ==
    /\ gate /\ gate' = FALSE
    /\ UNCHANGED <<leaf, store, work, resolved, orphanSince, maybeBad, bad, control, tables, chain, faults, dropped>>

\* The grace period outlasts every reorganisation.
GracePasses(b) ==
    /\ orphanSince[b] = "recent" /\ b \in settled
    /\ orphanSince' = [orphanSince EXCEPT ![b] = "old"]
    /\ UNCHANGED <<leaf, store, gate, work, resolved, maybeBad, bad, control, tables, chain, faults, dropped>>

\* One block of a height is on the chain at a time.
Siblings(b) == IF b \in MainBlocks THEN {o \in MainBlocks : Id[o] = Id[b]} ELSE {b}
Reorganise(b) ==
    /\ leaf[b] # "none" /\ b \in Contested \ settled
    /\ canon' = [o \in Blocks |-> IF o = b THEN ~canon[b] ELSE canon[o] /\ o \notin Siblings(b)]
    /\ UNCHANGED <<leaf, store, memory, control, tables, settled, faults, dropped>>

Settle(b) ==
    /\ leaf[b] # "none" /\ b \notin settled
    /\ settled' = settled \cup Siblings(b)
    /\ UNCHANGED <<leaf, store, memory, control, tables, canon, faults, dropped>>

\* runBlockUnlocker invalidates the record of an orphan.
Invalidate(s) ==
    /\ blockDB[s].valid /\ blockDB[s].hash \in settled /\ ~canon[blockDB[s].hash]
    /\ blockDB' = [blockDB EXCEPT ![s].valid = FALSE]
    /\ UNCHANGED <<leaf, store, memory, control, altblockDB, chain, faults, dropped>>

-----------------------------------------------------------------------------
Answer(b) == AnswerOrphan(b) \/ AnswerReward(b) \/ AnswerShallow(b) \/ AnswerNothing(b)
Receiver == Sweep \/ SaveDrop \/ (\E b \in Blocks : Answer(b)) \/ Start \/ Closed
Time == BecomeDue \/ OpenGate \/ \E b \in Blocks : GracePasses(b)

Next ==
    \/ Receiver \/ Time \/ Crash \/ RejectWrites \/ Stop
    \/ \E b \in Blocks : Find(b) \/ Receive(b)
    \/ \E b \in Blocks : Reorganise(b) \/ Settle(b)
    \/ \E s \in Slots : Invalidate(s)

Spec == Init /\ [][Next]_vars

\* Timers fire, the daemon answers, the process manager restarts the receiver and
\* the operator a rejecting one; every job's time comes and reorganisations end.
Fairness ==
    /\ WF_vars(Receiver \/ OpenGate \/ (rejecting /\ Stop))
    /\ WF_vars(\E b \in Blocks : GracePasses(b)) /\ WF_vars(\E b \in Blocks : Settle(b))
    /\ \A b \in Blocks \ Stuck :
         WF_vars(BecomeDue /\ Pending(b) /\ due < Position(b) /\ Position(b) <= due')
LiveSpec == Spec /\ Fairness

-----------------------------------------------------------------------------
(* Properties *)

Records == [hash : Blocks \cup {NoBlock}, valid : BOOLEAN]

\* The uplink, the job store, the primary's memory and the tables have their
\* types; a key is stored once, whatever is resent and saved again.
TypeOK ==
    /\ leaf \in [Blocks -> {"none", "sending", "done"}]
    /\ up \in BOOLEAN /\ closed \in BOOLEAN /\ rejecting \in BOOLEAN
    /\ gate \in BOOLEAN /\ resolved \in BOOLEAN
    /\ jobs \in Seq(Blocks) /\ IsInjective(jobs) /\ due \in 0..Len(jobs)
    /\ work \in Seq(Blocks)
    /\ orphanSince \in [Blocks -> {"no", "recent", "old"}]
    /\ maybeBad \subseteq AltBlocks /\ bad \subseteq AltBlocks
    /\ blockDB \in [Slots -> Records] /\ altblockDB \in [Slots -> Records]
    /\ canon \in [Blocks -> BOOLEAN] /\ settled \subseteq Blocks
    /\ faults \in 0..MaxFaults /\ dropped \subseteq Blocks

Recorded(b) ==
    IF b \in MainBlocks THEN blockDB[Id[b]] # Empty
    ELSE \E s \in Slots : altblockDB[s].hash = b

Place(b) ==
    IF Recorded(b) THEN "table" ELSE IF Pending(b) THEN "queue"
    ELSE IF b \in dropped THEN "dropped" ELSE "nowhere"

Delivery == INSTANCE BlockDelivery WITH
    Key   <- [b \in Blocks |-> Siblings(b)],
    place <- [b \in Blocks |-> Place(b)],
    told  <- {b \in Blocks : leaf[b] = "done"}

\* Job store, sweeps, resent frames and crashes together are one safe keeping:
\* a frame is answered with 200 only in the step that stores its job or later,
\* a stored job leaves the store only for the tables or as invalid, and a record
\* is never taken back.
ImplementsDelivery == Delivery!Spec

\* saveResolvedAltBlock records a hash in one slot only, although frames are
\* resent after the job was resolved and several blocks ask for one slot.
RecordedOnce ==
    \A s, t \in Slots : altblockDB[s] # Empty /\ altblockDB[s].hash = altblockDB[t].hash => s = t

\* handleOrphanHeader records a tombstone only for a block that stays orphaned:
\* the grace period outlasts reorganisations and restarts with the process.
OnlyOrphansFinalized ==
    \A b \in Blocks : [hash |-> b, valid |-> FALSE] \in Range(blockDB) \cup Range(altblockDB)
                      => ~canon[b] /\ b \in settled

\* An acknowledged block is recorded, dropped or stuck without a reward in the
\* end: no stale job that never resolves, throttle, cached check time, crash or
\* restart keeps another one waiting for ever.
EventuallyRecorded == \A b \in Blocks \ Stuck : (leaf[b] = "done") ~> (Recorded(b) \/ b \in dropped)
==============================================================================
