----------------------------- MODULE ShareDelivery -----------------------------
(***************************************************************************)
(* The way of a credited share from a pool worker to the share table:      *)
(*   - the accumulator of a wallet in a pool worker (pool/shares.js),      *)
(*   - the pool master's uplink queue (pool/messages.js,                   *)
(*     pool/remote_uplink.js), which posts a frame until it is answered    *)
(*     with 200,                                                           *)
(*   - the receiver's front processes and its primary with the share queue *)
(*     (remote_share.js), and the LMDB write of a batch                    *)
(*     (remote_share/share_store.js).                                      *)
(*                                                                         *)
(* A share is a number, its reward one unit.  A frame carries the shares   *)
(* of one accumulator for one payee; it is encoded once, time stamp        *)
(* included, so all its copies are equal, and the shares it carries tell   *)
(* it from every other frame.                                              *)
(***************************************************************************)
EXTENDS Naturals, Sequences, FiniteSets, SequencesExt

CONSTANTS
    Rigs,         \* worker names of the wallet
    MaxNamed,     \* 50: accumulators a wallet gets by name
    AccLimit,     \* 100000000: an accumulator this full starts anew
    Payees,       \* payout_div, or the wallet itself
    Fronts,       \* receiver processes that listen
    SendSlots,    \* os.cpus().length * 32
    BatchSize,    \* shareBatchSize
    MaxShares,    \* bound: shares credited
    MaxHeight,    \* bound: heights shares are credited at
    MaxFaults,    \* bound: timeouts, refusals, crashes and failed writes
    Faults        \* which of them happen

FaultKinds == {"timeout", "refused", "poolWorker", "poolMaster", "front", "receiver", "write"}

ASSUME ShareDeliveryAssumption ==
    /\ {MaxNamed, AccLimit, MaxShares, MaxHeight, MaxFaults} \subseteq Nat
    /\ {SendSlots, BatchSize} \subseteq Nat \ {0}
    /\ Faults \subseteq FaultKinds

VARIABLES
    acc,        \* walletAcc of the wallet: a function on the names in use
    named,      \* walletWorkerCount
    finalizer,  \* isWalletAccFinalizer
    credited,   \* the shares credited so far, each with its dbJobHeight
    frames,     \* every frame made, with the place where the pool has it
    requests,   \* POST bodies under way; open: the pool still waits for the answer
    front,      \* per front: whether it is there, rejecting, its IPC messages, a reject notice
    primary,    \* shareQueue, shareTimer, shareDrainActive, lmdbRejecting, phase of stop()
    rows,       \* shareDB: how many rows hold a frame
    counted,    \* cacheDB: how often each frame was added to the totals
    dropped,    \* history: frames the receiver acknowledged and discarded in reject
                \* mode, or lost with its process or with a front's
    gone,       \* history: shares that went down with a pool process
    faults

vars == <<acc, named, finalizer, credited, frames, requests, front,
          primary, rows, counted, dropped, gone, faults>>

leaf == <<acc, named, finalizer, credited, gone>>
receiver == <<front, primary, rows, counted, dropped>>

Other == "all_other_workers"
Names == Rigs \cup {Other}
Frames == DOMAIN frames

IdleFront == [up |-> TRUE, rejecting |-> FALSE, ipc |-> <<>>, notice |-> FALSE]
IdlePrimary == [queue |-> <<>>, timer |-> FALSE, draining |-> FALSE,
                rejecting |-> FALSE, phase |-> "run"]

Init ==
    /\ acc = <<>> /\ named = 0 /\ finalizer = FALSE
    /\ credited = <<>>
    /\ frames = <<>> /\ requests = {}
    /\ front = [r \in Fronts |-> IdleFront]
    /\ primary = IdlePrimary
    /\ rows = <<>> /\ counted = <<>>
    /\ dropped = {} /\ gone = {}
    /\ faults = 0

Fault(kind) ==
    /\ kind \in Faults
    /\ faults < MaxFaults
    /\ faults' = faults + 1

-----------------------------------------------------------------------------
(* The accumulator *)

\* storeShareDiv: a full accumulator becomes one frame per payee.
StoreShareDiv(w, name) ==
    [shares : {w.shares}, height : {w.height}, name : {name}, payee : Payees]

\* The frames are handed to the master by IPC.
Add(fs) == [f \in Frames \cup fs |-> IF f \in Frames THEN frames[f] ELSE "ipc"]

\* The name a share is accumulated under.
AccName(rig) == IF rig \in DOMAIN acc \/ named < MaxNamed THEN rig ELSE Other

\* addShareWorker
AddShareWorker(name, h) ==
    IF name \in DOMAIN acc THEN acc
    ELSE [n \in DOMAIN acc \cup {name} |->
            IF n = name THEN [height |-> h, old |-> FALSE, shares |-> {}] ELSE acc[n]]

\* Variant: the share that finds an accumulator old or full is not kept.
NextAccumulatorEmpty(w, s, h) == [height |-> h, old |-> FALSE, shares |-> {}]

\* Variant: the height of the flushed accumulator stays.
NextAccumulatorSameHeight(w, s, h) == [height |-> w.height, old |-> FALSE, shares |-> {s}]

\* The accumulator that follows the flushed one, w.
NextAccumulator(w, s, h) == [height |-> h, old |-> FALSE, shares |-> {s}]

\* recordShareData and updateShareWorker: the share joins the accumulator, or
\* flushes one that is old or full and starts the next.  h is the height of the
\* share's own template, which may be a past one, or the anchor's for other
\* chains; a share that joins leaves the accumulator's height as it is.
RecordShare(rig, h) ==
    LET s == Len(credited) + 1
        name == AccName(rig)
        entries == AddShareWorker(name, h)
        w == entries[name]
        joins == ~w.old /\ Cardinality(w.shares) < AccLimit
    IN /\ s <= MaxShares
       /\ credited' = Append(credited, h)
       /\ acc' = [entries EXCEPT ![name] =
                    IF joins THEN [w EXCEPT !.shares = @ \cup {s}]
                    ELSE NextAccumulator(w, s, h)]
       /\ named' = IF name \in DOMAIN acc \/ name = Other THEN named ELSE named + 1
       /\ frames' = Add(IF joins \/ w.shares = {} THEN {} ELSE StoreShareDiv(w, name))
       /\ finalizer' = TRUE
       /\ UNCHANGED <<requests, receiver, gone, faults>>

\* walletAccFinalizer: the timer removes the old accumulators and runs again
\* while some are left.
Finalize ==
    LET old == {n \in DOMAIN acc : acc[n].old} IN
    /\ finalizer
    /\ acc' = [n \in DOMAIN acc \ old |-> acc[n]]
    /\ named' = named - Cardinality(old \ {Other})
    /\ frames' = Add(UNION {StoreShareDiv(acc[n], n) : n \in {k \in old : acc[k].shares # {}}})
    /\ finalizer' = (DOMAIN acc # old)
    /\ UNCHANGED <<credited, requests, receiver, gone, faults>>

\* shareAccTime passes for an accumulator.
AccAges(name) ==
    /\ name \in DOMAIN acc
    /\ ~acc[name].old
    /\ acc' = [acc EXCEPT ![name].old = TRUE]
    /\ UNCHANGED <<named, finalizer, credited, frames, requests, receiver, gone, faults>>

-----------------------------------------------------------------------------
(* The uplink *)

SetUp(f, up) == frames' = [frames EXCEPT ![f] = up]

\* sendRemote: the master queues the frame.
MasterQueues(f) ==
    /\ frames[f] = "ipc"
    /\ SetUp(f, "queued")
    /\ UNCHANGED <<leaf, requests, receiver, faults>>

Sending == {f \in Frames : frames[f] \in {"sent", "failed", "accepted", "refused"}}

\* The body reaches a front, whichever the operating system picks.
Post(f, r) ==
    /\ SetUp(f, "sent")
    /\ requests' = requests \cup {[f |-> f, r |-> r, open |-> TRUE]}
    /\ UNCHANGED <<leaf, receiver, faults>>

\* createTaskQueue gives a slot; the task keeps it until it is answered 200.
StartPost(f, r) ==
    /\ frames[f] = "queued"
    /\ Cardinality(Sending) < SendSlots
    /\ Post(f, r)

\* Variant: only a refusal is tried again, not a broken connection.
RetryRefused(f, r) ==
    /\ frames[f] = "refused"
    /\ Post(f, r)

\* sendUntilSuccess, a second after a failure.
Retry(f, r) ==
    /\ frames[f] \in {"failed", "refused"}
    /\ Post(f, r)

\* The pool no longer waits for the answers of these frames.
Orphaned(fs) == {[q EXCEPT !.open = @ /\ q.f \notin fs] : q \in requests}

\* The 30 s timeout, or a connection error: the body may still arrive, or may
\* have arrived with its answer lost.
PostTimesOut(f) ==
    /\ frames[f] \in {"sent", "accepted"}
    /\ Fault("timeout")
    /\ SetUp(f, "failed")
    /\ requests' = Orphaned({f})
    /\ UNCHANGED <<leaf, receiver>>

\* The connection is refused, or breaks before the body arrives.
PostFails(q) ==
    /\ Fault("refused")
    /\ frames' = [frames EXCEPT ![q.f] = IF q.open THEN "failed" ELSE @]
    /\ requests' = requests \ {q}
    /\ UNCHANGED <<leaf, receiver>>

\* The answer 200 ends the task.
Answered(f) ==
    /\ frames[f] = "accepted"
    /\ SetUp(f, "done")
    /\ UNCHANGED <<leaf, requests, receiver, faults>>

-----------------------------------------------------------------------------
(* The receiver *)

\* handleLeafFrame and acceptShare in a front: 503 in reject mode, otherwise
\* the share goes to the primary and 200 to the pool.
FrontHandles(q) ==
    LET refused == front[q.r].rejecting IN
    /\ primary.phase # "drain" /\ front[q.r].up
    /\ requests' = requests \ {q}
    /\ frames' = [frames EXCEPT ![q.f] =
                     IF ~q.open THEN @ ELSE IF refused THEN "refused" ELSE "accepted"]
    /\ front' = IF refused THEN front ELSE [front EXCEPT ![q.r].ipc = Append(@, q.f)]
    /\ UNCHANGED <<leaf, primary, rows, counted, dropped, faults>>

\* handleWorkerMessage and queueShare: discarded in reject mode; the first
\* queued share sets the flush timer.
PrimaryReceives(r) ==
    /\ front[r].ipc # <<>>
    /\ front' = [front EXCEPT ![r].ipc = Tail(@)]
    /\ LET f == Head(front[r].ipc) IN
       IF primary.rejecting
       THEN dropped' = dropped \cup {f} /\ UNCHANGED primary
       ELSE primary' = [primary EXCEPT !.queue = Append(@, f), !.timer = TRUE]
            /\ UNCHANGED dropped
    /\ UNCHANGED <<leaf, frames, requests, rows, counted, faults>>

Batch(queue) == SubSeq(queue, 1, IF Len(queue) < BatchSize THEN Len(queue) ELSE BatchSize)
Rest(queue) == SubSeq(queue, BatchSize + 1, Len(queue))

Copies(table, f) == IF f \in DOMAIN table THEN table[f] ELSE 0

\* Variant: equal rows are kept side by side.
PutShareAgain(batch) ==
    [f \in DOMAIN rows \cup ToSet(batch) |-> Copies(rows, f) + (IF Contains(batch, f) THEN 1 ELSE 0)]

\* putBinary into a dupSort table: an equal row is there once.
PutShare(batch) ==
    [f \in DOMAIN rows \cup ToSet(batch) |-> 1]

\* storeShares: the totals of the batch and its rows in one transaction; the
\* totals count a frame as often as it is received.
StoreShares(batch) ==
    /\ rows' = PutShare(batch)
    /\ counted' = [f \in DOMAIN counted \cup ToSet(batch) |->
                     Copies(counted, f) + Cardinality({i \in DOMAIN batch : batch[i] = f})]

\* flushNextChunk, when the write succeeds: setImmediate goes on with the rest.
Flush ==
    /\ StoreShares(Batch(primary.queue))
    /\ primary' = [primary EXCEPT !.queue = Rest(@), !.draining = Rest(primary.queue) # <<>>,
                                  !.timer = @ /\ primary.draining]
    /\ UNCHANGED <<leaf, frames, requests, front, dropped, faults>>

\* Variant: the batch that could not be written is not put back.
FlushFailsDropping ==
    /\ Fault("write")
    /\ primary' = [primary EXCEPT !.queue = Rest(@), !.rejecting = TRUE, !.draining = FALSE,
                                  !.timer = @ /\ primary.draining]
    /\ front' = [r \in Fronts |-> [front[r] EXCEPT !.notice = TRUE]]
    /\ UNCHANGED <<leaf, frames, requests, rows, counted, dropped>>

\* The write fails: the batch stays at the head of the queue, the runtime
\* enters reject mode and tells the fronts.
FlushFails ==
    /\ Fault("write")
    /\ primary' = [primary EXCEPT !.rejecting = TRUE, !.draining = FALSE,
                                  !.timer = @ /\ primary.draining]
    /\ front' = [r \in Fronts |-> [front[r] EXCEPT !.notice = TRUE]]
    /\ UNCHANGED <<leaf, frames, requests, rows, counted, dropped>>

\* drainShareQueue, from the timer, from setImmediate, or from
\* waitForShareDrain once the fronts have disconnected.
Drain ==
    /\ ~primary.rejecting
    /\ primary.queue # <<>>
    /\ primary.timer \/ primary.draining \/ primary.phase = "drain"
    /\ Flush \/ FlushFails

\* The timer fires while a drain is under way, or with nothing to do.
TimerIdles ==
    /\ primary.timer
    /\ primary.draining \/ primary.rejecting \/ primary.queue = <<>>
    /\ primary' = [primary EXCEPT !.timer = FALSE]
    /\ UNCHANGED <<leaf, frames, requests, front, rows, counted, dropped, faults>>

\* handleParentMessage: a front learns of the reject mode.
FrontRejects(r) ==
    /\ front[r].notice /\ front[r].up
    /\ front' = [front EXCEPT ![r].notice = FALSE, ![r].rejecting = TRUE]
    /\ UNCHANGED <<leaf, frames, requests, primary, rows, counted, dropped, faults>>

-----------------------------------------------------------------------------
(* Crashes, stop and restart *)

\* A connection to a process that is gone breaks; its open requests fail.
Break(rs) ==
    LET broken == {q \in requests : q.r \in rs} IN
    /\ requests' = requests \ broken
    /\ frames' = [f \in Frames |->
                    IF \E q \in broken : q.f = f /\ q.open
                    THEN "failed" ELSE frames[f]]

\* A front dies: the primary's listener is removed on 'exit', so what the front
\* had not handed over is lost, with the messages the primary has not read.  A
\* new front is forked, unless stop() is under way; attachWorker repeats the
\* reject notice.
FrontCrash(r) ==
    /\ Fault("front")
    /\ primary.phase # "drain" /\ front[r].up
    /\ dropped' = dropped \cup ToSet(front[r].ipc)
    /\ Break({r})
    /\ LET forked == primary.phase = "run" IN
       front' = [front EXCEPT ![r] = [up |-> forked, rejecting |-> FALSE, ipc |-> <<>>,
                                      notice |-> forked /\ primary.rejecting]]
    /\ UNCHANGED <<leaf, primary, rows, counted>>

InReceiver == ToSet(primary.queue) \cup UNION {ToSet(front[r].ipc) : r \in Fronts}

\* The receiver is killed and started again: the queue was in memory only.
ReceiverCrash ==
    /\ Fault("receiver")
    /\ dropped' = dropped \cup InReceiver
    /\ Break(Fronts)
    /\ front' = [r \in Fronts |-> IdleFront]
    /\ primary' = IdlePrimary
    /\ UNCHANGED <<leaf, rows, counted>>

\* SIGTERM: stop() clears the timer and starts to close the fronts.
ReceiverStops ==
    /\ Fault("receiver")
    /\ primary.phase = "run"
    /\ primary' = [primary EXCEPT !.phase = "closing", !.timer = FALSE]
    /\ UNCHANGED <<leaf, frames, requests, front, rows, counted, dropped>>

\* disconnectWorkers: the fronts are gone, and their messages have arrived.
FrontsDisconnect ==
    /\ primary.phase = "closing"
    /\ \A r \in Fronts : front[r].ipc = <<>>
    /\ primary' = [primary EXCEPT !.phase = "drain"]
    /\ Break(Fronts)
    /\ UNCHANGED <<leaf, front, rows, counted, dropped, faults>>

\* waitForShareDrain has resolved (at once in reject mode): the process ends
\* and is started again.
ReceiverStarts ==
    /\ primary.phase = "drain"
    /\ primary.rejecting \/ primary.queue = <<>>
    /\ Break(Fronts)
    /\ front' = [r \in Fronts |-> IdleFront]
    /\ primary' = IdlePrimary
    /\ dropped' = dropped \cup ToSet(primary.queue)
    /\ UNCHANGED <<leaf, rows, counted, faults>>

\* A pool worker dies with its accumulators; frames sent are the master's.
PoolWorkerCrash ==
    /\ Fault("poolWorker")
    /\ acc' = <<>> /\ named' = 0 /\ finalizer' = FALSE
    /\ gone' = gone \cup UNION {acc[n].shares : n \in DOMAIN acc}
    /\ UNCHANGED <<credited, frames, requests, receiver>>

\* The whole pool dies: its queue was in memory only.  What is on the wire
\* may still arrive.
PoolCrash ==
    /\ Fault("poolMaster")
    /\ acc' = <<>> /\ named' = 0 /\ finalizer' = FALSE
    /\ gone' = gone \cup UNION {acc[n].shares : n \in DOMAIN acc}
                    \cup UNION {f.shares : f \in {g \in Frames : frames[g] # "done"}}
    /\ frames' = [f \in Frames |-> IF frames[f] = "done" THEN "done" ELSE "dead"]
    /\ requests' = Orphaned(Frames)
    /\ UNCHANGED <<credited, receiver>>

\* The steps that timers, the event loops and the network take by themselves.
Progress ==
    \/ Finalize \/ \E n \in Names : AccAges(n)
    \/ \E f \in Frames : MasterQueues(f) \/ Answered(f)
                           \/ \E r \in Fronts : StartPost(f, r) \/ Retry(f, r)
    \/ \E q \in requests : FrontHandles(q)
    \/ \E r \in Fronts : PrimaryReceives(r) \/ FrontRejects(r)
    \/ Drain \/ TimerIdles \/ FrontsDisconnect \/ ReceiverStarts

Next ==
    \/ Progress
    \/ \E rig \in Rigs, h \in 1..MaxHeight : RecordShare(rig, h)
    \/ \E f \in Frames : PostTimesOut(f)
    \/ \E q \in requests : PostFails(q)
    \/ \E r \in Fronts : FrontCrash(r)
    \/ ReceiverCrash \/ ReceiverStops \/ PoolWorkerCrash \/ PoolCrash

Spec == Init /\ [][Next]_vars

\* Something that can move on by itself does; which share, frame or front
\* comes first is left open.
LiveSpec == Spec /\ WF_vars(Progress)

-----------------------------------------------------------------------------
(* Properties *)

Shares == DOMAIN credited

TypeOK ==
    /\ DOMAIN acc \subseteq Names
    /\ \A n \in DOMAIN acc : acc[n].shares \subseteq Shares /\ acc[n].height \in Nat
    /\ named \in Nat /\ finalizer \in BOOLEAN
    /\ \A q \in requests : q.f \in Frames /\ q.r \in Fronts
    /\ primary.queue \in Seq(Frames)
    /\ DOMAIN rows \subseteq Frames /\ DOMAIN counted = DOMAIN rows
    /\ faults \in 0..MaxFaults

\* No credit is lost or doubled on its way through the accumulators: a share
\* is in one accumulator, or in one frame for each payee, or it went down with
\* the process that held it.  An accumulator always has a timer that will
\* flush it, and the count of names that decides on the shared accumulator is
\* the number of named ones.
CreditIsConserved ==
    /\ \A s \in Shares :
          LET held == Cardinality({n \in DOMAIN acc : s \in acc[n].shares})
              made == {f \in Frames : s \in f.shares}
          IN \/ held = 1 /\ made = {}
             \/ held = 0 /\ \A p \in Payees : Cardinality({f \in made : f.payee = p}) = 1
             \/ held = 0 /\ made = {} /\ s \in gone
    /\ named = Cardinality(DOMAIN acc \ {Other})
    /\ DOMAIN acc # {} => finalizer

\* A share the receiver answered with 200 is in the table or still on its way
\* there, unless before the write the receiver or the front that took it was
\* killed, or the receiver entered reject mode.  Failed writes, batches and an
\* orderly stop lose nothing.
AckedIsKept ==
    \A f \in Frames : frames[f] = "done" =>
        f \in DOMAIN rows \cup InReceiver \cup dropped

\* However often a frame is posted, what it pays is in the table once: a share
\* earns each of its payees one row.
PaidOnce ==
    \A s \in Shares, p \in Payees : \A f, g \in DOMAIN rows :
        s \in f.shares \cap g.shares /\ f.payee = p /\ g.payee = p =>
            f = g /\ rows[f] = 1

\* A frame is booked at the height its first share was credited at, whatever
\* came between: later shares of other heights that joined, a flush long after,
\* the next accumulator under the same name.  The frames of all payees agree.
BookedAtFirst ==
    \A f \in Frames : \E s \in f.shares :
        f.height = credited[s] /\ \A t \in f.shares : s <= t

\* Every credited share reaches the table for each of its payees, unless a
\* process that held it died or the receiver rejects writes.
EventuallyStored ==
    \A s \in 1..MaxShares :
        s \in Shares ~>
            \/ s \in gone
            \/ primary.rejecting
            \/ \A p \in Payees : \E f \in DOMAIN rows \cup dropped :
                  s \in f.shares /\ f.payee = p
=============================================================================
