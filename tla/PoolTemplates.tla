---------------------------- MODULE PoolTemplates ----------------------------
(***************************************************************************)
(* How new work reaches the miners: the master polls the coin daemons,     *)
(* fetches block templates and hash factors and sends them to its workers  *)
(* (pool/templates.js, pool/lifecycle.js) and each worker applies what it  *)
(* receives (pool/messages.js).  What its miners are then given is the     *)
(* subject of MinerJobs.  The health monitor restarts a pool whose main    *)
(* chain is stuck.                                                         *)
(*                                                                         *)
(* A block is its height, a template the height it builds on, a hash       *)
(* factor 0 (the coin is off) or 1.  A daemon answers with its state at    *)
(* some moment between the request and the answer; a template of the same  *)
(* height may be the one its receiver has (idHash) or another.             *)
(***************************************************************************)
EXTENDS Naturals, Sequences, FiniteSets

CONSTANTS
    Workers,    \* worker processes of the cluster
    Main,       \* the main coin, ""
    Alts,       \* the other coins (enableAlgoSwitching)
    MaxHeight,  \* bound: height of every chain
    MaxRetries, \* how often a failed template fetch is tried again, 2
    MaxRequests,\* bound: requests of the master that are under way
    MaxMessages,\* bound: messages a worker has not read
    MaxEvents   \* bound: new blocks, failures, restarts and changes made by operators

ASSUME PoolTemplatesAssumption ==
    /\ Main \notin Alts
    /\ "master" \notin Workers
    /\ {MaxHeight, MaxRetries, MaxRequests, MaxMessages, MaxEvents} \subseteq Nat

Coins == Alts \cup {Main}

VARIABLES
    chain,    \* height of each daemon
    db,       \* coinHashFactor of the alts in the config table
    newF,     \* master: newCoinHashFactor
    lastF,    \* master: lastCoinHashFactor
    head,     \* master: lastBlockHash and lastBlockHeight
    polls,    \* master: header requests in flight; "repeat" is the endless
              \* chain, "once" the first poll and block notifications
    fetches,  \* master: template fetches in flight or waiting to be retried
    grace,    \* master: factorFailureTimers that run
    failing,  \* master: daemonFailureSince is set for the main daemon
    mm,       \* per worker: lastCoinHashFactorMM of the alts
    tmpl,     \* per process: activeBlockTemplates, 0 when there is none
    ipc,      \* per worker: messages of the master
    own,      \* per worker: its start, and the one template it fetches itself
    lost,     \* history: the template of the recorded header was not published
    split,    \* history: the master ignored the last template of an alt it sent
    events    \* bound on faults (MaxEvents)

vars == <<chain, db, newF, lastF, head, polls, fetches, grace, failing, mm, tmpl,
          ipc, own, lost, split, events>>

Now == [chain |-> chain, db |-> db, newF |-> newF, lastF |-> lastF, head |-> head,
        polls |-> polls, fetches |-> fetches, grace |-> grace, failing |-> failing,
        mm |-> mm, tmpl |-> tmpl, ipc |-> ipc, own |-> own, lost |-> lost,
        split |-> split, events |-> events]

\* An event of the environment, counted against MaxEvents.
Event == [Now EXCEPT !.events = @ + 1]

Become(S) == \E T \in {S} :
    /\ T.events <= MaxEvents /\ events' = T.events
    /\ \A w \in Workers : Len(T.ipc[w]) <= MaxMessages
    /\ chain' = T.chain /\ db' = T.db /\ newF' = T.newF /\ lastF' = T.lastF
    /\ head' = T.head /\ polls' = T.polls /\ fetches' = T.fetches
    /\ grace' = T.grace /\ failing' = T.failing /\ mm' = T.mm /\ tmpl' = T.tmpl
    /\ ipc' = T.ipc /\ own' = T.own /\ lost' = T.lost /\ split' = T.split

Master == "master"
Procs == Workers \cup {Master}
Idle == [on |-> FALSE, at |-> 0]

\* A worker looks up its id ("boot"), then asks for the main template.
Booting == [st |-> "boot", at |-> 0]
Started == [st |-> "done", at |-> 0]

\* The pool just after PM2 started it; the chains and the table stay.
Fresh(S) == [S EXCEPT
    !.newF = [c \in Coins |-> IF c = Main THEN 1 ELSE 0],
    !.lastF = [c \in Coins |-> IF c = Main THEN 1 ELSE 0],
    !.head = [c \in Coins |-> 0],
    !.polls = [c \in Coins |-> [k \in {"repeat", "once"} |-> Idle]],
    !.fetches = {},
    !.grace = [c \in Alts |-> {}],
    !.failing = FALSE,
    !.mm = [p \in Procs |-> [c \in Alts |-> 0]],
    !.tmpl = [p \in Procs |-> [c \in Coins |-> 0]],
    !.ipc = [w \in Workers |-> <<>>],
    !.own = [w \in Workers |-> Booting],
    !.lost = [c \in Coins |-> FALSE],
    !.split = [c \in Alts |-> FALSE]]

Init == LET S == Fresh([chain |-> 0, db |-> 0, newF |-> 0, lastF |-> 0, head |-> 0,
                        polls |-> 0, fetches |-> 0, grace |-> 0, failing |-> 0, mm |-> 0,
                        tmpl |-> 0, ipc |-> 0, own |-> 0, lost |-> 0, split |-> 0]) IN
    /\ chain = [c \in Coins |-> 1] /\ db = [c \in Alts |-> 1]
    /\ newF = S.newF /\ lastF = S.lastF /\ head = S.head /\ polls = S.polls
    /\ fetches = S.fetches /\ grace = S.grace /\ failing = S.failing /\ mm = S.mm
    /\ tmpl = S.tmpl /\ ipc = S.ipc /\ own = S.own /\ lost = S.lost
    /\ split = S.split /\ events = 0

-----------------------------------------------------------------------------
(* Templates and factors in a worker (pool/templates.js) *)

\* setNewCoinHashFactor in a worker, which then notifies its miners (MinerJobs)
WorkerFactor(S, w, c, f) == IF c = Main THEN S ELSE [S EXCEPT !.mm[w][c] = f]

\* setNewBlockTemplate in a worker.  A template it has already is ignored, its
\* factor included; `same' says that the master had it already.
WorkerTemplate(S, w, m) ==
    IF m.same /\ S.tmpl[w][m.c] = m.h THEN S
    ELSE WorkerFactor([S EXCEPT !.tmpl[w][m.c] = m.h], w, m.c, m.f)

\* messageHandler in a worker
Receive(w) ==
    /\ ipc[w] # <<>>
    /\ LET m == Head(ipc[w])
           S == [Now EXCEPT !.ipc[w] = Tail(@)]
       IN Become(IF m.h = 0 THEN WorkerFactor(S, w, m.c, m.f) ELSE WorkerTemplate(S, w, m))

-----------------------------------------------------------------------------
(* Hash factors (pool/templates.js) *)

Broadcast(S, m) == [S EXCEPT !.ipc = [w \in Workers |-> Append(@[w], m)]]

\* setNewCoinHashFactor in the master, which has no miners
MasterFactor(S, full, c, f) ==
    IF c = Main THEN S
    ELSE [S EXCEPT !.mm[Master][c] = f, !.lastF[c] = IF full THEN f ELSE @, !.split[c] = FALSE]

\* Messages of the master: a factor, or a template with its factor
FactorMessage(c, f) == [c |-> c, h |-> 0, f |-> f, same |-> FALSE]

\* Variant: the workers are told of the factors that switch a coin on.
CoinHashFactorUpdateQuiet(S, c, f) ==
    IF c = Main \/ (f = 0 /\ S.lastF[c] = 0) THEN S
    ELSE MasterFactor(IF f = 0 THEN [S EXCEPT !.grace[c] = {}]
                      ELSE Broadcast(S, FactorMessage(c, f)), TRUE, c, f)

CoinHashFactorUpdate(S, c, f) ==
    IF c = Main THEN S
    ELSE LET T == IF f = 0 THEN [S EXCEPT !.grace[c] = {}] ELSE S IN
         IF f = 0 /\ S.lastF[c] = 0 THEN T
         ELSE MasterFactor(Broadcast(T, FactorMessage(c, f)), TRUE, c, f)

\* The wanted factor becomes zero, and the workers are told.
SwitchOff(S, c) == CoinHashFactorUpdate([S EXCEPT !.newF[c] = 0], c, 0)

\* updateCoinHashFactor, every 5 s; a failed query counts as zero
UpdateCoinHashFactor(c) ==
    \/ Become(IF db[c] = 0 THEN SwitchOff(Now, c) ELSE [Now EXCEPT !.newF[c] = db[c]])
    \/ Become(SwitchOff(Event, c))

\* setCoinHashFactor, by an operator or the profitability job
SetCoinHashFactor(c) == Become([Event EXCEPT !.db[c] = 1 - @])

\* markDaemonFailure and handleDaemonRpcFailure
RpcFailure(S, c, rpc) ==
    IF c = Main THEN [S EXCEPT !.failing = TRUE]
    ELSE [S EXCEPT !.grace[c] = @ \cup {rpc}]

\* disableFailedCoin, after DAEMON_FACTOR_GRACE_MS
GraceEnds(c) ==
    \E rpc \in grace[c] : Become(SwitchOff([Now EXCEPT !.grace[c] = @ \ {rpc}], c))

-----------------------------------------------------------------------------
(* Headers and templates in the master *)

NewBlock(c) == chain[c] < MaxHeight /\ Become([Event EXCEPT !.chain[c] = @ + 1])

Requests ==
    Cardinality(fetches) + Cardinality({p \in Coins \X {"repeat", "once"} : polls[p[1]][p[2]].on})

\* templateUpdate: nothing is asked while the factor is zero
TemplateUpdate(c, k) ==
    /\ ~polls[c][k].on /\ newF[c] # 0 /\ Requests < MaxRequests
    /\ Become([Now EXCEPT !.polls[c][k] = [on |-> TRUE, at |-> chain[c]]])

Answered(c, k) == [Now EXCEPT !.polls[c][k] = Idle]

\* markHeaderHealth; `old' is a block older than maxBlockAgeSeconds
HeaderHealth(S, c, old) ==
    IF c # Main THEN [S EXCEPT !.grace[c] = @ \ {"header"}]
    ELSE [S EXCEPT !.failing = old]

\* updateLastTemplateHeader and templateUpdate2; `full' is isHashFactorChange,
\* `new' a changed hash
StartFetch(S, c, h) ==
    [S EXCEPT !.head[c] = h,
              !.lost[c] = @ /\ h = S.head[c],
              !.fetches = @ \cup {[c |-> c, header |-> h, new |-> h # S.head[c],
                                   full |-> S.lastF[c] # S.newF[c], f |-> S.newF[c],
                                   at |-> S.chain[c], fails |-> 0, timer |-> FALSE]}]

\* Variant: the header is judged before the factor.
GotHeaderHealthFirst(S, c, h, old, hour) ==
    LET T == HeaderHealth(S, c, old) IN
    CASE S.newF[c] = 0 -> T
      [] S.newF[c] # 0 /\ (h # T.head[c] \/ hour) -> StartFetch(T, c, h)
      [] OTHER -> IF T.lastF[c] # T.newF[c] THEN CoinHashFactorUpdate(T, c, T.newF[c]) ELSE T

\* handleTemplateHeader; `hour' says that pollBlockInterval has passed
GotHeader(S, c, h, old, hour) ==
    IF S.newF[c] = 0 THEN S
    ELSE LET T == HeaderHealth(S, c, old) IN
         IF h # T.head[c] \/ hour THEN StartFetch(T, c, h)
         ELSE IF T.lastF[c] # T.newF[c] THEN CoinHashFactorUpdate(T, c, T.newF[c]) ELSE T

HeaderArrives(c, k) ==
    /\ polls[c][k].on
    /\ \E h \in polls[c][k].at..chain[c] :
        \/ Become(GotHeader(Answered(c, k), c, h, FALSE, FALSE))
        \/ \E old, hour \in BOOLEAN : /\ old \/ hour
                                      /\ Become(GotHeader([Answered(c, k) EXCEPT !.events = @ + 1], c, h, old, hour))

\* A failed request, or an answer without a hash
HeaderFails(c, k) ==
    /\ polls[c][k].on
    /\ LET S == [Answered(c, k) EXCEPT !.events = @ + 1] IN
       Become(IF newF[c] = 0 THEN S ELSE RpcFailure(S, c, "header"))

\* templateUpdate3 and setNewBlockTemplate in the master, which ignores a
\* template it has already
Publish(S, q, h, same) ==
    LET T == Broadcast([S EXCEPT !.tmpl[Master][q.c] = h,
                                 !.lost[q.c] = @ /\ h < S.head[q.c]],
                       [c |-> q.c, h |-> h, f |-> q.f, same |-> same])
    IN IF ~same THEN MasterFactor(T, q.full, q.c, q.f)
       ELSE IF q.c = Main THEN T ELSE [T EXCEPT !.split[q.c] = TRUE]

Done(q) == [Now EXCEPT !.fetches = @ \ {q}]

\* Nobody will ask for this header's template again before the next block.
Lose(S, q) == [S EXCEPT !.lost[q.c] = @ \/ (q.new /\ q.header = S.head[q.c])]

\* Variant: an answer for an older header is taken.
SkipOnlyZero(q) == newF[q.c] = 0

\* skipTemplateFetch
Skip(q) == newF[q.c] = 0 \/ q.header < head[q.c]

\* onTemplate.  Without a new hash a template is published when its reward or
\* its age asks for it; one that BlockTemplate rejects is dropped.
TemplateArrives(q) ==
    /\ ~q.timer
    /\ IF Skip(q) THEN Become(Lose(Done(q), q))
       ELSE LET S == IF q.c = Main THEN Done(q) ELSE [Done(q) EXCEPT !.grace[q.c] = @ \ {"template"}] IN
            \/ \E h \in q.at..chain[q.c] : Become(Publish(S, q, h, FALSE))
            \/ /\ tmpl[Master][q.c] \in q.at..chain[q.c]
               /\ Become(Publish(S, q, tmpl[Master][q.c], TRUE))
            \/ ~q.new /\ Become(S)
            \/ Become(Lose([S EXCEPT !.events = @ + 1], q))

\* retryTemplateFetch; `rpc' is a failed request, otherwise the template was
\* unusable or its merged-mined part behind its header
TemplateFails(q, rpc) ==
    /\ ~q.timer /\ ~Skip(q)
    /\ LET S == [Done(q) EXCEPT !.events = @ + 1]
           T == IF rpc THEN RpcFailure(S, q.c, "template") ELSE S
       IN Become(IF q.fails < MaxRetries THEN [T EXCEPT !.fetches = @ \cup {[q EXCEPT !.fails = @ + 1, !.timer = TRUE]}]
                 ELSE IF rpc THEN Lose(T, q)
                 ELSE SwitchOff(IF q.c = Main THEN RpcFailure(Lose(T, q), Main, "template") ELSE Lose(T, q), q.c))

RetryTemplate(q) ==
    /\ q.timer
    /\ Become([Done(q) EXCEPT !.fetches = @ \cup {[q EXCEPT !.timer = FALSE, !.at = chain[q.c]]}])

-----------------------------------------------------------------------------
(* Health, restarts and the start of a worker (pool/lifecycle.js) *)

\* The pool's peers serve the tip; lagBlocks is one here.
Lagging == tmpl[Master][Main] < chain[Main]

\* checkStuckTemplateHealth, when failure or lag has lasted unhealthyExitMs; a
\* pool that has no template yet stays up.  The repair script the monitor runs
\* on the way is outside the pool.
Monitor ==
    /\ tmpl[Master][Main] > 0 /\ (failing \/ Lagging)
    /\ Become(Fresh(Event))

\* A worker dies; the master forks one with the same id.
WorkerCrash(w) ==
    Become([Event EXCEPT !.own[w] = Booting, !.ipc[w] = <<>>,
                         !.mm[w] = [c \in Alts |-> 0], !.tmpl[w] = [c \in Coins |-> 0]])

\* startWorker, once getUniqueWorkerID has answered: the factors are reset,
\* and header and template of the main coin are asked for
StartWorker(w) ==
    /\ own[w].st = "boot"
    /\ Become([Now EXCEPT !.own[w] = [st |-> "asking", at |-> chain[Main]],
                          !.mm[w] = [c \in Alts |-> 0]])

OwnTemplate(w) ==
    /\ own[w].st = "asking"
    /\ \E h \in own[w].at..chain[Main] :
        Become([Now EXCEPT !.own[w] = Started, !.tmpl[w][Main] = h])

\* The header failed, or the template three times: the worker waits for the master.
OwnFails(w) == own[w].st = "asking" /\ Become([Event EXCEPT !.own[w] = Started])

-----------------------------------------------------------------------------
Next ==
    \/ \E c \in Coins : NewBlock(c)
    \/ \E c \in Coins, k \in {"repeat", "once"} :
        TemplateUpdate(c, k) \/ HeaderArrives(c, k) \/ HeaderFails(c, k)
    \/ \E q \in fetches :
        TemplateArrives(q) \/ RetryTemplate(q) \/ \E rpc \in BOOLEAN : TemplateFails(q, rpc)
    \/ \E c \in Alts : UpdateCoinHashFactor(c) \/ SetCoinHashFactor(c) \/ GraceEnds(c)
    \/ \E w \in Workers :
        \/ Receive(w) \/ WorkerCrash(w)
        \/ StartWorker(w) \/ OwnTemplate(w) \/ OwnFails(w)
    \/ Monitor

Spec == Init /\ [][Next]_vars

-----------------------------------------------------------------------------
(* Properties *)

\* The master serves the block it knows of: with no fetch under way, and unless
\* the fetch for that header was given up, its template is not older than the
\* header it recorded before it asked for the template (templateUpdate2 takes
\* answers in any order).
HeaderIsServed ==
    \A c \in Coins :
        (~lost[c] /\ ~\E q \in fetches : q.c = c) => tmpl[Master][c] >= head[c]

\* A master that stopped asking its main daemon (three unusable templates set
\* its factor to zero, and nothing sets it back) is one the health monitor sees
\* as failed.
FrozenIsNoticed == newF[Main] = 0 => failing

\* Once a worker has read its messages it mines an alt only on the template and
\* at the factor the master holds.  The factors may differ while the last
\* template the master sent is one it ignored: a restarted worker takes it.
WorkersAgree ==
    \A w \in Workers, c \in Alts : ipc[w] = <<>> =>
        /\ tmpl[w][c] \in {0, tmpl[Master][c]}
        /\ mm[w][c] \in {0, mm[Master][c]} \/ split[c]
==============================================================================
