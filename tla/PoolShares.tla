------------------------------ MODULE PoolShares ------------------------------
(***************************************************************************)
(* One pool worker process deciding on submitted shares: the submit        *)
(* handler (pool/protocol.js), the verification pipeline with the          *)
(* per-wallet trust gate (pool/shares.js), block submission                *)
(* (pool/share_blocks.js), the remote hash verifier's queue                *)
(* (coins/index.js) and the ban counters (pool/miners.js).                 *)
(*                                                                         *)
(* JavaScript runs one callback at a time, so an action is a whole         *)
(* callback: the synchronous chain it starts is a composition of operators *)
(* on the record `Now' of all variables.  Everything that waits (a queued  *)
(* share, a hash, a daemon answer, a timer) is the stage of its share or   *)
(* an entry of `asks'.                                                     *)
(*                                                                         *)
(* Every share has the same reward, so trust is counted in shares.  What a *)
(* share contains is fixed when it arrives: `meets', the targets its       *)
(* claimed hash reaches, and `data', whether the claimed hash is the real  *)
(* one ("good"), another one ("fake"), or no block can be built ("broken").*)
(***************************************************************************)
EXTENDS Naturals, Sequences, FiniteSets, SequencesExt, FiniteSetsExt

CONSTANTS
    Sessions,        \* miner connections of this worker
    Wallets,         \* payout addresses; here also the trust keys
    WalletOf,        \* [Sessions -> Wallets]
    Watched,         \* extraWalletVerify: trusted shares hashed all the same
    Nonces,          \* submission keys
    Claims,          \* sets of targets ("job", "main", "child") a hash meets
    Data,            \* subset of {"good", "fake", "broken"}
    KindsOf,         \* per session, verifiers of the coins it mines
    SharedNonces,    \* the coin reserves keys per template too
    MaxShares,       \* bound: shares that enter verification
    RateLimit,       \* minerThrottleSharePerSec * minerThrottleShareWindow
    QueueLimit,      \* getTrustedQueueLimit
    PendingLimit,    \* 100 in slowHashAsync
    VerifyRetries,   \* verifyShareRetry.maxRetries
    Earned,          \* [Sessions -> Nat], verified shares credited before Init
    SessionShares,   \* shares a session needs before the lottery
    WalletShares,    \* verified shares a wallet needs before the lottery
    BanThreshold,    \* banThreshold
    BanPercent,      \* banPercent
    MaxEvents        \* bound: refused submissions, disconnects, bans, resets

ASSUME PoolSharesAssumption ==
    /\ WalletOf \in [Sessions -> Wallets]
    /\ Watched \subseteq Wallets
    /\ Data \subseteq {"good", "fake", "broken"}
    /\ KindsOf \in [Sessions -> SUBSET {"standard", "cycle", "kawpow", "ethash", "pearl"}]
    /\ Claims \subseteq SUBSET {"job", "main", "child"}
    /\ {SessionShares, WalletShares} \subseteq Nat \ {0}
    /\ Earned \in [Sessions -> Nat]
    /\ \A m \in Sessions : Earned[m] < BanThreshold
    /\ {MaxShares, RateLimit, QueueLimit, PendingLimit, VerifyRetries,
        BanThreshold, BanPercent, MaxEvents} \subseteq Nat

VARIABLES
    sess,     \* per session: trust, check_height, checkBan's counters, removed
    wal,      \* per wallet: trust, last_ver_shares, verifier tasks, banned
    gate,     \* trustVerificationGates
    keys,     \* reserved submission keys: of jobs and of the template
    share,    \* shares in or past verification, in order of arrival
    asks,     \* hashes asked for outside a share's own verification
    expired,  \* the template is past its late-share window
    events,   \* bound on the environment's events (MaxEvents)
    suspects  \* history: shares queued while a check of their wallet failed

vars == <<sess, wal, gate, keys, share, asks, expired, events, suspects>>

Now == [sess |-> sess, wal |-> wal, gate |-> gate, keys |-> keys,
        share |-> share, asks |-> asks, events |-> events, suspects |-> suspects]

\* An event of the environment, counted against MaxEvents.
Event == [Now EXCEPT !.events = @ + 1]

Become(S) == \E T \in {S} :
    /\ T.events <= MaxEvents
    /\ sess' = T.sess /\ wal' = T.wal /\ gate' = T.gate /\ keys' = T.keys
    /\ share' = T.share /\ asks' = T.asks
    /\ events' = T.events /\ suspects' = T.suspects

Chains == {"main", "child"}

NewGate == [inFlight |-> 0, queue |-> <<>>, draining |-> FALSE, force |-> FALSE]

\* What tracks one share: walletVerificationStarted, the queue entry's
\* forceVerify argument, and the block submissions it caused.  `verified'
\* and `answer' are history for the properties.
NewShare(m, n, meets, data, kind) ==
    [m |-> m, n |-> n, meets |-> meets, data |-> data, kind |-> kind, stage |-> "new",
     mode |-> "slow", started |-> FALSE, forced |-> FALSE, fromQueue |-> FALSE,
     tries |-> 0, sub |-> [c \in Chains |-> "none"],
     verified |-> FALSE, answer |-> "none"]

\* The verified shares a wallet has on record at the start.
EarnedBy(w) == MapThenSumSet(LAMBDA m : Earned[m], {m \in Sessions : WalletOf[m] = w})

Init ==
    /\ sess = [m \in Sessions |->
                 [trust |-> Earned[m], check |-> FALSE, valid |-> Earned[m], invalid |-> 0,
                  seen |-> Earned[m] > 0, removed |-> FALSE]]
    /\ wal = [w \in Wallets |-> [trust |-> EarnedBy(w), rate |-> 0, pending |-> 0, banned |-> FALSE]]
    /\ gate = [w \in Wallets |-> NewGate]
    /\ keys = [job |-> {}, template |-> {}]
    /\ share = <<>>
    /\ asks = <<>>
    /\ expired = FALSE
    /\ events = 0
    /\ suspects = {}

W(S, s) == WalletOf[S.share[s].m]
SetStage(S, s, stage) == [S EXCEPT !.share[s].stage = stage]
HasGeneration(g) == g.queue # <<>> \/ g.draining

-----------------------------------------------------------------------------
(* Trust *)

\* clearWalletSessionTrust (live sessions of the wallet), the miner's own
\* trust and the wallet's trust go to zero together.
ClearTrust(S, m) ==
    [S EXCEPT !.sess = [k \in Sessions |->
                  IF k = m \/ (WalletOf[k] = WalletOf[m] /\ ~S.sess[k].removed)
                  THEN [S.sess[k] EXCEPT !.trust = 0] ELSE S.sess[k]],
              !.wal[WalletOf[m]].trust = 0]

\* isSafeToTrust: `lucky' is the one random draw, which decides only when
\* the session has some trust and one of the two thresholds is exceeded.
SafeToTrust(S, m, lucky) ==
    /\ lucky
    /\ S.sess[m].trust # 0
    /\ \/ S.wal[WalletOf[m]].trust >= WalletShares
       \/ S.sess[m].trust >= SessionShares

\* Variant: the wallet loses its trust, the queue keeps its own.
MarkFailedTrustOnly(S, m) == ClearTrust([S EXCEPT !.suspects = @ \cup ToSet(S.gate[WalletOf[m]].queue)], m)

\* A failed check invalidates the whole queued generation.
MarkFailed(S, m) ==
    LET w == WalletOf[m] IN
    ClearTrust([S EXCEPT !.gate[w].force = @ \/ HasGeneration(S.gate[w]),
                         !.suspects = @ \cup ToSet(S.gate[w].queue)], m)

AddWalletTrust(S, s) == [S EXCEPT !.wal[W(S, s)].trust = @ + 1]

-----------------------------------------------------------------------------
(* checkBan and the completion callback of the submit handler *)

RemoveSession(S, m) == [S EXCEPT !.sess[m].removed = TRUE]

\* miner.checkBan: a bad share before the first good one removes the session
\* at once; later the share of bad ones decides at every BanThreshold shares.
CheckBan(S, m, ok) ==
    LET c == [S.sess[m] EXCEPT !.valid = IF ok THEN @ + 1 ELSE @,
                               !.invalid = IF ok THEN @ ELSE @ + 1]
        total == c.valid + c.invalid
        T == [S EXCEPT !.sess[m] = c]
    IN IF ~ok /\ ~c.seen THEN RemoveSession(T, m)
       ELSE IF total < BanThreshold THEN T
       ELSE IF 100 * c.invalid >= BanPercent * total THEN RemoveSession(T, m)
       ELSE [T EXCEPT !.sess[m].valid = 0, !.sess[m].invalid = 0]

\* onShareProcessed of the shares `ids': the result is recorded, a throttled
\* share gives its keys back, a rejected one keeps the job's key and returns
\* the template's.
Settle(S, ids, result) ==
    [S EXCEPT
       !.keys.job = IF result = "null" THEN @ \ {<<S.share[s].m, S.share[s].n>> : s \in ids} ELSE @,
       !.keys.template = IF result = "true" THEN @ ELSE @ \ {S.share[s].n : s \in ids},
       !.share = [s \in DOMAIN S.share |->
                    IF s \in ids THEN [S.share[s] EXCEPT !.stage = "done", !.answer = result,
                                                   !.forced = FALSE, !.tries = 0]
                    ELSE S.share[s]]]

\* Variant: the reservation is released whatever the result.
AnswerReleasesKeys(S, s, result) ==
    LET m == S.share[s].m
        T == [S EXCEPT !.keys.job = @ \ {<<m, S.share[s].n>>},
                       !.keys.template = @ \ {S.share[s].n},
                       !.share[s] = [@ EXCEPT !.stage = "done", !.answer = result]]
        U == IF result = "null" THEN T ELSE CheckBan(T, m, result = "true")
    IN IF result = "true" THEN [U EXCEPT !.sess[m].trust = @ + 1] ELSE U

\* onShareProcessed, then handleShareProcessed for the session.
Answer(S, s, result) ==
    LET m == S.share[s].m
        T == Settle(S, {s}, result)
        U == IF result = "null" THEN T ELSE CheckBan(T, m, result = "true")
    IN IF S.sess[m].removed \/ result = "null" THEN U
       ELSE IF result = "true"
       THEN [U EXCEPT !.sess[m].trust = @ + 1, !.sess[m].check = FALSE,
                      !.sess[m].seen = TRUE]
       ELSE [U EXCEPT !.sess[m].trust = 0]

-----------------------------------------------------------------------------
(* The trust gate *)

\* dropTrustedQueue: the gate goes away and every waiting share is throttled.
DropQueue(S, w) ==
    Settle([S EXCEPT !.gate[w] = NewGate], ToSet(S.gate[w].queue), "null")

\* drainTrustedQueue: one queued share at a time, and only when no
\* verification of the wallet is running; setImmediate carries gate.forceVerify.
Drain(S, w) ==
    LET g == S.gate[w] IN
    IF g.inFlight # 0 \/ g.draining THEN S
    ELSE IF S.wal[w].banned THEN DropQueue(S, w)
    ELSE IF g.queue = <<>> THEN [S EXCEPT !.gate[w] = NewGate]
    ELSE [S EXCEPT !.gate[w].queue = Tail(@), !.gate[w].draining = TRUE,
                   !.share[Head(g.queue)].stage = "scheduled",
                   !.share[Head(g.queue)].forced = g.force,
                   !.share[Head(g.queue)].fromQueue = TRUE]

\* Variant: the last check of a wallet does not wake the queue.
FinishWithoutDrain(S, w) ==
    [S EXCEPT !.gate[w].inFlight = IF @ > 0 THEN @ - 1 ELSE 0]

\* finishTrustVerification
FinishVerification(S, w) ==
    Drain([S EXCEPT !.gate[w].inFlight = IF @ > 0 THEN @ - 1 ELSE 0], w)

\* onQueuedShareProcessed
QueuedDone(S, w) ==
    Drain([S EXCEPT !.gate[w].draining = FALSE,
                    !.gate[w].force = @ /\ S.gate[w].queue # <<>>], w)

\* Variant: a throttled share leaves the gate as it is.
FinishLeaksGate(S, s, result) ==
    LET V == Answer(IF S.share[s].started /\ result # "null"
                    THEN FinishVerification(S, W(S, s)) ELSE S, s, result)
    IN IF S.share[s].fromQueue THEN QueuedDone(V, W(S, s)) ELSE V

\* finishShareProcessing, the wrapper every path ends in.
Finish(S, s, result) ==
    LET w == W(S, s)
        x == S.share[s]
        failed == \/ x.started /\ result = "null"
                  \/ result = "false" /\ HasGeneration(S.gate[w])
        T == IF failed THEN MarkFailed(S, x.m) ELSE S
        U == IF x.started THEN FinishVerification(T, w) ELSE T
        V == Answer(U, s, result)
    IN IF x.fromQueue THEN QueuedDone(V, w) ELSE V

\* invalidShare, then the completion callback with false.
Invalid(S, s) == Finish(ClearTrust(S, S.share[s].m), s, "false")

-----------------------------------------------------------------------------
(* Verification *)

StartVerification(S, s) ==
    IF S.share[s].started THEN S
    ELSE [S EXCEPT !.share[s].started = TRUE, !.gate[W(S, s)].inFlight = @ + 1]

\* submitBlock: the first of at most two submissions.
SubmitTo(S, s, c) == [S EXCEPT !.share[s].sub[c] = "sent"]

\* submitUnverifiedCandidate
SubmitUnverified(S, s) ==
    SubmitTo([S EXCEPT !.share[s].mode = "unverified", !.share[s].stage = "submit"], s, "main")

\* What the three users of verifySlowHashWithRetry do without a hash.
NoHash(S, s) ==
    IF S.share[s].mode = "candidate" THEN SubmitUnverified(S, s)
    ELSE Finish(S, s, "null")

\* slowHashAsync: a wallet with too many tasks gets null at once.
AskHash(S, s) ==
    LET w == W(S, s)
        T == StartVerification(S, s)
    IN IF T.wal[w].pending > PendingLimit THEN NoHash(T, s)
       ELSE SetStage([T EXCEPT !.wal[w].pending = @ + 1], s, "wait")

\* verifySlowHashWithRetry
AskHashFor(S, s, mode) ==
    AskHash([S EXCEPT !.share[s].mode = mode, !.share[s].tries = 0], s)

\* enqueueTrustedShare
Enqueue(S, s) ==
    LET w == W(S, s) IN
    IF Len(S.gate[w].queue) >= QueueLimit THEN Finish(S, s, "null")
    ELSE SetStage([S EXCEPT !.gate[w].queue = Append(@, s)], s, "queued")

GateBusy(g) == g.inFlight # 0 \/ HasGeneration(g)

\* hasBlockSubmitTrust
HasSubmitTrust(S, m) == S.sess[m].valid # 0 \/ S.wal[WalletOf[m]].trust > 0

\* Variant: only the parent chain's block is looked at.
CompleteParentOnly(S, s, needCheck) ==
    LET T == IF needCheck /\ "main" \in S.share[s].meets THEN SubmitTo(S, s, "main") ELSE S
    IN IF "job" \in S.share[s].meets THEN Finish(T, s, "true") ELSE Invalid(T, s)

\* The callback of verifyShare: submit what is a block, refuse what is below
\* the job's difficulty, credit the rest (recordShareData).
Complete(S, s, needCheck) ==
    LET x == S.share[s]
        T == IF needCheck /\ "main" \in x.meets THEN SubmitTo(S, s, "main") ELSE S
        U == IF "child" \in x.meets THEN SubmitTo(T, s, "child") ELSE T
    IN IF "job" \in x.meets THEN Finish(U, s, "true") ELSE Invalid(U, s)

\* tryTrustedShare's conditions; block candidates never take the trusted path.
Trusted(S, s, lucky) ==
    LET x == S.share[s] IN
    /\ x.meets \cap Chains = {}
    /\ ~x.forced
    /\ SafeToTrust(S, x.m, lucky)
    /\ ~S.sess[x.m].check

MustQueue(S, s) == ~S.share[s].fromQueue /\ GateBusy(S.gate[W(S, s)])

(* The coins' verifySpecialShare; a share whose block cannot be built is
   refused by each of them. *)

\* verifyGrinShare, verifyXtmCShare: a cycle proof is checked at once.
VerifyCycle(S, s) ==
    IF S.share[s].data = "good" THEN Complete(S, s, TRUE) ELSE Invalid(S, s)

\* verifyEthShare, verifyErgShare: the real hash is always asked for.
VerifyEthash(S, s) == AskHashFor(S, s, "special")

\* verifyRavenShare: the quick hash refuses a share below the job's
\* difficulty; a trusted one is accepted without a delay.
VerifyKawpow(S, s, lucky) ==
    IF "job" \in S.share[s].meets /\ Trusted(S, s, lucky)
    THEN IF MustQueue(S, s) THEN Enqueue(S, s) ELSE Complete(S, s, TRUE)
    ELSE IF "job" \in S.share[s].meets THEN AskHashFor(S, s, "special")
    ELSE Complete(S, s, TRUE)

\* verifyPearlShare, for miners that send their claim with the proof.
VerifyPearl(S, s, lucky) ==
    IF "job" \notin S.share[s].meets THEN Invalid(S, s)
    ELSE IF ~Trusted(S, s, lucky) THEN AskHashFor(S, s, "special")
    ELSE IF MustQueue(S, s) THEN Enqueue(S, s)
    ELSE Complete(S, s, FALSE)

\* runSpecialShareVerifier
VerifySpecial(S, s, lucky) ==
    IF S.share[s].data = "broken" THEN Invalid(S, s)
    ELSE CASE S.share[s].kind = "cycle" -> VerifyCycle(S, s)
           [] S.share[s].kind = "ethash" -> VerifyEthash(S, s)
           [] S.share[s].kind = "kawpow" -> VerifyKawpow(S, s, lucky)
           [] S.share[s].kind = "pearl" -> VerifyPearl(S, s, lucky)

\* What submitBlock and verifyExtraWalletHash hash is the converted blob; Ethash,
\* Autolykos and Pearl submit something else, which they do not hash.
CanAsk(S, s) ==
    /\ S.share[s].kind \notin {"ethash", "pearl"}
    /\ S.wal[W(S, s)].pending <= PendingLimit

\* Something to do later for the submission to chain c of share s: `why' is
\* shouldNotifySubmitFailure ("notify"), the answer without a usable reply
\* ("report"), the mail about a refused block ("mail") or verifyExtraWalletHash
\* ("watch"); the task itself carries the wallet (miner_address).
Note(S, s, c, why, stage) ==
    [S EXCEPT !.asks = Append(@, [s |-> s, c |-> c, why |-> why, w |-> W(S, s), stage |-> stage])]

\* slowHashAsync once more, outside verifySlowHashWithRetry: never retried, and
\* counted against the wallet like any other task.
AskAlso(S, s, c, why) ==
    Note([S EXCEPT !.wal[W(S, s)].pending = @ + 1], s, c, why, "wait")

\* acceptTrustedShare
AcceptTrusted(S, s) ==
    SetStage(IF W(S, s) \in Watched /\ S.share[s].data # "broken" /\ CanAsk(S, s)
             THEN AskAlso(S, s, "main", "watch") ELSE S, s, "delay")

\* verifyShare: the coin's own verifier if it has one, else the trusted path,
\* then the candidate path, then the slow hash.
Verify(S, s, lucky) ==
    LET x == S.share[s]
    IN IF x.kind # "standard" THEN VerifySpecial(S, s, lucky)
       ELSE IF Trusted(S, s, lucky)
       THEN IF MustQueue(S, s) THEN Enqueue(S, s) ELSE AcceptTrusted(S, s)
       ELSE IF x.data = "broken" THEN Invalid(S, s)
       ELSE IF "main" \in x.meets /\ HasSubmitTrust(S, x.m)
       THEN SubmitTo([StartVerification(S, s) EXCEPT !.share[s].mode = "trusted",
                                                     !.share[s].stage = "submit"], s, "main")
       ELSE AskHashFor(S, s, IF "main" \in x.meets THEN "candidate" ELSE "slow")

\* onVerifiedCandidate, onVerifiedFailedSubmit, verifySlowShare's success, and
\* the special verifiers', of which only Pearl's adds to the wallet's trust.
Verified(S, s) ==
    LET x == S.share[s]
        T == [S EXCEPT !.share[s].verified = TRUE]
    IN Complete(IF x.kind \in {"kawpow", "ethash"} THEN T ELSE AddWalletTrust(T, s),
                s, x.mode \in {"candidate", "special"})

-----------------------------------------------------------------------------
(* Actions *)

\* processShare's rate limit: beyond it a share is throttled unseen, a block
\* candidate too.
ProcessShare(S, s, lucky) ==
    LET T == [S EXCEPT !.wal[W(S, s)].rate = @ + 1]
    IN IF T.wal[W(S, s)].rate > RateLimit THEN Finish(T, s, "null")
       ELSE Verify(T, s, lucky)

Reserved(m, n) ==
    \/ <<m, n>> \in keys.job
    \/ SharedNonces /\ n \in keys.template

\* handleSubmitRequest for a key that is free: reserve it for the job and
\* the template, then process.
Submit(m, n, meets, data, kind, lucky) ==
    LET s == Len(share) + 1 IN
    /\ ~sess[m].removed
    /\ ~expired
    /\ ~Reserved(m, n)
    /\ s <= MaxShares
    /\ Become(ProcessShare(
           [Now EXCEPT !.keys.job = @ \cup {<<m, n>>},
                       !.keys.template = IF SharedNonces THEN @ \cup {n} ELSE @,
                       !.share = Append(@, NewShare(m, n, meets, data, kind))], s, lucky))
    /\ UNCHANGED expired

\* rejectBadShare: malformed, expired or duplicate submissions count as bad
\* shares but never reach verification.
SubmitRefused(m, n) ==
    /\ ~sess[m].removed
    /\ expired \/ Reserved(m, n)
    /\ Become(CheckBan(Event, m, FALSE))
    /\ UNCHANGED expired

\* entry.run, from setImmediate
RunQueued(s, lucky) ==
    /\ share[s].stage = "scheduled"
    /\ Become(Verify(Now, s, lucky))
    /\ UNCHANGED expired

\* acceptTrustedShare's timer: a trusted share is answered as late as a
\* verified one would be.
TrustedDelayEnds(s) ==
    /\ share[s].stage = "delay"
    /\ Become(Complete(Now, s, TRUE))
    /\ UNCHANGED expired

\* verifyShareRemote takes the task from its queue.
HashStarts(s) ==
    /\ share[s].stage = "wait"
    /\ Become(SetStage([Now EXCEPT !.wal[W(Now, s)].pending = @ - 1], s, "hash"))
    /\ UNCHANGED expired

\* checkQueue: a task older than a minute is removed with null.
HashExpires(s) ==
    /\ share[s].stage = "wait"
    /\ Become(NoHash([Now EXCEPT !.wal[W(Now, s)].pending = @ - 1], s))
    /\ UNCHANGED expired

\* The verifier's timeout answers null.
HashTimesOut(s) ==
    /\ share[s].stage = "hash"
    /\ Become(NoHash(Now, s))
    /\ UNCHANGED expired

\* verifySlowHashWithRetry asks again after a socket or JSON error; the
\* Ethash, Autolykos and Pearl verifiers ask once.
Retried(kind) == kind \in {"standard", "kawpow"}

\* A socket or JSON error is retried after a pause, then treated as null.
HashHostFails(s) ==
    /\ share[s].stage = "hash"
    /\ Become(IF Retried(share[s].kind) /\ share[s].tries < VerifyRetries
              THEN SetStage([Now EXCEPT !.share[s].tries = @ + 1], s, "pause")
              ELSE NoHash(Now, s))
    /\ UNCHANGED expired

HashRetries(s) ==
    /\ share[s].stage = "pause"
    /\ Become(AskHash(Now, s))
    /\ UNCHANGED expired

\* The verifier's hash arrives and is compared with the claimed one.
HashArrives(s) ==
    /\ share[s].stage = "hash"
    /\ Become(IF share[s].data = "good" THEN Verified(Now, s) ELSE Invalid(Now, s))
    /\ UNCHANGED expired

\* Variant: a trusted miner's failed submission is credited all the same.
SubmitOutcomeUnchecked(S, s, c, ok) ==
    IF S.share[s].stage # "submit" \/ c # "main" THEN S
    ELSE Complete(S, s, FALSE)

\* What a caller of submitBlock does with its outcome; the submissions of
\* verified candidates and child blocks have no caller waiting.
SubmitOutcome(S, s, c, ok) ==
    LET x == S.share[s] IN
    IF x.stage # "submit" \/ c # "main" THEN S
    ELSE IF ok THEN Complete(AddWalletTrust(S, s), s, FALSE)
    ELSE IF x.mode = "trusted" THEN AskHashFor(S, s, "failedSubmit")
    ELSE Finish(S, s, "null")

InFlight == {"sent", "resent"}

\* The daemon took the block: it is stored, unless its hash cannot be
\* resolved, and then it is dropped with a mail to the admin.
BlockAccepted(s, c) ==
    /\ share[s].sub[c] \in InFlight
    /\ share[s].data = "good"
    /\ \E end \in {"stored", "dropped"} :
         Become(SubmitOutcome([Now EXCEPT !.share[s].sub[c] = end], s, c, TRUE))
    /\ UNCHANGED expired

\* resetShareTrust, then the caller.
SubmitFails(S, s, c) == SubmitOutcome(ClearTrust(S, S.share[s].m), s, c, FALSE)

\* An error reply.  Monero (the coin "") is retried once.  Otherwise the wallet
\* loses its trust and the caller learns of the failure: at once, with a mail
\* to follow, unless the block of a trusted miner went to the parent chain;
\* its hash is awaited first.
BlockRefused(s, c) ==
    /\ share[s].sub[c] \in InFlight
    /\ LET x == share[s]
           T == [Now EXCEPT !.share[s].sub[c] = "failed"]
       IN \/ /\ x.kind = "standard" /\ c = "main" /\ x.sub[c] = "sent"
             /\ Become([Now EXCEPT !.share[s].sub[c] = "retry"])
          \/ Become(IF c # "main" \/ x.mode # "trusted"
                    THEN SubmitFails(Note(T, s, c, "mail", "timer"), s, c)
                    ELSE IF CanAsk(T, s) THEN AskAlso(T, s, c, "notify")
                    ELSE SubmitFails(T, s, c))
    /\ UNCHANGED expired

\* No usable reply, whatever the daemon did: retried once on any chain, then
\* the caller learns of it once the hash for the mail is there.
BlockReplyLost(s, c) ==
    /\ share[s].sub[c] \in InFlight
    /\ LET T == [Now EXCEPT !.share[s].sub[c] = "failed"]
       IN Become(IF share[s].sub[c] = "sent" THEN [Now EXCEPT !.share[s].sub[c] = "retry"]
                 ELSE IF CanAsk(T, s) THEN AskAlso(T, s, c, "report")
                 ELSE SubmitOutcome(T, s, c, FALSE))
    /\ UNCHANGED expired

\* retrySubmit
BlockResent(s, c) ==
    /\ share[s].sub[c] = "retry"
    /\ Become([Now EXCEPT !.share[s].sub[c] = "resent"])
    /\ UNCHANGED expired

\* The callback of a task of AskAlso.  Only a hash that matches the claimed one
\* is worth a mail about the refused block (sendSubmitFailureEmail, in 2 s).
AskEnds(S, i, match) ==
    LET k == S.asks[i]
        T == [S EXCEPT !.asks[i].why = "mail",
                       !.asks[i].stage = IF k.why = "notify" /\ match THEN "timer" ELSE "done"]
    IN CASE k.why = "notify" -> SubmitFails(T, k.s, k.c)
         [] k.why = "report" -> SubmitOutcome(T, k.s, k.c, FALSE)
         [] OTHER -> T

\* The task's place in its wallet's count is given back.
Taken(i) == [Now EXCEPT !.wal[asks[i].w].pending = @ - 1]

\* verifyShareRemote takes the task from its queue.
AskStarts(i) ==
    /\ asks[i].stage = "wait"
    /\ Become([Taken(i) EXCEPT !.asks[i].stage = "hash"])
    /\ UNCHANGED expired

\* checkQueue
AskExpires(i) ==
    /\ asks[i].stage = "wait"
    /\ Become(AskEnds(Taken(i), i, FALSE))
    /\ UNCHANGED expired

\* The hash, an error or the timeout's null.
AskAnswered(i) ==
    /\ asks[i].stage = "hash"
    /\ \E match \in {FALSE, share[asks[i].s].data = "good"} : Become(AskEnds(Now, i, match))
    /\ UNCHANGED expired

\* sendSubmitFailureEmail's timer: if the chain's header has been fetched and
\* the block would still be the next one, one more hash for the mail's text.
MailDue(i) ==
    /\ asks[i].stage = "timer"
    /\ \/ Become([Now EXCEPT !.asks[i].stage = "done"])
       \/ /\ CanAsk(Now, asks[i].s)
          /\ Become([Now EXCEPT !.wal[asks[i].w].pending = @ + 1, !.asks[i].stage = "wait"])
    /\ UNCHANGED expired

\* The socket closes (removeMiner); shares in verification go on.
Disconnect(m) ==
    /\ ~sess[m].removed
    /\ Become(RemoveSession(Event, m))
    /\ UNCHANGED expired

\* A ban of the wallet reaches this worker (banIP message, ban list, or the
\* proxy limit); sessions are evicted by other code.
BanWallet(w) ==
    /\ ~wal[w].banned
    /\ Become([Event EXCEPT !.wal[w].banned = TRUE])
    /\ UNCHANGED expired

\* resetVerifiedShareWindow
ResetWindow ==
    /\ \E w \in Wallets : wal[w].rate # 0
    /\ Become([Event EXCEPT !.wal = [w \in Wallets |-> [wal[w] EXCEPT !.rate = 0]]])
    /\ UNCHANGED expired

\* notifySameCoinMiners with a new height: the next share of every trusted
\* session must be verified.
CheckNextShare ==
    /\ \E m \in Sessions : ~sess[m].removed /\ ~sess[m].check
    /\ Become([Event EXCEPT !.sess = [m \in Sessions |->
                   [sess[m] EXCEPT !.check = @ \/ ~sess[m].removed]]])
    /\ UNCHANGED expired

\* The template has been replaced for longer than targetTime.
TemplateExpires ==
    /\ ~expired
    /\ expired' = TRUE
    /\ Become(Event)

Ids == DOMAIN share

Environment ==
    \/ \E m \in Sessions : Disconnect(m) \/ \E n \in Nonces : SubmitRefused(m, n)
    \/ \E m \in Sessions, n \in Nonces, meets \in Claims, data \in Data, lucky \in BOOLEAN :
         \E kind \in KindsOf[m] : Submit(m, n, meets, data, kind, lucky)
    \/ \E w \in Wallets : BanWallet(w)
    \/ ResetWindow \/ CheckNextShare \/ TemplateExpires

\* The steps that follow from what is already under way.
Progress(s) ==
    \/ \E lucky \in BOOLEAN : RunQueued(s, lucky)
    \/ TrustedDelayEnds(s)
    \/ HashStarts(s) \/ HashExpires(s)
    \/ HashTimesOut(s) \/ HashHostFails(s) \/ HashRetries(s) \/ HashArrives(s)
    \/ \E c \in Chains : BlockAccepted(s, c) \/ BlockRefused(s, c)
                         \/ BlockReplyLost(s, c) \/ BlockResent(s, c)

AlsoProgress(i) == AskStarts(i) \/ AskExpires(i) \/ AskAnswered(i) \/ MailDue(i)

Advance ==
    \/ \E s \in Ids : Progress(s)
    \/ \E i \in DOMAIN asks : AlsoProgress(i)

Next == Environment \/ Advance

\* Timers fire, verifier tasks time out after a minute and RPC calls end with
\* a reply or an error, so as long as something is under way, some of it moves
\* on; no share is assumed to be served before another.
Fairness == WF_vars(Advance)

Spec == Init /\ [][Next]_vars
FairSpec == Spec /\ Fairness

-----------------------------------------------------------------------------
(* Properties *)

TypeOK ==
    /\ \A m \in Sessions : sess[m].trust \in Nat /\ sess[m].removed \in BOOLEAN
    /\ \A w \in Wallets : {wal[w].trust, wal[w].rate, wal[w].pending} \subseteq Nat
    /\ \A w \in Wallets : gate[w].queue \in Seq(Ids) /\ gate[w].inFlight \in Nat
    /\ keys.job \subseteq Sessions \X Nonces /\ keys.template \subseteq Nonces
    /\ \A s \in Ids : share[s].stage \in {"queued", "scheduled", "delay", "wait", "hash",
                                          "pause", "submit", "done"}
    /\ \A i \in DOMAIN asks : /\ asks[i].s \in Ids /\ asks[i].w = W(Now, asks[i].s)
                               /\ asks[i].stage \in {"wait", "hash", "timer", "done"}

Active(w) == {s \in Ids : share[s].stage # "done" /\ WalletOf[share[s].m] = w}

AsksWaiting(w) == {i \in DOMAIN asks : asks[i].stage = "wait" /\ asks[i].w = w}

\* The counters that hold shares back (gate.inFlight, gate.draining,
\* miner_address_verify) are exactly the work under way, through every early
\* return, retry, throttle and failed submission, and with the hashes that a
\* refused block or a watched wallet asks for besides: one that is too high
\* would queue the wallet's trusted shares for ever, one too low would let a
\* queued share be trusted beside an unfinished check.  A queued share always
\* has something running that will drain the queue.
CountersMatchWork ==
    \A w \in Wallets :
        /\ gate[w].inFlight = Cardinality({s \in Active(w) : share[s].started})
        /\ wal[w].pending = Cardinality({s \in Active(w) : share[s].stage = "wait"})
                              + Cardinality(AsksWaiting(w))
        /\ Cardinality({s \in Active(w) : share[s].fromQueue})
             = (IF gate[w].draining THEN 1 ELSE 0)
        /\ ToSet(gate[w].queue) = {s \in Active(w) : share[s].stage = "queued"}
        /\ gate[w].queue # <<>> => gate[w].inFlight # 0 \/ gate[w].draining

Credited == {s \in Ids : share[s].answer = "true"}

\* "A failed check invalidates the whole queued generation": a share that was
\* waiting in the trust queue when a check of its wallet failed is credited
\* only after its own hash was verified.
SuspectsAreChecked ==
    \A s \in Credited \cap suspects : share[s].verified

\* A submission key is credited at most once for a job, and at most once for
\* a template on coins that share nonces, although a throttled share gives
\* its reservation back while other shares are still in verification.
CreditedOnce ==
    \A s, t \in Credited :
        s # t /\ share[s].n = share[t].n =>
            /\ share[s].m # share[t].m
            /\ ~SharedNonces

\* A share that is credited and reaches a chain's difficulty has been sent to
\* that chain's daemon: neither the trusted path nor a shortcut after a
\* failed submission swallows a found block.
CreditedBlockIsSubmitted ==
    \A s \in Credited : \A c \in share[s].meets \cap Chains : share[s].sub[c] # "none"

\* Fake work is credited only by the trust lottery: never through the block
\* paths that submit first and verify later, nor while the verifier is down.
FakeOnlyByTrust ==
    \A s \in Credited : share[s].data # "good" =>
        ~share[s].started /\ share[s].meets \cap Chains = {}

\* Nothing of the share is under way any more; it stays so.
Settled(s) ==
    /\ share[s].stage = "done"
    /\ \A c \in Chains : share[s].sub[c] \in {"none", "stored", "dropped", "failed"}
    /\ \A i \in DOMAIN asks : asks[i].s = s => asks[i].stage = "done"

\* Every share that enters verification is answered, and every block submission
\* and everything it still asks for comes to an end: no gate, queue or retry
\* holds one for ever.
EventuallySettled == []<>(\A s \in Ids : Settled(s))
=============================================================================
