----------------------------- MODULE PoolSessions -----------------------------
(***************************************************************************)
(* The connections and miner sessions of one pool worker: sockets, TLS     *)
(* hand-over, connection limits and final replies (pool/servers.js), login *)
(* and the other requests (pool/protocol.js, pool/miners.js), the registry *)
(* with its worker counts and ban audit (pool/miner_registry.js), and the  *)
(* ban messages that go round through the master (pool/messages.js).       *)
(*                                                                         *)
(* A connection is a slot that is used again after its close event; it     *)
(* carries at most one miner, because every removal also ends the socket.  *)
(* Timers are flags whose firing is an action.  Time, rate-limit buckets   *)
(* and request contents appear as choices: any request may be refused, any *)
(* share may be good, bad or too frequent.                                 *)
(***************************************************************************)
EXTENDS Naturals, Sequences, FiniteSets, SequencesExt, FiniteSetsExt, Functions

CONSTANTS
    Conns,          \* connection slots (four-tuples)
    Ips,            \* remote addresses
    Loopback,       \* the addresses that are never banned
    SubnetOf,       \* [Ips -> subnets], getSubnet24
    Wallets,        \* payout addresses with their splits
    Nobody,         \* no connection, no address, no wallet
    MaxPerIp,       \* maxConnectionsPerIP
    MaxPerSubnet,   \* maxConnectionsPerSubnet
    MaxDelayed,     \* MAX_DELAYED_FINAL_SOCKETS
    WorkerMax,      \* pool.workerMax
    ProxyWorkerMax, \* pool.proxyWorkerMax
    ExtraNonces,    \* how many eth extranonce ids this worker owns
    Agents,         \* of "plain", "proxy" and "node" (xmr-node-proxy)
    AuditBatchSize, \* BANNED_MINER_AUDIT_BATCH_SIZE
    MaxEvents       \* bound: errors, bad requests and bans of the environment

ASSUME PoolSessionsAssumption ==
    /\ IsFiniteSet(Conns) /\ Nobody \notin Conns \cup Wallets \cup Ips
    /\ Loopback \subseteq Ips /\ Ips \cap Wallets = {} /\ DOMAIN SubnetOf = Ips
    /\ Agents \subseteq {"plain", "proxy", "node"}
    /\ {MaxPerIp, MaxPerSubnet, MaxDelayed, WorkerMax, ProxyWorkerMax,
        ExtraNonces, AuditBatchSize, MaxEvents} \subseteq Nat
    /\ AuditBatchSize > 0 /\ ProxyWorkerMax > 0

VARIABLES
    con,      \* per slot: the socket, its timers, its extranonce ids
    who,      \* per slot: the miner that logged in on it
    older,    \* the order of activeMiners: per slot the sessions before its own
    byIp,     \* activeConnectionsByIP
    bySubnet, \* activeConnectionsBySubnet
    delayed,  \* delayedFinalSocketsByIP
    free,     \* freeEthExtranonces
    direct,   \* minerWallets[..].count, 0 when absent
    proxy,    \* proxyMiners[..].count, 0 when absent
    bans,     \* bannedTmpIPs, bannedTmpWallets, bannedBigTmpWallets, bannedAddresses
    mail,     \* banIP messages on their way through the master, as what they ban
    audit,    \* the ban audit: remaining, and the miners its iterator passed;
              \* `must' is history: the banned sessions it has to evict
    events    \* bound on the environment's events (MaxEvents)

vars == <<con, who, older, byIp, bySubnet, delayed, free, direct, proxy, bans, mail, audit, events>>

Now == [con |-> con, who |-> who, older |-> older, byIp |-> byIp,
        bySubnet |-> bySubnet, delayed |-> delayed, free |-> free,
        direct |-> direct, proxy |-> proxy, bans |-> bans, mail |-> mail,
        audit |-> audit, events |-> events]

\* An event of the environment, counted against MaxEvents.
Event == [Now EXCEPT !.events = @ + 1]

Become(S) == \E T \in {S} :
    /\ T.events <= MaxEvents /\ events' = T.events
    /\ con' = T.con /\ who' = T.who /\ older' = T.older
    /\ byIp' = T.byIp /\ bySubnet' = T.bySubnet /\ delayed' = T.delayed
    /\ free' = T.free /\ direct' = T.direct /\ proxy' = T.proxy
    /\ bans' = T.bans /\ mail' = T.mail /\ audit' = T.audit

NoAudit == [left |-> 0, passed |-> {}, must |-> {}]

NoMiner == [w |-> Nobody, agent |-> "plain", live |-> FALSE, proxied |-> FALSE, seen |-> FALSE]

\* st: "raw" in the TLS handshake, "open", "ended" (end() was called, the peer
\* has not answered), "destroyed" (the close event is pending).  `held' is the
\* reservation's active flag, `mid' that socket.miner_id is set, `silent' a
\* peer that vanished without closing.
NoSocket == [st |-> "free", ip |-> Nobody, held |-> FALSE, fin |-> FALSE, auth |-> FALSE,
             first |-> FALSE, final |-> "none", mid |-> FALSE, xid |-> 0, prev |-> 0,
             silent |-> FALSE]

Init ==
    /\ con = [c \in Conns |-> NoSocket]
    /\ who = [c \in Conns |-> NoMiner]
    /\ older = [c \in Conns |-> {}]
    /\ byIp = [i \in Ips |-> 0]
    /\ bySubnet = [n \in Range(SubnetOf) |-> 0]
    /\ delayed = [i \in Ips |-> Nobody]
    /\ free = [k \in 1..ExtraNonces |-> k]
    /\ direct = [w \in Wallets |-> 0]
    /\ proxy = [w \in Wallets |-> 0]
    /\ bans = [ip |-> {}, wallet |-> {}, big |-> {}, address |-> {}]
    /\ mail = {}
    /\ audit = NoAudit
    /\ events = 0

-----------------------------------------------------------------------------
(* Connections (pool/servers.js) *)

Minus(n, k) == IF n > k THEN n - k ELSE 0

\* The socket of slot c becomes k.
Put(S, c, k) == [S EXCEPT !.con[c] = k]

\* Variant: the reservation forgets that it was released.
ReleaseAgain(S, c) ==
    LET i == S.con[c].ip IN
    [S EXCEPT !.byIp[i] = Minus(@, 1), !.bySubnet[SubnetOf[i]] = Minus(@, 1)]

\* reservation.release
Release(S, c) ==
    IF ~S.con[c].held THEN S
    ELSE LET i == S.con[c].ip IN
         [Put(S, c, [S.con[c] EXCEPT !.held = FALSE])
            EXCEPT !.byIp[i] = Minus(@, 1), !.bySubnet[SubnetOf[i]] = Minus(@, 1)]

ClearDelayed(S, c) ==
    [S EXCEPT !.delayed[S.con[c].ip] = IF @ = c THEN Nobody ELSE @]

ClearTimers(k) == [k EXCEPT !.auth = FALSE, !.first = FALSE, !.final = "none"]

Destroyed(k) == [k EXCEPT !.st = "destroyed", !.silent = FALSE]
Destroy(S, c) == Put(S, c, Destroyed(S.con[c]))

\* registerDelayedFinalSocket: one delayed reply per address.
CanDelay(S, c) ==
    LET old == S.delayed[S.con[c].ip] IN
    IF old = Nobody THEN Cardinality({i \in Ips : S.delayed[i] # Nobody}) < MaxDelayed
    ELSE old = c \/ S.con[old].st # "open"

\* finishReply: the socket is ended with a deadline.
FinishReply(S, c) ==
    LET k == S.con[c] IN
    Put(ClearDelayed(S, c), c,
        IF k.st # "open" THEN [k EXCEPT !.final = "none"]
        ELSE [k EXCEPT !.final = "deadline", !.st = "ended"])

\* sendReplyFinal, with or without the reconnect delay.
Final(S, c, delay) ==
    IF S.con[c].st # "open" \/ S.con[c].fin THEN S
    ELSE LET k == [ClearTimers(S.con[c]) EXCEPT !.fin = TRUE] IN
         IF ~delay THEN FinishReply(Put(S, c, k), c)
         ELSE IF CanDelay(S, c)
         THEN [Put(S, c, [k EXCEPT !.final = "delay"]) EXCEPT !.delayed[k.ip] = c]
         ELSE Put(S, c, Destroyed(k))

\* reserveConnection, then either the TLS handshake or socketConn.
Accept(c, i, tls) ==
    LET n == SubnetOf[i] IN
    /\ con[c].st = "free"
    /\ i \notin bans.ip
    /\ byIp[i] < MaxPerIp /\ bySubnet[n] < MaxPerSubnet
    /\ Become(LET k == [NoSocket EXCEPT !.st = IF tls THEN "raw" ELSE "open",
                                        !.ip = i, !.held = TRUE, !.auth = ~tls]
              IN  [Put(Now, c, k) EXCEPT !.byIp[i] = @ + 1, !.bySubnet[n] = @ + 1])

\* takeTlsReservation and socketConn on the secure socket.
TlsDone(c) ==
    /\ con[c].st = "raw" /\ ~con[c].silent
    /\ Become(Put(Now, c, [con[c] EXCEPT !.st = "open", !.auth = TRUE]))

\* tlsClientError: a failed handshake, or handshakeTimeout.
TlsFails(c) ==
    /\ con[c].st = "raw"
    /\ Become(Destroy(Release(Now, c), c))

-----------------------------------------------------------------------------
(* The registry (pool/miner_registry.js) *)

Live(S) == {c \in Conns : S.who[c].live}

\* destroyMinerSocket
MinerSocketClosed(k, force) ==
    LET t == [k EXCEPT !.mid = FALSE, !.auth = FALSE, !.first = FALSE] IN
    IF k.st = "open" /\ ~force THEN [t EXCEPT !.st = "ended", !.fin = TRUE] ELSE Destroyed(t)

\* removeMiner without its socket, of each miner in C: both counts of the
\* payout go down, whichever of them the miner was registered in.
ForgetMiners(S, C) ==
    LET gone(w) == {c \in C : S.who[c].w = w}
        proxies(w) == {c \in gone(w) : S.who[c].proxied}
    IN  [S EXCEPT !.proxy = [w \in Wallets |-> Minus(S.proxy[w], Cardinality(proxies(w)))],
                  !.direct = [w \in Wallets |-> Minus(S.direct[w], Cardinality(gone(w)))],
                  !.older = [d \in Conns |-> IF d \in C THEN {} ELSE S.older[d] \ C],
                  !.who = [d \in Conns |-> IF d \in C THEN [S.who[d] EXCEPT !.live = FALSE] ELSE S.who[d]],
                  !.audit.must = @ \ C]

CloseSockets(S, C, force) ==
    [S EXCEPT !.con = [d \in Conns |-> IF d \in C THEN MinerSocketClosed(S.con[d], force) ELSE S.con[d]]]

\* removeMiner of each live miner in C; `how' is "keep" (destroySocket:
\* false), "end" or "destroy".
RemoveMiners(S, C, how) ==
    LET L == C \cap Live(S) IN
    IF how = "keep" THEN ForgetMiners(S, L)
    ELSE CloseSockets(ForgetMiners(S, L), L, how = "destroy")

RemoveMiner(S, c, how) == RemoveMiners(S, {c}, how)

\* addProxyMiner: the result is whether the miner may stay.
AddProxy(S, c) ==
    LET w == S.who[c].w
        T == [S EXCEPT !.who[c].proxied = TRUE]
    IN  IF S.who[c].proxied /\ S.proxy[w] > 0 THEN [ok |-> TRUE, S |-> S]
        ELSE IF S.proxy[w] < ProxyWorkerMax \/ S.proxy[w] = 0
        THEN [ok |-> TRUE, S |-> [T EXCEPT !.proxy[w] = @ + 1]]
        ELSE [ok |-> FALSE, S |-> RemoveMiners([T EXCEPT !.bans.big = @ \cup {w}],
                                             {d \in Live(S) : S.who[d].w = w}, "end")]

-----------------------------------------------------------------------------
(* Requests (pool/protocol.js) *)

\* A request is handled only on a socket that is not finalizing.
CanAsk(c) == con[c].st = "open" /\ ~con[c].fin /\ ~con[c].silent

\* sendIpBan
BanIp(S, c) ==
    LET i == S.con[c].ip IN
    IF i \in Loopback THEN S ELSE [S EXCEPT !.mail = @ \cup {i}]

\* claimEthExtranonceId: the id announced by subscribe, or a new one.
Claim(S, c) ==
    IF S.con[c].xid # 0 THEN S
    ELSE IF S.con[c].prev # 0 THEN Put(S, c, [S.con[c] EXCEPT !.xid = S.con[c].prev, !.prev = 0])
    ELSE IF S.free = <<>> THEN S
    ELSE [Put(S, c, [S.con[c] EXCEPT !.xid = Last(S.free)]) EXCEPT !.free = Front(@)]

\* handleSubscribeRequest
Subscribe(c) ==
    /\ CanAsk(c)
    /\ con[c].xid = 0 /\ con[c].prev = 0
    /\ Become(IF free = <<>> THEN Final(Now, c, FALSE)
              ELSE [Put(Now, c, [con[c] EXCEPT !.prev = Last(free)]) EXCEPT !.free = Front(@)])

\* A native miner is switched to a coin that needs an extranonce.
SwitchToExtranonceCoin(c) ==
    /\ con[c].st = "open" /\ who[c].live
    /\ con[c].xid = 0 /\ free # <<>>
    /\ Become(Claim(Now, c))

\* Variant: the worker is counted before the limit is checked.
RegisterDirectEarly(S, c) ==
    LET w == S.who[c].w
        T == [S EXCEPT !.direct[w] = @ + 1]
    IN  IF S.direct[w] = 0 \/ S.direct[w] < WorkerMax THEN [ok |-> TRUE, S |-> T]
        ELSE [ok |-> FALSE, S |-> [T EXCEPT !.bans.big = @ \cup {w}]]

RegisterDirect(S, c) ==
    LET w == S.who[c].w IN
    IF S.direct[w] = 0 \/ S.direct[w] < WorkerMax
    THEN [ok |-> TRUE, S |-> [S EXCEPT !.direct[w] = @ + 1]]
    ELSE [ok |-> FALSE, S |-> [S EXCEPT !.bans.big = @ \cup {w}]]

\* registerMinerWallet
Register(S, c) ==
    LET w == S.who[c].w IN
    CASE S.who[c].agent = "node" -> [ok |-> TRUE, S |-> S]
      [] S.who[c].agent = "proxy" \/ (S.who[c].agent = "plain" /\ S.proxy[w] > 0) -> AddProxy(S, c)
      [] OTHER -> RegisterDirect(S, c)

\* addActiveMiner
AddActiveMiner(S, c) ==
    [S EXCEPT !.who[c].live = TRUE, !.older[c] = Live(S), !.audit.passed = @ \ {c}]

\* Variant: the deadline of the first share is not scheduled.
FinishLoginNoTimer(S, c, job) ==
    AddActiveMiner(Put(S, c, [S.con[c] EXCEPT !.mid = TRUE, !.auth = FALSE]), c)

\* finishLogin, and sendLoginJob, which ends the session again when there is
\* no template for its algorithms.
FinishLogin(S, c, job) ==
    LET T == AddActiveMiner(Put(S, c, [S.con[c] EXCEPT !.mid = TRUE, !.auth = FALSE, !.first = TRUE]), c)
    IN  IF job THEN T ELSE Final(T, c, FALSE)

\* createMiner's checks of the payout address and rejectInvalidMiner.
Refusal(S, c, w) ==
    CASE w \in S.bans.address -> Final(S, c, TRUE)
      [] w \notin S.bans.address /\ w \in S.bans.wallet -> Final(S, c, FALSE)
      [] OTHER -> Final(BanIp(S, c), c, TRUE)

\* handleLoginRequest, from login or mining.authorize (which claims an
\* extranonce before the miner is looked at); a login without a job for the
\* miner's algorithms is one of the counted events.
Login(c, w, agent, authorize, job) ==
    /\ CanAsk(c) /\ ~who[c].live
    /\ Become(
        LET N == IF job THEN Now ELSE Event
            S == IF authorize THEN Claim(N, c) ELSE N
            R == Register([S EXCEPT !.who[c] = [NoMiner EXCEPT !.w = w, !.agent = agent]], c)
        IN  IF con[c].ip \in bans.ip THEN Final(N, c, FALSE)
            ELSE IF w \in bans.address \cup bans.wallet \cup bans.big THEN Refusal(S, c, w)
            ELSE IF authorize /\ S.con[c].xid = 0 THEN Final(S, c, FALSE)
            ELSE IF R.ok THEN FinishLogin(R.S, c, job)
            ELSE Final(BanIp([R.S EXCEPT !.who[c] = NoMiner], c), c, TRUE))

\* "No double login is allowed"
DoubleLogin(c) ==
    /\ CanAsk(c) /\ who[c].live
    /\ Become(Final(IF con[c].ip \in bans.ip THEN Event ELSE BanIp(Event, c), c, FALSE))

\* A login without params or login name.
EmptyLogin(c) ==
    /\ CanAsk(c)
    /\ Become(Final(IF con[c].ip \in bans.ip THEN Event ELSE BanIp(Event, c), c, FALSE))

\* Every other request answered with sendReplyFinal: rate limits, bad login
\* formats, notifications, unauthenticated and unknown methods.
RefuseRequest(c) ==
    /\ CanAsk(c)
    /\ Become(Final(Event, c, FALSE))

\* The protocol error limit, an oversized or unparsable packet, a full large
\* frame buffer: the socket is destroyed.
BadPacket(c) ==
    /\ CanAsk(c)
    /\ Become(Destroy(Event, c))

\* writeSocketPayload fails on a reply or a job push.
WriteFails(c) ==
    /\ con[c].st = "open" /\ ~con[c].fin
    /\ Become(Put(ClearDelayed(Event, c), c, Destroyed([ClearTimers(con[c]) EXCEPT !.fin = TRUE])))

\* closeSocketAfterReply
CloseAfterReply(S, c) == Put(S, c, [S.con[c] EXCEPT !.fin = TRUE, !.st = "ended"])

\* rejectInvalidSubmitJob at its limit.
TooManyInvalidJobs(c) ==
    /\ CanAsk(c) /\ who[c].live /\ ~who[c].seen
    /\ Become(CloseAfterReply(RemoveMiner(Event, c, "keep"), c))

\* An accepted share: touchValidShare.
GoodShare(c) ==
    /\ CanAsk(c) /\ who[c].live
    /\ Become([Put(Now, c, [con[c] EXCEPT !.first = FALSE]) EXCEPT !.who[c].seen = TRUE])

\* A bad share that checkBan answers with a ban.
BadShare(c) ==
    /\ CanAsk(c) /\ who[c].live
    /\ Become(CloseAfterReply(RemoveMiner([Event EXCEPT
                  !.mail = @ \cup {IF con[c].ip \in Loopback THEN who[c].w ELSE con[c].ip}],
                  c, "keep"), c))

\* processShare over the wallet's rate limit: the session becomes a proxy's.
ThrottledShare(c) ==
    /\ CanAsk(c) /\ who[c].live
    /\ direct[who[c].w] > 0
    /\ Become(AddProxy(Event, c).S)

-----------------------------------------------------------------------------
(* Timers, closing, bans, the alive check and the audit *)

AuthTimeout(c) ==
    /\ con[c].auth
    /\ Become(LET k == [con[c] EXCEPT !.auth = FALSE] IN
              Put(Now, c, IF con[c].mid THEN k ELSE Destroyed(k)))

FirstShareTimeout(c) ==
    /\ con[c].first
    /\ Become(LET S == Put(Now, c, [con[c] EXCEPT !.first = FALSE]) IN
              IF who[c].seen THEN S ELSE RemoveMiner(S, c, "end"))

FinalDelayEnds(c) ==
    /\ con[c].final = "delay"
    /\ Become(FinishReply(Now, c))

\* The final reply was flushed, or its deadline passed.
FinalEnds(c) ==
    /\ con[c].final = "deadline"
    /\ Become(Put(Now, c, Destroyed([con[c] EXCEPT !.final = "none"])))

PeerVanishes(c) ==
    /\ con[c].st \in {"raw", "open"} /\ ~con[c].silent
    /\ Become(Put(Event, c, [con[c] EXCEPT !.silent = TRUE]))

\* The peer closes, or sends data on a finalizing socket.
PeerCloses(c) ==
    /\ con[c].st \in {"raw", "open", "ended"} /\ ~con[c].silent
    /\ Become(Destroy(Now, c))

\* The kernel gives up on the unacknowledged end of a vanished peer.
KernelGivesUp(c) ==
    /\ con[c].st = "ended" /\ con[c].silent
    /\ Become(Destroy(Now, c))

GiveBack(S, c) ==
    IF S.con[c].xid # 0 THEN [S EXCEPT !.free = Append(@, S.con[c].xid)]
    ELSE IF S.con[c].prev # 0 THEN [S EXCEPT !.free = Append(@, S.con[c].prev)]
    ELSE S

\* onClose
Close(c) ==
    /\ con[c].st = "destroyed"
    /\ Become(LET S == Release(Put(ClearDelayed(Now, c), c, ClearTimers(con[c])), c)
                  T == IF con[c].mid THEN RemoveMiner(S, c, "keep") ELSE S
              IN  [Put(GiveBack(T, c), c, NoSocket) EXCEPT !.who[c] = NoMiner])

\* The banIP message comes back from the master: it bans the address, or the
\* wallet of a miner on the loopback address.
BanArrives(m) ==
    /\ m \in mail
    /\ Become([Now EXCEPT !.mail = @ \ {m},
                 !.bans.ip = @ \cup ({m} \cap Ips),
                 !.bans.wallet = @ \cup ({m} \cap Wallets)])

ShortBansEnd ==
    /\ bans.ip # {} \/ bans.wallet # {}
    /\ Become([Now EXCEPT !.bans.ip = {}, !.bans.wallet = {}])

LongBansEnd ==
    /\ bans.big # {}
    /\ Become([Now EXCEPT !.bans.big = {}])

\* addBans
ReloadBans(B) ==
    /\ B # bans.address
    /\ Become([Event EXCEPT !.bans.address = B,
                 !.audit.must = {c \in @ : who[c].w \in B}])

\* maybeStartBannedMinerAudit
StartAudit(S) ==
    IF S.audit.left > 0 \/ Live(S) = {} THEN S
    ELSE [S EXCEPT !.audit = [left |-> Cardinality(Live(S)), passed |-> {},
                              must |-> {c \in Live(S) : S.who[c].w \in S.bans.address}]]

\* checkAliveMiners: T are the sessions past a deadline, `due' that the next
\* audit is due.
CheckAlive(T, due) ==
    LET S == RemoveMiners(Now, T, "end") IN
    Become(IF due THEN StartAudit(S) ELSE S)

\* The next n of the Map iterator, which skips removed entries and reaches
\* those added meanwhile.
Unvisited(S) == Live(S) \ S.audit.passed
NextMiners(S, n) == {c \in Unvisited(S) : Cardinality(S.older[c] \ S.audit.passed) < n}

\* Variant: the audit looks at one miner less.
InBatchShort(S) == NextMiners(S, Min({Minus(S.audit.left, 1), AuditBatchSize}))

\* The miners that a turn of runBatch looks at.
InBatch(S) == NextMiners(S, Min({S.audit.left, AuditBatchSize}))

\* runBatch
AuditBatch ==
    LET left == IF Cardinality(Unvisited(Now)) < AuditBatchSize THEN 0
                ELSE Minus(audit.left, AuditBatchSize)
        S == [Now EXCEPT !.audit.left = left,
                         !.audit.passed = IF left = 0 THEN {} ELSE @ \cup InBatch(Now)]
    IN  /\ audit.left > 0
        /\ Become(RemoveMiners(S, {c \in InBatch(Now) : who[c].w \in bans.address}, "destroy"))

-----------------------------------------------------------------------------
Request(c) ==
    \/ Subscribe(c) \/ SwitchToExtranonceCoin(c)
    \/ \E w \in Wallets, agent \in Agents, authorize \in BOOLEAN, job \in BOOLEAN :
         Login(c, w, agent, authorize, job)
    \/ DoubleLogin(c) \/ EmptyLogin(c) \/ RefuseRequest(c) \/ BadPacket(c) \/ WriteFails(c)
    \/ TooManyInvalidJobs(c) \/ GoodShare(c) \/ BadShare(c) \/ ThrottledShare(c)

\* What ends a connection without help from its peer.
Ending(c) ==
    \/ TlsFails(c) \/ AuthTimeout(c) \/ FirstShareTimeout(c)
    \/ FinalDelayEnds(c) \/ FinalEnds(c) \/ KernelGivesUp(c) \/ Close(c)

Next ==
    \/ \E c \in Conns :
         \/ Request(c) \/ Ending(c) \/ TlsDone(c) \/ PeerVanishes(c) \/ PeerCloses(c)
         \/ \E i \in Ips, tls \in BOOLEAN : Accept(c, i, tls)
    \/ \E m \in mail : BanArrives(m)
    \/ ShortBansEnd \/ LongBansEnd
    \/ \E B \in SUBSET Wallets : ReloadBans(B)
    \/ \E T \in SUBSET {c \in Conns : who[c].live}, due \in BOOLEAN : CheckAlive(T, due)
    \/ AuditBatch

Spec == Init /\ [][Next]_vars

-----------------------------------------------------------------------------
(* Properties *)

TypeOK ==
    /\ \A c \in Conns :
         /\ con[c].st \in {"free", "raw", "open", "ended", "destroyed"}
         /\ con[c].final \in {"none", "delay", "deadline"}
         /\ {con[c].xid, con[c].prev} \subseteq 0..ExtraNonces
         /\ who[c].w \in Wallets \cup {Nobody}
    /\ \A c \in Conns : older[c] \subseteq Conns
    /\ free \in Seq(1..ExtraNonces)
    /\ \A i \in Ips : byIp[i] \in Nat /\ delayed[i] \in Conns \cup {Nobody}
    /\ \A w \in Wallets : {direct[w], proxy[w]} \subseteq Nat
    /\ bans.ip \subseteq Ips \ Loopback
    /\ audit.left \in Nat /\ events \in 0..MaxEvents

Open == {c \in Conns : con[c].st # "free"}
Holding(k) == {c \in Open : k \in {con[c].xid, con[c].prev}}
HeldIn(n) == {c \in Open : con[c].held /\ SubnetOf[con[c].ip] = n}

\* What a socket takes is given back exactly once, however it ends (TLS error,
\* timeout, final reply, ban, peer): the connection counts are the open
\* reservations, an extranonce id is either free once or held by one socket
\* that is not both announced and claimed elsewhere, a delayed final reply
\* belongs to an open socket of that address, and a registered miner has a
\* socket that knows it.
ResourcesMatchSockets ==
    /\ \A i \in Ips : byIp[i] = Cardinality({c \in Open : con[c].held /\ con[c].ip = i})
    /\ \A n \in Range(SubnetOf) : bySubnet[n] = Cardinality(HeldIn(n))
    /\ \A c \in Open : con[c].held \/ con[c].st = "destroyed"
    /\ \A k \in 1..ExtraNonces :
         Cardinality(Holding(k)) + Cardinality({j \in DOMAIN free : free[j] = k}) = 1
    /\ \A i \in Ips : delayed[i] # Nobody => con[delayed[i]].ip = i
    /\ \A c \in Live(Now) : con[c].st # "free" /\ con[c].mid

LiveDirect(w) == {c \in Conns : who[c].live /\ who[c].w = w /\ who[c].agent = "plain"}

\* The worker counts never drift up ("the count would drift up and eventually
\* reject legitimate miners"): a proxy's count is exactly its sessions, and a
\* wallet's count is at most its sessions.
WorkerCountsDoNotDriftUp ==
    \A w \in Wallets :
        /\ proxy[w] = Cardinality({c \in Conns : who[c].live /\ who[c].w = w /\ who[c].proxied})
        /\ direct[w] <= Cardinality(LiveDirect(w))

\* A session that was on the ban list when an audit started is gone when the
\* audit is over (or the ban is), although sessions come and go while the
\* audit walks over the registry in batches.
AuditMissesNobody == audit.must # {} => audit.left > 0

\* No connection can stay for good without delivering shares: an open socket
\* has a pending timer unless its miner has had a valid share, and a socket of
\* a miner that was removed, or that got its final reply, is being closed.
EveryoneIsOnAClock ==
    \A c \in Conns : con[c].st = "open" =>
        \/ con[c].auth \/ con[c].first \/ con[c].final = "delay"
        \/ who[c].live /\ who[c].seen /\ ~con[c].fin
=============================================================================
