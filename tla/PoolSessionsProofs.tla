-------------------------- MODULE PoolSessionsProofs --------------------------
(***************************************************************************)
(* Theorems about PoolSessions for any number of connections, addresses    *)
(* and wallets and any limits.                                             *)
(*                                                                         *)
(* The actions are compositions of operators on the record of all          *)
(* variables.  In between a socket may be without a clock, a registered    *)
(* session may not be live yet and a wallet may have one session more than *)
(* it counts; `Loose' is the invariant with these exceptions as            *)
(* parameters, each operator has a lemma that says which it makes and      *)
(* which it ends, and `Good' is `Loose' with none left.                    *)
(***************************************************************************)
EXTENDS PoolSessions, FiniteSetTheorems, SequenceTheorems, TLAPS

Stages == {"free", "raw", "open", "ended", "destroyed"}
SocketRecs ==
    [st : Stages, ip : Ips \cup {Nobody}, held : BOOLEAN, fin : BOOLEAN, auth : BOOLEAN,
     first : BOOLEAN, final : {"none", "delay", "deadline"}, mid : BOOLEAN,
     xid : 0..ExtraNonces, prev : 0..ExtraNonces, silent : BOOLEAN]
MinerRecs ==
    [w : Wallets \cup {Nobody}, agent : {"plain", "proxy", "node"}, live : BOOLEAN,
     proxied : BOOLEAN, seen : BOOLEAN]
BanRecs ==
    [ip : SUBSET (Ips \ Loopback), wallet : SUBSET Wallets, big : SUBSET Wallets,
     address : SUBSET Wallets]
AuditRecs == [left : Nat, passed : SUBSET Conns, must : SUBSET Conns]
Subnets == Range(SubnetOf)

State ==
    [con : [Conns -> SocketRecs], who : [Conns -> MinerRecs], older : [Conns -> SUBSET Conns],
     byIp : [Ips -> Nat], bySubnet : [Subnets -> Nat], delayed : [Ips -> Conns \cup {Nobody}],
     free : Seq(1..ExtraNonces), direct : [Wallets -> Nat], proxy : [Wallets -> Nat],
     bans : BanRecs, mail : SUBSET ((Ips \ Loopback) \cup Wallets), audit : AuditRecs,
     events : Nat]

\* A socket k and its miner m.
SlotOK(k, m) ==
    /\ k.st = "free" => k = NoSocket /\ m = NoMiner
    /\ k.st # "free" => k.ip \in Ips
    /\ k.held \/ k.st \in {"free", "destroyed"}
    /\ k.xid = 0 \/ k.prev = 0
    /\ m.live => k.mid /\ m.w \in Wallets
    /\ k.mid => ~k.auth
    /\ k.st = "raw" => ~k.mid /\ ~k.fin /\ ~k.first

\* What keeps an open socket on a clock.
ClockOK(k, m) ==
    k.st = "open" =>
        /\ k.auth \/ k.first \/ k.final = "delay" \/ (m.live /\ m.seen /\ ~k.fin)
        /\ k.fin => k.final = "delay"
        /\ k.first => m.live
        /\ m.live /\ ~k.fin => k.first \/ m.seen

\* The connection counts.
HeldBy(f, i) == {c \in Conns : f[c].held /\ f[c].ip = i}
HeldBySubnet(f, n) == {c \in Conns : f[c].held /\ SubnetOf[f[c].ip] = n}
SeatsOK(f, byIp_, bySubnet_) ==
    /\ \A i \in Ips : byIp_[i] = Cardinality(HeldBy(f, i))
    /\ \A n \in Subnets : bySubnet_[n] = Cardinality(HeldBySubnet(f, n))

\* The extranonce ids.
Ids(k) == {k.xid, k.prev} \ {0}
IdsOK(f, q) ==
    /\ \A i, j \in 1..Len(q) : q[i] = q[j] => i = j
    /\ \A c \in Conns : \A n \in Ids(f[c]) :
         /\ \A d \in Conns : n \in Ids(f[d]) => d = c
         /\ \A j \in 1..Len(q) : q[j] # n
    /\ \A n \in 1..ExtraNonces :
         (\E c \in Conns : n \in Ids(f[c])) \/ (\E j \in 1..Len(q) : q[j] = n)

DelayedOK(f, g) == \A i \in Ips : g[i] # Nobody => f[g[i]].ip = i

\* The worker counts.  The sessions in R are registered and not live yet; the
\* proxy count of a wallet in Z may be too low.
Proxied(m, R, w) == {c \in Conns : (m[c].live \/ c \in R) /\ m[c].w = w /\ m[c].proxied}
Plain(m, R, w) == {c \in Conns : (m[c].live \/ c \in R) /\ m[c].w = w /\ m[c].agent = "plain"}
WorkersOK(m, dc, pc, R, Z) ==
    \A w \in Wallets :
        /\ dc[w] <= Cardinality(Plain(m, R, w))
        /\ IF w \in Z THEN pc[w] <= Cardinality(Proxied(m, R, w))
           ELSE pc[w] = Cardinality(Proxied(m, R, w))

\* activeMiners is ordered.
OrderOK(m, o) ==
    \A c \in Conns :
        /\ ~m[c].live => o[c] = {}
        /\ \A d \in o[c] : m[d].live /\ d # c /\ o[d] \subseteq o[c]
        /\ \A d \in Conns : m[c].live /\ m[d].live /\ d # c => c \in o[d] \/ d \in o[c]

\* What the audit has to evict is still ahead of its iterator.
AuditOK(m, o, a, banned) ==
    \A c \in a.must :
        /\ m[c].live /\ m[c].w \in banned /\ c \notin a.passed
        /\ Cardinality(o[c] \ a.passed) < a.left

\* The invariant while the sockets in X may be without a clock.
Loose(S, X, R, Z) ==
    /\ S \in State
    /\ \A c \in Conns : SlotOK(S.con[c], S.who[c])
    /\ \A c \in Conns \ X : ClockOK(S.con[c], S.who[c])
    /\ SeatsOK(S.con, S.byIp, S.bySubnet)
    /\ IdsOK(S.con, S.free)
    /\ DelayedOK(S.con, S.delayed)
    /\ WorkersOK(S.who, S.direct, S.proxy, R, Z)
    /\ OrderOK(S.who, S.older)
    /\ AuditOK(S.who, S.older, S.audit, S.bans.address)

Good(S) == Loose(S, {}, {}, {})
IInv == Good(Now)
-----------------------------------------------------------------------------
(* Records of all variables *)

LEMMA Fields ==
    ASSUME NEW S \in State
    PROVE  /\ S.con \in [Conns -> SocketRecs] /\ S.who \in [Conns -> MinerRecs]
           /\ S.older \in [Conns -> SUBSET Conns] /\ S.byIp \in [Ips -> Nat]
           /\ S.bySubnet \in [Subnets -> Nat] /\ S.delayed \in [Ips -> Conns \cup {Nobody}]
           /\ S.free \in Seq(1..ExtraNonces) /\ S.direct \in [Wallets -> Nat]
           /\ S.proxy \in [Wallets -> Nat] /\ S.bans \in BanRecs
           /\ S.mail \subseteq (Ips \ Loopback) \cup Wallets /\ S.audit \in AuditRecs
           /\ S.events \in Nat
  BY Zenon DEF State

LEMMA NowFields ==
    /\ Now.con = con /\ Now.who = who /\ Now.older = older /\ Now.byIp = byIp
    /\ Now.bySubnet = bySubnet /\ Now.delayed = delayed /\ Now.free = free
    /\ Now.direct = direct /\ Now.proxy = proxy /\ Now.bans = bans /\ Now.mail = mail
    /\ Now.audit = audit /\ Now.events = events
  BY Zenon DEF Now

LEMMA BecomeIs ==
    ASSUME NEW S \in State, Become(S)
    PROVE  Now' = S
  <1>1. Now' = [con |-> S.con, who |-> S.who, older |-> S.older, byIp |-> S.byIp,
                bySubnet |-> S.bySubnet, delayed |-> S.delayed, free |-> S.free,
                direct |-> S.direct, proxy |-> S.proxy, bans |-> S.bans, mail |-> S.mail,
                audit |-> S.audit, events |-> S.events]
    BY Zenon DEF Become, Now
  <1> QED BY <1>1, Zenon DEF State

LEMMA Constants ==
    /\ IsFiniteSet(Conns) /\ Nobody \notin Conns /\ Nobody \notin Wallets /\ Nobody \notin Ips
    /\ \A i \in Ips : SubnetOf[i] \in Subnets
    /\ AuditBatchSize \in Nat /\ AuditBatchSize > 0 /\ ExtraNonces \in Nat
  BY PoolSessionsAssumption DEF Subnets, Range

\* The parts of a state that the sockets do not show.
SameMiners(S, T) ==
    /\ T.who = S.who /\ T.older = S.older /\ T.direct = S.direct /\ T.proxy = S.proxy
    /\ T.bans = S.bans /\ T.audit = S.audit
SameSeats(S, T) == T.byIp = S.byIp /\ T.bySubnet = S.bySubnet

LEMMA PutIs ==
    ASSUME NEW S \in State, NEW c \in Conns, NEW k \in SocketRecs
    PROVE  /\ Put(S, c, k) \in State
           /\ Put(S, c, k).con = [S.con EXCEPT ![c] = k]
           /\ SameMiners(S, Put(S, c, k)) /\ SameSeats(S, Put(S, c, k))
           /\ Put(S, c, k).free = S.free /\ Put(S, c, k).delayed = S.delayed
           /\ Put(S, c, k).mail = S.mail /\ Put(S, c, k).events = S.events
  <1> DEFINE M == [S.con EXCEPT ![c] = k]
  <1>1. M \in [Conns -> SocketRecs]
    BY Fields
  <1>2. Put(S, c, k) = [S EXCEPT !.con = M]
    BY Zenon DEF Put
  <1> HIDE DEF M
  <1>3. Put(S, c, k) \in State
    BY <1>1, <1>2, Zenon DEF State
  <1>4. /\ Put(S, c, k).con = M
        /\ Put(S, c, k).who = S.who /\ Put(S, c, k).older = S.older
        /\ Put(S, c, k).direct = S.direct /\ Put(S, c, k).proxy = S.proxy
        /\ Put(S, c, k).bans = S.bans /\ Put(S, c, k).audit = S.audit
        /\ Put(S, c, k).byIp = S.byIp /\ Put(S, c, k).bySubnet = S.bySubnet
        /\ Put(S, c, k).free = S.free /\ Put(S, c, k).delayed = S.delayed
        /\ Put(S, c, k).mail = S.mail /\ Put(S, c, k).events = S.events
    BY <1>2, Zenon DEF State
  <1> QED BY <1>3, <1>4, Zenon DEF SameMiners, SameSeats, M

LEMMA PutAt ==
    ASSUME NEW S \in State, NEW c \in Conns, NEW k \in SocketRecs
    PROVE  /\ Put(S, c, k).con[c] = k
           /\ \A d \in Conns : d # c => Put(S, c, k).con[d] = S.con[d]
  <1>1. S.con \in [Conns -> SocketRecs]
    BY Fields
  <1>2. Put(S, c, k).con = [S.con EXCEPT ![c] = k]
    BY PutIs
  <1> QED BY <1>1, <1>2

-----------------------------------------------------------------------------
(* Steps of one socket *)

\* f is g but for slot c.
Elsewhere(f, g, c) == \A d \in Conns : d # c => f[d] = g[d]

\* What a socket holds on to.
Kept(k, l) == l.ip = k.ip /\ l.held = k.held /\ l.xid = k.xid /\ l.prev = k.prev

AllKept(g, f) == \A d \in Conns : Kept(g[d], f[d])

LEMMA KeptConnections ==
    ASSUME NEW f, NEW g, AllKept(g, f)
    PROVE  /\ \A i \in Ips : HeldBy(f, i) = HeldBy(g, i)
           /\ \A n \in Subnets : HeldBySubnet(f, n) = HeldBySubnet(g, n)
           /\ \A d \in Conns : f[d].ip = g[d].ip /\ Ids(f[d]) = Ids(g[d])
  BY DEF AllKept, Kept, HeldBy, HeldBySubnet, Ids

LEMMA ResourcesKept ==
    ASSUME NEW f, NEW g, AllKept(g, f), NEW x, NEW y, SeatsOK(g, x, y), NEW q, IdsOK(g, q),
           NEW r \in [Ips -> Conns \cup {Nobody}], DelayedOK(g, r)
    PROVE  SeatsOK(f, x, y) /\ IdsOK(f, q) /\ DelayedOK(f, r)
  <1>1. SeatsOK(f, x, y)
    BY KeptConnections DEF SeatsOK
  <1>2. \A d \in Conns : f[d].ip = g[d].ip /\ Ids(f[d]) = Ids(g[d])
    BY KeptConnections
  <1>3. IdsOK(f, q)
    BY <1>2 DEF IdsOK
  <1>4. DelayedOK(f, r)
    BY <1>2 DEF DelayedOK
  <1> QED BY <1>1, <1>3, <1>4

\* A socket that keeps what it holds, with or without a clock.
LEMMA PutKeeps ==
    ASSUME NEW S, NEW X, NEW R, NEW Z, Loose(S, X, R, Z), NEW c \in Conns, NEW k \in SocketRecs,
           Kept(S.con[c], k), SlotOK(k, S.who[c]),
           NEW Y, \A d \in Conns : d # c /\ d \notin Y => d \notin X,
           c \notin Y => ClockOK(k, S.who[c])
    PROVE  Loose(Put(S, c, k), Y, R, Z)
  <1> DEFINE T == Put(S, c, k)
  <1>1. S \in State
    BY DEF Loose
  <1>2. /\ T \in State /\ T.con = [S.con EXCEPT ![c] = k]
        /\ SameMiners(S, T) /\ SameSeats(S, T) /\ T.free = S.free /\ T.delayed = S.delayed
    BY <1>1, PutIs
  <1>3. T.con[c] = k /\ Elsewhere(T.con, S.con, c)
    BY <1>1, <1>2, Fields DEF Elsewhere
  <1>4. S.delayed \in [Ips -> Conns \cup {Nobody}]
    BY <1>1, Fields
  <1> HIDE DEF T
  <1>50. AllKept(S.con, T.con)
    BY <1>3 DEF Elsewhere, AllKept, Kept
  <1>5. /\ SeatsOK(T.con, T.byIp, T.bySubnet) /\ IdsOK(T.con, T.free)
        /\ DelayedOK(T.con, T.delayed)
    BY <1>2, <1>50, <1>4, ResourcesKept DEF Loose, SameSeats
  <1>6. /\ WorkersOK(T.who, T.direct, T.proxy, R, Z) /\ OrderOK(T.who, T.older)
        /\ AuditOK(T.who, T.older, T.audit, T.bans.address)
    BY <1>2, Zenon DEF SameMiners, Loose
  <1>7. /\ \A d \in Conns : SlotOK(T.con[d], T.who[d])
        /\ \A d \in Conns \ Y : ClockOK(T.con[d], T.who[d])
    BY <1>2, <1>3 DEF SameMiners, Loose, Elsewhere
  <1> QED BY <1>2, <1>5, <1>6, <1>7 DEF Loose, T

LEMMA SlotTyped ==
    ASSUME NEW S, NEW X, NEW R, NEW Z, Loose(S, X, R, Z), NEW c \in Conns
    PROVE  /\ S \in State /\ S.con[c] \in SocketRecs /\ S.who[c] \in MinerRecs
           /\ SlotOK(S.con[c], S.who[c])
           /\ c \notin X => ClockOK(S.con[c], S.who[c])
  BY Fields DEF Loose

\* Fewer exceptions are fine where the clock runs.
LEMMA LooseWider ==
    ASSUME NEW S, NEW X, NEW R, NEW Z, Loose(S, X, R, Z), NEW Y,
           \A c \in Conns : c \notin Y => c \notin X \/ ClockOK(S.con[c], S.who[c])
    PROVE  Loose(S, Y, R, Z)
  BY DEF Loose

LEMMA DestroyedIs ==
    ASSUME NEW k \in SocketRecs, NEW m, SlotOK(k, m), k.st # "free"
    PROVE  /\ Destroyed(k) \in SocketRecs /\ Kept(k, Destroyed(k))
           /\ SlotOK(Destroyed(k), m) /\ ClockOK(Destroyed(k), m)
  <1> DEFINE l == Destroyed(k)
  <1>1. l \in SocketRecs /\ Kept(k, l) /\ l.st = "destroyed" /\ l.mid = k.mid /\ l.auth = k.auth
    BY DEF Destroyed, SocketRecs, Stages, Kept
  <1> HIDE DEF l
  <1>2. SlotOK(l, m) /\ ClockOK(l, m)
    BY <1>1 DEF SlotOK, ClockOK, Kept
  <1> QED BY <1>1, <1>2 DEF l

LEMMA DestroyKeeps ==
    ASSUME NEW S, NEW X, NEW R, NEW Z, Loose(S, X, R, Z), NEW c \in Conns, S.con[c].st # "free"
    PROVE  Loose(Destroy(S, c), X \ {c}, R, Z)
  <1>1. /\ Destroyed(S.con[c]) \in SocketRecs /\ Kept(S.con[c], Destroyed(S.con[c]))
        /\ SlotOK(Destroyed(S.con[c]), S.who[c]) /\ ClockOK(Destroyed(S.con[c]), S.who[c])
    BY SlotTyped, DestroyedIs
  <1> QED BY <1>1, PutKeeps DEF Destroy

LEMMA DelayedUpdate ==
    ASSUME NEW S, NEW X, NEW R, NEW Z, Loose(S, X, R, Z),
           NEW g \in [Ips -> Conns \cup {Nobody}], DelayedOK(S.con, g)
    PROVE  /\ Loose([S EXCEPT !.delayed = g], X, R, Z)
           /\ [S EXCEPT !.delayed = g].con = S.con
           /\ SameMiners(S, [S EXCEPT !.delayed = g]) /\ SameSeats(S, [S EXCEPT !.delayed = g])
           /\ [S EXCEPT !.delayed = g].free = S.free /\ [S EXCEPT !.delayed = g].delayed = g
  <1> DEFINE T == [S EXCEPT !.delayed = g]
  <1>1. S \in State
    BY DEF Loose
  <1>2. T \in State
    BY <1>1, Zenon DEF State
  <1>3. /\ T.con = S.con /\ T.who = S.who /\ T.older = S.older /\ T.byIp = S.byIp
        /\ T.bySubnet = S.bySubnet /\ T.delayed = g /\ T.free = S.free /\ T.direct = S.direct
        /\ T.proxy = S.proxy /\ T.bans = S.bans /\ T.audit = S.audit
    BY <1>1, Zenon DEF State
  <1> HIDE DEF T
  <1>4. Loose(T, X, R, Z)
    BY <1>2, <1>3, Zenon DEF Loose
  <1> QED BY <1>3, <1>4, Zenon DEF SameMiners, SameSeats, T

LEMMA ClearDelayedKeeps ==
    ASSUME NEW S, NEW X, NEW R, NEW Z, Loose(S, X, R, Z), NEW c \in Conns, S.con[c].st # "free"
    PROVE  /\ Loose(ClearDelayed(S, c), X, R, Z) /\ ClearDelayed(S, c).con = S.con
           /\ SameMiners(S, ClearDelayed(S, c)) /\ SameSeats(S, ClearDelayed(S, c))
           /\ ClearDelayed(S, c).free = S.free
           /\ \A i \in Ips : ClearDelayed(S, c).delayed[i] # c
  <1> DEFINE i == S.con[c].ip
             v == IF S.delayed[i] = c THEN Nobody ELSE S.delayed[i]
             g == [S.delayed EXCEPT ![i] = v]
  <1>1. S \in State /\ i \in Ips /\ S.delayed \in [Ips -> Conns \cup {Nobody}] /\ DelayedOK(S.con, S.delayed)
    BY SlotTyped, Fields DEF SlotOK, Loose
  <1>2. c # Nobody
    BY Constants
  <1>3. \A j \in Ips : S.delayed[j] = c => j = i
    BY <1>1, <1>2 DEF DelayedOK
  <1> HIDE DEF i
  <1>4. /\ g \in [Ips -> Conns \cup {Nobody}] /\ \A j \in Ips : g[j] # c
        /\ \A j \in Ips : g[j] # Nobody => g[j] = S.delayed[j]
    BY <1>1, <1>2, <1>3
  <1>5. ClearDelayed(S, c) = [S EXCEPT !.delayed = g]
    BY Zenon DEF ClearDelayed, i
  <1> HIDE DEF g
  <1>6. DelayedOK(S.con, g)
    BY <1>1, <1>4 DEF DelayedOK
  <1> QED BY <1>4, <1>5, <1>6, DelayedUpdate

\* finishReply takes a socket off the open ones.
LEMMA FinishReplyKeeps ==
    ASSUME NEW S, NEW X, NEW R, NEW Z, Loose(S, X, R, Z), NEW c \in Conns, S.con[c].st # "free"
    PROVE  Loose(FinishReply(S, c), X \ {c}, R, Z)
  <1> DEFINE k == S.con[c]
             l == IF k.st # "open" THEN [k EXCEPT !.final = "none"]
                  ELSE [k EXCEPT !.final = "deadline", !.st = "ended"]
             T == ClearDelayed(S, c)
  <1>1. Loose(T, X, R, Z) /\ T.con[c] = k /\ T.who[c] = S.who[c]
    BY ClearDelayedKeeps DEF SameMiners
  <1>2. k \in SocketRecs /\ SlotOK(k, S.who[c])
    BY SlotTyped
  <1>3. /\ l \in SocketRecs /\ Kept(k, l) /\ l.st # "open" /\ l.st # "free" /\ l.mid = k.mid
        /\ l.auth = k.auth /\ l.fin = k.fin /\ l.first = k.first
        /\ l.st = k.st \/ (k.st = "open" /\ l.st = "ended")
    BY <1>2 DEF SocketRecs, Stages, Kept
  <1>4. FinishReply(S, c) = Put(T, c, l)
    BY DEF FinishReply
  <1> HIDE DEF l, k, T
  <1>5. SlotOK(l, S.who[c]) /\ ClockOK(l, S.who[c])
    BY <1>2, <1>3 DEF SlotOK, ClockOK, Kept
  <1> QED BY <1>1, <1>3, <1>4, <1>5, PutKeeps

\* sendReplyFinal
LEMMA FinalKeeps ==
    ASSUME NEW S, NEW X, NEW R, NEW Z, Loose(S, X, R, Z), NEW c \in Conns, NEW delay \in BOOLEAN
    PROVE  Loose(Final(S, c, delay), X, R, Z)
  <1> DEFINE k == [ClearTimers(S.con[c]) EXCEPT !.fin = TRUE]
             l == [k EXCEPT !.final = "delay"]
  <1>1. CASE S.con[c].st # "open" \/ S.con[c].fin
    BY <1>1 DEF Final
  <1>2. CASE ~(S.con[c].st # "open" \/ S.con[c].fin)
    <2>1. S \in State /\ S.con[c] \in SocketRecs /\ SlotOK(S.con[c], S.who[c]) /\ S.con[c].ip \in Ips
      BY <1>2, SlotTyped DEF SlotOK
    <2>2. /\ k \in SocketRecs /\ Kept(S.con[c], k) /\ k.st = "open" /\ k.mid = S.con[c].mid
          /\ ~k.auth /\ ~k.first /\ k.fin
      BY <1>2, <2>1 DEF ClearTimers, SocketRecs, Stages, Kept
    <2>3. /\ l \in SocketRecs /\ Kept(k, l) /\ l.st = "open" /\ l.mid = k.mid
          /\ ~l.auth /\ ~l.first /\ l.fin /\ l.final = "delay"
      BY <2>2 DEF SocketRecs, Stages, Kept
    <2>4. Final(S, c, delay) =
            IF ~delay THEN FinishReply(Put(S, c, k), c)
            ELSE IF CanDelay(S, c) THEN [Put(S, c, l) EXCEPT !.delayed[k.ip] = c]
            ELSE Put(S, c, Destroyed(k))
      BY <1>2 DEF Final
    <2> HIDE DEF k, l
    <2>5. SlotOK(k, S.who[c]) /\ SlotOK(l, S.who[c]) /\ ClockOK(l, S.who[c])
      <3>1. SlotOK(k, S.who[c])
        BY <1>2, <2>1, <2>2 DEF SlotOK, Kept
      <3>2. SlotOK(l, S.who[c])
        BY <2>2, <2>3, <3>1 DEF SlotOK, Kept
      <3> QED BY <2>3, <3>1, <3>2 DEF ClockOK
    <2>6. Kept(S.con[c], l)
      BY <2>2, <2>3 DEF Kept
    <2>7. CASE ~delay
      <3>1. Loose(Put(S, c, k), X \cup {c}, R, Z)
        BY <2>2, <2>5, PutKeeps
      <3>2. Put(S, c, k).con[c] = k
        BY <2>1, <2>2, PutAt
      <3>3. Loose(FinishReply(Put(S, c, k), c), (X \cup {c}) \ {c}, R, Z)
        BY <2>2, <3>1, <3>2, FinishReplyKeeps
      <3> QED BY <2>4, <2>7, <3>3, LooseWider
    <2>8. CASE delay /\ CanDelay(S, c)
      <3> DEFINE T == Put(S, c, l)
                 g == [S.delayed EXCEPT ![k.ip] = c]
      <3>1. Loose(T, X, R, Z)
        BY <2>3, <2>5, <2>6, PutKeeps
      <3>2. T.con = [S.con EXCEPT ![c] = l] /\ T.delayed = S.delayed /\ T \in State
        BY <2>1, <2>3, PutIs
      <3>3. Final(S, c, delay) = [T EXCEPT !.delayed = g]
        <4>1. Final(S, c, delay) = [T EXCEPT !.delayed[k.ip] = c]
          BY <2>4, <2>8
        <4> HIDE DEF T
        <4> QED BY <3>2, <4>1, Zenon
      <3> HIDE DEF T
      <3>4. k.ip \in Ips /\ T.con[c].ip = k.ip /\ S.delayed \in [Ips -> Conns \cup {Nobody}]
        BY <2>1, <2>2, <2>3, <3>2, Fields DEF Kept
      <3>5. g \in [Ips -> Conns \cup {Nobody}] /\ g[k.ip] = c
            /\ \A i \in Ips : i # k.ip => g[i] = T.delayed[i]
        BY <3>2, <3>4
      <3> HIDE DEF g
      <3>6. DelayedOK(T.con, g)
        BY <3>1, <3>4, <3>5 DEF DelayedOK, Loose
      <3> QED BY <3>1, <3>3, <3>5, <3>6, DelayedUpdate
    <2>9. CASE delay /\ ~CanDelay(S, c)
      <3>1. /\ Destroyed(k) \in SocketRecs /\ Kept(k, Destroyed(k))
            /\ SlotOK(Destroyed(k), S.who[c]) /\ ClockOK(Destroyed(k), S.who[c])
        BY <2>2, <2>5, DestroyedIs
      <3>2. Kept(S.con[c], Destroyed(k))
        BY <2>2, <3>1 DEF Kept
      <3> QED BY <2>4, <2>9, <3>1, <3>2, PutKeeps
    <2> QED BY <2>7, <2>8, <2>9
  <1> QED BY <1>1, <1>2

-----------------------------------------------------------------------------
(* Sets of connections *)

LEMMA Sizes ==
    ASSUME NEW A \in SUBSET Conns
    PROVE  /\ IsFiniteSet(A) /\ Cardinality(A) \in Nat
           /\ \A B \in SUBSET A : /\ Cardinality(B) \in Nat /\ Cardinality(B) <= Cardinality(A)
                                  /\ Cardinality(A \ B) = Cardinality(A) - Cardinality(B)
           /\ \A c \in A : Cardinality(A \ {c}) = Cardinality(A) - 1
           /\ \A c \in Conns \ A : Cardinality(A \cup {c}) = Cardinality(A) + 1
  <1>1. IsFiniteSet(A)
    BY Constants, FS_Subset
  <1>2. Cardinality(A) \in Nat
    BY <1>1, FS_CardinalityType
  <1>3. ASSUME NEW B \in SUBSET A
        PROVE  /\ Cardinality(B) \in Nat /\ Cardinality(B) <= Cardinality(A)
               /\ Cardinality(A \ B) = Cardinality(A) - Cardinality(B)
    <2>1. A \cap B = B
      OBVIOUS
    <2>2. IsFiniteSet(B) /\ Cardinality(B) <= Cardinality(A)
      BY <1>1, FS_Subset
    <2>3. Cardinality(B) \in Nat
      BY <2>2, FS_CardinalityType
    <2>4. Cardinality(A \ B) = Cardinality(A) - Cardinality(A \cap B)
      BY <1>1, FS_Difference
    <2> QED BY <2>1, <2>2, <2>3, <2>4
  <1>4. \A c \in A : Cardinality(A \ {c}) = Cardinality(A) - 1
    BY <1>1, FS_RemoveElement
  <1>5. \A c \in Conns \ A : Cardinality(A \cup {c}) = Cardinality(A) + 1
    BY <1>1, FS_AddElement
  <1> QED BY <1>1, <1>2, <1>3, <1>4, <1>5

-----------------------------------------------------------------------------
(* The removal of miners *)

\* n is m without the sessions in C.
Forgotten(m, n, C) ==
    \A d \in Conns :
        /\ n[d].live <=> m[d].live /\ d \notin C
        /\ n[d].w = m[d].w /\ n[d].agent = m[d].agent /\ n[d].proxied = m[d].proxied

Dropped(o, p, C) == \A d \in Conns : p[d] = IF d \in C THEN {} ELSE o[d] \ C

Gone(m, C, w) == {c \in C : m[c].w = w}
GoneProxies(m, C, w) == {c \in C : m[c].w = w /\ m[c].proxied}

\* The wallets in Z that leave it lose all their sessions.
LEMMA WorkersForgotten ==
    ASSUME NEW m, NEW n, NEW C \in SUBSET Conns, Forgotten(m, n, C), \A c \in C : m[c].live,
           NEW dc \in [Wallets -> Nat], NEW pc \in [Wallets -> Nat],
           NEW Z, NEW Y, WorkersOK(m, dc, pc, {}, Z),
           \A w \in Wallets : w \in Z /\ w \notin Y =>
               \A c \in Conns : m[c].live /\ m[c].w = w => c \in C,
           NEW dn, NEW pn,
           \A w \in Wallets : /\ dn[w] = Minus(dc[w], Cardinality(Gone(m, C, w)))
                              /\ pn[w] = Minus(pc[w], Cardinality(GoneProxies(m, C, w)))
    PROVE  WorkersOK(n, dn, pn, {}, Y)
  <1> SUFFICES ASSUME NEW w \in Wallets
               PROVE  /\ dn[w] <= Cardinality(Plain(n, {}, w))
                      /\ IF w \in Y THEN pn[w] <= Cardinality(Proxied(n, {}, w))
                         ELSE pn[w] = Cardinality(Proxied(n, {}, w))
    BY DEF WorkersOK
  <1> DEFINE A == Plain(m, {}, w)
             B == Proxied(m, {}, w)
             G == Gone(m, C, w)
             P == GoneProxies(m, C, w)
             H == A \cap C
  <1>1. A \in SUBSET Conns /\ B \in SUBSET Conns /\ G \in SUBSET Conns /\ P \in SUBSET B /\ H \in SUBSET A
        /\ H \in SUBSET G
    BY DEF Plain, Proxied, Gone, GoneProxies
  <1>2. Plain(n, {}, w) = A \ H /\ Proxied(n, {}, w) = B \ P
    BY DEF Plain, Proxied, Gone, GoneProxies, Forgotten
  <1>3. w \in Z /\ w \notin Y => B \ P = {}
    BY DEF Proxied, GoneProxies
  <1>4. /\ dc[w] <= Cardinality(A) /\ pc[w] <= Cardinality(B)
        /\ w \notin Z => pc[w] = Cardinality(B)
    <2>1. Cardinality(B) \in Nat
      BY <1>1, Sizes
    <2> QED BY <2>1 DEF WorkersOK
  <1>5. dc[w] \in Nat /\ pc[w] \in Nat
    OBVIOUS
  <1>6. dn[w] = Minus(dc[w], Cardinality(G)) /\ pn[w] = Minus(pc[w], Cardinality(P))
    OBVIOUS
  <1> HIDE DEF A, B, G, P, H
  <1>7. /\ Cardinality(A) \in Nat /\ Cardinality(B) \in Nat
        /\ Cardinality(G) \in Nat /\ Cardinality(P) \in Nat /\ Cardinality(H) \in Nat
        /\ Cardinality(H) <= Cardinality(G) /\ Cardinality(P) <= Cardinality(B)
        /\ Cardinality(H) <= Cardinality(A)
        /\ Cardinality(A \ H) = Cardinality(A) - Cardinality(H)
        /\ Cardinality(B \ P) = Cardinality(B) - Cardinality(P)
    BY <1>1, Sizes
  <1>8. w \in Z /\ w \notin Y => Cardinality(B \ P) = 0
    BY <1>3, FS_EmptySet
  <1>9. dn[w] <= Cardinality(A \ H)
    BY <1>4, <1>5, <1>6, <1>7 DEF Minus
  <1>10. pn[w] <= Cardinality(B \ P) /\ pn[w] \in Nat
    BY <1>4, <1>5, <1>6, <1>7 DEF Minus
  <1>11. w \notin Y => pn[w] = Cardinality(B \ P)
    <2>1. CASE w \in Z /\ w \notin Y
      BY <1>8, <1>10, <2>1
    <2>2. CASE w \notin Z
      BY <1>4, <1>5, <1>6, <1>7, <2>2 DEF Minus
    <2> QED BY <2>1, <2>2
  <1> QED BY <1>2, <1>9, <1>10, <1>11

LEMMA OrderForgotten ==
    ASSUME NEW m, NEW n, NEW C \in SUBSET Conns, Forgotten(m, n, C),
           NEW o \in [Conns -> SUBSET Conns], OrderOK(m, o),
           NEW p, Dropped(o, p, C)
    PROVE  OrderOK(n, p)
  <1> SUFFICES ASSUME NEW c \in Conns
               PROVE  /\ ~n[c].live => p[c] = {}
                      /\ \A d \in p[c] : n[d].live /\ d # c /\ p[d] \subseteq p[c]
                      /\ \A d \in Conns : n[c].live /\ n[d].live /\ d # c => c \in p[d] \/ d \in p[c]
    BY DEF OrderOK
  <1>1. /\ ~m[c].live => o[c] = {}
        /\ \A d \in o[c] : m[d].live /\ d # c /\ o[d] \subseteq o[c]
        /\ \A d \in Conns : m[c].live /\ m[d].live /\ d # c => c \in o[d] \/ d \in o[c]
    BY DEF OrderOK
  <1>2. /\ \A d \in Conns : n[d].live <=> m[d].live /\ d \notin C
        /\ o[c] \subseteq Conns
    BY DEF Forgotten
  <1>3. ~n[c].live => p[c] = {}
    BY <1>1, <1>2 DEF Dropped
  <1>4. ASSUME NEW d \in p[c] PROVE n[d].live /\ d # c /\ p[d] \subseteq p[c]
    <2>1. c \notin C /\ d \in o[c] /\ d \notin C /\ d \in Conns
      BY <1>2 DEF Dropped
    <2> QED BY <1>1, <1>2, <2>1 DEF Dropped
  <1>5. ASSUME NEW d \in Conns, n[c].live, n[d].live, d # c PROVE c \in p[d] \/ d \in p[c]
    BY <1>1, <1>2, <1>5 DEF Dropped
  <1> QED BY <1>3, <1>4, <1>5

LEMMA AuditForgotten ==
    ASSUME NEW m, NEW n, NEW C \in SUBSET Conns, Forgotten(m, n, C),
           NEW o \in [Conns -> SUBSET Conns], NEW a \in AuditRecs, NEW banned,
           AuditOK(m, o, a, banned),
           NEW p, Dropped(o, p, C),
           NEW b, b.must = a.must \ C, b.passed = a.passed, b.left = a.left
    PROVE  AuditOK(n, p, b, banned)
  <1> SUFFICES ASSUME NEW c \in b.must
               PROVE  /\ n[c].live /\ n[c].w \in banned /\ c \notin b.passed
                      /\ Cardinality(p[c] \ b.passed) < b.left
    BY DEF AuditOK
  <1>1. c \in a.must /\ c \notin C /\ c \in Conns /\ a.left \in Nat /\ o[c] \subseteq Conns
    BY DEF AuditRecs
  <1>2. /\ m[c].live /\ m[c].w \in banned /\ c \notin a.passed
        /\ Cardinality(o[c] \ a.passed) < a.left
    BY <1>1 DEF AuditOK
  <1>3. n[c].live /\ n[c].w = m[c].w
    BY <1>1, <1>2 DEF Forgotten
  <1> DEFINE A == o[c] \ a.passed
             B == p[c] \ b.passed
  <1>4. A \in SUBSET Conns /\ B \in SUBSET A
    BY <1>1 DEF Dropped
  <1> HIDE DEF A, B
  <1>5. Cardinality(A) \in Nat /\ Cardinality(B) \in Nat /\ Cardinality(B) <= Cardinality(A)
    BY <1>4, Sizes
  <1> QED BY <1>1, <1>2, <1>3, <1>5 DEF A, B

LEMMA ForgetIs ==
    ASSUME NEW S \in State, NEW C \in SUBSET Conns
    PROVE  LET T == ForgetMiners(S, C) IN
           /\ T \in State
           /\ T.con = S.con /\ SameSeats(S, T) /\ T.free = S.free /\ T.delayed = S.delayed
           /\ T.bans = S.bans
           /\ Forgotten(S.who, T.who, C)
           /\ \A d \in Conns : d \notin C => T.who[d] = S.who[d]
           /\ Dropped(S.older, T.older, C)
           /\ \A w \in Wallets :
                /\ T.direct[w] = Minus(S.direct[w], Cardinality(Gone(S.who, C, w)))
                /\ T.proxy[w] = Minus(S.proxy[w], Cardinality(GoneProxies(S.who, C, w)))
           /\ T.audit.must = S.audit.must \ C /\ T.audit.passed = S.audit.passed
           /\ T.audit.left = S.audit.left
  <1> DEFINE T == ForgetMiners(S, C)
             px == [w \in Wallets |-> Minus(S.proxy[w], Cardinality(GoneProxies(S.who, C, w)))]
             dx == [w \in Wallets |-> Minus(S.direct[w], Cardinality(Gone(S.who, C, w)))]
             ox == [d \in Conns |-> IF d \in C THEN {} ELSE S.older[d] \ C]
             wx == [d \in Conns |-> IF d \in C THEN [S.who[d] EXCEPT !.live = FALSE] ELSE S.who[d]]
             ax == [S.audit EXCEPT !.must = S.audit.must \ C]
  <1>1. /\ S.who \in [Conns -> MinerRecs] /\ S.older \in [Conns -> SUBSET Conns]
        /\ S.direct \in [Wallets -> Nat] /\ S.proxy \in [Wallets -> Nat] /\ S.audit \in AuditRecs
    BY Fields
  <1>2. \A w \in Wallets : GoneProxies(S.who, C, w) = {c \in {d \in C : S.who[d].w = w} : S.who[c].proxied}
    BY DEF GoneProxies
  <1>3. px = [w \in Wallets |-> Minus(S.proxy[w], Cardinality({c \in {d \in C : S.who[d].w = w} : S.who[c].proxied}))]
    BY <1>2
  <1>4. T = [S EXCEPT !.proxy = px, !.direct = dx, !.older = ox, !.who = wx, !.audit = ax]
    BY <1>3, Zenon DEF ForgetMiners, Gone
  <1>5. \A w \in Wallets : Cardinality(Gone(S.who, C, w)) \in Nat /\ Cardinality(GoneProxies(S.who, C, w)) \in Nat
    <2>1. \A w : Gone(S.who, C, w) \in SUBSET Conns /\ GoneProxies(S.who, C, w) \in SUBSET Conns
      BY DEF Gone, GoneProxies
    <2> QED BY <2>1, Sizes
  <1>6. px \in [Wallets -> Nat] /\ dx \in [Wallets -> Nat]
    BY <1>1, <1>5 DEF Minus
  <1>7. ox \in [Conns -> SUBSET Conns] /\ Dropped(S.older, ox, C)
    BY <1>1 DEF Dropped
  <1>8. ax \in AuditRecs /\ ax.must = S.audit.must \ C /\ ax.passed = S.audit.passed /\ ax.left = S.audit.left
    BY <1>1 DEF AuditRecs
  <1>9. /\ wx \in [Conns -> MinerRecs] /\ \A d \in Conns : d \notin C => wx[d] = S.who[d]
        /\ Forgotten(S.who, wx, C)
    <2>1. \A d \in Conns : LET r == [S.who[d] EXCEPT !.live = FALSE] IN
             /\ r \in MinerRecs /\ ~r.live /\ r.w = S.who[d].w /\ r.agent = S.who[d].agent
             /\ r.proxied = S.who[d].proxied
      BY <1>1 DEF MinerRecs
    <2> QED BY <1>1, <2>1 DEF Forgotten
  <1>10. \A w \in Wallets : /\ dx[w] = Minus(S.direct[w], Cardinality(Gone(S.who, C, w)))
                            /\ px[w] = Minus(S.proxy[w], Cardinality(GoneProxies(S.who, C, w)))
    OBVIOUS
  <1> HIDE DEF px, dx, ox, wx, ax
  <1>11. T \in State
    BY <1>4, <1>6, <1>7, <1>8, <1>9, Zenon DEF State
  <1>12. /\ T.con = S.con /\ T.byIp = S.byIp /\ T.bySubnet = S.bySubnet /\ T.free = S.free
         /\ T.delayed = S.delayed /\ T.bans = S.bans /\ T.who = wx /\ T.older = ox
         /\ T.direct = dx /\ T.proxy = px /\ T.audit = ax
    BY <1>4, Zenon DEF State
  <1> HIDE DEF T
  <1>13. /\ T \in State
         /\ T.con = S.con /\ SameSeats(S, T) /\ T.free = S.free /\ T.delayed = S.delayed
         /\ T.bans = S.bans
         /\ Forgotten(S.who, T.who, C)
         /\ \A d \in Conns : d \notin C => T.who[d] = S.who[d]
         /\ Dropped(S.older, T.older, C)
         /\ \A w \in Wallets :
              /\ T.direct[w] = Minus(S.direct[w], Cardinality(Gone(S.who, C, w)))
              /\ T.proxy[w] = Minus(S.proxy[w], Cardinality(GoneProxies(S.who, C, w)))
         /\ T.audit.must = S.audit.must \ C /\ T.audit.passed = S.audit.passed
         /\ T.audit.left = S.audit.left
    BY <1>7, <1>8, <1>9, <1>10, <1>11, <1>12, Zenon DEF SameSeats
  <1> QED BY <1>13 DEF T

LEMMA ForgetKeeps ==
    ASSUME NEW S, NEW X, NEW Z, NEW Y, Loose(S, X, {}, Z), NEW C \in SUBSET Live(S),
           \A w \in Wallets : w \in Z /\ w \notin Y =>
               \A c \in Conns : S.who[c].live /\ S.who[c].w = w => c \in C
    PROVE  Loose(ForgetMiners(S, C), X \cup C, {}, Y)
  <1> DEFINE T == ForgetMiners(S, C)
  <1>1. S \in State /\ C \in SUBSET Conns /\ \A c \in C : S.who[c].live
    BY DEF Loose, Live
  <1>2. /\ T \in State
        /\ T.con = S.con /\ SameSeats(S, T) /\ T.free = S.free /\ T.delayed = S.delayed
        /\ T.bans = S.bans
        /\ Forgotten(S.who, T.who, C)
        /\ \A d \in Conns : d \notin C => T.who[d] = S.who[d]
        /\ Dropped(S.older, T.older, C)
        /\ \A w \in Wallets :
             /\ T.direct[w] = Minus(S.direct[w], Cardinality(Gone(S.who, C, w)))
             /\ T.proxy[w] = Minus(S.proxy[w], Cardinality(GoneProxies(S.who, C, w)))
        /\ T.audit.must = S.audit.must \ C /\ T.audit.passed = S.audit.passed
        /\ T.audit.left = S.audit.left
    BY <1>1, ForgetIs, Zenon
  <1>3. /\ S.direct \in [Wallets -> Nat] /\ S.proxy \in [Wallets -> Nat]
        /\ S.older \in [Conns -> SUBSET Conns] /\ S.audit \in AuditRecs
    BY <1>1, Fields
  <1>31. OrderOK(S.who, S.older) /\ AuditOK(S.who, S.older, S.audit, S.bans.address)
    BY DEF Loose
  <1> HIDE DEF T
  <1>4. WorkersOK(T.who, T.direct, T.proxy, {}, Y)
    BY <1>1, <1>2, <1>3, WorkersForgotten DEF Loose
  <1>5. OrderOK(T.who, T.older)
    BY <1>1, <1>2, <1>3, <1>31, OrderForgotten
  <1>6. AuditOK(T.who, T.older, T.audit, T.bans.address)
    <2>1. AuditOK(T.who, T.older, T.audit, S.bans.address)
      BY <1>1, <1>2, <1>3, <1>31, AuditForgotten
    <2> QED BY <1>2, <2>1
  <1>7. ASSUME NEW c \in Conns PROVE SlotOK(T.con[c], T.who[c])
    <2>1. SlotOK(S.con[c], S.who[c])
      BY DEF Loose
    <2>2. CASE c \notin C
      BY <1>2, <2>1, <2>2
    <2>3. CASE c \in C
      <3>1. S.con[c].st # "free" /\ ~T.who[c].live
        BY <1>1, <1>2, <2>1, <2>3 DEF SlotOK, NoMiner, Forgotten
      <3> QED BY <1>2, <2>1, <3>1 DEF SlotOK
    <2> QED BY <2>2, <2>3
  <1>8. \A c \in Conns \ (X \cup C) : ClockOK(T.con[c], T.who[c])
    BY <1>2 DEF Loose
  <1>9. SeatsOK(T.con, T.byIp, T.bySubnet) /\ IdsOK(T.con, T.free) /\ DelayedOK(T.con, T.delayed)
    BY <1>2 DEF Loose, SameSeats
  <1> QED BY <1>2, <1>4, <1>5, <1>6, <1>7, <1>8, <1>9 DEF Loose, T

LEMMA MinerSocketClosedIs ==
    ASSUME NEW k \in SocketRecs, NEW m, SlotOK(k, m), k.st # "free", ~m.live, NEW force \in BOOLEAN
    PROVE  LET l == MinerSocketClosed(k, force) IN
           /\ l \in SocketRecs /\ Kept(k, l) /\ SlotOK(l, m) /\ ClockOK(l, m)
  <1> DEFINE l == MinerSocketClosed(k, force)
             t == [k EXCEPT !.mid = FALSE, !.auth = FALSE, !.first = FALSE]
             u == [t EXCEPT !.st = "ended", !.fin = TRUE]
  <1>1. t \in SocketRecs /\ Kept(k, t) /\ t.st = k.st /\ ~t.mid /\ ~t.auth /\ ~t.first
    BY DEF SocketRecs, Stages, Kept
  <1>2. l = IF k.st = "open" /\ ~force THEN u ELSE Destroyed(t)
    BY DEF MinerSocketClosed
  <1> HIDE DEF t, l
  <1>3. SlotOK(t, m) \/ k.st = "raw"
    BY <1>1 DEF SlotOK, Kept
  <1>4. k.st = "raw" => t.fin = k.fin
    BY DEF t, SocketRecs
  <1>5. SlotOK(t, m)
    BY <1>1, <1>4 DEF SlotOK, Kept
  <1>6. u \in SocketRecs /\ Kept(t, u) /\ u.st = "ended" /\ ~u.mid
    BY <1>1 DEF SocketRecs, Stages, Kept
  <1> HIDE DEF u
  <1>7. k.st = "open" => SlotOK(u, m) /\ ClockOK(u, m) /\ Kept(k, u)
    BY <1>1, <1>5, <1>6 DEF SlotOK, ClockOK, Kept
  <1>8. /\ Destroyed(t) \in SocketRecs /\ Kept(t, Destroyed(t))
        /\ SlotOK(Destroyed(t), m) /\ ClockOK(Destroyed(t), m)
    BY <1>1, <1>5, DestroyedIs
  <1>9. l \in SocketRecs /\ Kept(k, l) /\ SlotOK(l, m) /\ ClockOK(l, m)
    <2>1. CASE k.st = "open" /\ ~force
      BY <1>2, <1>6, <1>7, <2>1
    <2>2. CASE ~(k.st = "open" /\ ~force)
      BY <1>1, <1>2, <1>8, <2>2 DEF Kept
    <2> QED BY <2>1, <2>2
  <1> QED BY <1>9 DEF l

\* The removed miners of the sockets C.
Removed(S, C) == \A c \in C : S.con[c].st # "free" /\ ~S.who[c].live
SameBut(f, g, C) == \A d \in Conns \ C : f[d] = g[d]

LEMMA CloseSocketsKeeps ==
    ASSUME NEW S, NEW X, NEW R, NEW Z, Loose(S, X, R, Z), NEW C \in SUBSET Conns,
           Removed(S, C), NEW force \in BOOLEAN
    PROVE  /\ Loose(CloseSockets(S, C, force), X \ C, R, Z)
           /\ CloseSockets(S, C, force).who = S.who
           /\ SameBut(CloseSockets(S, C, force).con, S.con, C)
  <1> DEFINE T == CloseSockets(S, C, force)
             F == [d \in Conns |-> IF d \in C THEN MinerSocketClosed(S.con[d], force) ELSE S.con[d]]
  <1>1. S \in State /\ S.con \in [Conns -> SocketRecs] /\ S.delayed \in [Ips -> Conns \cup {Nobody}]
    BY Fields DEF Loose
  <1>2. T = [S EXCEPT !.con = F]
    BY Zenon DEF CloseSockets
  <1>3. ASSUME NEW c \in Conns
        PROVE  /\ F[c] \in SocketRecs /\ Kept(S.con[c], F[c]) /\ SlotOK(F[c], S.who[c])
               /\ c \notin X \ C => ClockOK(F[c], S.who[c])
    <2>1. CASE c \in C
      <3>1. /\ S.con[c] \in SocketRecs /\ SlotOK(S.con[c], S.who[c])
            /\ S.con[c].st # "free" /\ ~S.who[c].live
        BY <2>1, SlotTyped DEF Removed
      <3>2. LET l == MinerSocketClosed(S.con[c], force) IN
            l \in SocketRecs /\ Kept(S.con[c], l) /\ SlotOK(l, S.who[c]) /\ ClockOK(l, S.who[c])
        BY <2>1, <3>1, MinerSocketClosedIs
      <3> QED BY <2>1, <3>2
    <2>2. CASE c \notin C
      BY <2>2, SlotTyped DEF Kept
    <2> QED BY <2>1, <2>2
  <1>4. F \in [Conns -> SocketRecs] /\ AllKept(S.con, F) /\ SameBut(F, S.con, C)
    BY <1>3 DEF AllKept, SameBut
  <1> HIDE DEF F
  <1>5. T \in State
    BY <1>1, <1>2, <1>4, Zenon DEF State
  <1>6. /\ T.con = F /\ T.who = S.who /\ T.older = S.older /\ T.byIp = S.byIp
        /\ T.bySubnet = S.bySubnet /\ T.delayed = S.delayed /\ T.free = S.free
        /\ T.direct = S.direct /\ T.proxy = S.proxy /\ T.bans = S.bans /\ T.audit = S.audit
    BY <1>1, <1>2, Zenon DEF State
  <1> HIDE DEF T
  <1>7. SeatsOK(F, S.byIp, S.bySubnet) /\ IdsOK(F, S.free) /\ DelayedOK(F, S.delayed)
    BY <1>1, <1>4, ResourcesKept DEF Loose
  <1>8. /\ \A c \in Conns : SlotOK(T.con[c], T.who[c])
        /\ \A c \in Conns \ (X \ C) : ClockOK(T.con[c], T.who[c])
    BY <1>3, <1>6
  <1>9. /\ WorkersOK(T.who, T.direct, T.proxy, R, Z) /\ OrderOK(T.who, T.older)
        /\ AuditOK(T.who, T.older, T.audit, T.bans.address)
    BY <1>6, Zenon DEF Loose
  <1>10. Loose(T, X \ C, R, Z)
    BY <1>5, <1>6, <1>7, <1>8, <1>9 DEF Loose
  <1> QED BY <1>4, <1>6, <1>10 DEF T

\* C has all sessions of the wallets that leave Z for Y.
Covers(S, C, Z, Y) ==
    \A w \in Z \ Y : \A c \in Conns : S.who[c].live /\ S.who[c].w = w => c \in C

\* T left the slots without a session alone.
Others(S, T) == \A d \in Conns : ~S.who[d].live => T.con[d] = S.con[d] /\ T.who[d] = S.who[d]

\* removeMiner: a miner that is removed is no longer on a clock unless its
\* socket is closed with it.
LEMMA RemoveKeeps ==
    ASSUME NEW S, NEW X, NEW Z, NEW Y, Loose(S, X, {}, Z), NEW C \in SUBSET Conns,
           NEW how \in {"keep", "end", "destroy"},
           Covers(S, C, Z, Y)
    PROVE  /\ how # "keep" => Loose(RemoveMiners(S, C, how), X \ (C \cap Live(S)), {}, Y)
           /\ how = "keep" => /\ Loose(RemoveMiners(S, C, how), X \cup (C \cap Live(S)), {}, Y)
                              /\ RemoveMiners(S, C, how).con = S.con
                              /\ RemoveMiners(S, C, how).free = S.free
                              /\ RemoveMiners(S, C, how).delayed = S.delayed
           /\ \A c \in C : how = "keep" => ~RemoveMiners(S, C, how).who[c].live
           /\ Others(S, RemoveMiners(S, C, how))
  <1> DEFINE L == C \cap Live(S)
             T == ForgetMiners(S, L)
  <1>1. /\ L \in SUBSET Live(S) /\ L \in SUBSET Conns /\ S \in State
        /\ \A c \in L : S.who[c].live
        /\ \A c \in C : ~S.who[c].live => c \notin L
    BY DEF Loose, Live
  <1>2. \A w \in Wallets : w \in Z /\ w \notin Y =>
            \A c \in Conns : S.who[c].live /\ S.who[c].w = w => c \in L
    BY DEF Live, Covers
  <1>3. how = "keep" => RemoveMiners(S, C, how) = T
    BY DEF RemoveMiners
  <1>4. how # "keep" => RemoveMiners(S, C, how) = CloseSockets(T, L, how = "destroy")
    BY DEF RemoveMiners
  <1> HIDE DEF L
  <1>5. Loose(T, X \cup L, {}, Y)
    BY <1>1, <1>2, ForgetKeeps
  <1>6. /\ T.con = S.con /\ T.free = S.free /\ T.delayed = S.delayed /\ Forgotten(S.who, T.who, L)
        /\ \A d \in Conns : d \notin L => T.who[d] = S.who[d]
    BY <1>1, ForgetIs
  <1> HIDE DEF T
  <1>7. \A c \in L : S.con[c].st # "free"
    BY <1>1, SlotTyped DEF SlotOK, NoMiner
  <1>8. \A c \in C : ~T.who[c].live
    <2> SUFFICES ASSUME NEW c \in C PROVE ~T.who[c].live
      OBVIOUS
    <2>1. c \in Conns /\ (T.who[c].live <=> S.who[c].live /\ c \notin L)
      BY <1>6 DEF Forgotten
    <2>2. S.who[c].live => c \in L
      BY <2>1 DEF L, Live
    <2> QED BY <2>1, <2>2
  <1>9. /\ Loose(CloseSockets(T, L, how = "destroy"), (X \cup L) \ L, {}, Y)
        /\ CloseSockets(T, L, how = "destroy").who = T.who
        /\ SameBut(CloseSockets(T, L, how = "destroy").con, T.con, L)
    <2>1. Removed(T, L)
      BY <1>6, <1>7, <1>8 DEF L, Removed
    <2>2. (how = "destroy") \in BOOLEAN
      OBVIOUS
    <2> DEFINE force == how = "destroy"
    <2> HIDE DEF force
    <2>3. force \in BOOLEAN
      BY <2>2 DEF force
    <2>4. /\ Loose(CloseSockets(T, L, force), (X \cup L) \ L, {}, Y)
          /\ CloseSockets(T, L, force).who = T.who
          /\ SameBut(CloseSockets(T, L, force).con, T.con, L)
      <3> DEFINE W == X \cup L
      <3>1. Loose(T, W, {}, Y)
        BY <1>5
      <3> HIDE DEF W
      <3>2. /\ Loose(CloseSockets(T, L, force), W \ L, {}, Y)
            /\ CloseSockets(T, L, force).who = T.who
            /\ SameBut(CloseSockets(T, L, force).con, T.con, L)
        BY <1>1, <2>1, <2>3, <3>1, CloseSocketsKeeps
      <3> QED BY <3>2 DEF W
    <2> QED BY <2>4 DEF force
  <1>10. (X \cup L) \ L = X \ L
    OBVIOUS
  <1>11. how # "keep" => Loose(RemoveMiners(S, C, how), X \ L, {}, Y)
    BY <1>4, <1>9, <1>10
  <1>12. ASSUME NEW d \in Conns, ~S.who[d].live
         PROVE  /\ RemoveMiners(S, C, how).con[d] = S.con[d]
                /\ RemoveMiners(S, C, how).who[d] = S.who[d]
    <2>1. d \notin L
      BY <1>1, <1>12
    <2>2. CASE how = "keep"
      BY <1>3, <1>6, <2>1, <2>2
    <2>3. CASE how # "keep"
      BY <1>4, <1>6, <1>9, <2>1, <2>3 DEF SameBut
    <2> QED BY <2>2, <2>3
  <1>13. Others(S, RemoveMiners(S, C, how))
    BY <1>12 DEF Others
  <1> QED BY <1>3, <1>5, <1>6, <1>8, <1>11, <1>13 DEF L

-----------------------------------------------------------------------------
(* Steps that change no socket *)

\* T is S but for mail, bounds and the bans that pass.
Quiet(S, T) ==
    /\ T \in State /\ T.con = S.con /\ SameSeats(S, T) /\ T.delayed = S.delayed
    /\ T.free = S.free /\ T.who = S.who /\ T.older = S.older /\ T.direct = S.direct
    /\ T.proxy = S.proxy /\ T.audit = S.audit /\ T.bans.address = S.bans.address

LEMMA QuietKeeps ==
    ASSUME NEW S, NEW T, NEW X, NEW R, NEW Z, Loose(S, X, R, Z), Quiet(S, T)
    PROVE  Loose(T, X, R, Z)
  BY Zenon DEF Loose, Quiet, SameSeats

LEMMA EventIs ==
    ASSUME Now \in State
    PROVE  Quiet(Now, Event) /\ Event.mail = mail /\ Event.bans = bans
  <1>1. Now.events + 1 \in Nat
    BY Fields
  <1>2. Event = [Now EXCEPT !.events = Now.events + 1]
    BY Zenon DEF Event
  <1>3. Event \in State
    BY <1>1, <1>2, Zenon DEF State
  <1>4. /\ Event.con = Now.con /\ Event.who = Now.who /\ Event.older = Now.older
        /\ Event.byIp = Now.byIp /\ Event.bySubnet = Now.bySubnet /\ Event.delayed = Now.delayed
        /\ Event.free = Now.free /\ Event.direct = Now.direct /\ Event.proxy = Now.proxy
        /\ Event.bans = Now.bans /\ Event.mail = Now.mail /\ Event.audit = Now.audit
    BY <1>2, Zenon DEF State
  <1> QED BY <1>3, <1>4, NowFields, Zenon DEF Quiet, SameSeats

LEMMA MailIs ==
    ASSUME NEW S \in State, NEW m \in SUBSET ((Ips \ Loopback) \cup Wallets)
    PROVE  Quiet(S, [S EXCEPT !.mail = m])
  <1> DEFINE T == [S EXCEPT !.mail = m]
  <1>1. T \in State
    BY Zenon DEF State
  <1>2. /\ T.con = S.con /\ T.who = S.who /\ T.older = S.older /\ T.byIp = S.byIp
        /\ T.bySubnet = S.bySubnet /\ T.delayed = S.delayed /\ T.free = S.free
        /\ T.direct = S.direct /\ T.proxy = S.proxy /\ T.bans = S.bans /\ T.audit = S.audit
    BY Zenon DEF State
  <1> HIDE DEF T
  <1>3. Quiet(S, T)
    BY <1>1, <1>2, Zenon DEF Quiet, SameSeats
  <1> QED BY <1>3 DEF T

LEMMA BansIs ==
    ASSUME NEW S \in State, NEW b \in BanRecs, b.address = S.bans.address
    PROVE  Quiet(S, [S EXCEPT !.bans = b])
  <1> DEFINE T == [S EXCEPT !.bans = b]
  <1>1. T \in State
    BY Zenon DEF State
  <1>2. /\ T.con = S.con /\ T.who = S.who /\ T.older = S.older /\ T.byIp = S.byIp
        /\ T.bySubnet = S.bySubnet /\ T.delayed = S.delayed /\ T.free = S.free
        /\ T.direct = S.direct /\ T.proxy = S.proxy /\ T.bans = b /\ T.audit = S.audit
    BY Zenon DEF State
  <1> HIDE DEF T
  <1>3. Quiet(S, T)
    BY <1>1, <1>2, Zenon DEF Quiet, SameSeats
  <1> QED BY <1>3 DEF T

\* sendIpBan
LEMMA BanIpIs ==
    ASSUME NEW S \in State, NEW c \in Conns, S.con[c].ip \in Ips
    PROVE  Quiet(S, BanIp(S, c))
  <1> DEFINE m == S.mail \cup {S.con[c].ip}
  <1>1. CASE S.con[c].ip \in Loopback
    <2>1. BanIp(S, c) = S
      BY <1>1 DEF BanIp
    <2> QED BY <2>1 DEF Quiet, SameSeats
  <1>2. CASE S.con[c].ip \notin Loopback
    <2>1. m \in SUBSET ((Ips \ Loopback) \cup Wallets)
      BY <1>2, Fields
    <2>2. BanIp(S, c) = [S EXCEPT !.mail = m]
      BY <1>2 DEF BanIp
    <2> QED BY <2>1, <2>2, MailIs
  <1> QED BY <1>1, <1>2

LEMMA BigBanIs ==
    ASSUME NEW S \in State, NEW w \in Wallets
    PROVE  Quiet(S, [S EXCEPT !.bans.big = @ \cup {w}])
  <1> DEFINE b == [S.bans EXCEPT !.big = @ \cup {w}]
  <1>1. b \in BanRecs /\ b.address = S.bans.address
    BY Fields DEF BanRecs
  <1>2. [S EXCEPT !.bans.big = @ \cup {w}] = [S EXCEPT !.bans = b]
    BY Zenon
  <1> HIDE DEF b
  <1> QED BY <1>1, <1>2, BansIs

-----------------------------------------------------------------------------
(* Steps of one miner's record *)

Know(S, c, m) == [S EXCEPT !.who = [S.who EXCEPT ![c] = m]]

LEMMA KnowIs ==
    ASSUME NEW S \in State, NEW c \in Conns, NEW m \in MinerRecs
    PROVE  /\ Know(S, c, m) \in State /\ Know(S, c, m).con = S.con
           /\ SameSeats(S, Know(S, c, m)) /\ Know(S, c, m).delayed = S.delayed
           /\ Know(S, c, m).free = S.free /\ Know(S, c, m).older = S.older
           /\ Know(S, c, m).direct = S.direct /\ Know(S, c, m).proxy = S.proxy
           /\ Know(S, c, m).audit = S.audit /\ Know(S, c, m).bans = S.bans
           /\ Know(S, c, m).who[c] = m
           /\ \A d \in Conns : d # c => Know(S, c, m).who[d] = S.who[d]
  <1> DEFINE W == [S.who EXCEPT ![c] = m]
             T == Know(S, c, m)
  <1>1. /\ W \in [Conns -> MinerRecs] /\ W[c] = m
        /\ \A d \in Conns : d # c => W[d] = S.who[d]
    BY Fields
  <1>2. T = [S EXCEPT !.who = W]
    BY DEF Know
  <1> HIDE DEF W
  <1>3. T \in State
    BY <1>1, <1>2, Zenon DEF State
  <1>4. /\ T.con = S.con /\ T.who = W /\ T.older = S.older /\ T.byIp = S.byIp
        /\ T.bySubnet = S.bySubnet /\ T.delayed = S.delayed /\ T.free = S.free
        /\ T.direct = S.direct /\ T.proxy = S.proxy /\ T.bans = S.bans /\ T.audit = S.audit
    BY <1>2, Zenon DEF State
  <1> HIDE DEF T
  <1> QED BY <1>1, <1>3, <1>4, Zenon DEF SameSeats, T

\* Records that the registry cannot tell apart.
SameMiner(a, b) ==
    /\ a.live <=> b.live
    /\ a.live => a.w = b.w /\ a.agent = b.agent /\ a.proxied = b.proxied

LEMMA RegistryKept ==
    ASSUME NEW m, NEW n, \A d \in Conns : SameMiner(m[d], n[d]),
           NEW o \in [Conns -> SUBSET Conns]
    PROVE  /\ \A dc, pc, Z : WorkersOK(m, dc, pc, {}, Z) => WorkersOK(n, dc, pc, {}, Z)
           /\ OrderOK(m, o) => OrderOK(n, o)
           /\ \A banned : \A a \in AuditRecs : AuditOK(m, o, a, banned) => AuditOK(n, o, a, banned)
  <1>1. \A w \in Wallets : Plain(m, {}, w) = Plain(n, {}, w) /\ Proxied(m, {}, w) = Proxied(n, {}, w)
    BY DEF SameMiner, Plain, Proxied
  <1>2. \A dc, pc, Z : WorkersOK(m, dc, pc, {}, Z) => WorkersOK(n, dc, pc, {}, Z)
    BY <1>1 DEF WorkersOK
  <1>3. \A d \in Conns : m[d].live <=> n[d].live
    BY DEF SameMiner
  <1>4. OrderOK(m, o) => OrderOK(n, o)
    BY <1>3 DEF OrderOK
  <1>5. ASSUME NEW a \in AuditRecs, NEW banned, AuditOK(m, o, a, banned) PROVE AuditOK(n, o, a, banned)
    <2>1. a.must \subseteq Conns
      BY DEF AuditRecs
    <2> QED BY <1>5, <2>1 DEF AuditOK, SameMiner
  <1> QED BY <1>2, <1>4, <1>5

LEMMA KnowKeeps ==
    ASSUME NEW S, NEW X, NEW Z, Loose(S, X, {}, Z), NEW c \in Conns, NEW m \in MinerRecs,
           SameMiner(S.who[c], m), SlotOK(S.con[c], m), c \notin X => ClockOK(S.con[c], m)
    PROVE  Loose(Know(S, c, m), X, {}, Z)
  <1> DEFINE T == Know(S, c, m)
  <1>1. /\ S \in State /\ S.older \in [Conns -> SUBSET Conns] /\ S.audit \in AuditRecs
        /\ S.who \in [Conns -> MinerRecs]
    BY Fields DEF Loose
  <1>2. /\ T \in State /\ T.con = S.con /\ SameSeats(S, T) /\ T.delayed = S.delayed
        /\ T.free = S.free /\ T.older = S.older /\ T.direct = S.direct /\ T.proxy = S.proxy
        /\ T.audit = S.audit /\ T.bans = S.bans
        /\ T.who[c] = m /\ \A d \in Conns : d # c => T.who[d] = S.who[d]
    BY <1>1, KnowIs
  <1> HIDE DEF T
  <1>3. \A d \in Conns : SameMiner(S.who[d], T.who[d])
    BY <1>2 DEF SameMiner
  <1>4. /\ WorkersOK(S.who, S.direct, S.proxy, {}, Z) /\ OrderOK(S.who, S.older)
        /\ AuditOK(S.who, S.older, S.audit, S.bans.address)
    BY DEF Loose
  <1>5. /\ WorkersOK(T.who, S.direct, S.proxy, {}, Z) /\ OrderOK(T.who, S.older)
        /\ AuditOK(T.who, S.older, S.audit, S.bans.address)
    BY <1>1, <1>3, <1>4, RegistryKept
  <1>6. /\ \A d \in Conns : SlotOK(T.con[d], T.who[d])
        /\ \A d \in Conns \ X : ClockOK(T.con[d], T.who[d])
    BY <1>2 DEF Loose
  <1>7. SeatsOK(T.con, T.byIp, T.bySubnet) /\ IdsOK(T.con, T.free) /\ DelayedOK(T.con, T.delayed)
    BY <1>2, Zenon DEF Loose, SameSeats
  <1>8. /\ WorkersOK(T.who, T.direct, T.proxy, {}, Z) /\ OrderOK(T.who, T.older)
        /\ AuditOK(T.who, T.older, T.audit, T.bans.address)
    BY <1>2, <1>5
  <1> QED BY <1>2, <1>6, <1>7, <1>8, Zenon DEF Loose, T

-----------------------------------------------------------------------------
(* Worker counts *)

\* m with another proxied mark of slot c.
Marked(m, n, c) ==
    \A d \in Conns :
        /\ n[d].live <=> m[d].live
        /\ n[d].w = m[d].w /\ n[d].agent = m[d].agent
        /\ d # c => (n[d].proxied <=> m[d].proxied)

LEMMA CountProxy ==
    ASSUME NEW m, NEW n, NEW c \in Conns, Marked(m, n, c), n[c].proxied,
           NEW dc \in [Wallets -> Nat], NEW pc \in [Wallets -> Nat], WorkersOK(m, dc, pc, {}, {})
    PROVE  /\ WorkersOK(n, dc, pc, {}, {m[c].w})
           /\ ~(m[c].live /\ m[c].proxied) =>
                \A px : (/\ \A w \in Wallets : w # m[c].w => px[w] = pc[w]
                         /\ px[m[c].w] = pc[m[c].w] + 1) => WorkersOK(n, dc, px, {c}, {})
  <1>1. ASSUME NEW w \in Wallets
        PROVE  /\ Plain(n, {}, w) = Plain(m, {}, w)
               /\ Plain(m, {}, w) \in SUBSET Plain(n, {c}, w)
               /\ Proxied(m, {}, w) \in SUBSET Proxied(n, {}, w)
               /\ w # m[c].w => Proxied(n, {}, w) = Proxied(m, {}, w)
               /\ w # m[c].w => Proxied(n, {c}, w) = Proxied(m, {}, w)
               /\ w = m[c].w => Proxied(n, {c}, w) = Proxied(m, {}, w) \cup {c}
               /\ ~(m[c].live /\ m[c].proxied) => c \notin Proxied(m, {}, w)
               /\ Plain(n, {c}, w) \in SUBSET Conns /\ Proxied(n, {}, w) \in SUBSET Conns
               /\ Proxied(m, {}, w) \in SUBSET Conns
    BY DEF Marked, Plain, Proxied
  <1>2. ASSUME NEW w \in Wallets
        PROVE  /\ dc[w] \in Nat /\ pc[w] \in Nat
               /\ dc[w] <= Cardinality(Plain(m, {}, w)) /\ pc[w] = Cardinality(Proxied(m, {}, w))
    BY DEF WorkersOK
  <1>3. ASSUME NEW w \in Wallets
        PROVE  /\ Cardinality(Plain(m, {}, w)) \in Nat /\ Cardinality(Plain(n, {c}, w)) \in Nat
               /\ Cardinality(Plain(m, {}, w)) <= Cardinality(Plain(n, {c}, w))
               /\ Cardinality(Proxied(n, {}, w)) \in Nat
               /\ Cardinality(Proxied(m, {}, w)) <= Cardinality(Proxied(n, {}, w))
    BY <1>1, Sizes
  <1>4. WorkersOK(n, dc, pc, {}, {m[c].w})
    BY <1>1, <1>2, <1>3 DEF WorkersOK
  <1>5. ASSUME ~(m[c].live /\ m[c].proxied), NEW px,
               \A w \in Wallets : w # m[c].w => px[w] = pc[w], px[m[c].w] = pc[m[c].w] + 1,
               NEW w \in Wallets
        PROVE  dc[w] <= Cardinality(Plain(n, {c}, w)) /\ px[w] = Cardinality(Proxied(n, {c}, w))
    <2>1. CASE w = m[c].w
      <3>0. Proxied(m, {}, w) \in SUBSET Conns /\ c \in Conns \ Proxied(m, {}, w)
        BY <1>1, <1>5
      <3>1. Cardinality(Proxied(m, {}, w) \cup {c}) = Cardinality(Proxied(m, {}, w)) + 1
        BY <3>0, Sizes
      <3>2. px[w] = pc[w] + 1 /\ Proxied(n, {c}, w) = Proxied(m, {}, w) \cup {c}
        BY <1>1, <1>5, <2>1
      <3>3. pc[w] = Cardinality(Proxied(m, {}, w)) /\ dc[w] <= Cardinality(Plain(m, {}, w)) /\ dc[w] \in Nat
        BY <1>2
      <3>4. /\ Cardinality(Plain(m, {}, w)) \in Nat /\ Cardinality(Plain(n, {c}, w)) \in Nat
            /\ Cardinality(Plain(m, {}, w)) <= Cardinality(Plain(n, {c}, w))
        BY <1>3
      <3>5. dc[w] <= Cardinality(Plain(n, {c}, w))
        BY <3>3, <3>4
      <3> QED BY <3>1, <3>2, <3>3, <3>5
    <2>2. CASE w # m[c].w
      <3>2. px[w] = pc[w] /\ Proxied(n, {c}, w) = Proxied(m, {}, w)
        BY <1>1, <1>5, <2>2
      <3>3. pc[w] = Cardinality(Proxied(m, {}, w)) /\ dc[w] <= Cardinality(Plain(m, {}, w)) /\ dc[w] \in Nat
        BY <1>2
      <3>4. /\ Cardinality(Plain(m, {}, w)) \in Nat /\ Cardinality(Plain(n, {c}, w)) \in Nat
            /\ Cardinality(Plain(m, {}, w)) <= Cardinality(Plain(n, {c}, w))
        BY <1>3
      <3>5. dc[w] <= Cardinality(Plain(n, {c}, w))
        BY <3>3, <3>4
      <3> QED BY <3>2, <3>3, <3>5
    <2> QED BY <2>1, <2>2
  <1> QED BY <1>4, <1>5 DEF WorkersOK

LEMMA CountDirect ==
    ASSUME NEW m, NEW c \in Conns, ~m[c].live, ~m[c].proxied,
           NEW dc \in [Wallets -> Nat], NEW pc \in [Wallets -> Nat], WorkersOK(m, dc, pc, {}, {})
    PROVE  /\ m[c].agent # "plain" => WorkersOK(m, dc, pc, {c}, {})
           /\ m[c].agent = "plain" =>
                \A dx : (/\ \A w \in Wallets : w # m[c].w => dx[w] = dc[w]
                         /\ dx[m[c].w] = dc[m[c].w] + 1) => WorkersOK(m, dx, pc, {c}, {})
  <1>1. ASSUME NEW w \in Wallets
        PROVE  /\ Proxied(m, {c}, w) = Proxied(m, {}, w)
               /\ m[c].agent # "plain" \/ w # m[c].w => Plain(m, {c}, w) = Plain(m, {}, w)
               /\ m[c].agent = "plain" /\ w = m[c].w => Plain(m, {c}, w) = Plain(m, {}, w) \cup {c}
               /\ c \notin Plain(m, {}, w) /\ Plain(m, {}, w) \in SUBSET Conns
    BY DEF Plain, Proxied
  <1>2. ASSUME NEW w \in Wallets
        PROVE  /\ dc[w] \in Nat /\ Cardinality(Plain(m, {}, w)) \in Nat
               /\ dc[w] <= Cardinality(Plain(m, {}, w)) /\ pc[w] = Cardinality(Proxied(m, {}, w))
    BY <1>1, Sizes DEF WorkersOK
  <1>3. m[c].agent # "plain" => WorkersOK(m, dc, pc, {c}, {})
    BY <1>1, <1>2 DEF WorkersOK
  <1>4. ASSUME m[c].agent = "plain", NEW dx,
               \A w \in Wallets : w # m[c].w => dx[w] = dc[w], dx[m[c].w] = dc[m[c].w] + 1,
               NEW w \in Wallets
        PROVE  dx[w] <= Cardinality(Plain(m, {c}, w)) /\ pc[w] = Cardinality(Proxied(m, {c}, w))
    <2>1. CASE w = m[c].w
      <3>0. Plain(m, {}, w) \in SUBSET Conns /\ c \in Conns \ Plain(m, {}, w)
        BY <1>1
      <3>1. Cardinality(Plain(m, {}, w) \cup {c}) = Cardinality(Plain(m, {}, w)) + 1
        BY <3>0, Sizes
      <3>2. /\ dx[w] = dc[w] + 1 /\ Plain(m, {c}, w) = Plain(m, {}, w) \cup {c}
            /\ Proxied(m, {c}, w) = Proxied(m, {}, w)
        BY <1>1, <1>4, <2>1
      <3>3. /\ dc[w] \in Nat /\ Cardinality(Plain(m, {}, w)) \in Nat
            /\ dc[w] <= Cardinality(Plain(m, {}, w)) /\ pc[w] = Cardinality(Proxied(m, {}, w))
        BY <1>2
      <3>4. dx[w] <= Cardinality(Plain(m, {}, w)) + 1
        BY <3>2, <3>3
      <3> QED BY <3>1, <3>2, <3>3, <3>4
    <2>2. CASE w # m[c].w
      BY <1>1, <1>2, <1>4, <2>2
    <2> QED BY <2>1, <2>2
  <1> QED BY <1>3, <1>4 DEF WorkersOK

\* A session that is registered and live is not an exception.
LEMMA RegisteredIsLive ==
    ASSUME NEW S, NEW X, NEW Z, NEW c \in Conns, S.who[c].live
    PROVE  Loose(S, X, {c}, Z) <=> Loose(S, X, {}, Z)
  <1>1. \A w : Plain(S.who, {c}, w) = Plain(S.who, {}, w) /\ Proxied(S.who, {c}, w) = Proxied(S.who, {}, w)
    BY DEF Plain, Proxied
  <1> QED BY <1>1 DEF Loose, WorkersOK

LEMMA ProxyIs ==
    ASSUME NEW S, NEW X, NEW R, NEW Z, Loose(S, X, R, Z), NEW p \in [Wallets -> Nat],
           NEW Q, NEW Y, WorkersOK(S.who, S.direct, p, Q, Y)
    PROVE  /\ Loose([S EXCEPT !.proxy = p], X, Q, Y)
           /\ [S EXCEPT !.proxy = p].con = S.con /\ [S EXCEPT !.proxy = p].who = S.who
  <1> DEFINE T == [S EXCEPT !.proxy = p]
  <1>0. S \in State
    BY DEF Loose
  <1>1. T \in State
    BY <1>0, Zenon DEF State
  <1>2. /\ T.con = S.con /\ T.who = S.who /\ T.older = S.older /\ T.byIp = S.byIp
        /\ T.bySubnet = S.bySubnet /\ T.delayed = S.delayed /\ T.free = S.free
        /\ T.direct = S.direct /\ T.proxy = p /\ T.bans = S.bans /\ T.audit = S.audit
    BY <1>0, Zenon DEF State
  <1> HIDE DEF T
  <1>3. Loose(T, X, Q, Y)
    BY <1>1, <1>2, Zenon DEF Loose
  <1> QED BY <1>2, <1>3 DEF T

LEMMA DirectIs ==
    ASSUME NEW S, NEW X, NEW R, NEW Z, Loose(S, X, R, Z), NEW p \in [Wallets -> Nat],
           NEW Q, NEW Y, WorkersOK(S.who, p, S.proxy, Q, Y)
    PROVE  /\ Loose([S EXCEPT !.direct = p], X, Q, Y)
           /\ [S EXCEPT !.direct = p].con = S.con /\ [S EXCEPT !.direct = p].who = S.who
  <1> DEFINE T == [S EXCEPT !.direct = p]
  <1>0. S \in State
    BY DEF Loose
  <1>1. T \in State
    BY <1>0, Zenon DEF State
  <1>2. /\ T.con = S.con /\ T.who = S.who /\ T.older = S.older /\ T.byIp = S.byIp
        /\ T.bySubnet = S.bySubnet /\ T.delayed = S.delayed /\ T.free = S.free
        /\ T.direct = p /\ T.proxy = S.proxy /\ T.bans = S.bans /\ T.audit = S.audit
    BY <1>0, Zenon DEF State
  <1> HIDE DEF T
  <1>3. Loose(T, X, Q, Y)
    BY <1>1, <1>2, Zenon DEF Loose
  <1> QED BY <1>2, <1>3 DEF T

\* The registry's order and the audit look at live and wallet only.
SameSessions(m, n) == \A d \in Conns : (n[d].live <=> m[d].live) /\ n[d].w = m[d].w

LEMMA OrderKept ==
    ASSUME NEW m, NEW n, SameSessions(m, n),
           NEW o \in [Conns -> SUBSET Conns], NEW a \in AuditRecs, NEW banned
    PROVE  /\ OrderOK(m, o) => OrderOK(n, o)
           /\ AuditOK(m, o, a, banned) => AuditOK(n, o, a, banned)
  <1>1. OrderOK(m, o) => OrderOK(n, o)
    BY DEF OrderOK, SameSessions
  <1>2. a.must \subseteq Conns
    BY DEF AuditRecs
  <1>3. AuditOK(m, o, a, banned) => AuditOK(n, o, a, banned)
    BY <1>2 DEF AuditOK, SameSessions
  <1> QED BY <1>1, <1>3

\* The session on slot c gets its proxied mark.
Mark(S, c) == [S EXCEPT !.who[c].proxied = TRUE]

LEMMA MarkKeeps ==
    ASSUME NEW S, Good(S), NEW c \in Conns, S.con[c].st # "free"
    PROVE  /\ Loose(Mark(S, c), {}, {}, {S.who[c].w})
           /\ Mark(S, c).con = S.con /\ Mark(S, c).proxy = S.proxy
           /\ Mark(S, c).who[c].w = S.who[c].w /\ Mark(S, c).who[c].live = S.who[c].live
           /\ Marked(S.who, Mark(S, c).who, c) /\ Mark(S, c).who[c].proxied
           /\ Mark(S, c).direct = S.direct
  <1> DEFINE m == [S.who[c] EXCEPT !.proxied = TRUE]
             T == Know(S, c, m)
  <1>0. /\ S \in State /\ S.who[c] \in MinerRecs /\ S.older \in [Conns -> SUBSET Conns]
        /\ S.audit \in AuditRecs /\ S.direct \in [Wallets -> Nat] /\ S.proxy \in [Wallets -> Nat]
    BY Fields DEF Good, Loose
  <1>1. /\ m \in MinerRecs /\ m.w = S.who[c].w /\ m.live = S.who[c].live /\ m.proxied
        /\ m.agent = S.who[c].agent /\ m.seen = S.who[c].seen
    BY <1>0 DEF MinerRecs
  <1>2. Mark(S, c) = T
    BY Zenon DEF Mark, Know
  <1> HIDE DEF m
  <1>3. /\ T \in State /\ T.con = S.con /\ SameSeats(S, T) /\ T.delayed = S.delayed
        /\ T.free = S.free /\ T.older = S.older /\ T.direct = S.direct /\ T.proxy = S.proxy
        /\ T.audit = S.audit /\ T.bans = S.bans
        /\ T.who[c] = m /\ \A d \in Conns : d # c => T.who[d] = S.who[d]
    BY <1>0, <1>1, KnowIs
  <1> HIDE DEF T
  <1>4. Marked(S.who, T.who, c)
    BY <1>1, <1>3 DEF Marked
  <1>5. /\ WorkersOK(S.who, S.direct, S.proxy, {}, {}) /\ OrderOK(S.who, S.older)
        /\ AuditOK(S.who, S.older, S.audit, S.bans.address)
    BY DEF Good, Loose
  <1>6. WorkersOK(T.who, S.direct, S.proxy, {}, {S.who[c].w})
    BY <1>0, <1>1, <1>3, <1>4, <1>5, CountProxy
  <1>7. SameSessions(S.who, T.who)
    BY <1>4 DEF Marked, SameSessions
  <1>8. OrderOK(T.who, S.older) /\ AuditOK(T.who, S.older, S.audit, S.bans.address)
    BY <1>0, <1>5, <1>7, OrderKept
  <1>9. ASSUME NEW d \in Conns
        PROVE  SlotOK(T.con[d], T.who[d]) /\ ClockOK(T.con[d], T.who[d])
    <2>1. SlotOK(S.con[d], S.who[d]) /\ ClockOK(S.con[d], S.who[d])
      BY DEF Good, Loose
    <2>2. CASE d # c
      BY <1>3, <2>1, <2>2
    <2>3. CASE d = c /\ S.con[d].st # "free"
      BY <1>1, <1>3, <2>1, <2>3 DEF SlotOK, ClockOK
    <2> QED BY <1>3, <2>1, <2>2, <2>3
  <1>10. SeatsOK(T.con, T.byIp, T.bySubnet) /\ IdsOK(T.con, T.free) /\ DelayedOK(T.con, T.delayed)
    BY <1>3, Zenon DEF Good, Loose, SameSeats
  <1>11. Loose(T, {}, {}, {S.who[c].w})
    BY <1>3, <1>6, <1>8, <1>9, <1>10 DEF Loose
  <1> QED BY <1>1, <1>2, <1>3, <1>4, <1>11

\* What Register and addProxyMiner return: a miner that may stay is counted,
\* one that may not leaves no count behind.
Outcome(S, c, P) ==
    /\ P.ok \in BOOLEAN
    /\ P.ok => /\ Loose(P.S, {}, {c}, {}) /\ P.S.con = S.con
               /\ P.S.who[c].live = S.who[c].live /\ P.S.who[c].w = S.who[c].w
    /\ ~P.ok => /\ Good(P.S)
                /\ ~S.who[c].live => P.S.con[c] = S.con[c] /\ ~P.S.who[c].live

LEMMA AddProxyKeeps ==
    ASSUME NEW S, Good(S), NEW c \in Conns, S.con[c].st # "free", S.who[c].w \in Wallets,
           S.who[c].live \/ ~S.who[c].proxied
    PROVE  Outcome(S, c, AddProxy(S, c))
  <1> DEFINE w == S.who[c].w
             T == Mark(S, c)
             P == AddProxy(S, c)
             U == [T EXCEPT !.bans.big = @ \cup {w}]
             C == {d \in Live(U) : U.who[d].w = w}
             p == [T.proxy EXCEPT ![w] = T.proxy[w] + 1]
             V == [T EXCEPT !.proxy = p]
  <1>1. /\ S \in State /\ S.direct \in [Wallets -> Nat] /\ S.proxy \in [Wallets -> Nat]
        /\ WorkersOK(S.who, S.direct, S.proxy, {}, {}) /\ S.who[c].live \in BOOLEAN
    BY Fields DEF Good, Loose, MinerRecs
  <1>2. /\ Loose(T, {}, {}, {w}) /\ T.con = S.con /\ T.proxy = S.proxy /\ T.direct = S.direct
        /\ T.who[c].w = w /\ T.who[c].live = S.who[c].live
        /\ Marked(S.who, T.who, c) /\ T.who[c].proxied
    BY MarkKeeps
  <1>3. P = IF S.who[c].proxied /\ S.proxy[w] > 0 THEN [ok |-> TRUE, S |-> S]
            ELSE IF S.proxy[w] < ProxyWorkerMax \/ S.proxy[w] = 0
            THEN [ok |-> TRUE, S |-> [T EXCEPT !.proxy[w] = @ + 1]]
            ELSE [ok |-> FALSE, S |-> RemoveMiners([T EXCEPT !.bans.big = @ \cup {w}],
                                                   {d \in Live(S) : S.who[d].w = w}, "end")]
    BY DEF AddProxy, Mark
  <1>4. [T EXCEPT !.proxy[w] = @ + 1] = V
    BY Zenon
  <1> HIDE DEF T, V, P
  <1>5. CASE S.who[c].proxied /\ S.proxy[w] > 0
    <2>1. P = [ok |-> TRUE, S |-> S]
      BY <1>3, <1>5
    <2>2. Loose(S, {}, {c}, {})
      BY <1>5, RegisteredIsLive DEF Good
    <2> QED BY <2>1, <2>2 DEF Outcome, P
  <1>6. CASE ~(S.who[c].proxied /\ S.proxy[w] > 0) /\ (S.proxy[w] < ProxyWorkerMax \/ S.proxy[w] = 0)
    <2>1. P = [ok |-> TRUE, S |-> V]
      BY <1>3, <1>4, <1>6
    <2>2. ~(S.who[c].live /\ S.who[c].proxied)
      <3>1. SUFFICES ASSUME S.who[c].live, S.who[c].proxied PROVE FALSE
        OBVIOUS
      <3> DEFINE A == Proxied(S.who, {}, w)
      <3>2. c \in A /\ A \in SUBSET Conns
        BY <3>1 DEF Proxied
      <3>3. S.proxy[w] = Cardinality(A)
        BY <1>1 DEF WorkersOK
      <3> HIDE DEF A
      <3>4. Cardinality(A \ {c}) = Cardinality(A) - 1 /\ Cardinality(A \ {c}) \in Nat /\ Cardinality(A) \in Nat
        <4>1. A \ {c} \in SUBSET Conns
          BY <3>2
        <4> QED BY <3>2, <4>1, Sizes
      <3> QED BY <1>6, <3>1, <3>3, <3>4
    <2>3. /\ p \in [Wallets -> Nat] /\ p[w] = S.proxy[w] + 1
          /\ \A v \in Wallets : v # w => p[v] = S.proxy[v]
      BY <1>1, <1>2
    <2> HIDE DEF p
    <2>4. WorkersOK(T.who, S.direct, p, {c}, {})
      BY <1>1, <1>2, <2>2, <2>3, CountProxy
    <2>5. Loose(V, {}, {c}, {}) /\ V.con = T.con /\ V.who = T.who
      BY <1>2, <2>3, <2>4, ProxyIs DEF V
    <2> QED BY <1>2, <2>1, <2>5 DEF Outcome, P
  <1>7. CASE ~(S.who[c].proxied /\ S.proxy[w] > 0) /\ ~(S.proxy[w] < ProxyWorkerMax \/ S.proxy[w] = 0)
    <2>1. T \in State
      BY <1>2 DEF Loose
    <2>2. Quiet(T, U)
      BY <2>1, BigBanIs
    <2> HIDE DEF U
    <2>3. Loose(U, {}, {}, {w})
      BY <1>2, <2>2, QuietKeeps
    <2>4. U.con = S.con /\ U.who = T.who
      BY <1>2, <2>2 DEF Quiet
    <2>5. {d \in Live(S) : S.who[d].w = w} = C
      BY <1>2, <2>4 DEF Live, Marked
    <2>6. P = [ok |-> FALSE, S |-> RemoveMiners(U, C, "end")]
      BY <1>3, <1>7, <2>5 DEF U
    <2>7. C \in SUBSET Conns /\ Covers(U, C, {w}, {})
      BY DEF Live, Covers
    <2> HIDE DEF C
    <2>8. Loose(RemoveMiners(U, C, "end"), {} \ (C \cap Live(U)), {}, {})
      BY <2>3, <2>7, RemoveKeeps
    <2>9. {} \ (C \cap Live(U)) = {}
      OBVIOUS
    <2>10. Good(RemoveMiners(U, C, "end"))
      BY <2>8, <2>9 DEF Good
    <2>11. ~S.who[c].live => /\ RemoveMiners(U, C, "end").con[c] = S.con[c]
                             /\ ~RemoveMiners(U, C, "end").who[c].live
      <3>1. Others(U, RemoveMiners(U, C, "end"))
        BY <2>3, <2>7, RemoveKeeps
      <3> QED BY <1>2, <2>4, <3>1 DEF Others
    <2> QED BY <2>6, <2>10, <2>11 DEF Outcome, P
  <1> QED BY <1>5, <1>6, <1>7 DEF P

LEMMA RegisterDirectKeeps ==
    ASSUME NEW S, Good(S), NEW c \in Conns, S.who[c].w \in Wallets,
           ~S.who[c].live, ~S.who[c].proxied, S.who[c].agent = "plain"
    PROVE  Outcome(S, c, RegisterDirect(S, c))
  <1> DEFINE w == S.who[c].w
             p == [S.direct EXCEPT ![w] = S.direct[w] + 1]
             P == RegisterDirect(S, c)
             T == [S EXCEPT !.direct = p]
             U == [S EXCEPT !.bans.big = @ \cup {w}]
  <1>1. /\ S \in State /\ S.direct \in [Wallets -> Nat] /\ S.proxy \in [Wallets -> Nat]
        /\ WorkersOK(S.who, S.direct, S.proxy, {}, {})
    BY Fields DEF Good, Loose
  <1>2. T = [S EXCEPT !.direct[w] = @ + 1]
    BY Zenon
  <1>3. P = IF S.direct[w] = 0 \/ S.direct[w] < WorkerMax THEN [ok |-> TRUE, S |-> T]
            ELSE [ok |-> FALSE, S |-> U]
    BY <1>2 DEF RegisterDirect
  <1>4. /\ p \in [Wallets -> Nat] /\ p[w] = S.direct[w] + 1
        /\ \A v \in Wallets : v # w => p[v] = S.direct[v]
    BY <1>1
  <1> HIDE DEF p, P
  <1>5. WorkersOK(S.who, p, S.proxy, {c}, {})
    BY <1>1, <1>4, CountDirect
  <1>6. Loose(T, {}, {c}, {}) /\ T.con = S.con /\ T.who = S.who
    BY <1>4, <1>5, DirectIs DEF Good
  <1>7. Quiet(S, U)
    BY <1>1, BigBanIs
  <1> HIDE DEF T, U
  <1>8. Good(U) /\ U.con = S.con /\ U.who = S.who
    BY <1>7, QuietKeeps DEF Good, Quiet
  <1>9. CASE S.direct[w] = 0 \/ S.direct[w] < WorkerMax
    <2>1. P = [ok |-> TRUE, S |-> T]
      BY <1>3, <1>9
    <2> QED BY <1>6, <2>1 DEF Outcome, P
  <1>10. CASE ~(S.direct[w] = 0 \/ S.direct[w] < WorkerMax)
    <2>1. P = [ok |-> FALSE, S |-> U]
      BY <1>3, <1>10
    <2> QED BY <1>8, <2>1 DEF Outcome, P
  <1> QED BY <1>9, <1>10 DEF P

\* registerMinerWallet
LEMMA RegisterKeeps ==
    ASSUME NEW S, Good(S), NEW c \in Conns, S.con[c].st # "free", S.who[c].w \in Wallets,
           ~S.who[c].live, ~S.who[c].proxied
    PROVE  Outcome(S, c, Register(S, c))
  <1>1. /\ S.direct \in [Wallets -> Nat] /\ S.proxy \in [Wallets -> Nat]
        /\ WorkersOK(S.who, S.direct, S.proxy, {}, {})
        /\ S.who[c].agent \in {"plain", "proxy", "node"}
    BY SlotTyped, Fields DEF Good, Loose, MinerRecs
  <1>2. CASE S.who[c].agent = "node"
    <2>1. Register(S, c) = [ok |-> TRUE, S |-> S]
      BY <1>2 DEF Register
    <2>2. WorkersOK(S.who, S.direct, S.proxy, {c}, {})
      BY <1>1, <1>2, CountDirect
    <2>3. Loose(S, {}, {c}, {})
      BY <2>2 DEF Good, Loose
    <2> QED BY <2>1, <2>3 DEF Outcome
  <1>3. CASE S.who[c].agent = "proxy" \/ (S.who[c].agent = "plain" /\ S.proxy[S.who[c].w] > 0)
    <2>1. Register(S, c) = AddProxy(S, c)
      BY <1>3 DEF Register
    <2> QED BY <2>1, AddProxyKeeps
  <1>4. CASE S.who[c].agent = "plain" /\ ~(S.proxy[S.who[c].w] > 0)
    <2>1. Register(S, c) = RegisterDirect(S, c)
      BY <1>4 DEF Register
    <2> QED BY <1>4, <2>1, RegisterDirectKeeps
  <1> QED BY <1>1, <1>2, <1>3, <1>4

-----------------------------------------------------------------------------
(* The extranonce ids *)

LEMMA IdsTyped ==
    ASSUME NEW k \in SocketRecs, NEW m, SlotOK(k, m)
    PROVE  /\ k.xid = 0 /\ k.prev = 0 => Ids(k) = {}
           /\ k.xid # 0 => Ids(k) = {k.xid} /\ k.xid \in 1..ExtraNonces
           /\ k.prev # 0 => Ids(k) = {k.prev} /\ k.prev \in 1..ExtraNonces
  <1>1. k.xid \in 0..ExtraNonces /\ k.prev \in 0..ExtraNonces
    BY DEF SocketRecs
  <1> QED BY <1>1, Constants DEF SlotOK, Ids

LEMMA FreeIds ==
    ASSUME NEW q \in Seq(1..ExtraNonces), q # <<>>
    PROVE  LET N == Len(q)
               p == Front(q) IN
           /\ N \in Nat /\ N > 0 /\ q[N] \in 1..ExtraNonces /\ Last(q) = q[N]
           /\ p \in Seq(1..ExtraNonces) /\ Len(p) = N - 1
           /\ \A j \in 1..(N - 1) : p[j] = q[j]
           /\ \A j \in 1..N : j \in 1..(N - 1) \/ j = N
  <1> DEFINE N == Len(q)
             p == Front(q)
  <1>1. N \in Nat /\ N > 0 /\ N - 1 \in Int /\ (\A j \in 1..N : q[j] \in 1..ExtraNonces) /\ N \in 1..N
    <2>1. N \in Nat /\ (\A j \in 1..N : q[j] \in 1..ExtraNonces)
      BY LenProperties, ElementOfSeq
    <2>2. N # 0
      BY EmptySeq
    <2> HIDE DEF N
    <2> QED BY <2>1, <2>2
  <1>2. \A j \in 1..(N - 1) : q[j] \in 1..ExtraNonces
    BY <1>1
  <1>3. p = SubSeq(q, 1, N - 1)
    BY DEF Front
  <1> HIDE DEF p, N
  <1>4. /\ p \in Seq(1..ExtraNonces) /\ Len(p) = IF 1 <= N - 1 THEN (N - 1) - 1 + 1 ELSE 0
        /\ \A j \in 1..((N - 1) - 1 + 1) : p[j] = q[1 + j - 1]
    BY <1>1, <1>2, <1>3, SubSeqProperties
  <1>5. Len(p) = N - 1 /\ \A j \in 1..(N - 1) : p[j] = q[j]
    BY <1>1, <1>4
  <1>6. Last(q) = q[N]
    BY DEF Last, N
  <1>7. \A j \in 1..N : j \in 1..(N - 1) \/ j = N
    BY <1>1
  <1>8. q[N] \in 1..ExtraNonces
    BY <1>1
  <1> QED BY <1>1, <1>4, <1>5, <1>6, <1>7, <1>8, Zenon DEF N, p

LEMMA TakeId ==
    ASSUME NEW f, NEW g, NEW c \in Conns, Elsewhere(g, f, c),
           NEW q \in Seq(1..ExtraNonces), q # <<>>, IdsOK(f, q),
           Ids(f[c]) = {}, Ids(g[c]) = {Last(q)}
    PROVE  /\ Last(q) \in 1..ExtraNonces /\ Front(q) \in Seq(1..ExtraNonces)
           /\ IdsOK(g, Front(q))
  <1> DEFINE N == Len(q)
             p == Front(q)
  <1>1. /\ N \in Nat /\ N > 0 /\ q[N] \in 1..ExtraNonces /\ Last(q) = q[N]
        /\ p \in Seq(1..ExtraNonces) /\ Len(p) = N - 1
        /\ \A j \in 1..(N - 1) : p[j] = q[j]
        /\ \A j \in 1..N : j \in 1..(N - 1) \/ j = N
    BY FreeIds
  <1>2. /\ \A i, j \in 1..N : q[i] = q[j] => i = j
        /\ \A d \in Conns : \A n \in Ids(f[d]) : \A j \in 1..N : q[j] # n
        /\ \A d \in Conns : \A n \in Ids(f[d]) : \A e \in Conns : n \in Ids(f[e]) => e = d
        /\ \A n \in 1..ExtraNonces :
             (\E d \in Conns : n \in Ids(f[d])) \/ (\E j \in 1..N : q[j] = n)
    BY DEF IdsOK
  <1>3. /\ \A d \in Conns : d # c => Ids(g[d]) = Ids(f[d])
        /\ Ids(g[c]) = {q[N]} /\ Ids(f[c]) = {}
    BY <1>1 DEF Elsewhere
  <1>4. N \in 1..N /\ \A j \in 1..(N - 1) : j \in 1..N /\ j # N
    BY <1>1
  <1> HIDE DEF N, p
  <1>5. \A i, j \in 1..Len(p) : p[i] = p[j] => i = j
    BY <1>1, <1>2, <1>4
  <1>6. ASSUME NEW d \in Conns, NEW n \in Ids(g[d])
        PROVE  /\ \A e \in Conns : n \in Ids(g[e]) => e = d
               /\ \A j \in 1..Len(p) : p[j] # n
    <2>1. CASE d = c
      <3>1. n = q[N] /\ N \in 1..N /\ \A e \in Conns : n \notin Ids(f[e])
        BY <1>2, <1>3, <1>4, <1>6, <2>1
      <3>2. \A j \in 1..(N - 1) : q[j] # n
        BY <1>2, <1>4, <3>1
      <3> QED BY <1>1, <1>3, <2>1, <3>1, <3>2
    <2>2. CASE d # c
      <3>1. n \in Ids(f[d]) /\ n # q[N]
        BY <1>2, <1>3, <1>4, <1>6, <2>2
      <3>2. \A e \in Conns : n \in Ids(g[e]) => e = d
        BY <1>2, <1>3, <3>1
      <3>3. \A j \in 1..(N - 1) : q[j] # n
        BY <1>2, <1>4, <3>1
      <3> QED BY <1>1, <3>2, <3>3
    <2> QED BY <2>1, <2>2
  <1>7. \A n \in 1..ExtraNonces : (\E d \in Conns : n \in Ids(g[d])) \/ (\E j \in 1..Len(p) : p[j] = n)
    BY <1>1, <1>2, <1>3, <1>4
  <1> QED BY <1>1, <1>5, <1>6, <1>7 DEF IdsOK, p

LEMMA GiveId ==
    ASSUME NEW f, NEW g, NEW c \in Conns, Elsewhere(g, f, c),
           NEW q \in Seq(1..ExtraNonces), IdsOK(f, q),
           NEW n \in 1..ExtraNonces, Ids(f[c]) = {n}, Ids(g[c]) = {}
    PROVE  Append(q, n) \in Seq(1..ExtraNonces) /\ IdsOK(g, Append(q, n))
  <1> DEFINE N == Len(q)
             p == Append(q, n)
  <1>1. /\ N \in Nat /\ p \in Seq(1..ExtraNonces) /\ Len(p) = N + 1 /\ p[N + 1] = n
        /\ \A j \in 1..N : p[j] = q[j]
        /\ \A j \in 1..(N + 1) : j \in 1..N \/ j = N + 1
        /\ \A j \in 1..N : j \in 1..(N + 1)
        /\ N + 1 \in 1..(N + 1)
    OBVIOUS
  <1>2. /\ \A i, j \in 1..N : q[i] = q[j] => i = j
        /\ \A d \in Conns : \A k \in Ids(f[d]) : \A j \in 1..N : q[j] # k
        /\ \A d \in Conns : \A k \in Ids(f[d]) : \A e \in Conns : k \in Ids(f[e]) => e = d
        /\ \A k \in 1..ExtraNonces :
             (\E d \in Conns : k \in Ids(f[d])) \/ (\E j \in 1..N : q[j] = k)
    BY DEF IdsOK
  <1>3. /\ \A d \in Conns : d # c => Ids(g[d]) = Ids(f[d])
        /\ Ids(f[c]) = {n} /\ Ids(g[c]) = {}
    BY DEF Elsewhere
  <1> HIDE DEF N, p
  <1>4. \A i, j \in 1..Len(p) : p[i] = p[j] => i = j
    BY <1>1, <1>2, <1>3
  <1>5. ASSUME NEW d \in Conns, NEW k \in Ids(g[d])
        PROVE  /\ \A e \in Conns : k \in Ids(g[e]) => e = d
               /\ \A j \in 1..Len(p) : p[j] # k
    <2>1. d # c /\ k \in Ids(f[d]) /\ k # n
      BY <1>2, <1>3, <1>5
    <2> QED BY <1>1, <1>2, <1>3, <2>1
  <1>6. \A k \in 1..ExtraNonces : (\E d \in Conns : k \in Ids(g[d])) \/ (\E j \in 1..Len(p) : p[j] = k)
    BY <1>1, <1>2, <1>3
  <1> QED BY <1>1, <1>4, <1>5, <1>6 DEF IdsOK, p

LEMMA SameIds ==
    ASSUME NEW f, NEW g, NEW q, IdsOK(f, q), \A d \in Conns : Ids(g[d]) = Ids(f[d])
    PROVE  IdsOK(g, q)
  BY DEF IdsOK

\* The socket of slot c is k and the free ids are q.
PutFree(S, c, k, q) == [Put(S, c, k) EXCEPT !.free = q]
SameSeat(k, l) == l.ip = k.ip /\ l.held = k.held

LEMMA PutFreeKeeps ==
    ASSUME NEW S, NEW X, NEW R, NEW Z, Loose(S, X, R, Z), NEW c \in Conns, NEW k \in SocketRecs,
           SameSeat(S.con[c], k), SlotOK(k, S.who[c]), c \notin X => ClockOK(k, S.who[c]),
           NEW q \in Seq(1..ExtraNonces), IdsOK([S.con EXCEPT ![c] = k], q)
    PROVE  /\ Loose(PutFree(S, c, k, q), X, R, Z)
           /\ PutFree(S, c, k, q).con[c] = k /\ PutFree(S, c, k, q).who = S.who
           /\ PutFree(S, c, k, q).bans = S.bans
  <1> DEFINE P == Put(S, c, k)
             T == PutFree(S, c, k, q)
  <1>1. S \in State /\ S.delayed \in [Ips -> Conns \cup {Nobody}] /\ S.con \in [Conns -> SocketRecs]
    BY Fields DEF Loose
  <1>2. /\ P \in State /\ P.con = [S.con EXCEPT ![c] = k]
        /\ SameMiners(S, P) /\ SameSeats(S, P) /\ P.delayed = S.delayed
    BY <1>1, PutIs
  <1>3. T = [P EXCEPT !.free = q]
    BY DEF PutFree
  <1> HIDE DEF P, T
  <1>4. T \in State
    BY <1>2, <1>3, Zenon DEF State
  <1>5. /\ T.con = P.con /\ T.who = P.who /\ T.older = P.older /\ T.byIp = P.byIp
        /\ T.bySubnet = P.bySubnet /\ T.delayed = P.delayed /\ T.free = q
        /\ T.direct = P.direct /\ T.proxy = P.proxy /\ T.bans = P.bans /\ T.audit = P.audit
    BY <1>2, <1>3, Zenon DEF State
  <1>6. /\ T.who = S.who /\ T.older = S.older /\ T.direct = S.direct /\ T.proxy = S.proxy
        /\ T.bans = S.bans /\ T.audit = S.audit /\ T.byIp = S.byIp /\ T.bySubnet = S.bySubnet
        /\ T.delayed = S.delayed /\ T.con = [S.con EXCEPT ![c] = k]
    BY <1>2, <1>5 DEF SameMiners, SameSeats
  <1>7. T.con[c] = k /\ Elsewhere(T.con, S.con, c)
    BY <1>1, <1>6 DEF Elsewhere
  <1>8. IdsOK(T.con, T.free)
    BY <1>5, <1>6
  <1>9. SeatsOK(T.con, T.byIp, T.bySubnet) /\ DelayedOK(T.con, T.delayed)
    <2>1. \A d \in Conns : T.con[d].ip = S.con[d].ip /\ T.con[d].held = S.con[d].held
      BY <1>7 DEF Elsewhere, SameSeat
    <2>2. /\ \A i \in Ips : HeldBy(T.con, i) = HeldBy(S.con, i)
          /\ \A n \in Subnets : HeldBySubnet(T.con, n) = HeldBySubnet(S.con, n)
      BY <2>1 DEF HeldBy, HeldBySubnet
    <2>3. SeatsOK(T.con, T.byIp, T.bySubnet)
      BY <1>6, <2>2 DEF SeatsOK, Loose
    <2>4. DelayedOK(T.con, T.delayed)
      BY <1>1, <1>6, <2>1 DEF DelayedOK, Loose
    <2> QED BY <2>3, <2>4
  <1>10. /\ \A d \in Conns : SlotOK(T.con[d], T.who[d])
         /\ \A d \in Conns \ X : ClockOK(T.con[d], T.who[d])
    BY <1>6, <1>7 DEF Loose, Elsewhere
  <1>11. /\ WorkersOK(T.who, T.direct, T.proxy, R, Z) /\ OrderOK(T.who, T.older)
         /\ AuditOK(T.who, T.older, T.audit, T.bans.address)
    BY <1>6, Zenon DEF Loose
  <1>12. Loose(T, X, R, Z)
    BY <1>4, <1>8, <1>9, <1>10, <1>11 DEF Loose
  <1> QED BY <1>6, <1>7, <1>12 DEF T

\* l is k but for the extranonce ids.
AsBefore(k, l) ==
    /\ l.st = k.st /\ SameSeat(k, l) /\ l.fin = k.fin /\ l.auth = k.auth
    /\ l.first = k.first /\ l.final = k.final /\ l.mid = k.mid

LEMMA IdChange ==
    ASSUME NEW k \in SocketRecs, NEW l \in SocketRecs, NEW m, AsBefore(k, l),
           l.xid = 0 \/ l.prev = 0, k.st # "free", SlotOK(k, m), ClockOK(k, m)
    PROVE  SlotOK(l, m) /\ ClockOK(l, m)
  BY DEF AsBefore, SameSeat, SlotOK, ClockOK

\* claimEthExtranonceId and subscribe: slot c takes the last free id.
LEMMA TakeKeeps ==
    ASSUME NEW S, Good(S), NEW c \in Conns, S.con[c].st # "free", S.free # <<>>,
           S.con[c].xid = 0, S.con[c].prev = 0,
           NEW l \in SocketRecs, AsBefore(S.con[c], l), l.xid = 0 \/ l.prev = 0,
           {l.xid, l.prev} = {0, Last(S.free)}
    PROVE  /\ Good(PutFree(S, c, l, Front(S.free)))
           /\ PutFree(S, c, l, Front(S.free)).con[c] = l
           /\ PutFree(S, c, l, Front(S.free)).who = S.who
           /\ PutFree(S, c, l, Front(S.free)).bans = S.bans
  <1> DEFINE f == S.con
             g == [S.con EXCEPT ![c] = l]
             q == S.free
  <1>1. /\ S \in State /\ f \in [Conns -> SocketRecs] /\ q \in Seq(1..ExtraNonces)
        /\ f[c] \in SocketRecs /\ SlotOK(f[c], S.who[c]) /\ ClockOK(f[c], S.who[c])
        /\ IdsOK(f, q)
    BY SlotTyped, Fields DEF Good, Loose
  <1>2. g[c] = l /\ Elsewhere(g, f, c)
    BY <1>1 DEF Elsewhere
  <1>3. Ids(f[c]) = {}
    BY DEF Ids
  <1>4. SlotOK(l, S.who[c]) /\ ClockOK(l, S.who[c])
    BY <1>1, IdChange
  <1> HIDE DEF f, g, q
  <1>5. q # <<>> /\ Last(q) \in 1..ExtraNonces /\ Front(q) \in Seq(1..ExtraNonces)
    <2>1. q # <<>>
      BY DEF q
    <2> QED BY <1>1, <2>1, FreeIds
  <1>6. Ids(g[c]) = {Last(q)}
    <2>1. Last(q) # 0
      BY <1>5
    <2> QED BY <1>2, <2>1 DEF Ids, q
  <1>7. IdsOK(g, Front(q))
    BY <1>1, <1>2, <1>3, <1>5, <1>6, TakeId
  <1>8. SameSeat(f[c], l)
    BY DEF AsBefore, f
  <1> QED BY <1>1, <1>4, <1>5, <1>7, <1>8, PutFreeKeeps DEF Good, f, g, q

LEMMA PutFreeSame ==
    ASSUME NEW S \in State, NEW c \in Conns, NEW k \in SocketRecs
    PROVE  PutFree(S, c, k, S.free) = Put(S, c, k)
  <1> DEFINE T == Put(S, c, k)
  <1>1. T \in State /\ T.free = S.free
    BY PutIs
  <1>2. PutFree(S, c, k, S.free) = [T EXCEPT !.free = S.free]
    BY DEF PutFree
  <1> HIDE DEF T
  <1>3. [T EXCEPT !.free = S.free] = T
    BY <1>1, Zenon DEF State
  <1> QED BY <1>2, <1>3 DEF T

LEMMA ClaimKeeps ==
    ASSUME NEW S, Good(S), NEW c \in Conns, S.con[c].st # "free"
    PROVE  /\ Good(Claim(S, c)) /\ AsBefore(S.con[c], Claim(S, c).con[c])
           /\ Claim(S, c).who = S.who /\ Claim(S, c).bans = S.bans
  <1> DEFINE k == S.con[c]
             l == [k EXCEPT !.xid = k.prev, !.prev = 0]
             h == [k EXCEPT !.xid = Last(S.free)]
  <1>1. /\ S \in State /\ k \in SocketRecs /\ SlotOK(k, S.who[c]) /\ ClockOK(k, S.who[c])
        /\ S.free \in Seq(1..ExtraNonces) /\ IdsOK(S.con, S.free)
        /\ S.con \in [Conns -> SocketRecs]
    BY SlotTyped, Fields DEF Good, Loose
  <1>2. CASE k.xid # 0
    BY <1>2 DEF Claim, AsBefore, SameSeat
  <1>3. CASE k.xid = 0 /\ k.prev # 0
    <2>1. Claim(S, c) = Put(S, c, l)
      BY <1>3 DEF Claim
    <2>2. l \in SocketRecs /\ AsBefore(k, l) /\ l.xid = k.prev /\ l.prev = 0
      <3>1. k.prev \in 0..ExtraNonces /\ 0 \in 0..ExtraNonces
        BY <1>1, Constants DEF SocketRecs
      <3> HIDE DEF k
      <3> QED BY <1>1, <3>1 DEF SocketRecs, AsBefore, SameSeat
    <2>3. SlotOK(l, S.who[c]) /\ ClockOK(l, S.who[c]) /\ Ids(l) = Ids(k)
      BY <1>1, <1>3, <2>2, IdChange DEF Ids
    <2> HIDE DEF l
    <2>4. IdsOK([S.con EXCEPT ![c] = l], S.free)
      <3> DEFINE g == [S.con EXCEPT ![c] = l]
      <3>1. \A d \in Conns : Ids(g[d]) = Ids(S.con[d])
        BY <1>1, <2>3
      <3> HIDE DEF g
      <3>2. IdsOK(g, S.free)
        BY <1>1, <3>1, SameIds
      <3> QED BY <3>2 DEF g
    <2>5. Claim(S, c) = PutFree(S, c, l, S.free)
      BY <1>1, <2>1, <2>2, PutFreeSame
    <2>6. SameSeat(k, l)
      BY <2>2 DEF AsBefore
    <2> QED BY <1>1, <2>2, <2>3, <2>4, <2>5, <2>6, PutFreeKeeps DEF Good
  <1>4. CASE k.xid = 0 /\ k.prev = 0 /\ S.free = <<>>
    BY <1>4 DEF Claim, AsBefore, SameSeat
  <1>5. CASE k.xid = 0 /\ k.prev = 0 /\ S.free # <<>>
    <2>1. Claim(S, c) = PutFree(S, c, h, Front(S.free))
      <3>1. Claim(S, c) = [Put(S, c, h) EXCEPT !.free = Front(@)]
        BY <1>5 DEF Claim
      <3>2. Put(S, c, h).free = S.free
        BY Zenon, <1>1 DEF Put, State
      <3> QED BY <3>1, <3>2, Zenon DEF PutFree
    <2>2. h \in SocketRecs /\ AsBefore(k, h) /\ h.xid = Last(S.free) /\ h.prev = 0
      <3>1. Last(S.free) \in 0..ExtraNonces
        <4>1. Last(S.free) \in 1..ExtraNonces
          BY <1>1, <1>5, FreeIds
        <4> QED BY <4>1, Constants
      <3> QED BY <1>1, <1>5, <3>1 DEF SocketRecs, AsBefore, SameSeat
    <2> HIDE DEF h
    <2>3. {h.xid, h.prev} = {0, Last(S.free)}
      BY <2>2
    <2> QED BY <1>5, <2>1, <2>2, <2>3, TakeKeeps
  <1> QED BY <1>2, <1>3, <1>4, <1>5

-----------------------------------------------------------------------------
(* Login *)

\* addActiveMiner
LEMMA ActivateKeeps ==
    ASSUME NEW S, NEW c \in Conns, Loose(S, {c}, {c}, {}), ~S.who[c].live, S.who[c].w \in Wallets,
           S.con[c].st = "open", ~S.con[c].fin, S.con[c].first, S.con[c].mid
    PROVE  Good(AddActiveMiner(S, c)) /\ AddActiveMiner(S, c).con = S.con
  <1> DEFINE m == [S.who[c] EXCEPT !.live = TRUE]
             W == [S.who EXCEPT ![c] = m]
             o == [S.older EXCEPT ![c] = Live(S)]
             a == [S.audit EXCEPT !.passed = S.audit.passed \ {c}]
             T == AddActiveMiner(S, c)
  <1>1. /\ S \in State /\ S.who \in [Conns -> MinerRecs] /\ S.who[c] \in MinerRecs
        /\ S.older \in [Conns -> SUBSET Conns] /\ S.audit \in AuditRecs
        /\ SlotOK(S.con[c], S.who[c])
    BY SlotTyped, Fields DEF Loose
  <1>2. T = [S EXCEPT !.who = W, !.older = o, !.audit = a]
    BY Zenon DEF AddActiveMiner
  <1>3. /\ m \in MinerRecs /\ m.live /\ m.w = S.who[c].w /\ m.agent = S.who[c].agent
        /\ m.proxied = S.who[c].proxied /\ m.seen = S.who[c].seen
    BY <1>1 DEF MinerRecs
  <1>4. /\ a \in AuditRecs /\ a.left = S.audit.left /\ a.must = S.audit.must
        /\ a.passed = S.audit.passed \ {c}
    BY <1>1 DEF AuditRecs
  <1>5. Live(S) \in SUBSET Conns /\ \A d \in Conns : d \in Live(S) <=> S.who[d].live
    BY DEF Live
  <1> HIDE DEF m, a
  <1>6. /\ W \in [Conns -> MinerRecs] /\ W[c] = m /\ \A d \in Conns : d # c => W[d] = S.who[d]
        /\ o \in [Conns -> SUBSET Conns] /\ o[c] = Live(S)
        /\ \A d \in Conns : d # c => o[d] = S.older[d]
    BY <1>1, <1>3, <1>5
  <1> HIDE DEF W, o, T
  <1>7. T \in State
    BY <1>1, <1>2, <1>4, <1>6, Zenon DEF State
  <1>8. /\ T.con = S.con /\ T.who = W /\ T.older = o /\ T.byIp = S.byIp
        /\ T.bySubnet = S.bySubnet /\ T.delayed = S.delayed /\ T.free = S.free
        /\ T.direct = S.direct /\ T.proxy = S.proxy /\ T.bans = S.bans /\ T.audit = a
    BY <1>1, <1>2, Zenon DEF State
  <1>9. \A w : Proxied(W, {}, w) = Proxied(S.who, {c}, w) /\ Plain(W, {}, w) = Plain(S.who, {c}, w)
    BY <1>3, <1>6 DEF Proxied, Plain
  <1>10. WorkersOK(W, S.direct, S.proxy, {}, {})
    BY <1>9 DEF Loose, WorkersOK
  <1>11. \A d \in Conns : c \notin S.older[d]
    BY DEF Loose, OrderOK
  <1>12. OrderOK(W, o)
    <2>1. OrderOK(S.who, S.older)
      BY DEF Loose
    <2>2. SUFFICES ASSUME NEW d \in Conns
                   PROVE  /\ ~W[d].live => o[d] = {}
                          /\ \A e \in o[d] : W[e].live /\ e # d /\ o[e] \subseteq o[d]
                          /\ \A e \in Conns : W[d].live /\ W[e].live /\ e # d => d \in o[e] \/ e \in o[d]
      BY DEF OrderOK
    <2>3. ~W[d].live => o[d] = {}
      BY <1>3, <1>6, <2>1 DEF OrderOK
    <2>4. ASSUME NEW e \in o[d] PROVE W[e].live /\ e # d /\ o[e] \subseteq o[d]
      <3>1. CASE d = c
        <4>1. e \in Conns /\ S.who[e].live /\ e # c
          BY <1>5, <1>6, <2>4, <3>1
        <4>2. o[e] = S.older[e] /\ \A x \in S.older[e] : x \in Conns /\ S.who[x].live
          BY <1>1, <1>6, <2>1, <4>1 DEF OrderOK
        <4> QED BY <1>5, <1>6, <3>1, <4>1, <4>2
      <3>2. CASE d # c
        <4>1. o[d] = S.older[d] /\ e \in Conns /\ e # c
          BY <1>1, <1>6, <1>11, <2>4, <3>2
        <4> QED BY <1>6, <2>1, <2>4, <4>1 DEF OrderOK
      <3> QED BY <3>1, <3>2
    <2>5. ASSUME NEW e \in Conns, W[d].live, W[e].live, e # d PROVE d \in o[e] \/ e \in o[d]
      <3>1. CASE d = c \/ e = c
        BY <1>5, <1>6, <2>5, <3>1
      <3>2. CASE d # c /\ e # c
        BY <1>6, <2>1, <2>5, <3>2 DEF OrderOK
      <3> QED BY <3>1, <3>2
    <2> QED BY <2>3, <2>4, <2>5
  <1>13. AuditOK(W, o, a, S.bans.address)
    <2>1. AuditOK(S.who, S.older, S.audit, S.bans.address)
      BY DEF Loose
    <2>2. SUFFICES ASSUME NEW d \in a.must
                   PROVE  /\ W[d].live /\ W[d].w \in S.bans.address /\ d \notin a.passed
                          /\ Cardinality(o[d] \ a.passed) < a.left
      BY DEF AuditOK
    <2>3. /\ d \in Conns /\ S.who[d].live /\ S.who[d].w \in S.bans.address /\ d \notin S.audit.passed
          /\ Cardinality(S.older[d] \ S.audit.passed) < S.audit.left
      BY <1>1, <1>4, <2>1 DEF AuditOK, AuditRecs
    <2>4. d # c
      BY <2>3
    <2>5. o[d] \ a.passed = S.older[d] \ S.audit.passed
      BY <1>4, <1>6, <1>11, <2>3, <2>4
    <2> QED BY <1>4, <1>6, <2>3, <2>4, <2>5
  <1>14. ASSUME NEW d \in Conns
         PROVE  SlotOK(S.con[d], W[d]) /\ ClockOK(S.con[d], W[d])
    <2>1. CASE d # c
      BY <1>6, <2>1 DEF Loose
    <2>2. CASE d = c
      <3>1. SlotOK(S.con[c], m)
        BY <1>1, <1>3 DEF SlotOK
      <3>2. ClockOK(S.con[c], m)
        BY <1>3 DEF ClockOK
      <3> QED BY <1>6, <2>2, <3>1, <3>2
    <2> QED BY <2>1, <2>2
  <1>15. Good(T)
    <2>1. SeatsOK(T.con, T.byIp, T.bySubnet) /\ IdsOK(T.con, T.free) /\ DelayedOK(T.con, T.delayed)
      BY <1>8, Zenon DEF Loose
    <2>2. /\ WorkersOK(T.who, T.direct, T.proxy, {}, {}) /\ OrderOK(T.who, T.older)
          /\ AuditOK(T.who, T.older, T.audit, T.bans.address)
      BY <1>8, <1>10, <1>12, <1>13, Zenon
    <2> QED BY <1>7, <1>8, <1>14, <2>1, <2>2 DEF Good, Loose
  <1> QED BY <1>8, <1>15 DEF T

\* finishLogin
LEMMA FinishLoginKeeps ==
    ASSUME NEW S, NEW c \in Conns, Loose(S, {}, {c}, {}), ~S.who[c].live, S.who[c].w \in Wallets,
           S.con[c].st = "open", ~S.con[c].fin, NEW job \in BOOLEAN
    PROVE  Good(FinishLogin(S, c, job))
  <1> DEFINE k == S.con[c]
             l == [k EXCEPT !.mid = TRUE, !.auth = FALSE, !.first = TRUE]
             P == Put(S, c, l)
             T == AddActiveMiner(P, c)
  <1>1. S \in State /\ k \in SocketRecs /\ SlotOK(k, S.who[c])
    BY SlotTyped
  <1>2. /\ l \in SocketRecs /\ Kept(k, l) /\ l.st = "open" /\ ~l.fin /\ l.first /\ l.mid /\ ~l.auth
    BY <1>1 DEF SocketRecs, Kept
  <1>3. FinishLogin(S, c, job) = IF job THEN T ELSE Final(T, c, FALSE)
    BY DEF FinishLogin
  <1> HIDE DEF k, l
  <1>4. SlotOK(l, S.who[c])
    BY <1>1, <1>2 DEF SlotOK, Kept, k
  <1>5. Loose(P, {c}, {c}, {})
    BY <1>2, <1>4, PutKeeps DEF k
  <1>6. P.con[c] = l /\ P.who = S.who
    <2>1. P.con[c] = l /\ SameMiners(S, P)
      BY <1>1, <1>2, PutAt, PutIs
    <2> QED BY <2>1 DEF SameMiners
  <1> HIDE DEF P
  <1>7. Good(T)
    BY <1>2, <1>5, <1>6, ActivateKeeps
  <1> HIDE DEF T
  <1>8. Good(Final(T, c, FALSE))
    BY <1>7, FinalKeeps DEF Good
  <1> QED BY <1>3, <1>7, <1>8

LEMMA BanAndFinal ==
    ASSUME NEW S, Good(S), NEW c \in Conns, S.con[c].st # "free", NEW delay \in BOOLEAN
    PROVE  Good(Final(BanIp(S, c), c, delay)) /\ Good(Final(S, c, delay))
  <1>1. S \in State /\ S.con[c].ip \in Ips
    BY SlotTyped DEF Good, SlotOK
  <1>2. Loose(BanIp(S, c), {}, {}, {})
    BY <1>1, BanIpIs, QuietKeeps DEF Good
  <1> QED BY <1>2, FinalKeeps DEF Good

\* rejectInvalidMiner
LEMMA RefusalKeeps ==
    ASSUME NEW S, Good(S), NEW c \in Conns, S.con[c].st # "free", NEW w
    PROVE  Good(Refusal(S, c, w))
  <1>1. /\ Good(Final(S, c, TRUE)) /\ Good(Final(S, c, FALSE)) /\ Good(Final(BanIp(S, c), c, TRUE))
    BY BanAndFinal
  <1> QED BY <1>1 DEF Refusal

LEMMA StepIs ==
    ASSUME NEW S, Good(S), Become(S)
    PROVE  IInv'
  <1>1. Now' = S
    BY BecomeIs DEF Good, Loose
  <1> QED BY <1>1 DEF IInv

LEMMA EventKeeps ==
    ASSUME IInv
    PROVE  /\ Good(Now) /\ Good(Event) /\ Now \in State /\ Event \in State
           /\ Now.con = con /\ Now.who = who /\ Now.bans = bans /\ Now.free = free
           /\ Event.con = con /\ Event.who = who /\ Event.bans = bans /\ Event.free = free
  <1>1. Good(Now) /\ Now \in State
    BY DEF IInv, Good, Loose
  <1>2. Quiet(Now, Event) /\ Event.bans = bans
    BY <1>1, EventIs
  <1>3. Good(Event)
    BY <1>1, <1>2, QuietKeeps DEF Good
  <1> QED BY <1>1, <1>2, <1>3, NowFields DEF Quiet

LEMMA KnowGood ==
    ASSUME NEW S, Good(S), NEW c \in Conns, NEW m \in MinerRecs,
           SameMiner(S.who[c], m), SlotOK(S.con[c], m), ClockOK(S.con[c], m)
    PROVE  Good(Know(S, c, m)) /\ Know(S, c, m).con = S.con /\ Know(S, c, m).who[c] = m
  <1>1. S \in State /\ Loose(S, {}, {}, {})
    BY DEF Good, Loose
  <1>2. Loose(Know(S, c, m), {}, {}, {})
    BY <1>1, KnowKeeps
  <1>3. Know(S, c, m).con = S.con /\ Know(S, c, m).who[c] = m
    BY <1>1, KnowIs
  <1> QED BY <1>2, <1>3 DEF Good

LEMMA LoginStep ==
    ASSUME IInv, NEW c \in Conns, NEW w \in Wallets, NEW agent \in Agents,
           NEW authorize \in BOOLEAN, NEW job \in BOOLEAN, Login(c, w, agent, authorize, job)
    PROVE  IInv'
  <1> DEFINE N == IF job THEN Now ELSE Event
             S == IF authorize THEN Claim(N, c) ELSE N
             m == [NoMiner EXCEPT !.w = w, !.agent = agent]
             U == [S EXCEPT !.who[c] = m]
             R == Register(U, c)
             V == [R.S EXCEPT !.who[c] = NoMiner]
             A == IF con[c].ip \in bans.ip THEN Final(N, c, FALSE)
                  ELSE IF w \in bans.address \cup bans.wallet \cup bans.big THEN Refusal(S, c, w)
                  ELSE IF authorize /\ S.con[c].xid = 0 THEN Final(S, c, FALSE)
                  ELSE IF R.ok THEN FinishLogin(R.S, c, job)
                  ELSE Final(BanIp(V, c), c, TRUE)
  <1>1. con[c].st = "open" /\ ~con[c].fin /\ ~who[c].live /\ Become(A)
    BY Zenon DEF Login, CanAsk
  <1>2. Good(N) /\ N.con = con /\ N.who = who
    BY EventKeeps
  <1> HIDE DEF N
  <1>3. /\ Good(S) /\ S.con[c].st = "open" /\ ~S.con[c].fin /\ S.who = who
    BY <1>1, <1>2, ClaimKeeps DEF AsBefore
  <1> HIDE DEF S
  <1>4. /\ m \in MinerRecs /\ ~m.live /\ m.w = w /\ ~m.proxied
    BY PoolSessionsAssumption DEF MinerRecs, NoMiner
  <1>5. U = Know(S, c, m)
    BY Zenon DEF Know
  <1> HIDE DEF m, U
  <1>6. /\ S \in State /\ SlotOK(S.con[c], S.who[c]) /\ ClockOK(S.con[c], S.who[c]) /\ ~S.who[c].live
    BY <1>1, <1>3, SlotTyped DEF Good
  <1>7. SlotOK(S.con[c], m) /\ ClockOK(S.con[c], m) /\ SameMiner(S.who[c], m)
    BY <1>3, <1>4, <1>6 DEF SlotOK, ClockOK, SameMiner
  <1>8. Good(U) /\ U.con = S.con /\ U.who[c] = m
    BY <1>3, <1>4, <1>5, <1>7, KnowGood
  <1>9. Outcome(U, c, R)
    BY <1>3, <1>4, <1>8, RegisterKeeps
  <1> HIDE DEF R
  <1>10. Good(Final(N, c, FALSE)) /\ Good(Final(S, c, FALSE)) /\ Good(Refusal(S, c, w))
    BY <1>1, <1>2, <1>3, BanAndFinal, RefusalKeeps
  <1>11. CASE R.ok
    <2>1. Loose(R.S, {}, {c}, {}) /\ R.S.con = U.con /\ ~R.S.who[c].live /\ R.S.who[c].w = w
      BY <1>4, <1>8, <1>9, <1>11 DEF Outcome
    <2>2. Good(FinishLogin(R.S, c, job))
      BY <1>3, <1>8, <2>1, FinishLoginKeeps
    <2>3. Good(A)
      BY <1>10, <1>11, <2>2
    <2> QED BY <1>1, <2>3, StepIs
  <1>12. CASE ~R.ok
    <2>1. Good(R.S) /\ R.S.con[c] = S.con[c] /\ ~R.S.who[c].live
      BY <1>4, <1>8, <1>9, <1>12 DEF Outcome
    <2>2. V = Know(R.S, c, NoMiner)
      BY Zenon DEF Know
    <2>3. NoMiner \in MinerRecs /\ ~NoMiner.live
      BY DEF NoMiner, MinerRecs
    <2>4. R.S \in State /\ SlotOK(S.con[c], R.S.who[c]) /\ ClockOK(S.con[c], R.S.who[c])
      BY <2>1, SlotTyped DEF Good
    <2>5. SlotOK(S.con[c], NoMiner) /\ ClockOK(S.con[c], NoMiner) /\ SameMiner(R.S.who[c], NoMiner)
      BY <1>3, <2>1, <2>3, <2>4 DEF SlotOK, ClockOK, SameMiner
    <2>6. Good(V) /\ V.con = R.S.con
      BY <2>1, <2>2, <2>3, <2>4, <2>5, KnowGood
    <2> HIDE DEF V
    <2>7. Good(Final(BanIp(V, c), c, TRUE))
      BY <1>3, <2>1, <2>6, BanAndFinal
    <2>8. Good(A)
      BY <1>10, <1>12, <2>7
    <2> QED BY <1>1, <2>8, StepIs
  <1> QED BY <1>9, <1>11, <1>12 DEF Outcome

-----------------------------------------------------------------------------
(* The other requests, the timers and what the peer does *)

LEMMA PutGood ==
    ASSUME NEW S, Good(S), NEW c \in Conns, NEW k \in SocketRecs,
           Kept(S.con[c], k), SlotOK(k, S.who[c]), ClockOK(k, S.who[c])
    PROVE  Good(Put(S, c, k))
  <1>1. Loose(S, {}, {}, {})
    BY DEF Good
  <1>2. Loose(Put(S, c, k), {}, {}, {})
    BY <1>1, PutKeeps
  <1> QED BY <1>2 DEF Good

LEMMA SocketTyped ==
    ASSUME NEW S, Good(S), NEW c \in Conns
    PROVE  /\ S.con[c] \in SocketRecs /\ S.who[c] \in MinerRecs
           /\ SlotOK(S.con[c], S.who[c]) /\ ClockOK(S.con[c], S.who[c])
  <1>1. Loose(S, {}, {}, {})
    BY DEF Good
  <1> QED BY <1>1, SlotTyped

LEMMA DestroyGood ==
    ASSUME NEW S, Good(S), NEW c \in Conns, S.con[c].st # "free"
    PROVE  Good(Destroy(S, c))
  <1>1. Loose(S, {}, {}, {})
    BY DEF Good
  <1>2. Loose(Destroy(S, c), {} \ {c}, {}, {})
    BY <1>1, DestroyKeeps
  <1>3. {} \ {c} = {}
    OBVIOUS
  <1> QED BY <1>2, <1>3 DEF Good

LEMMA SubscribeStep ==
    ASSUME IInv, NEW c \in Conns, Subscribe(c)
    PROVE  IInv'
  <1> DEFINE l == [con[c] EXCEPT !.prev = Last(free)]
             T == IF free = <<>> THEN Final(Now, c, FALSE)
                  ELSE [Put(Now, c, l) EXCEPT !.free = Front(@)]
  <1>1. con[c].st = "open" /\ con[c].xid = 0 /\ con[c].prev = 0 /\ Become(T)
    BY Zenon DEF Subscribe, CanAsk
  <1>2. Good(Now) /\ Now.con = con /\ Now.free = free /\ Now \in State /\ free \in Seq(1..ExtraNonces)
    BY EventKeeps, Fields
  <1>3. con[c] \in SocketRecs
    BY <1>2, SocketTyped
  <1>4. CASE free = <<>>
    <2>1. Good(Final(Now, c, FALSE))
      BY <1>1, <1>2, BanAndFinal
    <2> QED BY <1>1, <1>4, <2>1, StepIs
  <1>5. CASE free # <<>>
    <2>1. Last(free) \in 0..ExtraNonces
      <3>1. Last(free) \in 1..ExtraNonces
        BY <1>2, <1>5, FreeIds
      <3> QED BY <3>1, Constants
    <2>2. l \in SocketRecs /\ AsBefore(con[c], l) /\ l.xid = 0 /\ l.prev = Last(free)
      BY <1>1, <1>3, <2>1 DEF SocketRecs, AsBefore, SameSeat
    <2> HIDE DEF l
    <2>3. Put(Now, c, l).free = free
      BY <1>2, <2>2, PutIs
    <2>4. T = PutFree(Now, c, l, Front(free))
      BY <1>5, <2>3, Zenon DEF PutFree
    <2> HIDE DEF T
    <2>5. Good(PutFree(Now, c, l, Front(free)))
      <3>1. {l.xid, l.prev} = {0, Last(free)}
        BY <2>2
      <3> QED BY <1>1, <1>2, <1>5, <2>2, <3>1, TakeKeeps
    <2> QED BY <1>1, <2>4, <2>5, StepIs
  <1> QED BY <1>4, <1>5

LEMMA SwitchStep ==
    ASSUME IInv, NEW c \in Conns, SwitchToExtranonceCoin(c)
    PROVE  IInv'
  <1>1. con[c].st = "open" /\ Become(Claim(Now, c))
    BY DEF SwitchToExtranonceCoin
  <1>2. Good(Now) /\ Now.con = con
    BY EventKeeps
  <1>3. Good(Claim(Now, c))
    BY <1>1, <1>2, ClaimKeeps
  <1> QED BY <1>1, <1>3, StepIs

LEMMA RefusedStep ==
    ASSUME IInv, NEW c \in Conns, DoubleLogin(c) \/ EmptyLogin(c) \/ RefuseRequest(c) \/ BadPacket(c)
    PROVE  IInv'
  <1>1. /\ con[c].st = "open"
        /\ \/ Become(Final(IF con[c].ip \in bans.ip THEN Event ELSE BanIp(Event, c), c, FALSE))
           \/ Become(Final(Event, c, FALSE))
           \/ Become(Destroy(Event, c))
    BY DEF DoubleLogin, EmptyLogin, RefuseRequest, BadPacket, CanAsk
  <1>2. Good(Event) /\ Event.con = con
    BY EventKeeps
  <1>3. /\ Good(Final(BanIp(Event, c), c, FALSE)) /\ Good(Final(Event, c, FALSE))
        /\ Good(Destroy(Event, c))
    BY <1>1, <1>2, BanAndFinal, DestroyGood
  <1>4. Good(Final(IF con[c].ip \in bans.ip THEN Event ELSE BanIp(Event, c), c, FALSE))
    BY <1>3
  <1> QED BY <1>1, <1>3, <1>4, StepIs

LEMMA WriteFailsStep ==
    ASSUME IInv, NEW c \in Conns, WriteFails(c)
    PROVE  IInv'
  <1> DEFINE k == [ClearTimers(con[c]) EXCEPT !.fin = TRUE]
             D == ClearDelayed(Event, c)
  <1>1. con[c].st = "open" /\ Become(Put(D, c, Destroyed(k)))
    BY DEF WriteFails
  <1>2. Good(Event) /\ Event.con = con /\ Event.who = who
    BY EventKeeps
  <1>3. con[c] \in SocketRecs /\ SlotOK(con[c], who[c])
    BY <1>2, SocketTyped
  <1>4. /\ k \in SocketRecs /\ Kept(con[c], k) /\ k.st = "open" /\ k.mid = con[c].mid
        /\ ~k.auth
    BY <1>1, <1>3 DEF ClearTimers, SocketRecs, Kept
  <1> HIDE DEF k
  <1>5. SlotOK(k, who[c])
    BY <1>1, <1>3, <1>4 DEF SlotOK, Kept
  <1>6. /\ Destroyed(k) \in SocketRecs /\ Kept(k, Destroyed(k))
        /\ SlotOK(Destroyed(k), who[c]) /\ ClockOK(Destroyed(k), who[c])
    BY <1>4, <1>5, DestroyedIs
  <1>7. Kept(con[c], Destroyed(k))
    BY <1>4, <1>6 DEF Kept
  <1>8. Loose(D, {}, {}, {}) /\ D.con = con /\ D.who = who
    <2>1. Loose(Event, {}, {}, {})
      BY <1>2 DEF Good
    <2>2. Loose(D, {}, {}, {}) /\ D.con = con /\ SameMiners(Event, D)
      BY <1>1, <1>2, <2>1, ClearDelayedKeeps
    <2> QED BY <1>2, <2>2 DEF SameMiners
  <1> HIDE DEF D
  <1>9. Good(D)
    BY <1>8 DEF Good
  <1>10. Good(Put(D, c, Destroyed(k)))
    BY <1>6, <1>7, <1>8, <1>9, PutGood
  <1> QED BY <1>1, <1>10, StepIs

\* A miner is removed and its socket closed after the reply.
LEMMA RemovedAndClosed ==
    ASSUME NEW S, Good(S), NEW c \in Conns, S.con[c].st = "open"
    PROVE  Good(CloseAfterReply(RemoveMiner(S, c, "keep"), c))
  <1> DEFINE T == RemoveMiners(S, {c}, "keep")
             W == {} \cup ({c} \cap Live(S))
             l == [S.con[c] EXCEPT !.fin = TRUE, !.st = "ended"]
  <1>1. Loose(T, W, {}, {}) /\ T.con = S.con
    <2>1. Loose(S, {}, {}, {}) /\ {c} \in SUBSET Conns /\ Covers(S, {c}, {}, {})
      BY DEF Good, Covers
    <2> QED BY <2>1, RemoveKeeps
  <1>2. CloseAfterReply(RemoveMiner(S, c, "keep"), c) = Put(T, c, l)
    BY <1>1 DEF CloseAfterReply, RemoveMiner
  <1>3. \A d \in Conns : d # c => d \notin W
    OBVIOUS
  <1> HIDE DEF T, W
  <1>4. T.con[c] \in SocketRecs /\ SlotOK(T.con[c], T.who[c])
    BY <1>1, SlotTyped
  <1>5. /\ l \in SocketRecs /\ Kept(T.con[c], l) /\ l.st = "ended" /\ l.mid = T.con[c].mid
        /\ l.auth = T.con[c].auth
    BY <1>1, <1>4 DEF SocketRecs, Stages, Kept
  <1> HIDE DEF l
  <1>6. SlotOK(l, T.who[c]) /\ ClockOK(l, T.who[c])
    BY <1>1, <1>4, <1>5 DEF SlotOK, ClockOK, Kept
  <1>7. Loose(Put(T, c, l), {}, {}, {})
    BY <1>1, <1>3, <1>5, <1>6, PutKeeps
  <1> QED BY <1>2, <1>7 DEF Good

LEMMA BadWorkStep ==
    ASSUME IInv, NEW c \in Conns, TooManyInvalidJobs(c) \/ BadShare(c)
    PROVE  IInv'
  <1> DEFINE i == IF con[c].ip \in Loopback THEN who[c].w ELSE con[c].ip
             q == Event.mail \cup {i}
             S == [Event EXCEPT !.mail = q]
  <1>1. Good(Event) /\ Event.con = con /\ Event.who = who /\ Event \in State
    BY EventKeeps
  <1>2. con[c].st = "open"
    BY DEF TooManyInvalidJobs, BadShare, CanAsk
  <1>3. CASE TooManyInvalidJobs(c)
    <2>1. Become(CloseAfterReply(RemoveMiner(Event, c, "keep"), c))
      BY <1>3 DEF TooManyInvalidJobs
    <2>2. Good(CloseAfterReply(RemoveMiner(Event, c, "keep"), c))
      BY <1>1, <1>2, RemovedAndClosed
    <2> QED BY <2>1, <2>2, StepIs
  <1>4. CASE BadShare(c)
    <2>1. who[c].live /\ Become(CloseAfterReply(RemoveMiner(S, c, "keep"), c))
      BY <1>4, Zenon DEF BadShare
    <2>2. SlotOK(con[c], who[c])
      BY <1>1, SocketTyped
    <2>3. i \in (Ips \ Loopback) \cup Wallets
      BY <1>2, <2>1, <2>2 DEF SlotOK
    <2> HIDE DEF i
    <2>4. q \in SUBSET ((Ips \ Loopback) \cup Wallets)
      BY <1>1, <2>3, Fields
    <2> HIDE DEF q
    <2>5. Quiet(Event, S)
      BY <1>1, <2>4, MailIs
    <2> HIDE DEF S
    <2>6. Good(S) /\ S.con = con
      <3>1. Loose(S, {}, {}, {})
        BY <1>1, <2>5, QuietKeeps DEF Good
      <3> QED BY <1>1, <2>5, <3>1 DEF Good, Quiet
    <2>7. Good(CloseAfterReply(RemoveMiner(S, c, "keep"), c))
      BY <1>2, <2>6, RemovedAndClosed
    <2> QED BY <2>1, <2>7, StepIs
  <1> QED BY <1>3, <1>4

LEMMA GoodShareStep ==
    ASSUME IInv, NEW c \in Conns, GoodShare(c)
    PROVE  IInv'
  <1> DEFINE l == [con[c] EXCEPT !.first = FALSE]
             P == Put(Now, c, l)
             m == [P.who[c] EXCEPT !.seen = TRUE]
             T == [P EXCEPT !.who[c].seen = TRUE]
  <1>1. con[c].st = "open" /\ ~con[c].fin /\ who[c].live /\ Become(T)
    BY Zenon DEF GoodShare, CanAsk
  <1>2. Good(Now) /\ Now.con = con /\ Now.who = who /\ Now \in State
    BY EventKeeps
  <1>3. con[c] \in SocketRecs /\ SlotOK(con[c], who[c]) /\ who[c] \in MinerRecs
    BY <1>2, SocketTyped
  <1>4. /\ l \in SocketRecs /\ Kept(con[c], l) /\ l.st = "open" /\ l.mid = con[c].mid
        /\ l.auth = con[c].auth /\ l.fin = con[c].fin /\ ~l.first
    BY <1>1, <1>3 DEF SocketRecs, Kept
  <1>5. T = Know(P, c, m)
    BY Zenon DEF Know
  <1> HIDE DEF l
  <1>6. SlotOK(l, who[c])
    BY <1>1, <1>3, <1>4 DEF SlotOK, Kept
  <1>7. Loose(P, {c}, {}, {}) /\ P.con[c] = l /\ P.who = who
    <2>1. Loose(Now, {}, {}, {})
      BY <1>2 DEF Good
    <2>2. Loose(P, {c}, {}, {})
      BY <1>2, <1>4, <1>6, <2>1, PutKeeps
    <2>3. P.con[c] = l /\ SameMiners(Now, P)
      BY <1>2, <1>4, PutAt, PutIs
    <2> QED BY <1>2, <2>2, <2>3 DEF SameMiners
  <1> HIDE DEF P, T
  <1>8. /\ m \in MinerRecs /\ m.seen /\ m.live = who[c].live /\ SameMiner(P.who[c], m) /\ m.w = who[c].w
    BY <1>3, <1>7 DEF MinerRecs, SameMiner
  <1> HIDE DEF m
  <1>9. SlotOK(l, m) /\ ClockOK(l, m)
    BY <1>1, <1>4, <1>6, <1>8 DEF SlotOK, ClockOK
  <1>10. Loose(T, {c}, {}, {})
    BY <1>5, <1>7, <1>8, <1>9, KnowKeeps
  <1>11. T.con[c] = l /\ T.who[c] = m
    <2>1. P \in State
      BY <1>7 DEF Loose
    <2>2. T.con = P.con /\ T.who[c] = m
      BY <1>5, <1>8, <2>1, KnowIs
    <2> QED BY <1>7, <2>2
  <1>12. Loose(T, {}, {}, {})
    BY <1>9, <1>10, <1>11, LooseWider
  <1> QED BY <1>1, <1>12, StepIs DEF Good

LEMMA ThrottledStep ==
    ASSUME IInv, NEW c \in Conns, ThrottledShare(c)
    PROVE  IInv'
  <1> DEFINE P == AddProxy(Event, c)
  <1>1. con[c].st = "open" /\ who[c].live /\ Become(P.S)
    BY DEF ThrottledShare, CanAsk
  <1>2. Good(Event) /\ Event.con = con /\ Event.who = who
    BY EventKeeps
  <1>3. who[c].w \in Wallets
    <2>1. SlotOK(con[c], who[c])
      BY <1>2, SocketTyped
    <2> QED BY <1>1, <2>1 DEF SlotOK
  <1>4. Outcome(Event, c, P)
    BY <1>1, <1>2, <1>3, AddProxyKeeps
  <1> HIDE DEF P
  <1>5. CASE P.ok
    <2>1. Loose(P.S, {}, {c}, {}) /\ P.S.who[c].live
      BY <1>1, <1>2, <1>4, <1>5 DEF Outcome
    <2>2. Loose(P.S, {}, {}, {})
      BY <2>1, RegisteredIsLive
    <2> QED BY <1>1, <2>2, StepIs DEF Good
  <1>6. CASE ~P.ok
    BY <1>1, <1>4, <1>6, StepIs DEF Outcome
  <1> QED BY <1>4, <1>5, <1>6 DEF Outcome

LEMMA TlsDoneStep ==
    ASSUME IInv, NEW c \in Conns, TlsDone(c)
    PROVE  IInv'
  <1> DEFINE l == [con[c] EXCEPT !.st = "open", !.auth = TRUE]
  <1>1. con[c].st = "raw" /\ Become(Put(Now, c, l))
    BY DEF TlsDone
  <1>2. Good(Now) /\ Now.con = con /\ Now.who = who
    BY EventKeeps
  <1>3. con[c] \in SocketRecs /\ SlotOK(con[c], who[c])
    BY <1>2, SocketTyped
  <1>4. /\ l \in SocketRecs /\ Kept(con[c], l) /\ l.st = "open" /\ l.mid = con[c].mid
        /\ l.auth /\ l.fin = con[c].fin /\ l.first = con[c].first
    BY <1>3 DEF SocketRecs, Stages, Kept
  <1> HIDE DEF l
  <1>5. SlotOK(l, who[c]) /\ ClockOK(l, who[c])
    BY <1>1, <1>3, <1>4 DEF SlotOK, ClockOK, Kept
  <1>6. Good(Put(Now, c, l))
    BY <1>2, <1>4, <1>5, PutGood
  <1> QED BY <1>1, <1>6, StepIs

LEMMA AuthTimeoutStep ==
    ASSUME IInv, NEW c \in Conns, AuthTimeout(c)
    PROVE  IInv'
  <1> DEFINE k == [con[c] EXCEPT !.auth = FALSE]
  <1>1. con[c].auth /\ Become(Put(Now, c, IF con[c].mid THEN k ELSE Destroyed(k)))
    BY DEF AuthTimeout
  <1>2. Good(Now) /\ Now.con = con /\ Now.who = who
    BY EventKeeps
  <1>3. con[c] \in SocketRecs /\ SlotOK(con[c], who[c])
    BY <1>2, SocketTyped
  <1>4. ~con[c].mid /\ con[c].st # "free"
    BY <1>1, <1>3 DEF SlotOK, NoSocket
  <1>5. /\ k \in SocketRecs /\ Kept(con[c], k) /\ k.st = con[c].st /\ k.mid = con[c].mid
        /\ k.fin = con[c].fin /\ k.first = con[c].first /\ ~k.auth
    BY <1>3 DEF SocketRecs, Kept
  <1> HIDE DEF k
  <1>6. SlotOK(k, who[c])
    BY <1>3, <1>4, <1>5 DEF SlotOK, Kept
  <1>7. /\ Destroyed(k) \in SocketRecs /\ Kept(k, Destroyed(k))
        /\ SlotOK(Destroyed(k), who[c]) /\ ClockOK(Destroyed(k), who[c])
    BY <1>4, <1>5, <1>6, DestroyedIs
  <1>8. Kept(con[c], Destroyed(k))
    BY <1>5, <1>7 DEF Kept
  <1>9. Good(Put(Now, c, Destroyed(k)))
    BY <1>2, <1>7, <1>8, PutGood
  <1> QED BY <1>1, <1>4, <1>9, StepIs

LEMMA FirstShareTimeoutStep ==
    ASSUME IInv, NEW c \in Conns, FirstShareTimeout(c)
    PROVE  IInv'
  <1> DEFINE l == [con[c] EXCEPT !.first = FALSE]
             P == Put(Now, c, l)
  <1>1. con[c].first /\ Become(IF who[c].seen THEN P ELSE RemoveMiner(P, c, "end"))
    BY DEF FirstShareTimeout
  <1>2. Good(Now) /\ Now.con = con /\ Now.who = who /\ Now \in State
    BY EventKeeps
  <1>3. con[c] \in SocketRecs /\ SlotOK(con[c], who[c]) /\ ClockOK(con[c], who[c])
    BY <1>2, SocketTyped
  <1>4. /\ l \in SocketRecs /\ Kept(con[c], l) /\ l.st = con[c].st /\ l.mid = con[c].mid
        /\ l.auth = con[c].auth /\ l.fin = con[c].fin /\ ~l.first /\ l.final = con[c].final
    BY <1>3 DEF SocketRecs, Kept
  <1>5. con[c].st # "free" /\ (con[c].st = "open" => who[c].live)
    BY <1>1, <1>3 DEF SlotOK, ClockOK, NoSocket
  <1> HIDE DEF l
  <1>6. SlotOK(l, who[c])
    BY <1>3, <1>4, <1>5 DEF SlotOK, Kept
  <1>7. Loose(P, {c}, {}, {}) /\ P.con[c] = l /\ P.who = who
    <2>1. Loose(Now, {}, {}, {})
      BY <1>2 DEF Good
    <2>2. Loose(P, {c}, {}, {})
      BY <1>2, <1>4, <1>6, <2>1, PutKeeps
    <2>3. P.con[c] = l /\ SameMiners(Now, P)
      BY <1>2, <1>4, PutAt, PutIs
    <2> QED BY <1>2, <2>2, <2>3 DEF SameMiners
  <1> HIDE DEF P
  <1>8. CASE who[c].seen
    <2>1. ClockOK(l, who[c])
      BY <1>3, <1>4, <1>5, <1>8 DEF ClockOK
    <2>2. Loose(P, {}, {}, {})
      BY <1>7, <2>1, LooseWider
    <2> QED BY <1>1, <1>8, <2>2, StepIs DEF Good
  <1>9. CASE ~who[c].seen
    <2> DEFINE T == RemoveMiners(P, {c}, "end")
               W == {c} \ ({c} \cap Live(P))
    <2>1. Covers(P, {c}, {}, {})
      BY DEF Covers
    <2>2. Loose(T, W, {}, {}) /\ Others(P, T)
      BY <1>7, <2>1, RemoveKeeps
    <2>3. \A d \in Conns : d \notin {} => d \notin W \/ ClockOK(T.con[d], T.who[d])
      <3>1. SUFFICES ASSUME NEW d \in W PROVE ClockOK(T.con[d], T.who[d])
        OBVIOUS
      <3>2. d = c /\ ~P.who[c].live
        BY <3>1 DEF Live
      <3>3. T.con[c] = P.con[c]
        BY <2>2, <3>2 DEF Others
      <3>4. l.st # "open"
        BY <1>4, <1>5, <1>7, <3>2
      <3> QED BY <1>7, <3>2, <3>3, <3>4 DEF ClockOK
    <2> HIDE DEF W, T
    <2>4. Loose(T, {}, {}, {})
      BY <2>2, <2>3, LooseWider
    <2>5. Become(T) /\ Good(T)
      BY <1>1, <1>9, <2>4 DEF Good, RemoveMiner, T
    <2> QED BY <2>5, StepIs
  <1> QED BY <1>8, <1>9

LEMMA FinalStep ==
    ASSUME IInv, NEW c \in Conns, FinalDelayEnds(c) \/ FinalEnds(c)
    PROVE  IInv'
  <1> DEFINE l == [con[c] EXCEPT !.final = "none"]
  <1>1. Good(Now) /\ Now.con = con /\ Now.who = who
    BY EventKeeps
  <1>2. con[c] \in SocketRecs /\ SlotOK(con[c], who[c])
    BY <1>1, SocketTyped
  <1>3. con[c].st # "free"
    BY <1>2 DEF FinalDelayEnds, FinalEnds, SlotOK, NoSocket
  <1>4. CASE FinalDelayEnds(c)
    <2>1. Loose(Now, {}, {}, {})
      BY <1>1 DEF Good
    <2>2. Loose(FinishReply(Now, c), {} \ {c}, {}, {})
      BY <1>1, <1>3, <2>1, FinishReplyKeeps
    <2>3. {} \ {c} = {}
      OBVIOUS
    <2>4. Good(FinishReply(Now, c)) /\ Become(FinishReply(Now, c))
      BY <1>4, <2>2, <2>3 DEF Good, FinalDelayEnds
    <2> QED BY <2>4, StepIs
  <1>5. CASE FinalEnds(c)
    <2>1. Become(Put(Now, c, Destroyed(l)))
      BY <1>5 DEF FinalEnds
    <2>2. /\ l \in SocketRecs /\ Kept(con[c], l) /\ l.st = con[c].st /\ l.mid = con[c].mid
          /\ l.auth = con[c].auth /\ l.fin = con[c].fin /\ l.first = con[c].first
      BY <1>2 DEF SocketRecs, Kept
    <2> HIDE DEF l
    <2>3. SlotOK(l, who[c])
      BY <1>2, <1>3, <2>2 DEF SlotOK, Kept
    <2>4. /\ Destroyed(l) \in SocketRecs /\ Kept(l, Destroyed(l))
          /\ SlotOK(Destroyed(l), who[c]) /\ ClockOK(Destroyed(l), who[c])
      BY <1>3, <2>2, <2>3, DestroyedIs
    <2>5. Kept(con[c], Destroyed(l))
      BY <2>2, <2>4 DEF Kept
    <2>6. Good(Put(Now, c, Destroyed(l)))
      BY <1>1, <2>4, <2>5, PutGood
    <2> QED BY <2>1, <2>6, StepIs
  <1> QED BY <1>4, <1>5

LEMMA PeerStep ==
    ASSUME IInv, NEW c \in Conns, PeerVanishes(c) \/ PeerCloses(c) \/ KernelGivesUp(c)
    PROVE  IInv'
  <1> DEFINE l == [con[c] EXCEPT !.silent = TRUE]
  <1>1. /\ Good(Now) /\ Now.con = con /\ Now.who = who
        /\ Good(Event) /\ Event.con = con /\ Event.who = who
    BY EventKeeps
  <1>2. con[c] \in SocketRecs /\ SlotOK(con[c], who[c]) /\ ClockOK(con[c], who[c])
    BY <1>1, SocketTyped
  <1>3. con[c].st # "free"
    BY DEF PeerVanishes, PeerCloses, KernelGivesUp
  <1>4. CASE PeerVanishes(c)
    <2>1. Become(Put(Event, c, l))
      BY <1>4 DEF PeerVanishes
    <2>2. /\ l \in SocketRecs /\ Kept(con[c], l) /\ l.st = con[c].st /\ l.mid = con[c].mid
          /\ l.auth = con[c].auth /\ l.fin = con[c].fin /\ l.first = con[c].first
          /\ l.final = con[c].final
      BY <1>2 DEF SocketRecs, Kept
    <2> HIDE DEF l
    <2>3. SlotOK(l, who[c]) /\ ClockOK(l, who[c])
      BY <1>2, <1>3, <2>2 DEF SlotOK, ClockOK, Kept
    <2>4. Good(Put(Event, c, l))
      BY <1>1, <2>2, <2>3, PutGood
    <2> QED BY <2>1, <2>4, StepIs
  <1>5. CASE PeerCloses(c) \/ KernelGivesUp(c)
    <2>1. Become(Destroy(Now, c))
      BY <1>5 DEF PeerCloses, KernelGivesUp
    <2>2. Good(Destroy(Now, c))
      BY <1>1, <1>3, DestroyGood
    <2> QED BY <2>1, <2>2, StepIs
  <1> QED BY <1>4, <1>5

-----------------------------------------------------------------------------
(* Bans *)

LEMMA QuietStep ==
    ASSUME IInv, NEW T, Quiet(Now, T), Become(T)
    PROVE  IInv'
  <1>1. Loose(Now, {}, {}, {})
    BY DEF IInv, Good
  <1>2. Loose(T, {}, {}, {})
    BY <1>1, QuietKeeps
  <1> QED BY <1>2, StepIs DEF Good

LEMMA BanArrivesStep ==
    ASSUME IInv, NEW m, BanArrives(m)
    PROVE  IInv'
  <1> DEFINE b == [bans EXCEPT !.ip = @ \cup ({m} \cap Ips), !.wallet = @ \cup ({m} \cap Wallets)]
             q == mail \ {m}
             S == [Now EXCEPT !.mail = q]
             T == [S EXCEPT !.bans = b]
  <1>1. Now \in State /\ Now.bans = bans /\ bans \in BanRecs /\ Now.mail = mail
        /\ mail \subseteq (Ips \ Loopback) \cup Wallets
    BY EventKeeps, NowFields, Fields
  <1>2. m \in mail /\ Become([Now EXCEPT !.mail = q, !.bans = b])
    <2>1. /\ m \in mail
          /\ Become([Now EXCEPT !.mail = @ \ {m}, !.bans.ip = @ \cup ({m} \cap Ips),
                                !.bans.wallet = @ \cup ({m} \cap Wallets)])
      BY DEF BanArrives
    <2>2. [Now EXCEPT !.mail = @ \ {m}, !.bans.ip = @ \cup ({m} \cap Ips),
                      !.bans.wallet = @ \cup ({m} \cap Wallets)]
          = [Now EXCEPT !.mail = q, !.bans = b]
      BY <1>1, Zenon
    <2> QED BY <2>1, <2>2
  <1>3. {m} \cap Ips \subseteq Ips \ Loopback
    BY <1>1, <1>2, PoolSessionsAssumption
  <1>4. b \in BanRecs /\ b.address = bans.address
    <2> DEFINE x == bans.ip \cup ({m} \cap Ips)
               y == bans.wallet \cup ({m} \cap Wallets)
    <2>1. x \in SUBSET (Ips \ Loopback) /\ y \in SUBSET Wallets
      BY <1>1, <1>3 DEF BanRecs
    <2>2. b = [bans EXCEPT !.ip = x, !.wallet = y]
      BY Zenon
    <2> HIDE DEF x, y, b
    <2> QED BY <1>1, <2>1, <2>2 DEF BanRecs
  <1>5. q \in SUBSET ((Ips \ Loopback) \cup Wallets)
    BY <1>1
  <1> HIDE DEF b, q
  <1>6. Quiet(Now, S)
    BY <1>1, <1>5, MailIs
  <1>7. S \in State /\ S.bans = bans
    BY <1>1, <1>5, Zenon DEF State
  <1>8. T = [Now EXCEPT !.mail = q, !.bans = b]
    BY Zenon
  <1> HIDE DEF S
  <1>9. Quiet(S, T)
    BY <1>4, <1>7, BansIs
  <1> HIDE DEF T
  <1>10. Quiet(Now, T)
    BY <1>6, <1>9 DEF Quiet, SameSeats
  <1> QED BY <1>2, <1>8, <1>10, QuietStep

LEMMA BansEndStep ==
    ASSUME IInv, ShortBansEnd \/ LongBansEnd
    PROVE  IInv'
  <1> DEFINE b == [bans EXCEPT !.ip = {}, !.wallet = {}]
             d == [bans EXCEPT !.big = {}]
  <1>1. Now \in State /\ Now.bans = bans /\ bans \in BanRecs
    BY EventKeeps, NowFields, Fields
  <1>2. b \in BanRecs /\ b.address = bans.address /\ d \in BanRecs /\ d.address = bans.address
    BY <1>1 DEF BanRecs
  <1>3. Become([Now EXCEPT !.bans = b]) \/ Become([Now EXCEPT !.bans = d])
    <2>1. \/ Become([Now EXCEPT !.bans.ip = {}, !.bans.wallet = {}])
          \/ Become([Now EXCEPT !.bans.big = {}])
      BY DEF ShortBansEnd, LongBansEnd
    <2>2. [Now EXCEPT !.bans.ip = {}, !.bans.wallet = {}] = [Now EXCEPT !.bans = b]
      BY <1>1, Zenon
    <2>3. [Now EXCEPT !.bans.big = {}] = [Now EXCEPT !.bans = d]
      BY <1>1, Zenon
    <2> QED BY <2>1, <2>2, <2>3
  <1> HIDE DEF b, d
  <1>4. Quiet(Now, [Now EXCEPT !.bans = b]) /\ Quiet(Now, [Now EXCEPT !.bans = d])
    BY <1>1, <1>2, BansIs
  <1> QED BY <1>3, <1>4, QuietStep

\* The audit of S with another audit or other banned addresses.
LEMMA AuditUpdate ==
    ASSUME NEW S, NEW X, NEW R, NEW Z, Loose(S, X, R, Z), NEW b \in BanRecs, NEW a \in AuditRecs,
           AuditOK(S.who, S.older, a, b.address)
    PROVE  /\ Loose([S EXCEPT !.bans = b, !.audit = a], X, R, Z)
           /\ [S EXCEPT !.bans = b, !.audit = a].who = S.who
           /\ [S EXCEPT !.bans = b, !.audit = a].older = S.older
           /\ [S EXCEPT !.bans = b, !.audit = a].audit = a
  <1> DEFINE T == [S EXCEPT !.bans = b, !.audit = a]
  <1>0. S \in State
    BY DEF Loose
  <1>1. T \in State
    BY <1>0, Zenon DEF State
  <1>2. /\ T.con = S.con /\ T.who = S.who /\ T.older = S.older /\ T.byIp = S.byIp
        /\ T.bySubnet = S.bySubnet /\ T.delayed = S.delayed /\ T.free = S.free
        /\ T.direct = S.direct /\ T.proxy = S.proxy /\ T.bans = b /\ T.audit = a
    BY <1>0, Zenon DEF State
  <1> HIDE DEF T
  <1>3. Loose(T, X, R, Z)
    BY <1>1, <1>2, Zenon DEF Loose
  <1> QED BY <1>2, <1>3 DEF T

LEMMA ReloadBansStep ==
    ASSUME IInv, NEW B \in SUBSET Wallets, ReloadBans(B)
    PROVE  IInv'
  <1> DEFINE b == [Event.bans EXCEPT !.address = B]
             M == {c \in Event.audit.must : who[c].w \in B}
             a == [Event.audit EXCEPT !.must = M]
             T == [Event EXCEPT !.bans = b, !.audit = a]
  <1>1. /\ Good(Event) /\ Event \in State /\ Event.who = who /\ Event.bans \in BanRecs
        /\ Event.audit \in AuditRecs
    BY EventKeeps, Fields
  <1>2. Become(T)
    <2>1. Become([Event EXCEPT !.bans.address = B, !.audit.must = {c \in @ : who[c].w \in B}])
      BY DEF ReloadBans
    <2>2. [Event EXCEPT !.bans.address = B, !.audit.must = {c \in @ : who[c].w \in B}] = T
      BY Zenon
    <2> QED BY <2>1, <2>2
  <1>3. b \in BanRecs /\ b.address = B
    BY <1>1 DEF BanRecs
  <1>4. M \subseteq Event.audit.must /\ \A c \in M : who[c].w \in B
    OBVIOUS
  <1> HIDE DEF M
  <1>5. /\ a \in AuditRecs /\ a.must = M /\ a.passed = Event.audit.passed
        /\ a.left = Event.audit.left
    BY <1>1, <1>4 DEF AuditRecs
  <1> HIDE DEF a, b
  <1>6. AuditOK(Event.who, Event.older, a, B)
    BY <1>1, <1>4, <1>5 DEF AuditOK, Good, Loose
  <1>7. Loose(T, {}, {}, {})
    BY <1>1, <1>3, <1>5, <1>6, AuditUpdate DEF Good
  <1> HIDE DEF T
  <1> QED BY <1>2, <1>7, StepIs DEF Good

-----------------------------------------------------------------------------
(* The connection counts *)

\* T is S with another socket k on slot c and other counts.
LEMMA SeatUpdate ==
    ASSUME NEW S, NEW X, Loose(S, X, {}, {}), NEW c \in Conns, NEW k \in SocketRecs,
           NEW T \in State, T.con = [S.con EXCEPT ![c] = k], SameMiners(S, T),
           T.free = S.free, T.delayed = S.delayed, SeatsOK(T.con, T.byIp, T.bySubnet),
           Ids(k) = Ids(S.con[c]), k.ip = S.con[c].ip \/ \A i \in Ips : S.delayed[i] # c,
           SlotOK(k, S.who[c]), c \notin X => ClockOK(k, S.who[c])
    PROVE  Loose(T, X, {}, {}) /\ T.con[c] = k
  <1>1. /\ S \in State /\ S.delayed \in [Ips -> Conns \cup {Nobody}] /\ S.con \in [Conns -> SocketRecs]
        /\ IdsOK(S.con, S.free) /\ DelayedOK(S.con, S.delayed)
    BY Fields DEF Loose
  <1>2. T.con[c] = k /\ Elsewhere(T.con, S.con, c)
    BY <1>1 DEF Elsewhere
  <1>3. /\ T.who = S.who /\ T.older = S.older /\ T.direct = S.direct /\ T.proxy = S.proxy
        /\ T.bans = S.bans /\ T.audit = S.audit
    BY DEF SameMiners
  <1>4. IdsOK(T.con, T.free)
    <2>1. \A d \in Conns : Ids(T.con[d]) = Ids(S.con[d])
      BY <1>2 DEF Elsewhere
    <2>2. IdsOK(T.con, S.free)
      BY <1>1, <2>1, SameIds
    <2> QED BY <2>2
  <1>5. DelayedOK(T.con, T.delayed)
    BY <1>1, <1>2 DEF DelayedOK, Elsewhere
  <1>6. /\ \A d \in Conns : SlotOK(T.con[d], T.who[d])
        /\ \A d \in Conns \ X : ClockOK(T.con[d], T.who[d])
    BY <1>2, <1>3 DEF Loose, Elsewhere
  <1>7. /\ WorkersOK(T.who, T.direct, T.proxy, {}, {}) /\ OrderOK(T.who, T.older)
        /\ AuditOK(T.who, T.older, T.audit, T.bans.address)
    BY <1>3, Zenon DEF Loose
  <1> QED BY <1>2, <1>4, <1>5, <1>6, <1>7 DEF Loose

LEMMA SeatTaken ==
    ASSUME NEW f, NEW g, NEW c \in Conns, Elsewhere(g, f, c), ~f[c].held, g[c].held,
           NEW i \in Ips, g[c].ip = i,
           NEW x \in [Ips -> Nat], NEW y \in [Subnets -> Nat], SeatsOK(f, x, y)
    PROVE  SeatsOK(g, [x EXCEPT ![i] = x[i] + 1], [y EXCEPT ![SubnetOf[i]] = y[SubnetOf[i]] + 1])
  <1> DEFINE n == SubnetOf[i]
             u == [x EXCEPT ![i] = x[i] + 1]
             v == [y EXCEPT ![n] = y[n] + 1]
  <1>1. n \in Subnets
    BY Constants
  <1>2. /\ u[i] = x[i] + 1 /\ \A j \in Ips : j # i => u[j] = x[j]
        /\ v[n] = y[n] + 1 /\ \A m \in Subnets : m # n => v[m] = y[m]
    BY <1>1
  <1>3. /\ \A j \in Ips : x[j] = Cardinality(HeldBy(f, j))
        /\ \A m \in Subnets : y[m] = Cardinality(HeldBySubnet(f, m))
    BY DEF SeatsOK
  <1>4. ASSUME NEW j \in Ips PROVE u[j] = Cardinality(HeldBy(g, j))
    <2>1. HeldBy(f, j) \in SUBSET Conns /\ c \in Conns \ HeldBy(f, j)
      BY DEF HeldBy
    <2>2. HeldBy(g, j) = IF j = i THEN HeldBy(f, j) \cup {c} ELSE HeldBy(f, j)
      BY DEF HeldBy, Elsewhere
    <2>3. Cardinality(HeldBy(f, j) \cup {c}) = Cardinality(HeldBy(f, j)) + 1
      BY <2>1, Sizes
    <2> QED BY <1>2, <1>3, <2>2, <2>3
  <1>5. ASSUME NEW m \in Subnets PROVE v[m] = Cardinality(HeldBySubnet(g, m))
    <2>1. HeldBySubnet(f, m) \in SUBSET Conns /\ c \in Conns \ HeldBySubnet(f, m)
      BY DEF HeldBySubnet
    <2>2. HeldBySubnet(g, m) = IF m = n THEN HeldBySubnet(f, m) \cup {c} ELSE HeldBySubnet(f, m)
      BY DEF HeldBySubnet, Elsewhere
    <2>3. Cardinality(HeldBySubnet(f, m) \cup {c}) = Cardinality(HeldBySubnet(f, m)) + 1
      BY <2>1, Sizes
    <2> QED BY <1>2, <1>3, <2>2, <2>3
  <1> HIDE DEF u, v
  <1>6. SeatsOK(g, u, v)
    BY <1>4, <1>5 DEF SeatsOK
  <1> QED BY <1>6 DEF u, v, n

LEMMA SeatLeft ==
    ASSUME NEW f, NEW g, NEW c \in Conns, Elsewhere(g, f, c), f[c].held, ~g[c].held,
           NEW i \in Ips, f[c].ip = i,
           NEW x \in [Ips -> Nat], NEW y \in [Subnets -> Nat], SeatsOK(f, x, y)
    PROVE  SeatsOK(g, [x EXCEPT ![i] = Minus(x[i], 1)],
                      [y EXCEPT ![SubnetOf[i]] = Minus(y[SubnetOf[i]], 1)])
  <1> DEFINE n == SubnetOf[i]
             u == [x EXCEPT ![i] = Minus(x[i], 1)]
             v == [y EXCEPT ![n] = Minus(y[n], 1)]
  <1>1. n \in Subnets
    BY Constants
  <1>2. /\ u[i] = Minus(x[i], 1) /\ \A j \in Ips : j # i => u[j] = x[j]
        /\ v[n] = Minus(y[n], 1) /\ \A m \in Subnets : m # n => v[m] = y[m]
    BY <1>1
  <1>3. /\ \A j \in Ips : x[j] = Cardinality(HeldBy(f, j))
        /\ \A m \in Subnets : y[m] = Cardinality(HeldBySubnet(f, m))
    BY DEF SeatsOK
  <1>4. ASSUME NEW A \in SUBSET Conns, c \in A
        PROVE  Cardinality(A \ {c}) = Minus(Cardinality(A), 1)
    <2>1. Cardinality(A \ {c}) = Cardinality(A) - 1 /\ Cardinality(A) \in Nat
      BY <1>4, Sizes
    <2>2. A \ {c} \in SUBSET Conns
      OBVIOUS
    <2>3. Cardinality(A \ {c}) \in Nat
      BY <2>2, Sizes
    <2> QED BY <2>1, <2>3 DEF Minus
  <1>5. ASSUME NEW j \in Ips PROVE u[j] = Cardinality(HeldBy(g, j))
    <2>1. HeldBy(f, j) \in SUBSET Conns /\ (j = i => c \in HeldBy(f, j))
      BY DEF HeldBy
    <2>2. HeldBy(g, j) = IF j = i THEN HeldBy(f, j) \ {c} ELSE HeldBy(f, j)
      BY DEF HeldBy, Elsewhere
    <2> QED BY <1>2, <1>3, <1>4, <2>1, <2>2
  <1>6. ASSUME NEW m \in Subnets PROVE v[m] = Cardinality(HeldBySubnet(g, m))
    <2>1. HeldBySubnet(f, m) \in SUBSET Conns /\ (m = n => c \in HeldBySubnet(f, m))
      BY DEF HeldBySubnet
    <2>2. HeldBySubnet(g, m) = IF m = n THEN HeldBySubnet(f, m) \ {c} ELSE HeldBySubnet(f, m)
      BY DEF HeldBySubnet, Elsewhere
    <2> QED BY <1>2, <1>3, <1>4, <2>1, <2>2
  <1> HIDE DEF u, v
  <1>7. SeatsOK(g, u, v)
    BY <1>5, <1>6 DEF SeatsOK
  <1> QED BY <1>7 DEF u, v, n

\* S with other counts.
Counted(S, x, y) == [S EXCEPT !.byIp = x, !.bySubnet = y]

LEMMA CountsIs ==
    ASSUME NEW S \in State, NEW x \in [Ips -> Nat], NEW y \in [Subnets -> Nat]
    PROVE  /\ Counted(S, x, y) \in State /\ Counted(S, x, y).con = S.con
           /\ SameMiners(S, Counted(S, x, y)) /\ Counted(S, x, y).free = S.free
           /\ Counted(S, x, y).delayed = S.delayed /\ Counted(S, x, y).byIp = x
           /\ Counted(S, x, y).bySubnet = y
  <1> DEFINE T == Counted(S, x, y)
  <1>0. T = [S EXCEPT !.byIp = x, !.bySubnet = y]
    BY DEF Counted
  <1>1. T \in State
    BY <1>0, Zenon DEF State
  <1>2. /\ T.con = S.con /\ T.who = S.who /\ T.older = S.older /\ T.byIp = x
        /\ T.bySubnet = y /\ T.delayed = S.delayed /\ T.free = S.free
        /\ T.direct = S.direct /\ T.proxy = S.proxy /\ T.bans = S.bans /\ T.audit = S.audit
    BY <1>0, Zenon DEF State
  <1> HIDE DEF T
  <1>3. SameMiners(S, T)
    BY <1>2 DEF SameMiners
  <1> QED BY <1>1, <1>2, <1>3, Zenon DEF T

LEMMA MinusIs ==
    ASSUME NEW n \in Nat, NEW k \in Nat
    PROVE  Minus(n, k) \in Nat
  BY DEF Minus

\* reserveConnection
LEMMA AcceptStep ==
    ASSUME IInv, NEW c \in Conns, NEW i \in Ips, NEW tls \in BOOLEAN, Accept(c, i, tls)
    PROVE  IInv'
  <1> DEFINE n == SubnetOf[i]
             k == [NoSocket EXCEPT !.st = IF tls THEN "raw" ELSE "open",
                                   !.ip = i, !.held = TRUE, !.auth = ~tls]
             P == Put(Now, c, k)
             x == [byIp EXCEPT ![i] = byIp[i] + 1]
             y == [bySubnet EXCEPT ![n] = bySubnet[n] + 1]
             T == Counted(P, x, y)
  <1>1. con[c].st = "free" /\ Become([P EXCEPT !.byIp[i] = @ + 1, !.bySubnet[n] = @ + 1])
    BY DEF Accept
  <1>2. /\ Good(Now) /\ Now.con = con /\ Now.who = who /\ Now \in State /\ Now.delayed = delayed
        /\ Now.byIp = byIp /\ Now.bySubnet = bySubnet
        /\ con \in [Conns -> SocketRecs] /\ byIp \in [Ips -> Nat] /\ bySubnet \in [Subnets -> Nat]
        /\ delayed \in [Ips -> Conns \cup {Nobody}]
        /\ SeatsOK(con, byIp, bySubnet) /\ DelayedOK(con, delayed)
    <2>1. Good(Now) /\ Now \in State
      BY EventKeeps
    <2> QED BY <2>1, NowFields, Fields DEF Good, Loose
  <1>3. con[c] = NoSocket /\ who[c] = NoMiner
    BY <1>1, <1>2, SocketTyped DEF SlotOK
  <1>4. NoSocket \in SocketRecs
    BY <1>2, <1>3
  <1>5. /\ k \in SocketRecs /\ k.held /\ k.ip = i /\ (k.st = "raw" \/ k.st = "open") /\ ~k.mid /\ ~k.fin
        /\ ~k.first /\ k.xid = 0 /\ k.prev = 0 /\ (k.st = "open" => k.auth)
    BY <1>4 DEF SocketRecs, Stages, NoSocket
  <1>6. [P EXCEPT !.byIp[i] = @ + 1, !.bySubnet[n] = @ + 1] = T
    <2>1. P.byIp = byIp /\ P.bySubnet = bySubnet
      <3>1. SameSeats(Now, P)
        BY <1>2, <1>5, PutIs
      <3> QED BY <1>2, <3>1 DEF SameSeats
    <2> HIDE DEF P
    <2> QED BY <2>1, Zenon DEF Counted
  <1> HIDE DEF k
  <1>7. P \in State /\ P.con = [con EXCEPT ![c] = k] /\ SameMiners(Now, P)
        /\ P.free = Now.free /\ P.delayed = delayed
    <2>1. /\ P \in State /\ P.con = [Now.con EXCEPT ![c] = k] /\ SameMiners(Now, P)
          /\ P.free = Now.free /\ P.delayed = Now.delayed
      BY <1>2, <1>5, PutIs
    <2> QED BY <1>2, <2>1
  <1> HIDE DEF P
  <1>8. n \in Subnets
    BY Constants
  <1>9. x \in [Ips -> Nat] /\ y \in [Subnets -> Nat]
    BY <1>2, <1>8
  <1>10. SeatsOK(P.con, x, y)
    <2>1. Elsewhere(P.con, con, c) /\ P.con[c] = k
      BY <1>2, <1>7 DEF Elsewhere
    <2>2. ~con[c].held
      BY <1>3 DEF NoSocket
    <2>3. SeatsOK(P.con, [byIp EXCEPT ![i] = byIp[i] + 1],
                         [bySubnet EXCEPT ![SubnetOf[i]] = bySubnet[SubnetOf[i]] + 1])
      BY <1>2, <1>5, <2>1, <2>2, SeatTaken
    <2> QED BY <2>3
  <1> HIDE DEF x, y, T
  <1>11. /\ T \in State /\ T.con = P.con /\ SameMiners(P, T) /\ T.free = P.free
         /\ T.delayed = P.delayed /\ T.byIp = x /\ T.bySubnet = y
    BY <1>7, <1>9, CountsIs DEF T
  <1>12. SameMiners(Now, T)
    BY <1>7, <1>11 DEF SameMiners
  <1>13. Ids(k) = Ids(con[c]) /\ \A j \in Ips : delayed[j] # c
    <2>1. Ids(k) = Ids(con[c])
      BY <1>3, <1>5 DEF Ids, NoSocket
    <2>2. con[c].ip \notin Ips /\ c # Nobody
      BY <1>3, Constants DEF NoSocket
    <2> QED BY <1>2, <2>1, <2>2 DEF DelayedOK
  <1>14. SlotOK(k, who[c]) /\ ClockOK(k, who[c])
    BY <1>3, <1>5 DEF SlotOK, ClockOK, NoMiner
  <1>15. Loose(T, {}, {}, {})
    <2>1. Loose(Now, {}, {}, {})
      BY <1>2 DEF Good
    <2>2. /\ T \in State /\ T.con = [Now.con EXCEPT ![c] = k] /\ SameMiners(Now, T)
          /\ T.free = Now.free /\ T.delayed = Now.delayed
      BY <1>2, <1>7, <1>11, <1>12
    <2>3. SeatsOK(T.con, T.byIp, T.bySubnet)
      BY <1>10, <1>11
    <2>4. /\ Ids(k) = Ids(Now.con[c]) /\ (\A j \in Ips : Now.delayed[j] # c)
          /\ SlotOK(k, Now.who[c]) /\ ClockOK(k, Now.who[c])
      BY <1>2, <1>13, <1>14
    <2> QED BY <1>5, <2>1, <2>2, <2>3, <2>4, SeatUpdate
  <1> QED BY <1>1, <1>6, <1>15, StepIs DEF Good

Unheld(k) == [k EXCEPT !.held = FALSE]

LEMMA UnheldIs ==
    ASSUME NEW k \in SocketRecs
    PROVE  /\ Unheld(k) \in SocketRecs /\ ~Unheld(k).held
           /\ Unheld(k).st = k.st /\ Unheld(k).ip = k.ip /\ Unheld(k).mid = k.mid
           /\ Unheld(k).auth = k.auth /\ Unheld(k).fin = k.fin /\ Unheld(k).first = k.first
           /\ Unheld(k).xid = k.xid /\ Unheld(k).prev = k.prev
  BY DEF Unheld, SocketRecs

\* reservation.release, the first time
LEMMA ReleaseIs ==
    ASSUME NEW S \in State, SeatsOK(S.con, S.byIp, S.bySubnet), NEW c \in Conns,
           S.con[c].held, S.con[c].ip \in Ips
    PROVE  /\ Release(S, c) \in State /\ Release(S, c).con = [S.con EXCEPT ![c] = Unheld(S.con[c])]
           /\ SameMiners(S, Release(S, c)) /\ Release(S, c).free = S.free
           /\ Release(S, c).delayed = S.delayed
           /\ SeatsOK(Release(S, c).con, Release(S, c).byIp, Release(S, c).bySubnet)
  <1> DEFINE k == Unheld(S.con[c])
             i == S.con[c].ip
             n == SubnetOf[i]
             P == Put(S, c, k)
             x == [S.byIp EXCEPT ![i] = Minus(S.byIp[i], 1)]
             y == [S.bySubnet EXCEPT ![n] = Minus(S.bySubnet[n], 1)]
             T == Counted(P, x, y)
  <1>1. /\ S.con \in [Conns -> SocketRecs] /\ S.con[c] \in SocketRecs
        /\ S.byIp \in [Ips -> Nat] /\ S.bySubnet \in [Subnets -> Nat]
    BY Fields
  <1>2. k \in SocketRecs /\ ~k.held
    BY <1>1, UnheldIs
  <1>3. Release(S, c) = [P EXCEPT !.byIp[i] = Minus(@, 1), !.bySubnet[n] = Minus(@, 1)]
    BY DEF Release, Unheld
  <1> HIDE DEF k
  <1>4. /\ P \in State /\ P.con = [S.con EXCEPT ![c] = k] /\ SameMiners(S, P) /\ SameSeats(S, P)
        /\ P.free = S.free /\ P.delayed = S.delayed
    BY <1>2, PutIs
  <1> HIDE DEF P
  <1>5. P.byIp = S.byIp /\ P.bySubnet = S.bySubnet
    BY <1>4 DEF SameSeats
  <1>6. Release(S, c) = T
    BY <1>3, <1>5, Zenon DEF Counted
  <1>7. n \in Subnets
    BY Constants
  <1>8. x \in [Ips -> Nat] /\ y \in [Subnets -> Nat]
    <2>1. Minus(S.byIp[i], 1) \in Nat /\ Minus(S.bySubnet[n], 1) \in Nat
      BY <1>1, <1>7, MinusIs
    <2> QED BY <1>1, <1>7, <2>1
  <1>9. SeatsOK(P.con, x, y)
    <2>1. Elsewhere(P.con, S.con, c) /\ P.con[c] = k
      BY <1>1, <1>4 DEF Elsewhere
    <2>2. SeatsOK(P.con, [S.byIp EXCEPT ![S.con[c].ip] = Minus(S.byIp[S.con[c].ip], 1)],
                         [S.bySubnet EXCEPT ![SubnetOf[S.con[c].ip]] = Minus(S.bySubnet[SubnetOf[S.con[c].ip]], 1)])
      BY <1>1, <1>2, <2>1, SeatLeft
    <2> QED BY <2>2
  <1> HIDE DEF x, y, T
  <1>10. /\ T \in State /\ T.con = P.con /\ SameMiners(P, T) /\ T.free = P.free
         /\ T.delayed = P.delayed /\ T.byIp = x /\ T.bySubnet = y
    BY <1>4, <1>8, CountsIs DEF T
  <1>11. SameMiners(S, T)
    BY <1>4, <1>10 DEF SameMiners
  <1>12. SeatsOK(T.con, T.byIp, T.bySubnet)
    BY <1>9, <1>10
  <1> QED BY <1>4, <1>6, <1>10, <1>11, <1>12 DEF k

LEMMA TlsFailsStep ==
    ASSUME IInv, NEW c \in Conns, TlsFails(c)
    PROVE  IInv'
  <1> DEFINE R == Release(Now, c)
             k == Unheld(con[c])
             l == Destroyed(k)
             T == Put(R, c, l)
  <1>1. con[c].st = "raw" /\ Become(Destroy(R, c))
    BY DEF TlsFails
  <1>2. Good(Now) /\ Now.con = con /\ Now.who = who /\ Now \in State
    BY EventKeeps
  <1>3. con[c] \in SocketRecs /\ SlotOK(con[c], who[c])
    BY <1>2, SocketTyped
  <1>4. con[c].held /\ con[c].ip \in Ips
    BY <1>1, <1>3 DEF SlotOK
  <1>5. /\ R \in State /\ R.con = [Now.con EXCEPT ![c] = k] /\ SameMiners(Now, R)
        /\ R.free = Now.free /\ R.delayed = Now.delayed /\ SeatsOK(R.con, R.byIp, R.bySubnet)
    <2>1. SeatsOK(Now.con, Now.byIp, Now.bySubnet)
      BY <1>2 DEF Good, Loose
    <2>2. Now.con[c].held /\ Now.con[c].ip \in Ips
      BY <1>2, <1>4
    <2>3. R.con = [Now.con EXCEPT ![c] = Unheld(Now.con[c])]
      BY <1>2, <2>1, <2>2, ReleaseIs
    <2> QED BY <1>2, <2>1, <2>2, <2>3, ReleaseIs
  <1>6. R.con[c] = k /\ Destroy(R, c) = T
    <2>1. con \in [Conns -> SocketRecs]
      BY <1>2, Fields
    <2>2. R.con[c] = k
      BY <1>2, <1>5, <2>1
    <2> QED BY <2>2 DEF Destroy
  <1>7. /\ k \in SocketRecs /\ k.ip = con[c].ip /\ ~k.held /\ k.mid = con[c].mid /\ k.auth = con[c].auth
        /\ k.xid = con[c].xid /\ k.prev = con[c].prev
    BY <1>3, UnheldIs
  <1> HIDE DEF k
  <1>8. l \in SocketRecs /\ Kept(k, l) /\ l.st = "destroyed" /\ l.mid = k.mid /\ l.auth = k.auth
    BY <1>7 DEF Destroyed, SocketRecs, Stages, Kept
  <1> HIDE DEF l, R
  <1>9. SlotOK(l, who[c]) /\ ClockOK(l, who[c]) /\ Ids(l) = Ids(con[c]) /\ l.ip = con[c].ip
    BY <1>3, <1>4, <1>7, <1>8 DEF SlotOK, ClockOK, Kept, Ids
  <1>10. /\ T \in State /\ T.con = [R.con EXCEPT ![c] = l] /\ SameMiners(R, T) /\ SameSeats(R, T)
         /\ T.free = R.free /\ T.delayed = R.delayed
    BY <1>5, <1>8, PutIs
  <1> HIDE DEF T
  <1>11. T.con = [Now.con EXCEPT ![c] = l]
    BY <1>5, <1>10
  <1>12. SameMiners(Now, T) /\ T.byIp = R.byIp /\ T.bySubnet = R.bySubnet
    BY <1>5, <1>10 DEF SameMiners, SameSeats
  <1>13. SeatsOK(T.con, T.byIp, T.bySubnet)
    <2>1. Now.con \in [Conns -> SocketRecs] /\ R.con \in [Conns -> SocketRecs]
      BY <1>2, <1>5, Fields
    <2>2. \A d \in Conns : T.con[d].held = R.con[d].held /\ T.con[d].ip = R.con[d].ip
      BY <1>6, <1>8, <1>10, <2>1 DEF Kept
    <2>3. /\ \A i \in Ips : HeldBy(T.con, i) = HeldBy(R.con, i)
          /\ \A n \in Subnets : HeldBySubnet(T.con, n) = HeldBySubnet(R.con, n)
      BY <2>2 DEF HeldBy, HeldBySubnet
    <2> QED BY <1>5, <1>12, <2>3 DEF SeatsOK
  <1>14. Loose(T, {}, {}, {})
    <2>1. Loose(Now, {}, {}, {})
      BY <1>2 DEF Good
    <2>2. /\ T \in State /\ T.con = [Now.con EXCEPT ![c] = l] /\ SameMiners(Now, T)
          /\ T.free = Now.free /\ T.delayed = Now.delayed
      BY <1>5, <1>10, <1>11, <1>12
    <2>3. /\ Ids(l) = Ids(Now.con[c]) /\ l.ip = Now.con[c].ip
          /\ SlotOK(l, Now.who[c]) /\ ClockOK(l, Now.who[c])
      BY <1>2, <1>9
    <2> QED BY <1>8, <1>13, <2>1, <2>2, <2>3, SeatUpdate
  <1> QED BY <1>1, <1>6, <1>14, StepIs DEF Good

\* reservation.release on a socket whose close event is pending
LEMMA ReleaseKeeps ==
    ASSUME NEW S, Good(S), NEW c \in Conns, S.con[c].st = "destroyed"
    PROVE  /\ Good(Release(S, c)) /\ Release(S, c).con[c].st = "destroyed"
           /\ ~Release(S, c).con[c].held /\ Release(S, c).who = S.who
           /\ Release(S, c).con[c].mid = S.con[c].mid /\ Release(S, c).delayed = S.delayed
  <1> DEFINE R == Release(S, c)
             k == Unheld(S.con[c])
  <1>1. /\ S \in State /\ SeatsOK(S.con, S.byIp, S.bySubnet) /\ S.con \in [Conns -> SocketRecs]
        /\ Loose(S, {}, {}, {})
    BY Fields DEF Good, Loose
  <1>2. S.con[c] \in SocketRecs /\ SlotOK(S.con[c], S.who[c]) /\ S.con[c].ip \in Ips
    BY SocketTyped DEF SlotOK
  <1>3. CASE ~S.con[c].held
    BY <1>3 DEF Release
  <1>4. CASE S.con[c].held
    <2>1. /\ R \in State /\ R.con = [S.con EXCEPT ![c] = k] /\ SameMiners(S, R)
          /\ R.free = S.free /\ R.delayed = S.delayed /\ SeatsOK(R.con, R.byIp, R.bySubnet)
      BY <1>1, <1>2, <1>4, ReleaseIs
    <2>2. /\ k \in SocketRecs /\ k.ip = S.con[c].ip /\ ~k.held /\ k.mid = S.con[c].mid
          /\ k.auth = S.con[c].auth /\ k.st = "destroyed"
          /\ k.xid = S.con[c].xid /\ k.prev = S.con[c].prev
      BY <1>2, UnheldIs
    <2> HIDE DEF k, R
    <2>3. SlotOK(k, S.who[c]) /\ ClockOK(k, S.who[c]) /\ Ids(k) = Ids(S.con[c])
      BY <1>2, <2>2 DEF SlotOK, ClockOK, Ids
    <2>4. Loose(R, {}, {}, {}) /\ R.con[c] = k
      BY <1>1, <2>1, <2>2, <2>3, SeatUpdate
    <2>5. R.who = S.who
      BY <2>1 DEF SameMiners
    <2> QED BY <2>1, <2>2, <2>4, <2>5 DEF Good, R
  <1> QED BY <1>3, <1>4

\* The slot of a closed socket is free again: T is S without the socket and
\* the miner of slot c.
LEMMA FreedKeeps ==
    ASSUME NEW S, NEW c \in Conns, Loose(S, {c}, {}, {}), ~S.who[c].live, ~S.con[c].held,
           \A i \in Ips : S.delayed[i] # c,
           NEW T \in State, T.con = [S.con EXCEPT ![c] = NoSocket], T.who = [S.who EXCEPT ![c] = NoMiner],
           SameSeats(S, T), T.older = S.older, T.delayed = S.delayed, T.direct = S.direct,
           T.proxy = S.proxy, T.bans = S.bans, T.audit = S.audit, IdsOK(T.con, T.free)
    PROVE  Good(T)
  <1>1. /\ S \in State /\ S.con \in [Conns -> SocketRecs] /\ S.who \in [Conns -> MinerRecs]
        /\ S.older \in [Conns -> SUBSET Conns] /\ S.audit \in AuditRecs
        /\ S.delayed \in [Ips -> Conns \cup {Nobody}]
    BY Fields DEF Loose
  <1>2. /\ T.con[c] = NoSocket /\ T.who[c] = NoMiner
        /\ \A d \in Conns : d # c => T.con[d] = S.con[d] /\ T.who[d] = S.who[d]
    BY <1>1
  <1>3. ~NoSocket.held /\ ~NoMiner.live /\ NoSocket.st = "free"
    BY DEF NoSocket, NoMiner
  <1>4. SeatsOK(T.con, T.byIp, T.bySubnet)
    <2>1. /\ \A i \in Ips : HeldBy(T.con, i) = HeldBy(S.con, i)
          /\ \A n \in Subnets : HeldBySubnet(T.con, n) = HeldBySubnet(S.con, n)
      BY <1>2, <1>3 DEF HeldBy, HeldBySubnet
    <2> QED BY <2>1 DEF Loose, SeatsOK, SameSeats
  <1>5. DelayedOK(T.con, T.delayed)
    BY <1>1, <1>2 DEF Loose, DelayedOK
  <1>6. \A d \in Conns : SameMiner(S.who[d], T.who[d])
    BY <1>2, <1>3 DEF SameMiner
  <1>7. /\ WorkersOK(T.who, S.direct, S.proxy, {}, {}) /\ OrderOK(T.who, S.older)
        /\ AuditOK(T.who, S.older, S.audit, S.bans.address)
    <2>1. /\ WorkersOK(S.who, S.direct, S.proxy, {}, {}) /\ OrderOK(S.who, S.older)
          /\ AuditOK(S.who, S.older, S.audit, S.bans.address)
      BY DEF Loose
    <2> QED BY <1>1, <1>6, <2>1, RegistryKept
  <1>8. ASSUME NEW d \in Conns PROVE SlotOK(T.con[d], T.who[d]) /\ ClockOK(T.con[d], T.who[d])
    <2>1. CASE d = c
      BY <1>2, <2>1 DEF SlotOK, ClockOK, NoSocket, NoMiner
    <2>2. CASE d # c
      BY <1>2, <2>2 DEF Loose
    <2> QED BY <2>1, <2>2
  <1> QED BY <1>4, <1>5, <1>7, <1>8 DEF Good, Loose

LEMMA GiveBackIds ==
    ASSUME NEW S \in State, NEW c \in Conns, IdsOK(S.con, S.free), SlotOK(S.con[c], S.who[c]),
           NEW g, Elsewhere(g, S.con, c), g[c] = NoSocket
    PROVE  /\ GiveBack(S, c).free \in Seq(1..ExtraNonces) /\ IdsOK(g, GiveBack(S, c).free)
           /\ GiveBack(S, c) = [S EXCEPT !.free = GiveBack(S, c).free]
  <1> DEFINE k == S.con[c]
  <1>1. S.con \in [Conns -> SocketRecs] /\ k \in SocketRecs /\ S.free \in Seq(1..ExtraNonces)
    BY Fields
  <1>2. Ids(g[c]) = {}
    BY DEF Ids, NoSocket
  <1>3. /\ k.xid = 0 /\ k.prev = 0 => Ids(k) = {}
        /\ k.xid # 0 => Ids(k) = {k.xid} /\ k.xid \in 1..ExtraNonces
        /\ k.prev # 0 => Ids(k) = {k.prev} /\ k.prev \in 1..ExtraNonces
    BY <1>1, IdsTyped
  <1>4. ASSUME NEW n \in 1..ExtraNonces, Ids(k) = {n}, GiveBack(S, c) = [S EXCEPT !.free = Append(@, n)]
        PROVE  /\ GiveBack(S, c).free \in Seq(1..ExtraNonces) /\ IdsOK(g, GiveBack(S, c).free)
               /\ GiveBack(S, c) = [S EXCEPT !.free = GiveBack(S, c).free]
    <2> DEFINE q == Append(S.free, n)
    <2>1. q \in Seq(1..ExtraNonces) /\ IdsOK(g, q)
      BY <1>1, <1>2, <1>4, GiveId
    <2>2. GiveBack(S, c) = [S EXCEPT !.free = q]
      BY <1>4
    <2> HIDE DEF q
    <2>3. GiveBack(S, c).free = q
      BY <2>2, Zenon DEF State
    <2> QED BY <2>1, <2>2, <2>3
  <1>5. CASE k.xid # 0
    BY <1>3, <1>4, <1>5 DEF GiveBack
  <1>6. CASE k.xid = 0 /\ k.prev # 0
    BY <1>3, <1>4, <1>6 DEF GiveBack
  <1>7. CASE k.xid = 0 /\ k.prev = 0
    <2>1. GiveBack(S, c) = S
      BY <1>7 DEF GiveBack
    <2>2. \A d \in Conns : Ids(g[d]) = Ids(S.con[d])
      BY <1>2, <1>3, <1>7 DEF Elsewhere
    <2>3. IdsOK(g, S.free)
      BY <2>2, SameIds
    <2>4. S = [S EXCEPT !.free = S.free]
      BY Zenon DEF State
    <2> QED BY <1>1, <2>1, <2>3, <2>4
  <1> QED BY <1>5, <1>6, <1>7

LEMMA CloseStep ==
    ASSUME IInv, NEW c \in Conns, Close(c)
    PROVE  IInv'
  <1> DEFINE D == ClearDelayed(Now, c)
             k == ClearTimers(con[c])
             P == Put(D, c, k)
             S == Release(P, c)
             M == RemoveMiners(S, {c}, "keep")
             T == IF con[c].mid THEN M ELSE S
             W == {} \cup ({c} \cap Live(S))
             G == GiveBack(T, c)
             Q == Put(G, c, NoSocket)
             w == [T.who EXCEPT ![c] = NoMiner]
             F == [Q EXCEPT !.who[c] = NoMiner]
  <1>1. con[c].st = "destroyed" /\ Become(F)
    BY Zenon DEF Close, RemoveMiner
  <1>2. Good(Now) /\ Now.con = con /\ Now.who = who /\ Now \in State
    BY EventKeeps
  <1>3. con[c] \in SocketRecs /\ SlotOK(con[c], who[c])
    BY <1>2, SocketTyped
  <1>4. /\ k \in SocketRecs /\ Kept(con[c], k) /\ k.st = "destroyed" /\ k.mid = con[c].mid
        /\ ~k.auth /\ ~k.first
    BY <1>1, <1>3 DEF ClearTimers, SocketRecs, Kept
  <1> HIDE DEF k
  <1>5. SlotOK(k, who[c]) /\ ClockOK(k, who[c])
    BY <1>1, <1>3, <1>4 DEF SlotOK, ClockOK, Kept
  <1>6. Good(D) /\ D.con = con /\ D.who = who /\ \A i \in Ips : D.delayed[i] # c
    <2>1. Loose(Now, {}, {}, {})
      BY <1>2 DEF Good
    <2>2. Now.con[c].st # "free"
      BY <1>1, <1>2
    <2>3. /\ Loose(D, {}, {}, {}) /\ D.con = Now.con /\ SameMiners(Now, D)
          /\ \A i \in Ips : D.delayed[i] # c
      BY <2>1, <2>2, ClearDelayedKeeps
    <2> QED BY <1>2, <2>3 DEF Good, SameMiners
  <1> HIDE DEF D
  <1>7. Good(P) /\ P.con[c] = k /\ P.who = who /\ P.delayed = D.delayed
    <2>1. Good(P)
      BY <1>4, <1>5, <1>6, PutGood
    <2>2. D \in State
      BY <1>6 DEF Good, Loose
    <2>3. P.con[c] = k /\ SameMiners(D, P) /\ P.delayed = D.delayed
      BY <1>4, <2>2, PutAt, PutIs
    <2> QED BY <1>6, <2>1, <2>3 DEF SameMiners
  <1> HIDE DEF P
  <1>8. /\ Good(S) /\ S.con[c].st = "destroyed" /\ ~S.con[c].held /\ S.con[c].mid = con[c].mid
        /\ \A i \in Ips : S.delayed[i] # c
    <2>1. P.con[c].st = "destroyed"
      BY <1>4, <1>7
    <2>2. /\ Good(S) /\ S.con[c].st = "destroyed" /\ ~S.con[c].held /\ S.con[c].mid = P.con[c].mid
          /\ S.delayed = P.delayed
      BY <1>7, <2>1, ReleaseKeeps
    <2> QED BY <1>4, <1>6, <1>7, <2>2
  <1> HIDE DEF S
  <1>9. /\ Loose(T, {c}, {}, {}) /\ T.con[c].st = "destroyed" /\ ~T.con[c].held /\ ~T.who[c].live
        /\ \A i \in Ips : T.delayed[i] # c
    <2>1. Loose(S, {}, {}, {})
      BY <1>8 DEF Good
    <2>2. CASE con[c].mid
      <3>1. {c} \in SUBSET Conns /\ Covers(S, {c}, {}, {})
        BY DEF Covers
      <3>2. Loose(M, W, {}, {}) /\ M.con = S.con /\ M.delayed = S.delayed /\ ~M.who[c].live
        BY <2>1, <3>1, RemoveKeeps
      <3>3. \A d \in Conns : d \notin {c} => d \notin W
        OBVIOUS
      <3> HIDE DEF M, W
      <3>4. Loose(M, {c}, {}, {})
        BY <3>2, <3>3, LooseWider
      <3> QED BY <1>8, <2>2, <3>2, <3>4
    <2>3. CASE ~con[c].mid
      <3>1. Loose(S, {c}, {}, {})
        BY <2>1, LooseWider
      <3>2. SlotOK(S.con[c], S.who[c])
        BY <1>8, SocketTyped
      <3>3. ~S.who[c].live
        BY <1>8, <2>3, <3>2 DEF SlotOK
      <3> QED BY <1>8, <2>3, <3>1, <3>3
    <2> QED BY <2>2, <2>3
  <1> HIDE DEF T
  <1>10. /\ T \in State /\ T.con \in [Conns -> SocketRecs] /\ T.who \in [Conns -> MinerRecs]
         /\ IdsOK(T.con, T.free) /\ SlotOK(T.con[c], T.who[c])
    BY <1>9, Fields DEF Loose
  <1> DEFINE g == [T.con EXCEPT ![c] = NoSocket]
             q == G.free
  <1>11. g[c] = NoSocket /\ Elsewhere(g, T.con, c)
    BY <1>10 DEF Elsewhere
  <1> HIDE DEF g, G, q
  <1>12. q \in Seq(1..ExtraNonces) /\ IdsOK(g, q) /\ G = [T EXCEPT !.free = q]
    BY <1>10, <1>11, GiveBackIds DEF q, G
  <1>13. NoSocket \in SocketRecs /\ NoMiner \in MinerRecs
    BY Constants DEF NoSocket, SocketRecs, Stages, NoMiner, MinerRecs
  <1>14. G \in State
    BY <1>10, <1>12, Zenon DEF State
  <1>15. /\ G.con = T.con /\ G.who = T.who /\ G.older = T.older /\ G.byIp = T.byIp
         /\ G.bySubnet = T.bySubnet /\ G.delayed = T.delayed /\ G.free = q
         /\ G.direct = T.direct /\ G.proxy = T.proxy /\ G.bans = T.bans /\ G.audit = T.audit
    BY <1>10, <1>12, Zenon DEF State
  <1>16. /\ Q \in State /\ Q.con = g /\ Q.who = T.who /\ Q.older = T.older /\ SameSeats(T, Q)
         /\ Q.delayed = T.delayed /\ Q.free = q /\ Q.direct = T.direct /\ Q.proxy = T.proxy
         /\ Q.bans = T.bans /\ Q.audit = T.audit
    <2>1. /\ Q \in State /\ Q.con = [G.con EXCEPT ![c] = NoSocket] /\ SameMiners(G, Q)
          /\ SameSeats(G, Q) /\ Q.delayed = G.delayed /\ Q.free = G.free
      BY <1>13, <1>14, PutIs
    <2> HIDE DEF Q
    <2> QED BY <1>15, <2>1 DEF SameMiners, SameSeats, g
  <1> HIDE DEF Q
  <1>17. F = Know(Q, c, NoMiner)
    BY Zenon DEF Know
  <1> HIDE DEF F
  <1>18. /\ F \in State /\ F.con = Q.con /\ SameSeats(Q, F) /\ F.delayed = Q.delayed
         /\ F.free = Q.free /\ F.older = Q.older /\ F.direct = Q.direct /\ F.proxy = Q.proxy
         /\ F.audit = Q.audit /\ F.bans = Q.bans
    BY <1>13, <1>16, <1>17, KnowIs
  <1>19. F.who = [T.who EXCEPT ![c] = NoMiner]
    <2>1. F = [Q EXCEPT !.who = w]
      BY <1>16, <1>17, Zenon DEF Know
    <2> HIDE DEF w
    <2>2. F.who = w
      BY <1>16, <2>1, Zenon DEF State
    <2> QED BY <2>2 DEF w
  <1>20. /\ F.con = [T.con EXCEPT ![c] = NoSocket] /\ SameSeats(T, F) /\ F.older = T.older
         /\ F.delayed = T.delayed /\ F.direct = T.direct /\ F.proxy = T.proxy
         /\ F.bans = T.bans /\ F.audit = T.audit /\ IdsOK(F.con, F.free)
    BY <1>12, <1>16, <1>18 DEF SameSeats, g
  <1>21. Good(F)
    BY <1>9, <1>18, <1>19, <1>20, FreedKeeps
  <1> QED BY <1>1, <1>21, StepIs

-----------------------------------------------------------------------------
(* The alive check and the audit *)

\* The state S with audit a.
Audited(S, a) == [S EXCEPT !.audit = a]

LEMMA AuditedIs ==
    ASSUME NEW S \in State, NEW a \in AuditRecs
    PROVE  LET T == Audited(S, a) IN
           /\ T \in State /\ T.con = S.con /\ T.who = S.who /\ T.older = S.older /\ T.byIp = S.byIp
           /\ T.bySubnet = S.bySubnet /\ T.delayed = S.delayed /\ T.free = S.free
           /\ T.direct = S.direct /\ T.proxy = S.proxy /\ T.bans = S.bans /\ T.mail = S.mail
           /\ T.audit = a /\ T.events = S.events
  <1> DEFINE T == Audited(S, a)
  <1>0. T = [S EXCEPT !.audit = a]
    BY DEF Audited
  <1> HIDE DEF T
  <1>1. T \in State
    BY <1>0, Zenon DEF State
  <1>2. /\ T.con = S.con /\ T.who = S.who /\ T.older = S.older /\ T.byIp = S.byIp
        /\ T.bySubnet = S.bySubnet /\ T.delayed = S.delayed /\ T.free = S.free
        /\ T.direct = S.direct /\ T.proxy = S.proxy /\ T.bans = S.bans /\ T.mail = S.mail
        /\ T.audit = a /\ T.events = S.events
    BY <1>0, Zenon DEF State
  <1> QED BY <1>1, <1>2, Zenon DEF T

LEMMA AuditedKeeps ==
    ASSUME NEW S, Good(S), NEW a \in AuditRecs, AuditOK(S.who, S.older, a, S.bans.address)
    PROVE  Good(Audited(S, a)) /\ Audited(S, a).who = S.who /\ Audited(S, a).older = S.older
  <1> DEFINE T == Audited(S, a)
  <1>1. S \in State
    BY DEF Good, Loose
  <1>2. /\ T \in State /\ T.con = S.con /\ T.who = S.who /\ T.older = S.older /\ T.byIp = S.byIp
        /\ T.bySubnet = S.bySubnet /\ T.delayed = S.delayed /\ T.free = S.free
        /\ T.direct = S.direct /\ T.proxy = S.proxy /\ T.bans = S.bans /\ T.audit = a
    BY <1>1, AuditedIs
  <1> HIDE DEF T
  <1>3. Good(T)
    BY <1>2, Zenon DEF Good, Loose
  <1> QED BY <1>2, <1>3 DEF T

LEMMA StartAuditKeeps ==
    ASSUME NEW S, Good(S)
    PROVE  Good(StartAudit(S))
  <1> DEFINE L == Live(S)
             M == {c \in L : S.who[c].w \in S.bans.address}
             a == [left |-> Cardinality(L), passed |-> {}, must |-> M]
  <1>1. /\ OrderOK(S.who, S.older) /\ S.older \in [Conns -> SUBSET Conns]
    BY Fields DEF Good, Loose
  <1>2. CASE S.audit.left > 0 \/ L = {}
    BY <1>2 DEF StartAudit
  <1>3. CASE ~(S.audit.left > 0 \/ L = {})
    <2>1. StartAudit(S) = Audited(S, a)
      BY <1>3 DEF StartAudit, Audited
    <2>2. L \in SUBSET Conns /\ \A c \in Conns : c \in L <=> S.who[c].live
      BY DEF Live
    <2>3. M \in SUBSET L /\ \A c \in M : S.who[c].w \in S.bans.address
      OBVIOUS
    <2> HIDE DEF L, M
    <2>4. Cardinality(L) \in Nat
      BY <2>2, Sizes
    <2>5. /\ a \in AuditRecs /\ a.left = Cardinality(L) /\ a.passed = {} /\ a.must = M
      BY <2>2, <2>3, <2>4 DEF AuditRecs
    <2> HIDE DEF a
    <2>6. ASSUME NEW c \in M PROVE Cardinality(S.older[c] \ {}) < Cardinality(L)
      <3>1. c \in L /\ c \in Conns
        BY <2>2, <2>3
      <3>2. S.older[c] \ {} \in SUBSET (L \ {c})
        BY <1>1, <2>2, <3>1 DEF OrderOK
      <3>3. Cardinality(L \ {c}) = Cardinality(L) - 1
        BY <2>2, <3>1, Sizes
      <3>4. Cardinality(S.older[c] \ {}) \in Nat /\ Cardinality(S.older[c] \ {}) <= Cardinality(L \ {c})
        <4>1. L \ {c} \in SUBSET Conns
          BY <2>2
        <4> QED BY <3>2, <4>1, Sizes
      <3> QED BY <2>4, <3>3, <3>4
    <2>7. AuditOK(S.who, S.older, a, S.bans.address)
      BY <2>2, <2>3, <2>5, <2>6 DEF AuditOK
    <2>8. Good(Audited(S, a))
      BY <2>5, <2>7, AuditedKeeps
    <2> QED BY <2>1, <2>8
  <1> QED BY <1>2, <1>3

LEMMA CheckAliveStep ==
    ASSUME IInv, NEW T \in SUBSET Conns, NEW due \in BOOLEAN, CheckAlive(T, due)
    PROVE  IInv'
  <1> DEFINE S == RemoveMiners(Now, T, "end")
             W == {} \ (T \cap Live(Now))
  <1>1. Become(IF due THEN StartAudit(S) ELSE S)
    BY DEF CheckAlive
  <1>2. Loose(Now, {}, {}, {}) /\ Covers(Now, T, {}, {})
    BY EventKeeps DEF Good, Covers
  <1>3. Loose(S, W, {}, {}) /\ W = {}
    BY <1>2, RemoveKeeps
  <1> HIDE DEF S, W
  <1>4. Good(S)
    BY <1>3 DEF Good
  <1>5. Good(StartAudit(S))
    BY <1>4, StartAuditKeeps
  <1> QED BY <1>1, <1>4, <1>5, StepIs

\* Where r numbers the elements of A, the first n of them are at least n.
LEMMA FirstOnes ==
    ASSUME NEW A, IsFiniteSet(A), NEW r \in [A -> Nat],
           \A a, b \in A : r[a] = r[b] => a = b,
           \A a \in A : r[a] < Cardinality(A),
           NEW n \in Nat, n <= Cardinality(A)
    PROVE  n <= Cardinality({a \in A : r[a] < n})
  <1> DEFINE N == Cardinality(A)
             B == 0..(N - 1)
             D == {a \in A : r[a] < n}
             g == [a \in D |-> r[a]]
             E == 0..(n - 1)
  <1>1. N \in Nat
    BY FS_CardinalityType
  <1>2. ASSUME NEW k \in Nat PROVE IsFiniteSet(0..(k - 1)) /\ Cardinality(0..(k - 1)) = k
    <2>1. 0 \in Int /\ k - 1 \in Int
      OBVIOUS
    <2>2. /\ IsFiniteSet(0..(k - 1))
          /\ Cardinality(0..(k - 1)) = IF 0 > k - 1 THEN 0 ELSE (k - 1) - 0 + 1
      BY <2>1, FS_Interval
    <2> QED BY <2>2
  <1>3. /\ IsFiniteSet(E) /\ Cardinality(E) = n /\ IsFiniteSet(B) /\ Cardinality(B) = N
    BY <1>1, <1>2
  <1>4. r \in Injection(A, B)
    <2>1. r \in [A -> B]
      BY <1>1
    <2> QED BY <2>1 DEF Injection, IsInjective
  <1>5. r \in Surjection(A, B)
    BY <1>3, <1>4, FS_Injection
  <1>6. IsFiniteSet(D)
    BY FS_Subset
  <1>7. \A k \in E : \E a \in D : g[a] = k
    <2>1. SUFFICES ASSUME NEW k \in E PROVE \E a \in D : g[a] = k
      OBVIOUS
    <2>2. k \in B /\ k < n
      BY <1>1
    <2>3. PICK a \in A : r[a] = k
      BY <1>5, <2>2 DEF Surjection
    <2> QED BY <2>2, <2>3
  <1>8. g \in [D -> E]
    OBVIOUS
  <1>9. g \in Surjection(D, E)
    BY <1>7, <1>8, Zenon DEF Surjection
  <1> HIDE DEF D, E, g
  <1>10. Cardinality(E) <= Cardinality(D)
    BY <1>6, <1>9, FS_Surjection
  <1> QED BY <1>3, <1>10 DEF D

\* Those ahead of c that at most n - 1 others are ahead of.
Ahead(o, c, P, n) == {d \in o[c] \ P : Cardinality(o[d] \ P) < n}

\* The sessions ahead of c in the order of activeMiners that the iterator has
\* not passed: its next n turns reach n of them.
LEMMA NextOnes ==
    ASSUME NEW m, NEW o \in [Conns -> SUBSET Conns], OrderOK(m, o),
           NEW c \in Conns, NEW P, NEW n \in Nat, n <= Cardinality(o[c] \ P)
    PROVE  n <= Cardinality(Ahead(o, c, P, n))
  <1> DEFINE A == o[c] \ P
             r == [d \in A |-> Cardinality(o[d] \ P)]
  <1>1. A \in SUBSET Conns /\ IsFiniteSet(A) /\ Cardinality(A) \in Nat
    <2>1. A \in SUBSET Conns
      OBVIOUS
    <2> HIDE DEF A
    <2> QED BY <2>1, Sizes
  <1>2. \A d \in A : m[d].live /\ d \notin P /\ o[d] \subseteq o[c]
    BY DEF OrderOK
  <1>3. ASSUME NEW d \in Conns, NEW e \in Conns, d \notin P, d \in o[e]
        PROVE  Cardinality(o[d] \ P) < Cardinality(o[e] \ P)
    <2> DEFINE X == o[e] \ P
    <2>1. o[d] \ P \in SUBSET (X \ {d}) /\ d \in X /\ X \in SUBSET Conns
      BY <1>3 DEF OrderOK
    <2> HIDE DEF X
    <2>2. Cardinality(X \ {d}) = Cardinality(X) - 1 /\ Cardinality(X) \in Nat
      BY <2>1, Sizes
    <2>3. X \ {d} \in SUBSET Conns
      BY <2>1
    <2>4. Cardinality(o[d] \ P) <= Cardinality(X \ {d}) /\ Cardinality(o[d] \ P) \in Nat
      BY <2>1, <2>3, Sizes
    <2>5. Cardinality(o[d] \ P) < Cardinality(X)
      BY <2>2, <2>4
    <2> QED BY <2>5 DEF X
  <1>4. \A d \in A : Cardinality(o[d] \ P) < Cardinality(A) /\ Cardinality(o[d] \ P) \in Nat
    <2>1. SUFFICES ASSUME NEW d \in A
                   PROVE  Cardinality(o[d] \ P) < Cardinality(A) /\ Cardinality(o[d] \ P) \in Nat
      OBVIOUS
    <2>2. d \in Conns /\ d \notin P /\ d \in o[c] /\ o[d] \ P \in SUBSET Conns
      OBVIOUS
    <2> QED BY <1>3, <2>2, Sizes
  <1>5. ASSUME NEW d \in A, NEW e \in A, r[d] = r[e] PROVE d = e
    <2>1. SUFFICES ASSUME d # e PROVE FALSE
      OBVIOUS
    <2>2. d \in o[e] \/ e \in o[d]
      BY <1>2, <2>1 DEF OrderOK
    <2>3. Cardinality(o[d] \ P) \in Nat /\ Cardinality(o[e] \ P) \in Nat
      BY <1>4
    <2>4. Cardinality(o[d] \ P) = Cardinality(o[e] \ P)
      BY <1>5
    <2>5. d \in Conns /\ e \in Conns /\ d \notin P /\ e \notin P
      OBVIOUS
    <2>6. Cardinality(o[d] \ P) < Cardinality(o[e] \ P) \/ Cardinality(o[e] \ P) < Cardinality(o[d] \ P)
      BY <1>3, <2>2, <2>5
    <2> QED BY <2>3, <2>4, <2>6
  <1>6. r \in [A -> Nat] /\ \A d \in A : r[d] = Cardinality(o[d] \ P)
    BY <1>4
  <1> DEFINE D == {d \in A : r[d] < n}
  <1>7. D = Ahead(o, c, P, n)
    BY <1>6 DEF Ahead
  <1>8. \A d \in A : r[d] < Cardinality(A)
    BY <1>4, <1>6
  <1> HIDE DEF r, A
  <1>9. n <= Cardinality(A)
    BY DEF A
  <1>10. n <= Cardinality(D)
    BY <1>1, <1>5, <1>6, <1>8, <1>9, FirstOnes
  <1> HIDE DEF D
  <1> QED BY <1>7, <1>10

\* What ForgetMiners rewrites.
Rewritten(S, p, q, o, m, a) ==
    [S EXCEPT !.proxy = p, !.direct = q, !.older = o, !.who = m, !.audit = a]

LEMMA SameRewritten ==
    ASSUME NEW S \in State, NEW T \in State, S.con = T.con, S.byIp = T.byIp,
           S.bySubnet = T.bySubnet, S.delayed = T.delayed, S.free = T.free, S.bans = T.bans,
           S.mail = T.mail, S.events = T.events, NEW p, NEW q, NEW o, NEW m, NEW a
    PROVE  Rewritten(S, p, q, o, m, a) = Rewritten(T, p, q, o, m, a)
  <1> DEFINE F(U) == [U EXCEPT !.proxy = p, !.direct = q, !.older = o, !.who = m, !.audit = a]
             G(U) == [con |-> U.con, who |-> m, older |-> o, byIp |-> U.byIp,
                            bySubnet |-> U.bySubnet, delayed |-> U.delayed, free |-> U.free,
                            direct |-> q, proxy |-> p, bans |-> U.bans,
                            mail |-> U.mail, audit |-> a, events |-> U.events]
  <1>1. ASSUME NEW U \in State PROVE F(U) = G(U)
    <2> DEFINE U0 == [con |-> U.con, who |-> U.who, older |-> U.older, byIp |-> U.byIp,
                      bySubnet |-> U.bySubnet, delayed |-> U.delayed, free |-> U.free,
                      direct |-> U.direct, proxy |-> U.proxy, bans |-> U.bans,
                      mail |-> U.mail, audit |-> U.audit, events |-> U.events]
               U1 == [U0 EXCEPT !.proxy = p]
               U2 == [U1 EXCEPT !.direct = q]
               U3 == [U2 EXCEPT !.older = o]
               U4 == [U3 EXCEPT !.who = m]
               U5 == [U4 EXCEPT !.audit = a]
    <2>1. U = U0
      BY Zenon DEF State
    <2>2. [U EXCEPT !.proxy = p, !.direct = q, !.older = o, !.who = m, !.audit = a] = U5
      BY <2>1, Zenon
    <2>3. U1 = [con |-> U.con, who |-> U.who, older |-> U.older, byIp |-> U.byIp,
                bySubnet |-> U.bySubnet, delayed |-> U.delayed, free |-> U.free,
                direct |-> U.direct, proxy |-> p, bans |-> U.bans,
                mail |-> U.mail, audit |-> U.audit, events |-> U.events]
      OBVIOUS
    <2> HIDE DEF U1
    <2>4. U2 = [con |-> U.con, who |-> U.who, older |-> U.older, byIp |-> U.byIp,
                bySubnet |-> U.bySubnet, delayed |-> U.delayed, free |-> U.free,
                direct |-> q, proxy |-> p, bans |-> U.bans,
                mail |-> U.mail, audit |-> U.audit, events |-> U.events]
      BY <2>3
    <2> HIDE DEF U2
    <2>5. U3 = [con |-> U.con, who |-> U.who, older |-> o, byIp |-> U.byIp,
                bySubnet |-> U.bySubnet, delayed |-> U.delayed, free |-> U.free,
                direct |-> q, proxy |-> p, bans |-> U.bans,
                mail |-> U.mail, audit |-> U.audit, events |-> U.events]
      BY <2>4
    <2> HIDE DEF U3
    <2>6. U4 = [con |-> U.con, who |-> m, older |-> o, byIp |-> U.byIp,
                bySubnet |-> U.bySubnet, delayed |-> U.delayed, free |-> U.free,
                direct |-> q, proxy |-> p, bans |-> U.bans,
                mail |-> U.mail, audit |-> U.audit, events |-> U.events]
      BY <2>5
    <2> HIDE DEF U4
    <2>7. U5 = [con |-> U.con, who |-> m, older |-> o, byIp |-> U.byIp,
                bySubnet |-> U.bySubnet, delayed |-> U.delayed, free |-> U.free,
                direct |-> q, proxy |-> p, bans |-> U.bans,
                mail |-> U.mail, audit |-> a, events |-> U.events]
      BY <2>6
    <2> QED BY <2>2, <2>7, Zenon
  <1>2. G(S) = G(T)
    BY Zenon
  <1>3. F(S) = G(S) /\ F(T) = G(T)
    <2> HIDE DEF F, G
    <2> QED BY <1>1
  <1> HIDE DEF G
  <1> QED BY <1>2, <1>3, Zenon DEF Rewritten

LEMMA SameMust ==
    ASSUME NEW a \in AuditRecs
    PROVE  [a EXCEPT !.must = a.must] = a
  <1>1. a = [left |-> a.left, passed |-> a.passed, must |-> a.must]
    BY Zenon DEF AuditRecs
  <1> DEFINE b == [left |-> a.left, passed |-> a.passed, must |-> a.must]
             x == a.must
  <1>2. [b EXCEPT !.must = x] = b
    <2> HIDE DEF x
    <2>1. [b EXCEPT !.must = x] = [left |-> a.left, passed |-> a.passed, must |-> x]
      OBVIOUS
    <2> QED BY <2>1, Zenon DEF x
  <1> HIDE DEF b
  <1>3. a = b
    BY <1>1 DEF b
  <1> QED BY <1>2, <1>3, Zenon

\* Removing C from what the audit has to evict before the miners of C are
\* removed makes no difference.
LEMMA ForgetAgain ==
    ASSUME NEW S \in State, NEW C \in SUBSET Conns, NEW T \in State,
           T = Audited(S, [S.audit EXCEPT !.must = S.audit.must \ C])
    PROVE  ForgetMiners(T, C) = ForgetMiners(S, C)
  <1> DEFINE a == [S.audit EXCEPT !.must = S.audit.must \ C]
             gone(U, w) == {c \in C : U.who[c].w = w}
             proxies(U, w) == {c \in gone(U, w) : U.who[c].proxied}
             p(U) == [w \in Wallets |-> Minus(U.proxy[w], Cardinality(proxies(U, w)))]
             q(U) == [w \in Wallets |-> Minus(U.direct[w], Cardinality(gone(U, w)))]
             o(U) == [d \in Conns |-> IF d \in C THEN {} ELSE U.older[d] \ C]
             m(U) == [d \in Conns |-> IF d \in C THEN [U.who[d] EXCEPT !.live = FALSE] ELSE U.who[d]]
             b(U) == [U.audit EXCEPT !.must = U.audit.must \ C]
             F(U) == [U EXCEPT !.proxy = p(U), !.direct = q(U), !.older = o(U), !.who = m(U), !.audit = b(U)]
  <1>1. ForgetMiners(S, C) = F(S) /\ ForgetMiners(T, C) = F(T)
    BY Zenon DEF ForgetMiners
  <1>2. S.audit \in AuditRecs
    BY Fields
  <1>3. a \in AuditRecs /\ [a EXCEPT !.must = a.must \ C] = a
    <2>1. a \in AuditRecs /\ a.must = S.audit.must \ C
      BY <1>2 DEF AuditRecs
    <2>2. a.must \ C = a.must
      BY <2>1
    <2>3. [a EXCEPT !.must = a.must] = a
      BY <2>1, SameMust
    <2> HIDE DEF a
    <2> QED BY <2>1, <2>2, <2>3, Zenon
  <1> HIDE DEF a
  <1>4. T = Audited(S, a)
    BY DEF a
  <1>5. /\ T.con = S.con /\ T.who = S.who /\ T.older = S.older /\ T.byIp = S.byIp
        /\ T.bySubnet = S.bySubnet /\ T.delayed = S.delayed /\ T.free = S.free
        /\ T.direct = S.direct /\ T.proxy = S.proxy /\ T.bans = S.bans /\ T.mail = S.mail
        /\ T.audit = a /\ T.events = S.events
    <2>1. LET U == Audited(S, a) IN
          /\ U.con = S.con /\ U.who = S.who /\ U.older = S.older /\ U.byIp = S.byIp
          /\ U.bySubnet = S.bySubnet /\ U.delayed = S.delayed /\ U.free = S.free
          /\ U.direct = S.direct /\ U.proxy = S.proxy /\ U.bans = S.bans /\ U.mail = S.mail
          /\ U.audit = a /\ U.events = S.events
      BY <1>3, AuditedIs
    <2> QED BY <1>4, <2>1, Zenon
  <1>6. p(T) = p(S) /\ q(T) = q(S) /\ o(T) = o(S) /\ m(T) = m(S)
    BY <1>5, Zenon
  <1>7. b(S) = a /\ b(T) = a
    BY <1>3, <1>5, Zenon DEF a
  <1>8. F(T) = [T EXCEPT !.proxy = p(S), !.direct = q(S), !.older = o(S), !.who = m(S), !.audit = a]
    BY <1>6, <1>7, Zenon
  <1>9. F(S) = [S EXCEPT !.proxy = p(S), !.direct = q(S), !.older = o(S), !.who = m(S), !.audit = a]
    BY <1>7, Zenon
  <1>10. F(T) = F(S)
    <2> DEFINE x == p(S)
               y == q(S)
               z == o(S)
               v == m(S)
    <2>1. F(T) = Rewritten(T, x, y, z, v, a) /\ F(S) = Rewritten(S, x, y, z, v, a)
      BY <1>8, <1>9 DEF Rewritten
    <2> HIDE DEF x, y, z, v, F
    <2>2. /\ S.con = T.con /\ S.byIp = T.byIp /\ S.bySubnet = T.bySubnet
          /\ S.delayed = T.delayed /\ S.free = T.free /\ S.bans = T.bans
          /\ S.mail = T.mail /\ S.events = T.events
      BY <1>5, Zenon
    <2>3. Rewritten(S, x, y, z, v, a) = Rewritten(T, x, y, z, v, a)
      BY <2>2, SameRewritten
    <2> QED BY <2>1, <2>3, Zenon
  <1> QED BY <1>1, <1>10

LEMMA MinIs ==
    ASSUME NEW x \in Nat, NEW y \in Nat
    PROVE  Min({x, y}) = IF x <= y THEN x ELSE y
  <1> DEFINE z == IF x <= y THEN x ELSE y
  <1>1. z \in {x, y} /\ \A t \in {x, y} : z <= t
    OBVIOUS
  <1>2. \A t \in {x, y} : (\A u \in {x, y} : t <= u) => t = z
    OBVIOUS
  <1> HIDE DEF z
  <1>3. Min({x, y}) = z
    BY <1>1, <1>2, Zenon DEF Min
  <1> QED BY <1>3 DEF z

\* runBatch: a banned session is in this batch, or there are more sessions
\* than the batch has room for and it stays ahead of the iterator.
LEMMA BatchReaches ==
    ASSUME NEW S, Good(S), S.audit.left > 0, NEW left \in Nat,
           left = IF Cardinality(Unvisited(S)) < AuditBatchSize THEN 0
                  ELSE Minus(S.audit.left, AuditBatchSize),
           NEW c \in S.audit.must, c \notin InBatch(S)
    PROVE  /\ left # 0
           /\ Cardinality(S.older[c] \ (S.audit.passed \cup InBatch(S))) < left
  <1> DEFINE P == S.audit.passed
             o == S.older
             U == Live(S) \ P
             N == S.audit.left
             B == AuditBatchSize
             A == o[c] \ P
             n == Min({N, B})
             H == InBatch(S)
  <1>1. /\ S.audit \in AuditRecs /\ o \in [Conns -> SUBSET Conns] /\ OrderOK(S.who, o)
        /\ AuditOK(S.who, o, S.audit, S.bans.address)
    BY Fields DEF Good, Loose
  <1>2. N \in Nat /\ c \in Conns /\ S.who[c].live /\ c \notin P /\ Cardinality(A) < N
    BY <1>1 DEF AuditOK, AuditRecs
  <1>3. B \in Nat /\ B > 0
    BY Constants
  <1>4. U \in SUBSET Conns /\ c \in U /\ A \in SUBSET U /\ c \notin A /\ A \in SUBSET Conns
    BY <1>1, <1>2 DEF Live, OrderOK
  <1>5. H = {d \in U : Cardinality(o[d] \ P) < n}
    BY DEF InBatch, NextMiners, Unvisited
  <1>6. Unvisited(S) = U
    BY DEF Unvisited
  <1>7. n = IF N <= B THEN N ELSE B
    BY <1>2, <1>3, MinIs
  <1> HIDE DEF n, H
  <1>8. Cardinality(A) \in Nat
    BY <1>4, Sizes
  <1>9. ~(Cardinality(A) < n)
    <2>1. c \notin H
      BY DEF H
    <2> QED BY <1>4, <1>5, <2>1
  <1>10. n = B /\ B < N /\ B <= Cardinality(A)
    BY <1>2, <1>3, <1>7, <1>8, <1>9
  <1>11. Cardinality(U) >= B
    <2>1. Cardinality(A) <= Cardinality(U) /\ Cardinality(U) \in Nat
      BY <1>4, Sizes
    <2> QED BY <1>3, <1>8, <1>10, <2>1
  <1>12. left = N - B
    <2>1. Cardinality(U) \in Nat
      BY <1>4, Sizes
    <2>2. ~(Cardinality(Unvisited(S)) < AuditBatchSize)
      BY <1>3, <1>6, <1>11, <2>1
    <2>3. left = Minus(N, B)
      BY <2>2
    <2> QED BY <1>2, <1>3, <1>10, <2>3 DEF Minus
  <1> DEFINE D == Ahead(o, c, P, B)
  <1>13. D \in SUBSET A /\ o[c] \ (P \cup H) \in SUBSET (A \ D)
    BY <1>4, <1>5, <1>10 DEF Ahead
  <1>14. B <= Cardinality(D)
    BY <1>1, <1>2, <1>3, <1>10, NextOnes
  <1> HIDE DEF D
  <1>15. /\ Cardinality(D) \in Nat /\ Cardinality(A \ D) = Cardinality(A) - Cardinality(D)
    BY <1>4, <1>13, Sizes
  <1>16. Cardinality(o[c] \ (P \cup H)) <= Cardinality(A \ D) /\ Cardinality(o[c] \ (P \cup H)) \in Nat
    <2>1. A \ D \in SUBSET Conns
      BY <1>4
    <2> QED BY <1>13, <2>1, Sizes
  <1> DEFINE x == Cardinality(o[c] \ (P \cup H))
             y == Cardinality(A)
             z == Cardinality(D)
  <1>17. x \in Nat /\ y \in Nat /\ z \in Nat /\ B <= z /\ y < N /\ x <= y - z
    BY <1>2, <1>8, <1>14, <1>15, <1>16
  <1> HIDE DEF x, y, z
  <1>18. x < N - B
    BY <1>2, <1>3, <1>17
  <1>19. left # 0
    BY <1>2, <1>3, <1>10, <1>12
  <1> QED BY <1>12, <1>18, <1>19 DEF x, H

LEMMA AuditBatchStep ==
    ASSUME IInv, AuditBatch
    PROVE  IInv'
  <1> DEFINE left == IF Cardinality(Unvisited(Now)) < AuditBatchSize THEN 0
                     ELSE Minus(audit.left, AuditBatchSize)
             H == InBatch(Now)
             C == {c \in H : who[c].w \in bans.address}
             passed == IF left = 0 THEN {} ELSE audit.passed \cup H
             a == [Now.audit EXCEPT !.left = left, !.passed = passed]
             S == Audited(Now, a)
             e == [S.audit EXCEPT !.must = S.audit.must \ C]
             T == Audited(S, e)
             L == C \cap Live(S)
             force == "destroy" = "destroy"
  <1>1. /\ Good(Now) /\ Now \in State /\ Now.who = who /\ Now.bans = bans /\ Now.audit = audit
        /\ audit \in AuditRecs /\ Now.older = older
    BY EventKeeps, NowFields, Fields
  <1>2. audit.left > 0 /\ Become(RemoveMiners(S, C, "destroy"))
    <2>1. /\ audit.left > 0
          /\ Become(RemoveMiners([Now EXCEPT !.audit.left = left,
                                             !.audit.passed = IF left = 0 THEN {} ELSE @ \cup H],
                                 C, "destroy"))
      BY DEF AuditBatch
    <2>2. [Now EXCEPT !.audit.left = left, !.audit.passed = IF left = 0 THEN {} ELSE @ \cup H] = S
      <3> HIDE DEF left, H
      <3> QED BY <1>1, Zenon DEF Audited
    <2> HIDE DEF S, C, H, left
    <2> QED BY <2>1, <2>2
  <1>3. left \in Nat /\ audit.left \in Nat
    <2>1. audit.left \in Nat /\ AuditBatchSize \in Nat
      BY <1>1, Constants DEF AuditRecs
    <2> QED BY <2>1, MinusIs
  <1>4. H \in SUBSET Conns /\ C \in SUBSET H /\ H \in SUBSET Live(Now) /\ \A d \in H : who[d].w \in bans.address => d \in C
    BY DEF InBatch, NextMiners, Unvisited, Live
  <1>5. left = IF Cardinality(Unvisited(Now)) < AuditBatchSize THEN 0
               ELSE Minus(Now.audit.left, AuditBatchSize)
    BY <1>1
  <1>6. /\ H = InBatch(Now)
    OBVIOUS
  <1> HIDE DEF left, H, C
  <1>7. /\ a \in AuditRecs /\ a.left = left /\ a.passed = passed /\ a.must = audit.must
    BY <1>1, <1>3, <1>4 DEF AuditRecs
  <1> HIDE DEF a
  <1>8. S \in State /\ S.audit = a /\ S.who = who /\ S.bans = bans
    BY <1>1, <1>7, AuditedIs
  <1>9. e \in AuditRecs /\ e.left = left /\ e.passed = passed /\ e.must = audit.must \ C
    BY <1>7, <1>8 DEF AuditRecs
  <1>10. ForgetMiners(T, C) = ForgetMiners(S, C)
    <2>1. C \in SUBSET Conns
      BY <1>4
    <2>2. T \in State
      BY <1>8, <1>9, AuditedIs
    <2>3. T = Audited(S, [S.audit EXCEPT !.must = S.audit.must \ C])
      OBVIOUS
    <2> HIDE DEF T
    <2> QED BY <1>8, <2>1, <2>2, <2>3, ForgetAgain
  <1>11. T = Audited(Now, e)
    BY <1>1, Zenon DEF Audited
  <1> HIDE DEF e
  <1>12. AuditOK(Now.who, Now.older, e, Now.bans.address)
    <2>1. AuditOK(who, older, audit, bans.address)
      BY <1>1 DEF Good, Loose
    <2>2. SUFFICES ASSUME NEW c \in e.must
                   PROVE  /\ who[c].live /\ who[c].w \in bans.address /\ c \notin e.passed
                          /\ Cardinality(older[c] \ e.passed) < e.left
      BY <1>1 DEF AuditOK
    <2>3. /\ c \in audit.must /\ c \notin C /\ who[c].live /\ who[c].w \in bans.address
          /\ c \notin audit.passed
      BY <1>9, <2>1 DEF AuditOK
    <2>4. c \notin H
      BY <1>4, <2>3
    <2>5. /\ left # 0
          /\ Cardinality(Now.older[c] \ (Now.audit.passed \cup InBatch(Now))) < left
      <3>1. c \in Now.audit.must /\ c \notin InBatch(Now) /\ Now.audit.left > 0
        BY <1>1, <1>2, <1>6, <2>3, <2>4
      <3> QED BY <1>1, <1>3, <1>5, <3>1, BatchReaches
    <2>6. passed = audit.passed \cup H
      BY <2>5
    <2>7. Cardinality(older[c] \ passed) < left
      BY <1>1, <1>6, <2>5, <2>6
    <2> HIDE DEF passed
    <2> QED BY <1>9, <2>3, <2>4, <2>6, <2>7
  <1>13. Good(T)
    BY <1>1, <1>9, <1>11, <1>12, AuditedKeeps
  <1>14. Live(T) = Live(S) /\ L = C
    <2>1. T.who = who
      <3>1. Audited(Now, e).who = Now.who
        BY <1>1, <1>9, AuditedIs
      <3> QED BY <1>1, <1>11, <3>1
    <2>2. Live(Now) = Live(S)
      BY <1>1, <1>8 DEF Live
    <2> QED BY <1>4, <1>8, <2>1, <2>2 DEF Live
  <1>15. RemoveMiners(S, C, "destroy") = RemoveMiners(T, C, "destroy")
    <2>1. C \cap Live(T) = C /\ C \cap Live(S) = C
      BY <1>14
    <2>2. RemoveMiners(S, C, "destroy") = CloseSockets(ForgetMiners(S, C), C, force)
      BY <2>1 DEF RemoveMiners
    <2>3. RemoveMiners(T, C, "destroy") = CloseSockets(ForgetMiners(T, C), C, force)
      BY <2>1 DEF RemoveMiners
    <2> HIDE DEF T, S, force
    <2> QED BY <1>10, <2>2, <2>3
  <1>16. Good(RemoveMiners(T, C, "destroy"))
    <2> DEFINE W == {} \ (C \cap Live(T))
    <2>1. Loose(T, {}, {}, {}) /\ C \in SUBSET Conns /\ Covers(T, C, {}, {})
      BY <1>4, <1>13 DEF Good, Covers
    <2> HIDE DEF T
    <2>2. Loose(RemoveMiners(T, C, "destroy"), W, {}, {}) /\ W = {}
      BY <2>1, RemoveKeeps
    <2> HIDE DEF W
    <2> QED BY <2>2 DEF Good
  <1> HIDE DEF S, T
  <1> QED BY <1>2, <1>15, <1>16, StepIs

-----------------------------------------------------------------------------
(* The invariant holds *)

LEMMA EmptyCounts ==
    /\ Cardinality({}) = 0
    /\ \A A \in SUBSET Conns : (\A c \in Conns : c \notin A) => Cardinality(A) = 0
  <1>1. Cardinality({}) = 0
    BY FS_EmptySet
  <1>2. \A A \in SUBSET Conns : (\A c \in Conns : c \notin A) => A = {}
    OBVIOUS
  <1> QED BY <1>1, <1>2

LEMMA Starts ==
    ASSUME Init
    PROVE  IInv
  <1>1. /\ con = [c \in Conns |-> NoSocket] /\ who = [c \in Conns |-> NoMiner]
        /\ older = [c \in Conns |-> {}] /\ byIp = [i \in Ips |-> 0]
        /\ bySubnet = [n \in Subnets |-> 0] /\ delayed = [i \in Ips |-> Nobody]
        /\ free = [k \in 1..ExtraNonces |-> k] /\ direct = [w \in Wallets |-> 0]
        /\ proxy = [w \in Wallets |-> 0]
        /\ bans = [ip |-> {}, wallet |-> {}, big |-> {}, address |-> {}]
        /\ mail = {} /\ audit = NoAudit /\ events = 0
    BY DEF Init, Subnets
  <1>2. NoSocket \in SocketRecs /\ NoMiner \in MinerRecs
    BY Constants DEF NoSocket, SocketRecs, Stages, NoMiner, MinerRecs
  <1>3. NoAudit \in AuditRecs /\ NoAudit.must = {}
    BY DEF NoAudit, AuditRecs
  <1>4. bans \in BanRecs
    BY <1>1 DEF BanRecs
  <1>5. free \in Seq(1..ExtraNonces) /\ Len(free) = ExtraNonces
    <2>1. free \in [1..ExtraNonces -> 1..ExtraNonces]
      BY <1>1
    <2> DEFINE I == 1..ExtraNonces
    <2>2. free \in Seq(I)
      BY <2>1, Constants, SeqDef
    <2>3. DOMAIN free = 1..ExtraNonces
      BY <2>1
    <2>4. Len(free) = ExtraNonces
      <3> DEFINE n == Len(free)
      <3>1. n \in Nat /\ 1..n = 1..ExtraNonces
        BY <2>2, <2>3, LenProperties
      <3> HIDE DEF n
      <3>2. n = ExtraNonces
        <4>1. \A k \in Nat \ {0} : k <= n <=> k <= ExtraNonces
          BY <3>1, Constants
        <4> QED BY <3>1, <4>1, Constants
      <3> QED BY <3>2 DEF n
    <2> QED BY <2>2, <2>4
  <1>6. /\ con \in [Conns -> SocketRecs] /\ who \in [Conns -> MinerRecs]
        /\ older \in [Conns -> SUBSET Conns] /\ byIp \in [Ips -> Nat]
        /\ bySubnet \in [Subnets -> Nat] /\ delayed \in [Ips -> Conns \cup {Nobody}]
        /\ direct \in [Wallets -> Nat] /\ proxy \in [Wallets -> Nat]
        /\ mail \subseteq (Ips \ Loopback) \cup Wallets /\ audit \in AuditRecs /\ events \in Nat
    BY <1>1, <1>2, <1>3
  <1>7. Now \in State
    BY <1>4, <1>5, <1>6, Zenon DEF Now, State
  <1>8. \A c \in Conns : con[c] = NoSocket /\ who[c] = NoMiner /\ older[c] = {}
    BY <1>1
  <1>9. /\ NoSocket.st = "free" /\ ~NoSocket.held /\ ~NoSocket.mid
        /\ NoSocket.xid = 0 /\ NoSocket.prev = 0 /\ ~NoMiner.live
    BY DEF NoSocket, NoMiner
  <1>10. \A c \in Conns : SlotOK(con[c], who[c]) /\ ClockOK(con[c], who[c])
    BY <1>8, <1>9 DEF SlotOK, ClockOK
  <1>11. SeatsOK(con, byIp, bySubnet)
    <2>1. \A i : \A c \in Conns : c \notin HeldBy(con, i) /\ c \notin HeldBySubnet(con, i)
      BY <1>8, <1>9 DEF HeldBy, HeldBySubnet
    <2>2. \A i : HeldBy(con, i) \in SUBSET Conns /\ HeldBySubnet(con, i) \in SUBSET Conns
      BY DEF HeldBy, HeldBySubnet
    <2>3. \A i : Cardinality(HeldBy(con, i)) = 0 /\ Cardinality(HeldBySubnet(con, i)) = 0
      BY <2>1, <2>2, EmptyCounts
    <2> QED BY <1>1, <2>3 DEF SeatsOK
  <1>12. IdsOK(con, free)
    <2>1. \A c \in Conns : Ids(con[c]) = {}
      BY <1>8, <1>9 DEF Ids
    <2>2. \A n \in 1..ExtraNonces : free[n] = n
      BY <1>1
    <2> QED BY <1>5, <2>1, <2>2 DEF IdsOK
  <1>13. DelayedOK(con, delayed)
    BY <1>1 DEF DelayedOK
  <1>14. WorkersOK(who, direct, proxy, {}, {})
    <2>1. \A w : \A c \in Conns : c \notin Plain(who, {}, w) /\ c \notin Proxied(who, {}, w)
      BY <1>8, <1>9 DEF Plain, Proxied
    <2>2. \A w : Plain(who, {}, w) \in SUBSET Conns /\ Proxied(who, {}, w) \in SUBSET Conns
      BY DEF Plain, Proxied
    <2>3. \A w : Cardinality(Plain(who, {}, w)) = 0 /\ Cardinality(Proxied(who, {}, w)) = 0
      BY <2>1, <2>2, EmptyCounts
    <2> QED BY <1>1, <2>3 DEF WorkersOK
  <1>15. OrderOK(who, older)
    BY <1>8, <1>9 DEF OrderOK
  <1>16. AuditOK(who, older, audit, bans.address)
    BY <1>1, <1>3 DEF AuditOK
  <1>17. Loose(Now, {}, {}, {})
    BY <1>7, <1>10, <1>11, <1>12, <1>13, <1>14, <1>15, <1>16, NowFields, Zenon DEF Loose
  <1> QED BY <1>17 DEF IInv, Good

LEMMA NextKeeps ==
    ASSUME IInv, [Next]_vars
    PROVE  IInv'
  <1>1. CASE UNCHANGED vars
    <2>1. Now' = Now
      BY <1>1, Zenon DEF Now, vars
    <2> QED BY <2>1 DEF IInv
  <1>2. ASSUME NEW c \in Conns, Request(c) PROVE IInv'
    <2>1. CASE \E w \in Wallets, agent \in Agents, authorize \in BOOLEAN, job \in BOOLEAN :
                 Login(c, w, agent, authorize, job)
      BY <2>1, LoginStep
    <2>2. CASE DoubleLogin(c) \/ EmptyLogin(c) \/ RefuseRequest(c) \/ BadPacket(c)
      BY <2>2, RefusedStep
    <2>3. CASE TooManyInvalidJobs(c) \/ BadShare(c)
      BY <2>3, BadWorkStep
    <2> QED BY <1>2, <2>1, <2>2, <2>3, SubscribeStep, SwitchStep, WriteFailsStep, GoodShareStep,
               ThrottledStep DEF Request
  <1>3. ASSUME NEW c \in Conns, Ending(c) PROVE IInv'
    <2>1. CASE FinalDelayEnds(c) \/ FinalEnds(c)
      BY <2>1, FinalStep
    <2>2. CASE KernelGivesUp(c)
      BY <2>2, PeerStep
    <2> QED BY <1>3, <2>1, <2>2, TlsFailsStep, AuthTimeoutStep, FirstShareTimeoutStep, CloseStep
            DEF Ending
  <1>4. ASSUME NEW c \in Conns, TlsDone(c) \/ PeerVanishes(c) \/ PeerCloses(c) PROVE IInv'
    BY <1>4, TlsDoneStep, PeerStep
  <1>5. ASSUME NEW c \in Conns, \E i \in Ips, tls \in BOOLEAN : Accept(c, i, tls) PROVE IInv'
    BY <1>5, AcceptStep
  <1>6. ASSUME \E m \in mail : BanArrives(m) PROVE IInv'
    BY <1>6, BanArrivesStep
  <1>7. ASSUME \E B \in SUBSET Wallets : ReloadBans(B) PROVE IInv'
    BY <1>7, ReloadBansStep
  <1>8. ASSUME NEW T \in SUBSET {c \in Conns : who[c].live}, NEW due \in BOOLEAN,
               CheckAlive(T, due)
        PROVE  IInv'
    <2>1. T \in SUBSET Conns
      OBVIOUS
    <2> QED BY <1>8, <2>1, CheckAliveStep
  <1>9. CASE Next
    BY <1>2, <1>3, <1>4, <1>5, <1>6, <1>7, <1>8, <1>9, BansEndStep, AuditBatchStep DEF Next
  <1> QED BY <1>1, <1>9

LEMMA EventsBounded ==
    ASSUME [Next]_vars, events <= MaxEvents
    PROVE  events' <= MaxEvents
  <1>1. CASE UNCHANGED vars
    BY <1>1 DEF vars
  <1>2. ASSUME NEW S, Become(S) PROVE events' <= MaxEvents
    BY <1>2 DEF Become
  <1>3. ASSUME NEW c \in Conns, Request(c) PROVE events' <= MaxEvents
    <2>1. CASE \E w \in Wallets, agent \in Agents, authorize \in BOOLEAN, job \in BOOLEAN :
                 Login(c, w, agent, authorize, job)
      <3>1. PICK w \in Wallets, agent \in Agents, authorize \in BOOLEAN, job \in BOOLEAN :
              Login(c, w, agent, authorize, job)
        BY <2>1
      <3>2. \E S : Become(S)
        BY <3>1, Zenon DEF Login
      <3> QED BY <1>2, <3>2
    <2>2. CASE Subscribe(c) \/ SwitchToExtranonceCoin(c)
      BY <1>2, <2>2, Zenon DEF Subscribe, SwitchToExtranonceCoin
    <2>3. CASE DoubleLogin(c) \/ EmptyLogin(c) \/ RefuseRequest(c) \/ BadPacket(c)
      BY <1>2, <2>3, Zenon DEF DoubleLogin, EmptyLogin, RefuseRequest, BadPacket
    <2>4. CASE WriteFails(c) \/ TooManyInvalidJobs(c) \/ BadShare(c)
      BY <1>2, <2>4, Zenon DEF WriteFails, TooManyInvalidJobs, BadShare
    <2>5. CASE GoodShare(c) \/ ThrottledShare(c)
      BY <1>2, <2>5, Zenon DEF GoodShare, ThrottledShare
    <2> QED BY <1>3, <2>1, <2>2, <2>3, <2>4, <2>5 DEF Request
  <1>4. ASSUME NEW c \in Conns, Ending(c) PROVE events' <= MaxEvents
    BY <1>2, <1>4 DEF Ending, TlsFails, AuthTimeout, FirstShareTimeout, FinalDelayEnds, FinalEnds,
       KernelGivesUp, Close
  <1>5. ASSUME NEW c \in Conns, TlsDone(c) \/ PeerVanishes(c) \/ PeerCloses(c)
        PROVE  events' <= MaxEvents
    BY <1>2, <1>5 DEF TlsDone, PeerVanishes, PeerCloses
  <1>6. ASSUME NEW c \in Conns, NEW i \in Ips, NEW tls \in BOOLEAN, Accept(c, i, tls)
        PROVE  events' <= MaxEvents
    BY <1>2, <1>6 DEF Accept
  <1>7. ASSUME \/ \E m \in mail : BanArrives(m)
               \/ ShortBansEnd \/ LongBansEnd
               \/ \E B \in SUBSET Wallets : ReloadBans(B)
               \/ \E T \in SUBSET {c \in Conns : who[c].live}, due \in BOOLEAN : CheckAlive(T, due)
               \/ AuditBatch
        PROVE  events' <= MaxEvents
    BY <1>2, <1>7 DEF BanArrives, ShortBansEnd, LongBansEnd, ReloadBans, CheckAlive, AuditBatch
  <1>8. CASE Next
    BY <1>3, <1>4, <1>5, <1>6, <1>7, <1>8 DEF Next
  <1> QED BY <1>1, <1>8

\* What the sockets, sessions, counts and the audit of a worker keep up: the
\* invariant the results below rest on.
THEOREM InvariantHolds == Spec => []IInv
  <1>1. Init => IInv
    BY Starts
  <1>2. IInv /\ [Next]_vars => IInv'
    BY NextKeeps
  <1> QED BY <1>1, <1>2, PTL DEF Spec

\* Sockets, miners, counts, bans and the audit keep their types, and the
\* environment its bound.
THEOREM TypeCorrect == Spec => []TypeOK
  <1>1. Init => events <= MaxEvents
    BY PoolSessionsAssumption DEF Init
  <1>2. events <= MaxEvents /\ [Next]_vars => (events <= MaxEvents)'
    BY EventsBounded
  <1>3. IInv /\ events <= MaxEvents => TypeOK
    <2> SUFFICES ASSUME IInv, events <= MaxEvents PROVE TypeOK
      OBVIOUS
    <2>1. Now \in State
      BY EventKeeps
    <2>2. /\ con \in [Conns -> SocketRecs] /\ who \in [Conns -> MinerRecs]
          /\ older \in [Conns -> SUBSET Conns] /\ byIp \in [Ips -> Nat]
          /\ delayed \in [Ips -> Conns \cup {Nobody}] /\ free \in Seq(1..ExtraNonces)
          /\ direct \in [Wallets -> Nat] /\ proxy \in [Wallets -> Nat] /\ bans \in BanRecs
          /\ audit \in AuditRecs /\ events \in Nat
      BY <2>1, Fields, NowFields
    <2>3. \A c \in Conns : con[c] \in SocketRecs /\ who[c] \in MinerRecs /\ older[c] \in SUBSET Conns
      BY <2>2
    <2>4. \A c \in Conns :
            /\ con[c].st \in {"free", "raw", "open", "ended", "destroyed"}
            /\ con[c].final \in {"none", "delay", "deadline"}
            /\ {con[c].xid, con[c].prev} \subseteq 0..ExtraNonces
            /\ who[c].w \in Wallets \cup {Nobody}
      BY <2>3 DEF SocketRecs, MinerRecs, Stages
    <2>5. bans.ip \subseteq Ips \ Loopback /\ audit.left \in Nat
      BY <2>2 DEF BanRecs, AuditRecs
    <2>6. events \in 0..MaxEvents
      BY <2>2, PoolSessionsAssumption
    <2> QED BY <2>2, <2>3, <2>4, <2>5, <2>6 DEF TypeOK
  <1> QED BY <1>1, <1>2, <1>3, InvariantHolds, PTL DEF Spec

LEMMA NoneCount ==
    ASSUME NEW A, \A x : x \notin A
    PROVE  Cardinality(A) = 0
  <1>1. A = {}
    OBVIOUS
  <1> QED BY <1>1, FS_EmptySet

LEMMA OneCounts ==
    ASSUME NEW A, NEW a \in A, \A x \in A : x = a
    PROVE  Cardinality(A) = 1
  <1>1. A = {a}
    OBVIOUS
  <1> QED BY <1>1, FS_Singleton

\* What a socket takes is given back exactly once, however it ends: the
\* connection counts are the open reservations, every extranonce id is free
\* once or held by one socket, a delayed final reply belongs to its address,
\* and a registered miner has a socket that knows it.
THEOREM ResourcesMatchSocketsHolds == Spec => []ResourcesMatchSockets
  <1>1. IInv => ResourcesMatchSockets
    <2> SUFFICES ASSUME IInv PROVE ResourcesMatchSockets
      OBVIOUS
    <2>1. /\ con \in [Conns -> SocketRecs] /\ free \in Seq(1..ExtraNonces)
          /\ \A c \in Conns : SlotOK(con[c], who[c])
          /\ SeatsOK(con, byIp, bySubnet) /\ IdsOK(con, free) /\ DelayedOK(con, delayed)
      BY EventKeeps, Fields, NowFields DEF Good, Loose
    <2>2. \A c \in Conns : con[c].st = "free" => con[c] = NoSocket
      BY <2>1 DEF SlotOK
    <2>3. \A c \in Conns : con[c].held => con[c].st # "free"
      BY <2>2 DEF NoSocket
    <2>4. ASSUME NEW i \in Ips
          PROVE  byIp[i] = Cardinality({c \in Open : con[c].held /\ con[c].ip = i})
      <3>1. {c \in Open : con[c].held /\ con[c].ip = i} = HeldBy(con, i)
        BY <2>3 DEF Open, HeldBy
      <3> QED BY <2>1, <3>1 DEF SeatsOK
    <2>5. ASSUME NEW n \in Range(SubnetOf) PROVE bySubnet[n] = Cardinality(HeldIn(n))
      <3>1. HeldIn(n) = HeldBySubnet(con, n)
        BY <2>3 DEF HeldIn, Open, HeldBySubnet
      <3> QED BY <2>1, <3>1 DEF SeatsOK, Subnets
    <2>6. \A c \in Open : con[c].held \/ con[c].st = "destroyed"
      BY <2>1 DEF Open, SlotOK
    <2>7. \A i \in Ips : delayed[i] # Nobody => con[delayed[i]].ip = i
      BY <2>1 DEF DelayedOK
    <2>8. \A c \in Live(Now) : con[c].st # "free" /\ con[c].mid
      <3>1. \A c \in Live(Now) : c \in Conns /\ who[c].live
        BY NowFields DEF Live
      <3> QED BY <2>1, <2>2, <3>1 DEF SlotOK, NoSocket
    <2>9. ASSUME NEW k \in 1..ExtraNonces
          PROVE  Cardinality(Holding(k)) + Cardinality({j \in DOMAIN free : free[j] = k}) = 1
      <3> DEFINE H == Holding(k)
                 F == {j \in DOMAIN free : free[j] = k}
      <3>1. \A c : c \in H <=> c \in Conns /\ k \in Ids(con[c])
        <4>1. \A c \in Conns : k \in Ids(con[c]) <=> k \in {con[c].xid, con[c].prev}
          BY Constants DEF Ids
        <4>2. \A c \in Conns : k \in {con[c].xid, con[c].prev} => con[c].st # "free"
          BY <2>2, Constants DEF NoSocket
        <4> QED BY <4>1, <4>2 DEF Holding, Open
      <3>2. \A j : j \in F <=> j \in 1..Len(free) /\ free[j] = k
        BY <2>1, LenProperties
      <3> HIDE DEF H, F
      <3>3. CASE \E c \in Conns : k \in Ids(con[c])
        <4>1. PICK c \in Conns : k \in Ids(con[c])
          BY <3>3
        <4>2. c \in H /\ \A d \in H : d = c
          BY <2>1, <3>1, <4>1 DEF IdsOK
        <4>3. \A j : j \notin F
          BY <2>1, <3>2, <4>1 DEF IdsOK
        <4>4. Cardinality(H) = 1 /\ Cardinality(F) = 0
          BY <4>2, <4>3, OneCounts, NoneCount
        <4> QED BY <4>4 DEF H, F
      <3>4. CASE ~\E c \in Conns : k \in Ids(con[c])
        <4>1. PICK j \in 1..Len(free) : free[j] = k
          BY <2>1, <3>4 DEF IdsOK
        <4>2. j \in F /\ \A i \in F : i = j
          BY <2>1, <3>2, <4>1 DEF IdsOK
        <4>3. \A c : c \notin H
          BY <3>1, <3>4
        <4>4. Cardinality(H) = 0 /\ Cardinality(F) = 1
          BY <4>2, <4>3, OneCounts, NoneCount
        <4> QED BY <4>4 DEF H, F
      <3> QED BY <3>3, <3>4
    <2> QED BY <2>4, <2>5, <2>6, <2>7, <2>8, <2>9 DEF ResourcesMatchSockets
  <1> QED BY <1>1, InvariantHolds, PTL

\* The worker counts never drift up, so nobody is refused for sessions that
\* are gone: a proxy's count is its sessions, a wallet's at most its sessions.
THEOREM WorkerCountsDoNotDriftUpHolds == Spec => []WorkerCountsDoNotDriftUp
  <1>1. IInv => WorkerCountsDoNotDriftUp
    <2> SUFFICES ASSUME IInv PROVE WorkerCountsDoNotDriftUp
      OBVIOUS
    <2>1. WorkersOK(who, direct, proxy, {}, {})
      BY NowFields DEF IInv, Good, Loose
    <2>2. \A w : /\ Plain(who, {}, w) = LiveDirect(w)
                 /\ Proxied(who, {}, w) = {c \in Conns : who[c].live /\ who[c].w = w /\ who[c].proxied}
      BY DEF Plain, Proxied, LiveDirect
    <2> QED BY <2>1, <2>2 DEF WorkersOK, WorkerCountsDoNotDriftUp
  <1> QED BY <1>1, InvariantHolds, PTL

\* A session that was on the ban list when the audit of maybeStartBannedMinerAudit
\* started is removed, or its ban lifted, before the audit is over, whoever
\* comes and goes between the batches.
THEOREM AuditMissesNobodyHolds == Spec => []AuditMissesNobody
  <1>1. IInv => AuditMissesNobody
    <2> SUFFICES ASSUME IInv, audit.must # {} PROVE audit.left > 0
      BY DEF AuditMissesNobody
    <2>1. /\ AuditOK(who, older, audit, bans.address) /\ audit \in AuditRecs
          /\ older \in [Conns -> SUBSET Conns]
      BY EventKeeps, Fields, NowFields DEF Good, Loose
    <2>2. PICK c : c \in audit.must
      OBVIOUS
    <2> DEFINE A == older[c] \ audit.passed
    <2>3. A \in SUBSET Conns /\ Cardinality(A) < audit.left
      BY <2>1, <2>2 DEF AuditOK, AuditRecs
    <2> HIDE DEF A
    <2>4. Cardinality(A) \in Nat
      BY <2>3, Sizes
    <2> QED BY <2>1, <2>3, <2>4 DEF AuditRecs
  <1> QED BY <1>1, InvariantHolds, PTL

\* An open socket is on a clock until its miner has had a valid share: the
\* authentication or first-share timeout, or the delay of a final reply.
THEOREM EveryoneIsOnAClockHolds == Spec => []EveryoneIsOnAClock
  <1>1. IInv => EveryoneIsOnAClock
    <2> SUFFICES ASSUME IInv PROVE EveryoneIsOnAClock
      OBVIOUS
    <2>1. \A c \in Conns \ {} : ClockOK(con[c], who[c])
      BY NowFields DEF IInv, Good, Loose
    <2> QED BY <2>1 DEF ClockOK, EveryoneIsOnAClock
  <1> QED BY <1>1, InvariantHolds, PTL
=============================================================================
