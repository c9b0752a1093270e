-------------------------- MODULE PoolSharesProofs --------------------------
(***************************************************************************)
(* Theorems about PoolShares for any number of sessions, wallets and       *)
(* shares and any limits.                                                  *)
(*                                                                         *)
(* A callback takes one share in hand, changes its record and the counters *)
(* of its wallet's gate in several steps, and puts it down: in a queue, in *)
(* a wait or answered.  In between the counters are off by that share.     *)
(* `Loose' is the invariant with these differences as parameters; every    *)
(* operator of PoolShares has a lemma that says which differences it makes *)
(* and which it settles, and `Good' is `Loose' with none left.             *)
(***************************************************************************)
EXTENDS PoolShares, FiniteSetTheorems, TLAPS

Fields == {"sess", "wal", "gate", "keys", "share", "asks", "events", "suspects"}
GateFields == {"inFlight", "queue", "draining", "force"}
ShareFields == {"m", "n", "meets", "data", "kind", "stage", "mode", "started", "forced",
                "fromQueue", "tries", "sub", "verified", "answer"}

\* The shape of a state record: only what the invariant looks at.
WalOK(v) == DOMAIN v = Wallets /\ \A w \in Wallets : "pending" \in DOMAIN v[w]

GateOK(g) ==
    /\ g = [w \in Wallets |-> g[w]]
    /\ \A w \in Wallets : DOMAIN g[w] = GateFields /\ g[w].queue \in Seq(Nat)

RecOK(x) ==
    /\ DOMAIN x = ShareFields
    /\ x.m \in Sessions
    /\ x.meets \subseteq {"job", "main", "child"}
    /\ x.kind \in {"standard", "cycle", "kawpow", "ethash", "pearl"}
    /\ DOMAIN x.sub = Chains

ListOK(q) ==
    /\ \E k \in Nat : q = [i \in 1..k |-> q[i]]
    /\ \A t \in DOMAIN q : RecOK(q[t])

\* The hashes asked for outside a verification, for shares in D.
AskFields == {"s", "c", "why", "w", "stage"}
AskOK(k, D) == DOMAIN k = AskFields /\ k.s \in D /\ k.c \in Chains /\ k.w \in Wallets

AsksOK(a, D) ==
    /\ \E k \in Nat : a = [i \in 1..k |-> a[i]]
    /\ \A i \in DOMAIN a : AskOK(a[i], D)

Typed(S) ==
    /\ DOMAIN S = Fields
    /\ WalOK(S.wal) /\ GateOK(S.gate)
    /\ DOMAIN S.keys = {"job", "template"}
    /\ ListOK(S.share) /\ S.suspects \subseteq DOMAIN S.share
    /\ AsksOK(S.asks, DOMAIN S.share)

\* The work of wallet w among the shares q, by what its counters count.
Act(q, w) == {t \in DOMAIN q : q[t].stage # "done" /\ WalletOf[q[t].m] = w}
Started(q, w) == {t \in Act(q, w) : q[t].started}
Waiting(q, w) == {t \in Act(q, w) : q[t].stage = "wait"}
Served(q, w) == {t \in Act(q, w) : q[t].fromQueue}
Queued(q, w) == {t \in Act(q, w) : q[t].stage = "queued"}
AskWaiting(a, w) == {i \in DOMAIN a : a[i].stage = "wait" /\ a[i].w = w}

NoRepeats(q) == \A i, j \in 1..Len(q) : q[i] = q[j] => i = j

\* The gate of wallet w: `f' are shares whose verification is over for the
\* gate, `p' shares whose task is over for the verifier; `asleep' allows a
\* queue that nobody will drain, `idle' that the drained share is gone.
Running(S, w, f) == S.gate[w].inFlight = Cardinality(Started(S.share, w) \ f)
Tasks(S, w, p) ==
    S.wal[w].pending = Cardinality(Waiting(S.share, w) \ p) + Cardinality(AskWaiting(S.asks, w))
Lines(S, w) == ToSet(S.gate[w].queue) = Queued(S.share, w) /\ NoRepeats(S.gate[w].queue)
Awake(S, w) == S.gate[w].queue # <<>> => S.gate[w].inFlight # 0 \/ S.gate[w].draining
Serving(S, w, idle) ==
    IF S.gate[w].draining /\ w \notin idle THEN \E t : Served(S.share, w) = {t} ELSE Served(S.share, w) = {}

Gates(S, f, p, asleep, idle) ==
    \A w \in Wallets :
        /\ Running(S, w, f) /\ Tasks(S, w, p) /\ Lines(S, w)
        /\ w \in asleep \/ Awake(S, w)
        /\ Serving(S, w, idle)

\* A share holds its submission keys while it is checked and once credited;
\* no two shares hold the same.
Holds(x) == x.stage # "done" \/ x.answer = "true"

KeysOK(q, keyed) ==
    \A s \in DOMAIN q : Holds(q[s]) =>
        /\ <<q[s].m, q[s].n>> \in keyed.job
        /\ SharedNonces => q[s].n \in keyed.template
        /\ \A t \in DOMAIN q :
             s # t /\ Holds(q[t]) /\ q[s].n = q[t].n => q[s].m # q[t].m /\ ~SharedNonces

\* What a share that waits for a hash must not lose.
Asking(x) ==
    /\ x.mode \in {"slow", "candidate", "special", "failedSubmit"}
    /\ x.mode = "slow" => "main" \notin x.meets
    /\ x.mode = "candidate" => "main" \in x.meets
    /\ x.mode = "failedSubmit" => x.sub["main"] # "none"

\* What a credited share has.
Submitted(x) == \A c \in x.meets \cap Chains : x.sub[c] # "none"
Genuine(x) == x.data # "good" => ~x.started /\ x.meets \cap Chains = {}

\* A share's record by itself.
Local(x) ==
    /\ x.stage # "done" => x.answer # "true"
    /\ x.stage \in {"queued", "scheduled", "delay"} => ~x.started
    /\ x.stage \in {"queued", "delay"} => x.meets \cap Chains = {}
    /\ x.stage = "queued" => ~x.fromQueue /\ x.kind # "cycle"
    /\ x.stage \in {"wait", "hash", "pause"} => Asking(x)
    /\ x.stage = "submit" => x.sub["main"] # "none"
    /\ x.answer = "true" => Submitted(x) /\ Genuine(x)

\* A share of a generation that a failed check invalidated.
Checked(x) ==
    /\ x.stage # "done" => /\ x.meets \cap Chains = {} /\ x.kind # "cycle"
                           /\ x.stage \in {"queued", "scheduled", "wait", "hash", "pause"}
    /\ x.stage = "scheduled" => x.forced
    /\ x.answer = "true" => x.verified

ShareOK(S, t) ==
    /\ Local(S.share[t])
    /\ t \in S.suspects =>
         /\ Checked(S.share[t])
         /\ S.share[t].stage = "queued" => S.gate[W(S, t)].force

\* A share in hand: a callback is at work on it.
InHand(S, t) ==
    /\ t \in DOMAIN S.share
    /\ S.share[t].stage \notin {"queued", "done"} /\ S.share[t].answer # "true"
    /\ t \in S.suspects => S.share[t].meets \cap Chains = {}

Loose(S, p, f, asleep, idle) ==
    /\ Typed(S) /\ KeysOK(S.share, S.keys)
    /\ \A t \in DOMAIN S.share : IF t \in p THEN InHand(S, t) ELSE ShareOK(S, t)
    /\ Gates(S, f, p, asleep, idle)

Good(S) == Loose(S, {}, {}, {}, {})
Hand(S, s) == s \in DOMAIN S.share /\ Loose(S, {s}, {}, {}, {})

IInv == Good(Now)
-----------------------------------------------------------------------------
(* States that differ in nothing the invariant looks at *)

\* T is S but for trust, rates, ban counters and bounds.
Quiet(S, T) ==
    /\ DOMAIN T = Fields /\ WalOK(T.wal)
    /\ \A w \in Wallets : T.wal[w].pending = S.wal[w].pending
    /\ T.gate = S.gate /\ T.keys = S.keys /\ T.share = S.share
    /\ T.suspects = S.suspects /\ T.asks = S.asks

LEMMA QuietKeeps ==
    ASSUME NEW S, NEW T, NEW p, NEW f, NEW a, NEW d, Loose(S, p, f, a, d), Quiet(S, T)
    PROVE  Loose(T, p, f, a, d)
  <1>1. Typed(T)
    BY DEF Loose, Typed, Quiet
  <1>2. KeysOK(T.share, T.keys)
    BY DEF Loose, Quiet
  <1>3. \A t \in DOMAIN T.share : IF t \in p THEN InHand(T, t) ELSE ShareOK(T, t)
    <2> TAKE t \in DOMAIN T.share
    <2>1. T.share = S.share /\ T.suspects = S.suspects /\ T.asks = S.asks /\ T.gate = S.gate
      BY DEF Quiet
    <2>2. IF t \in p THEN InHand(S, t) ELSE ShareOK(S, t)
      BY <2>1 DEF Loose
    <2>3. InHand(T, t) <=> InHand(S, t)
      BY <2>1 DEF InHand
    <2>4. ShareOK(T, t) <=> ShareOK(S, t)
      BY <2>1 DEF ShareOK, W
    <2> QED BY <2>2, <2>3, <2>4
  <1>4. Gates(T, f, p, a, d)
    <2> SUFFICES ASSUME NEW w \in Wallets
                 PROVE  /\ Running(T, w, f) /\ Tasks(T, w, p) /\ Lines(T, w)
                        /\ w \in a \/ Awake(T, w)
                        /\ Serving(T, w, d)
      BY DEF Gates
    <2>1. /\ Running(S, w, f) /\ Tasks(S, w, p) /\ Lines(S, w)
          /\ w \in a \/ Awake(S, w)
          /\ Serving(S, w, d)
      BY DEF Loose, Gates
    <2>2. /\ T.share = S.share /\ T.gate = S.gate /\ T.asks = S.asks
          /\ T.wal[w].pending = S.wal[w].pending
      BY DEF Quiet
    <2>3. Running(T, w, f) /\ Tasks(T, w, p) /\ Lines(T, w)
      BY <2>1, <2>2 DEF Running, Tasks, Lines
    <2>4. Awake(T, w) <=> Awake(S, w)
      BY <2>2 DEF Awake
    <2>5. Serving(T, w, d) <=> Serving(S, w, d)
      BY <2>2 DEF Serving
    <2> QED BY <2>1, <2>3, <2>4, <2>5
  <1> QED BY <1>1, <1>2, <1>3, <1>4 DEF Loose

LEMMA QuietTrans ==
    ASSUME NEW S, NEW T, NEW U, Quiet(S, T), Quiet(T, U)
    PROVE  Quiet(S, U)
  BY DEF Quiet

LEMMA QuietSelf ==
    ASSUME NEW S, Typed(S) PROVE Quiet(S, S)
  BY DEF Quiet, Typed

LEMMA ClearTrustIsQuiet ==
    ASSUME NEW S, NEW m, Typed(S)
    PROVE  Quiet(S, ClearTrust(S, m))
  BY DEF ClearTrust, Quiet, Typed, Fields, WalOK

LEMMA AddWalletTrustIsQuiet ==
    ASSUME NEW S, NEW s, Typed(S)
    PROVE  Quiet(S, AddWalletTrust(S, s))
  BY DEF AddWalletTrust, Quiet, Typed, Fields, WalOK

LEMMA SessIsQuiet ==
    ASSUME NEW S, NEW v, Typed(S)
    PROVE  Quiet(S, [S EXCEPT !.sess = v])
  BY DEF Quiet, Typed, Fields, WalOK

LEMMA CheckBanIsQuiet ==
    ASSUME NEW S, NEW m, NEW ok, Typed(S)
    PROVE  Quiet(S, CheckBan(S, m, ok))
  BY DEF CheckBan, RemoveSession, Quiet, Typed, Fields, WalOK

-----------------------------------------------------------------------------
(* One record of the list of shares changes *)

LEMMA ListUpdate ==
    ASSUME NEW q, ListOK(q), NEW s \in DOMAIN q, NEW y, RecOK(y)
    PROVE  /\ ListOK([q EXCEPT ![s] = y])
           /\ DOMAIN [q EXCEPT ![s] = y] = DOMAIN q
           /\ [q EXCEPT ![s] = y][s] = y
           /\ \A t \in DOMAIN q : t # s => [q EXCEPT ![s] = y][t] = q[t]
  <1> DEFINE r == [q EXCEPT ![s] = y]
  <1>1. PICK k \in Nat : q = [i \in 1..k |-> q[i]]
    BY DEF ListOK
  <1>2. r = [i \in 1..k |-> IF i = s THEN y ELSE q[i]]
    BY <1>1
  <1> HIDE DEF r
  <1>3. /\ DOMAIN r = DOMAIN q /\ r[s] = y
        /\ \A t \in DOMAIN q : t # s => r[t] = q[t]
    BY <1>1, <1>2
  <1>4. r = [i \in 1..k |-> r[i]]
    BY <1>2
  <1>5. ListOK(r)
    BY <1>3, <1>4 DEF ListOK
  <1> QED BY <1>3, <1>5 DEF r

LEMMA Finite ==
    ASSUME NEW q, ListOK(q), NEW w
    PROVE  /\ IsFiniteSet(Started(q, w)) /\ IsFiniteSet(Waiting(q, w))
           /\ IsFiniteSet(Served(q, w)) /\ IsFiniteSet(Queued(q, w))
           /\ DOMAIN q \subseteq Nat
  <1>1. PICK k \in Nat : q = [i \in 1..k |-> q[i]]
    BY DEF ListOK
  <1>2. DOMAIN q = 1..k
    BY <1>1
  <1>3. IsFiniteSet(1..k)
    BY FS_Interval
  <1>4. /\ Started(q, w) \in SUBSET (1..k) /\ Waiting(q, w) \in SUBSET (1..k)
        /\ Served(q, w) \in SUBSET (1..k) /\ Queued(q, w) \in SUBSET (1..k)
    BY <1>2 DEF Started, Waiting, Served, Queued, Act
  <1> QED BY <1>2, <1>3, <1>4, FS_Subset

LEMMA AsksCount ==
    ASSUME NEW a, NEW D, AsksOK(a, D), NEW w
    PROVE  IsFiniteSet(AskWaiting(a, w)) /\ Cardinality(AskWaiting(a, w)) \in Nat
  <1>1. PICK k \in Nat : a = [i \in 1..k |-> a[i]]
    BY DEF AsksOK
  <1>2. DOMAIN a = 1..k
    BY <1>1
  <1>3. AskWaiting(a, w) \in SUBSET (1..k) /\ IsFiniteSet(1..k)
    BY <1>2, FS_Interval DEF AskWaiting
  <1>4. IsFiniteSet(AskWaiting(a, w))
    BY <1>3, FS_Subset
  <1> QED BY <1>4, FS_CardinalityType

\* The record y for share s, which stays active and of its wallet.
LEMMA WorkUpdate ==
    ASSUME NEW q, ListOK(q), NEW s \in DOMAIN q, NEW y, RecOK(y), NEW r,
           r = [q EXCEPT ![s] = y],
           y.m = q[s].m, y.stage # "done", q[s].stage # "done", NEW w
    PROVE  /\ s \in Act(q, w) <=> w = WalletOf[q[s].m]
           /\ Act(r, w) = Act(q, w)
           /\ Started(r, w) \ {s} = Started(q, w) \ {s}
           /\ Waiting(r, w) \ {s} = Waiting(q, w) \ {s}
           /\ Served(r, w) \ {s} = Served(q, w) \ {s}
           /\ Queued(r, w) \ {s} = Queued(q, w) \ {s}
           /\ s \in Started(r, w) <=> w = WalletOf[q[s].m] /\ y.started
           /\ s \in Waiting(r, w) <=> w = WalletOf[q[s].m] /\ y.stage = "wait"
           /\ s \in Served(r, w) <=> w = WalletOf[q[s].m] /\ y.fromQueue
           /\ s \in Queued(r, w) <=> w = WalletOf[q[s].m] /\ y.stage = "queued"
  <1>1. /\ DOMAIN r = DOMAIN q /\ r[s] = y
        /\ \A t \in DOMAIN q : t # s => r[t] = q[t]
    BY ListUpdate
  <1>2. Act(r, w) = Act(q, w)
    BY <1>1 DEF Act
  <1>3. s \in Act(q, w) <=> w = WalletOf[q[s].m]
    BY DEF Act
  <1>4. Act(q, w) \subseteq DOMAIN q
    BY DEF Act
  <1>5. Started(r, w) \ {s} = Started(q, w) \ {s} /\ Waiting(r, w) \ {s} = Waiting(q, w) \ {s}
    BY <1>1, <1>2, <1>4 DEF Started, Waiting
  <1>6. Served(r, w) \ {s} = Served(q, w) \ {s} /\ Queued(r, w) \ {s} = Queued(q, w) \ {s}
    BY <1>1, <1>2, <1>4 DEF Served, Queued
  <1>7. /\ s \in Started(r, w) <=> w = WalletOf[q[s].m] /\ y.started
        /\ s \in Waiting(r, w) <=> w = WalletOf[q[s].m] /\ y.stage = "wait"
        /\ s \in Served(r, w) <=> w = WalletOf[q[s].m] /\ y.fromQueue
        /\ s \in Queued(r, w) <=> w = WalletOf[q[s].m] /\ y.stage = "queued"
    BY <1>1, <1>2, <1>3 DEF Started, Waiting, Served, Queued
  <1> QED BY <1>2, <1>3, <1>5, <1>6, <1>7

LEMMA KeysUpdate ==
    ASSUME NEW q, ListOK(q), NEW s \in DOMAIN q, NEW y, RecOK(y), NEW keyed,
           KeysOK(q, keyed), y.m = q[s].m, y.n = q[s].n, Holds(q[s])
    PROVE  KeysOK([q EXCEPT ![s] = y], keyed)
  <1> DEFINE r == [q EXCEPT ![s] = y]
  <1>1. /\ DOMAIN r = DOMAIN q /\ r[s] = y
        /\ \A t \in DOMAIN q : t # s => r[t] = q[t]
    BY ListUpdate
  <1> HIDE DEF r
  <1>2. \A t \in DOMAIN q : /\ r[t].m = q[t].m /\ r[t].n = q[t].n
                            /\ Holds(r[t]) => Holds(q[t])
    BY <1>1
  <1>3. KeysOK(r, keyed)
    BY <1>1, <1>2 DEF KeysOK
  <1> QED BY <1>3 DEF r

\* T is S with the record y for share s.
Turned(S, T, s, y) ==
    /\ DOMAIN T = Fields /\ WalOK(T.wal)
    /\ \A w \in Wallets : T.wal[w].pending = S.wal[w].pending
    /\ T.gate = S.gate /\ T.keys = S.keys /\ T.suspects = S.suspects /\ T.asks = S.asks
    /\ T.share = [S.share EXCEPT ![s] = y]

\* y has x's identity and its place in the counts of the gate.
Same(x, y) ==
    /\ y.m = x.m /\ y.n = x.n /\ y.meets = x.meets /\ y.kind = x.kind
    /\ y.data = x.data /\ y.answer = x.answer
    /\ y.started = x.started /\ y.fromQueue = x.fromQueue

LEMMA Retouch ==
    ASSUME NEW S, NEW s, Hand(S, s), NEW T, NEW y, RecOK(y), Turned(S, T, s, y),
           Same(S.share[s], y), y.stage \notin {"queued", "done"}
    PROVE  Hand(T, s) /\ T.share[s] = y
  <1> DEFINE x == S.share[s]
  <1>0. /\ Typed(S) /\ ListOK(S.share) /\ s \in DOMAIN S.share
        /\ x.stage \notin {"queued", "done"} /\ x.answer # "true"
        /\ s \in S.suspects => x.meets \cap Chains = {}
    BY DEF Hand, Loose, Typed, InHand
  <1>1. /\ ListOK(T.share) /\ DOMAIN T.share = DOMAIN S.share /\ T.share[s] = y
        /\ \A t \in DOMAIN S.share : t # s => T.share[t] = S.share[t]
    BY <1>0, ListUpdate DEF Turned
  <1>2. Typed(T)
    BY <1>0, <1>1 DEF Typed, Turned
  <1>3. KeysOK(T.share, T.keys)
    BY <1>0, KeysUpdate DEF Hand, Loose, Turned, Same, Holds
  <1>4. \A t \in DOMAIN T.share : IF t \in {s} THEN InHand(T, t) ELSE ShareOK(T, t)
    <2> TAKE t \in DOMAIN T.share
    <2>1. CASE t = s
      BY <1>0, <1>1, <2>1 DEF InHand, Turned, Same
    <2>2. CASE t # s
      <3>1. ShareOK(S, t)
        BY <1>1, <2>2 DEF Hand, Loose
      <3> QED BY <1>1, <2>2, <3>1 DEF ShareOK, Turned, W
    <2> QED BY <2>1, <2>2
  <1>5. Gates(T, {}, {s}, {}, {})
    <2> SUFFICES ASSUME NEW w \in Wallets
                 PROVE  /\ Running(T, w, {}) /\ Tasks(T, w, {s}) /\ Lines(T, w)
                        /\ Awake(T, w) /\ Serving(T, w, {})
      BY DEF Gates
    <2>1. /\ Running(S, w, {}) /\ Tasks(S, w, {s}) /\ Lines(S, w)
          /\ Awake(S, w) /\ Serving(S, w, {})
      BY DEF Hand, Loose, Gates
    <2>2. /\ Started(T.share, w) = Started(S.share, w)
          /\ Served(T.share, w) = Served(S.share, w)
          /\ Queued(T.share, w) = Queued(S.share, w)
          /\ Waiting(T.share, w) \ {s} = Waiting(S.share, w) \ {s}
      <3>1. T.share = [S.share EXCEPT ![s] = y] /\ y.m = x.m
        BY DEF Turned, Same
      <3>2. /\ Started(T.share, w) \ {s} = Started(S.share, w) \ {s}
            /\ Waiting(T.share, w) \ {s} = Waiting(S.share, w) \ {s}
            /\ Served(T.share, w) \ {s} = Served(S.share, w) \ {s}
            /\ Queued(T.share, w) \ {s} = Queued(S.share, w) \ {s}
            /\ s \in Started(T.share, w) <=> w = WalletOf[x.m] /\ y.started
            /\ s \in Served(T.share, w) <=> w = WalletOf[x.m] /\ y.fromQueue
            /\ s \in Queued(T.share, w) <=> w = WalletOf[x.m] /\ y.stage = "queued"
        BY <1>0, <3>1, WorkUpdate
      <3>3. /\ s \in Started(S.share, w) <=> w = WalletOf[x.m] /\ x.started
            /\ s \in Served(S.share, w) <=> w = WalletOf[x.m] /\ x.fromQueue
            /\ s \notin Queued(S.share, w)
        BY <1>0 DEF Started, Served, Queued, Act
      <3> QED BY <3>2, <3>3 DEF Same
    <2>3. T.gate = S.gate /\ T.asks = S.asks /\ T.wal[w].pending = S.wal[w].pending
      BY DEF Turned
    <2> QED BY <2>1, <2>2, <2>3 DEF Running, Tasks, Lines, Awake, Serving
  <1> QED BY <1>1, <1>2, <1>3, <1>4, <1>5, <1>0 DEF Hand, Loose

-----------------------------------------------------------------------------
(* Taking a share in hand and putting it down *)

LEMMA PutDown ==
    ASSUME NEW S, NEW s, Hand(S, s), S.share[s].stage # "wait", ShareOK(S, s)
    PROVE  Good(S)
  <1>1. \A t \in DOMAIN S.share : ShareOK(S, t)
    BY DEF Hand, Loose
  <1>2. Gates(S, {}, {}, {}, {})
    <2>1. \A w \in Wallets : Waiting(S.share, w) \ {s} = Waiting(S.share, w) \ {}
      BY DEF Waiting
    <2> QED BY <2>1 DEF Hand, Loose, Gates, Tasks
  <1> QED BY <1>1, <1>2 DEF Hand, Loose, Good

LEMMA PickUp ==
    ASSUME NEW S, NEW s \in DOMAIN S.share, Good(S), S.share[s].stage \notin {"queued", "done", "wait"}
    PROVE  Hand(S, s)
  <1>1. ShareOK(S, s)
    BY DEF Good, Loose
  <1>2. InHand(S, s)
    BY <1>1 DEF ShareOK, Local, Checked, InHand
  <1>3. Gates(S, {}, {s}, {}, {})
    <2>1. \A w \in Wallets : Waiting(S.share, w) \ {s} = Waiting(S.share, w) \ {}
      BY DEF Waiting
    <2> QED BY <2>1 DEF Good, Loose, Gates, Tasks
  <1> QED BY <1>2, <1>3 DEF Hand, Loose, Good

\* T is S but for the number of verifier tasks of wallet w.
Recounted(S, T, w, k) ==
    /\ DOMAIN T = Fields /\ WalOK(T.wal)
    /\ T.wal[w].pending = k
    /\ \A v \in Wallets : v # w => T.wal[v].pending = S.wal[v].pending
    /\ T.gate = S.gate /\ T.keys = S.keys /\ T.share = S.share
    /\ T.suspects = S.suspects /\ T.asks = S.asks

LEMMA RecountIs ==
    ASSUME NEW S, Typed(S), NEW w \in Wallets, NEW k, NEW T,
           T = [S EXCEPT !.wal[w].pending = k]
    PROVE  Recounted(S, T, w, k)
  BY DEF Recounted, Typed, WalOK, Fields

LEMMA RecountKeeps ==
    ASSUME NEW S, NEW T, NEW p, NEW o, NEW w \in Wallets, NEW k, Recounted(S, T, w, k),
           Loose(S, p, {}, {}, {}),
           \A t \in DOMAIN S.share : IF t \in o THEN InHand(S, t) ELSE ShareOK(S, t),
           k = Cardinality(Waiting(S.share, w) \ o) + Cardinality(AskWaiting(S.asks, w)),
           \A v \in Wallets : v # w => Waiting(S.share, v) \ o = Waiting(S.share, v) \ p
    PROVE  Loose(T, o, {}, {}, {})
  <1>0. /\ T.share = S.share /\ T.gate = S.gate /\ T.keys = S.keys
        /\ T.suspects = S.suspects /\ T.asks = S.asks
    BY DEF Recounted
  <1>1. Typed(T)
    BY DEF Loose, Typed, Recounted
  <1>2. KeysOK(T.share, T.keys)
    BY <1>0 DEF Loose
  <1>3. \A t \in DOMAIN T.share : IF t \in o THEN InHand(T, t) ELSE ShareOK(T, t)
    <2> TAKE t \in DOMAIN T.share
    <2>1. IF t \in o THEN InHand(S, t) ELSE ShareOK(S, t)
      BY <1>0
    <2>2. InHand(T, t) <=> InHand(S, t)
      BY <1>0 DEF InHand
    <2>3. ShareOK(T, t) <=> ShareOK(S, t)
      BY <1>0 DEF ShareOK, W
    <2> QED BY <2>1, <2>2, <2>3
  <1>4. Gates(T, {}, o, {}, {})
    <2> SUFFICES ASSUME NEW v \in Wallets
                 PROVE  /\ Running(T, v, {}) /\ Tasks(T, v, o) /\ Lines(T, v)
                        /\ Awake(T, v) /\ Serving(T, v, {})
      BY DEF Gates
    <2>1. /\ Running(S, v, {}) /\ Tasks(S, v, p) /\ Lines(S, v)
          /\ Awake(S, v) /\ Serving(S, v, {})
      BY DEF Loose, Gates
    <2>2. Tasks(T, v, o)
      BY <1>0, <2>1 DEF Tasks, Recounted
    <2> QED BY <1>0, <2>1, <2>2 DEF Running, Lines, Awake, Serving
  <1> QED BY <1>1, <1>2, <1>3, <1>4 DEF Loose

\* slowHashAsync takes the share.
LEMMA PutWait ==
    ASSUME NEW S, NEW s, Hand(S, s), S.share[s].stage = "wait", ShareOK(S, s),
           NEW T, Recounted(S, T, W(S, s), S.wal[W(S, s)].pending + 1)
    PROVE  Good(T)
  <1> DEFINE w == W(S, s)
  <1>0. /\ Typed(S) /\ ListOK(S.share) /\ s \in DOMAIN S.share
        /\ S.share[s].m \in Sessions
    BY DEF Hand, Loose, Typed, ListOK, RecOK
  <1>1. w \in Wallets
    BY <1>0, PoolSharesAssumption DEF W
  <1>2. s \in Waiting(S.share, w)
    BY <1>0 DEF Waiting, Act, W
  <1>3. S.wal[w].pending = Cardinality(Waiting(S.share, w) \ {s}) + Cardinality(AskWaiting(S.asks, w))
    BY <1>1 DEF Hand, Loose, Gates, Tasks
  <1> HIDE DEF w
  <1>4. S.wal[w].pending + 1 = Cardinality(Waiting(S.share, w)) + Cardinality(AskWaiting(S.asks, w))
    <2>1. IsFiniteSet(Waiting(S.share, w))
      BY <1>0, Finite
    <2>2. Cardinality(Waiting(S.share, w)) \in Nat
      BY <2>1, FS_CardinalityType
    <2>3. Cardinality(Waiting(S.share, w) \ {s}) = Cardinality(Waiting(S.share, w)) - 1
      BY <1>2, <2>1, FS_RemoveElement
    <2>4. Cardinality(AskWaiting(S.asks, w)) \in Nat
      BY <1>0, AsksCount DEF Typed
    <2> QED BY <1>3, <2>2, <2>3, <2>4
  <1>5. \A v \in Wallets : v # w => Waiting(S.share, v) \ {} = Waiting(S.share, v) \ {s}
    BY DEF Waiting, Act, w, W
  <1>6. \A t \in DOMAIN S.share : IF t \in {} THEN InHand(S, t) ELSE ShareOK(S, t)
    BY DEF Hand, Loose
  <1>7. Recounted(S, T, w, S.wal[w].pending + 1)
    BY DEF w
  <1>8. Waiting(S.share, w) \ {} = Waiting(S.share, w)
    OBVIOUS
  <1> QED BY <1>1, <1>4, <1>5, <1>6, <1>7, <1>8, RecountKeeps DEF Hand, Good

\* The verifier's task of the share ends.
LEMMA TakeWait ==
    ASSUME NEW S, NEW s \in DOMAIN S.share, Good(S), S.share[s].stage = "wait",
           NEW T, Recounted(S, T, W(S, s), S.wal[W(S, s)].pending - 1)
    PROVE  Hand(T, s)
  <1> DEFINE w == W(S, s)
  <1>0. /\ Typed(S) /\ ListOK(S.share) /\ S.share[s].m \in Sessions
    BY DEF Good, Loose, Typed, ListOK, RecOK
  <1>1. w \in Wallets
    BY <1>0, PoolSharesAssumption DEF W
  <1>2. s \in Waiting(S.share, w)
    BY <1>0 DEF Waiting, Act, W
  <1>3. S.wal[w].pending = Cardinality(Waiting(S.share, w)) + Cardinality(AskWaiting(S.asks, w))
    <2>1. Waiting(S.share, w) \ {} = Waiting(S.share, w)
      OBVIOUS
    <2> QED BY <1>1, <2>1 DEF Good, Loose, Gates, Tasks
  <1> HIDE DEF w
  <1>4. S.wal[w].pending - 1 = Cardinality(Waiting(S.share, w) \ {s}) + Cardinality(AskWaiting(S.asks, w))
    <2>1. IsFiniteSet(Waiting(S.share, w))
      BY <1>0, Finite
    <2>2. Cardinality(Waiting(S.share, w)) \in Nat
      BY <2>1, FS_CardinalityType
    <2>3. Cardinality(Waiting(S.share, w) \ {s}) = Cardinality(Waiting(S.share, w)) - 1
      BY <1>2, <2>1, FS_RemoveElement
    <2>4. Cardinality(AskWaiting(S.asks, w)) \in Nat
      BY <1>0, AsksCount DEF Typed
    <2> QED BY <1>3, <2>2, <2>3, <2>4
  <1>5. \A v \in Wallets : v # w => Waiting(S.share, v) \ {s} = Waiting(S.share, v) \ {}
    BY DEF Waiting, Act, w, W
  <1>6. \A t \in DOMAIN S.share : IF t \in {s} THEN InHand(S, t) ELSE ShareOK(S, t)
    <2>1. ShareOK(S, s)
      BY DEF Good, Loose
    <2>2. InHand(S, s)
      BY <2>1 DEF ShareOK, Local, Checked, InHand
    <2> QED BY <2>2 DEF Good, Loose
  <1>7. Recounted(S, T, w, S.wal[w].pending - 1)
    BY DEF w
  <1>8. T.share = S.share
    BY DEF Recounted
  <1>9. Loose(T, {s}, {}, {}, {})
    BY <1>1, <1>4, <1>5, <1>6, <1>7, RecountKeeps DEF Good
  <1> QED BY <1>8, <1>9 DEF Hand

-----------------------------------------------------------------------------
(* The operators that leave the share in hand *)

LEMMA HandIs ==
    ASSUME NEW S, NEW s, Hand(S, s)
    PROVE  /\ Typed(S) /\ ListOK(S.share) /\ s \in DOMAIN S.share
           /\ RecOK(S.share[s]) /\ DOMAIN S.share[s] = ShareFields
           /\ S.share[s].m \in Sessions /\ DOMAIN S.share[s].sub = Chains
           /\ W(S, s) = WalletOf[S.share[s].m] /\ W(S, s) \in Wallets
           /\ S.share[s].stage \notin {"queued", "done"} /\ S.share[s].answer # "true"
           /\ s \in S.suspects => S.share[s].meets \cap Chains = {}
           /\ DOMAIN S = Fields
  BY PoolSharesAssumption DEF Hand, Loose, Typed, ListOK, RecOK, InHand, W

LEMMA StartVerificationKeeps ==
    ASSUME NEW S, NEW s, Hand(S, s)
    PROVE  LET T == StartVerification(S, s) IN
           /\ Hand(T, s) /\ T.suspects = S.suspects /\ T.asks = S.asks
           /\ \/ T.share[s] = S.share[s]
              \/ T.share[s] = [S.share[s] EXCEPT !.started = TRUE]
  <1> DEFINE x == S.share[s]
             w == W(S, s)
             y == [x EXCEPT !.started = TRUE]
             T == [S EXCEPT !.share[s].started = TRUE, !.gate[w].inFlight = @ + 1]
  <1>1. CASE x.started
    BY <1>1 DEF StartVerification
  <1>2. CASE ~x.started
    <2>0. /\ Typed(S) /\ ListOK(S.share) /\ s \in DOMAIN S.share /\ RecOK(x)
          /\ DOMAIN x = ShareFields /\ w \in Wallets /\ w = WalletOf[x.m]
          /\ x.stage \notin {"queued", "done"} /\ x.answer # "true" /\ DOMAIN S = Fields
          /\ s \in S.suspects => x.meets \cap Chains = {}
      BY HandIs
    <2>1. StartVerification(S, s) = T
      BY <1>2 DEF StartVerification
    <2>2. /\ DOMAIN T = Fields /\ T.wal = S.wal /\ T.keys = S.keys
          /\ T.suspects = S.suspects /\ T.asks = S.asks
          /\ T.share = [S.share EXCEPT ![s] = y]
          /\ T.gate = [S.gate EXCEPT ![w].inFlight = @ + 1]
      BY <2>0 DEF Fields
    <2>3. /\ RecOK(y) /\ y.m = x.m /\ y.n = x.n /\ y.meets = x.meets /\ y.stage = x.stage
          /\ y.fromQueue = x.fromQueue /\ y.answer = x.answer /\ y.started /\ y.kind = x.kind
      BY <2>0 DEF RecOK, ShareFields
    <2> HIDE DEF y, T
    <2>4. /\ ListOK(T.share) /\ DOMAIN T.share = DOMAIN S.share /\ T.share[s] = y
          /\ \A t \in DOMAIN S.share : t # s => T.share[t] = S.share[t]
      <3>1. ListOK(S.share) /\ s \in DOMAIN S.share /\ RecOK(y)
        BY <2>0, <2>3
      <3> QED BY <2>2, <3>1, ListUpdate
    <2>5. /\ GateOK(T.gate)
          /\ \A v \in Wallets : v # w => T.gate[v] = S.gate[v]
          /\ T.gate[w].queue = S.gate[w].queue /\ T.gate[w].draining = S.gate[w].draining
          /\ T.gate[w].force = S.gate[w].force
          /\ T.gate[w].inFlight = S.gate[w].inFlight + 1
      <3>1. GateOK(S.gate) /\ w \in Wallets
        BY <2>0 DEF Typed
      <3> QED BY <2>2, <3>1 DEF GateOK, GateFields
    <2>6. Typed(T)
      BY <2>0, <2>2, <2>4, <2>5 DEF Typed
    <2>7. KeysOK(T.share, T.keys)
      <3>1. /\ ListOK(S.share) /\ s \in DOMAIN S.share /\ RecOK(y)
            /\ y.m = S.share[s].m /\ y.n = S.share[s].n
        BY <2>0, <2>3
      <3>2. Holds(S.share[s])
        BY <2>0 DEF Holds
      <3>3. KeysOK(S.share, S.keys)
        BY DEF Hand, Loose
      <3>4. KeysOK([S.share EXCEPT ![s] = y], S.keys)
        BY <3>1, <3>2, <3>3, KeysUpdate
      <3> QED BY <2>2, <3>4
    <2>8. \A t \in DOMAIN T.share : IF t \in {s} THEN InHand(T, t) ELSE ShareOK(T, t)
      <3> TAKE t \in DOMAIN T.share
      <3>1. CASE t = s
        BY <2>0, <2>2, <2>3, <2>4, <3>1 DEF InHand
      <3>2. CASE t # s
        <4>1. ShareOK(S, t) /\ S.share[t].m \in Sessions
          BY <2>0, <2>4, <3>2 DEF Hand, Loose, ListOK, RecOK
        <4>2. W(S, t) \in Wallets /\ W(T, t) = W(S, t)
          BY <2>4, <3>2, <4>1, PoolSharesAssumption DEF W
        <4>3. T.gate[W(T, t)].force = S.gate[W(S, t)].force
          BY <2>5, <4>2
        <4> QED BY <2>2, <2>4, <3>2, <4>1, <4>3 DEF ShareOK
      <3> QED BY <3>1, <3>2
    <2>9. Gates(T, {}, {s}, {}, {})
      <3> SUFFICES ASSUME NEW v \in Wallets
                   PROVE  /\ Running(T, v, {}) /\ Tasks(T, v, {s}) /\ Lines(T, v)
                          /\ Awake(T, v) /\ Serving(T, v, {})
        BY DEF Gates
      <3>1. /\ Running(S, v, {}) /\ Tasks(S, v, {s}) /\ Lines(S, v)
            /\ Awake(S, v) /\ Serving(S, v, {})
        BY DEF Hand, Loose, Gates
      <3>2. /\ Started(T.share, v) \ {s} = Started(S.share, v) \ {s}
            /\ Waiting(T.share, v) \ {s} = Waiting(S.share, v) \ {s}
            /\ Served(T.share, v) \ {s} = Served(S.share, v) \ {s}
            /\ Queued(T.share, v) \ {s} = Queued(S.share, v) \ {s}
            /\ s \in Started(T.share, v) <=> v = w
            /\ s \in Served(T.share, v) <=> v = w /\ y.fromQueue
            /\ s \in Queued(T.share, v) <=> v = w /\ y.stage = "queued"
        <4>1. /\ ListOK(S.share) /\ s \in DOMAIN S.share /\ RecOK(y) /\ y.started
              /\ y.m = S.share[s].m /\ y.stage # "done" /\ S.share[s].stage # "done"
              /\ w = WalletOf[S.share[s].m]
          BY <2>0, <2>3
        <4> HIDE DEF w, x
        <4>2. T.share = [S.share EXCEPT ![s] = y]
          BY <2>2
        <4>3. /\ Started(T.share, v) \ {s} = Started(S.share, v) \ {s}
              /\ Waiting(T.share, v) \ {s} = Waiting(S.share, v) \ {s}
              /\ Served(T.share, v) \ {s} = Served(S.share, v) \ {s}
              /\ Queued(T.share, v) \ {s} = Queued(S.share, v) \ {s}
              /\ s \in Started(T.share, v) <=> v = WalletOf[S.share[s].m] /\ y.started
              /\ s \in Served(T.share, v) <=> v = WalletOf[S.share[s].m] /\ y.fromQueue
              /\ s \in Queued(T.share, v) <=> v = WalletOf[S.share[s].m] /\ y.stage = "queued"
          BY <4>1, <4>2, WorkUpdate
        <4> QED BY <4>1, <4>3
      <3>3. /\ s \notin Started(S.share, v)
            /\ s \in Served(S.share, v) <=> v = w /\ x.fromQueue
            /\ s \notin Queued(S.share, v)
        BY <1>2, <2>0 DEF Started, Served, Queued, Act
      <3>4. /\ Served(T.share, v) = Served(S.share, v)
            /\ Queued(T.share, v) = Queued(S.share, v)
        BY <2>0, <2>3, <3>2, <3>3
      <3>5. Running(T, v, {})
        <4>1. CASE v = w
          <5>1. Started(T.share, v) \ {} = Started(S.share, v) \cup {s}
            BY <3>2, <3>3, <4>1
          <5>2. Started(S.share, v) \ {} = Started(S.share, v)
            OBVIOUS
          <5>3. Cardinality(Started(S.share, v) \cup {s}) = Cardinality(Started(S.share, v)) + 1
            BY <2>0, <3>3, Finite, FS_AddElement
          <5> QED BY <2>5, <3>1, <4>1, <5>1, <5>2, <5>3 DEF Running
        <4>2. CASE v # w
          <5>1. Started(T.share, v) = Started(S.share, v)
            BY <3>2, <3>3, <4>2
          <5> QED BY <2>5, <3>1, <4>2, <5>1 DEF Running
        <4> QED BY <4>1, <4>2
      <3>6. T.gate[v].queue = S.gate[v].queue /\ T.gate[v].draining = S.gate[v].draining
        BY <2>5
      <3>7. Tasks(T, v, {s}) /\ Lines(T, v) /\ Serving(T, v, {})
        BY <2>2, <3>1, <3>2, <3>4, <3>6 DEF Tasks, Lines, Serving
      <3>8. Awake(T, v)
        <4>1. CASE v = w
          <5>1. S.gate[w].inFlight \in Nat
            BY <2>0, <3>1, <4>1, Finite, FS_CardinalityType, FS_Subset DEF Running
          <5> QED BY <2>5, <4>1, <5>1 DEF Awake
        <4>2. CASE v # w
          BY <2>5, <3>1, <4>2 DEF Awake
        <4> QED BY <4>1, <4>2
      <3> QED BY <3>5, <3>7, <3>8
    <2> QED BY <2>0, <2>1, <2>2, <2>4, <2>6, <2>7, <2>8, <2>9 DEF Hand, Loose, y
  <1> QED BY <1>1, <1>2

LEMMA MarkFailedKeeps ==
    ASSUME NEW S, NEW s, Hand(S, s), NEW m \in Sessions
    PROVE  Hand(MarkFailed(S, m), s) /\ MarkFailed(S, m).share = S.share
  <1> DEFINE w == WalletOf[m]
             T == [S EXCEPT !.gate[w].force = @ \/ HasGeneration(S.gate[w]),
                            !.suspects = @ \cup ToSet(S.gate[w].queue)]
  <1>0. /\ Typed(S) /\ ListOK(S.share) /\ s \in DOMAIN S.share /\ w \in Wallets
        /\ S.share[s].stage \notin {"queued", "done"} /\ S.share[s].answer # "true"
        /\ s \in S.suspects => S.share[s].meets \cap Chains = {}
        /\ DOMAIN S = Fields
    BY HandIs, PoolSharesAssumption
  <1>1. /\ DOMAIN T = Fields /\ T.wal = S.wal /\ T.keys = S.keys /\ T.share = S.share
        /\ T.asks = S.asks /\ T.suspects = S.suspects \cup ToSet(S.gate[w].queue)
        /\ T.gate = [S.gate EXCEPT ![w].force = @ \/ HasGeneration(S.gate[w])]
    BY <1>0 DEF Fields
  <1> HIDE DEF T
  <1>2. /\ GateOK(T.gate)
        /\ \A v \in Wallets : /\ T.gate[v].inFlight = S.gate[v].inFlight
                              /\ T.gate[v].queue = S.gate[v].queue
                              /\ T.gate[v].draining = S.gate[v].draining
                              /\ S.gate[v].force => T.gate[v].force
        /\ S.gate[w].queue # <<>> => T.gate[w].force
    <2> DEFINE g == [S.gate[w] EXCEPT !.force = @ \/ HasGeneration(S.gate[w])]
    <2>1. DOMAIN S.gate = Wallets /\ DOMAIN S.gate[w] = GateFields /\ S.gate[w].queue \in Seq(Nat)
      BY <1>0 DEF Typed, GateOK
    <2>2. /\ DOMAIN g = GateFields /\ g.inFlight = S.gate[w].inFlight
          /\ g.queue = S.gate[w].queue /\ g.draining = S.gate[w].draining
      BY <2>1 DEF GateFields
    <2>3. g.force <=> S.gate[w].force \/ HasGeneration(S.gate[w])
      BY <2>1 DEF GateFields
    <2>4. T.gate = [S.gate EXCEPT ![w] = g]
      BY <1>1
    <2> HIDE DEF g
    <2>5. T.gate[w] = g /\ \A v \in Wallets : v # w => T.gate[v] = S.gate[v]
      BY <1>0, <2>1, <2>4
    <2>6. GateOK(T.gate)
      <3>1. T.gate = [v \in Wallets |-> T.gate[v]]
        BY <2>1, <2>4
      <3>2. \A v \in Wallets : DOMAIN T.gate[v] = GateFields /\ T.gate[v].queue \in Seq(Nat)
        BY <1>0, <2>1, <2>2, <2>5 DEF GateOK, Typed
      <3> QED BY <3>1, <3>2 DEF GateOK
    <2>7. S.gate[w].queue # <<>> => T.gate[w].force
      BY <2>3, <2>5 DEF HasGeneration
    <2>8. S.gate[w].force => T.gate[w].force
      BY <2>3, <2>5
    <2> QED BY <2>2, <2>5, <2>6, <2>7, <2>8
  <1>3. ToSet(S.gate[w].queue) = Queued(S.share, w)
    BY <1>0 DEF Hand, Loose, Gates, Lines
  <1>4. Typed(T)
    BY <1>0, <1>1, <1>2, <1>3 DEF Typed, Queued, Act
  <1>5. KeysOK(T.share, T.keys)
    BY <1>1 DEF Hand, Loose
  <1>6. \A t \in DOMAIN T.share : IF t \in {s} THEN InHand(T, t) ELSE ShareOK(T, t)
    <2> TAKE t \in DOMAIN T.share
    <2>1. CASE t = s
      <3>1. s \notin Queued(S.share, w)
        BY <1>0 DEF Queued
      <3> QED BY <1>0, <1>1, <1>3, <2>1, <3>1 DEF InHand
    <2>2. CASE t # s
      <3>1. ShareOK(S, t) /\ S.share[t].m \in Sessions
        BY <1>0, <1>1, <2>2 DEF Hand, Loose, ListOK, RecOK
      <3>2. W(S, t) \in Wallets /\ W(T, t) = W(S, t) /\ T.share[t] = S.share[t]
        BY <1>1, <3>1, PoolSharesAssumption DEF W
      <3>3. CASE t \in S.suspects
        BY <1>2, <2>2, <3>1, <3>2, <3>3 DEF ShareOK
      <3>4. CASE t \in Queued(S.share, w)
        <4>1. S.share[t].stage = "queued" /\ W(S, t) = w
          BY <3>4 DEF Queued, Act, W
        <4>2. S.gate[w].queue # <<>>
          BY <1>3, <3>4 DEF ToSet
        <4>3. Local(S.share[t])
          BY <3>1 DEF ShareOK
        <4>4. Checked(S.share[t]) /\ T.gate[w].force
          BY <1>2, <4>1, <4>2, <4>3 DEF Checked, Local
        <4> QED BY <2>2, <3>2, <4>1, <4>3, <4>4 DEF ShareOK
      <3>5. CASE t \notin S.suspects /\ t \notin Queued(S.share, w)
        BY <1>1, <1>3, <2>2, <3>1, <3>2, <3>5 DEF ShareOK
      <3> QED BY <3>3, <3>4, <3>5, <2>2
    <2> QED BY <2>1, <2>2
  <1>7. Gates(T, {}, {s}, {}, {})
    <2> SUFFICES ASSUME NEW v \in Wallets
                 PROVE  /\ Running(T, v, {}) /\ Tasks(T, v, {s}) /\ Lines(T, v)
                        /\ Awake(T, v) /\ Serving(T, v, {})
      BY DEF Gates
    <2>1. /\ Running(S, v, {}) /\ Tasks(S, v, {s}) /\ Lines(S, v)
          /\ Awake(S, v) /\ Serving(S, v, {})
      BY DEF Hand, Loose, Gates
    <2> QED BY <1>1, <1>2, <2>1 DEF Running, Tasks, Lines, Awake, Serving
  <1>8. Loose(T, {s}, {}, {}, {})
    BY <1>4, <1>5, <1>6, <1>7 DEF Loose
  <1>9. MarkFailed(S, m) = ClearTrust(T, m)
    BY DEF MarkFailed, T
  <1>10. Quiet(T, ClearTrust(T, m))
    BY <1>4, ClearTrustIsQuiet
  <1>11. Loose(ClearTrust(T, m), {s}, {}, {}, {}) /\ ClearTrust(T, m).share = S.share
    BY <1>1, <1>8, <1>10, QuietKeeps DEF Quiet
  <1> QED BY <1>0, <1>9, <1>11 DEF Hand

-----------------------------------------------------------------------------
(* The shares of a set are answered *)

LEMMA SettleIs ==
    ASSUME NEW S, Typed(S), NEW ids, NEW result, NEW T, T = Settle(S, ids, result)
    PROVE  /\ DOMAIN T = Fields /\ T.wal = S.wal /\ T.gate = S.gate
           /\ T.suspects = S.suspects /\ T.asks = S.asks /\ T.sess = S.sess
           /\ DOMAIN T.keys = {"job", "template"}
  BY DEF Settle, Typed, Fields

LEMMA SettledList ==
    ASSUME NEW S, Typed(S), NEW ids, NEW result, NEW T, T = Settle(S, ids, result)
    PROVE  /\ ListOK(T.share) /\ DOMAIN T.share = DOMAIN S.share
           /\ \A t \in DOMAIN S.share : t \notin ids => T.share[t] = S.share[t]
           /\ \A t \in DOMAIN S.share \cap ids :
                /\ T.share[t].stage = "done" /\ T.share[t].answer = result
                /\ T.share[t].m = S.share[t].m /\ T.share[t].n = S.share[t].n
                /\ T.share[t].meets = S.share[t].meets /\ T.share[t].data = S.share[t].data
                /\ T.share[t].started = S.share[t].started
                /\ T.share[t].sub = S.share[t].sub
                /\ T.share[t].verified = S.share[t].verified
  <1> DEFINE Done(x) == [x EXCEPT !.stage = "done", !.answer = result,
                                  !.forced = FALSE, !.tries = 0]
  <1>1. ASSUME NEW x, RecOK(x)
        PROVE  /\ RecOK(Done(x)) /\ Done(x).stage = "done" /\ Done(x).answer = result
               /\ Done(x).m = x.m /\ Done(x).n = x.n /\ Done(x).meets = x.meets
               /\ Done(x).data = x.data /\ Done(x).started = x.started
               /\ Done(x).sub = x.sub /\ Done(x).verified = x.verified
    BY <1>1 DEF RecOK, ShareFields
  <1>2. PICK k \in Nat : S.share = [i \in 1..k |-> S.share[i]]
    BY DEF Typed, ListOK
  <1>3. \A t \in DOMAIN S.share : RecOK(S.share[t])
    BY DEF Typed, ListOK
  <1>4. T.share = [s \in DOMAIN S.share |-> IF s \in ids THEN Done(S.share[s]) ELSE S.share[s]]
    BY DEF Settle, Typed, Fields
  <1> HIDE DEF Done
  <1>5. /\ DOMAIN T.share = DOMAIN S.share
        /\ \A t \in DOMAIN S.share : t \notin ids => T.share[t] = S.share[t]
        /\ \A t \in DOMAIN S.share \cap ids : T.share[t] = Done(S.share[t])
    BY <1>4
  <1>6. DOMAIN S.share = 1..k
    BY <1>2
  <1>7. T.share = [i \in 1..k |-> T.share[i]]
    BY <1>4, <1>6
  <1>8. \A t \in DOMAIN T.share : RecOK(T.share[t])
    BY <1>1, <1>3, <1>5
  <1>9. ListOK(T.share)
    BY <1>7, <1>8 DEF ListOK
  <1> QED BY <1>1, <1>3, <1>5, <1>9

LEMMA SettledKeys ==
    ASSUME NEW S, Typed(S), KeysOK(S.share, S.keys), NEW ids,
           NEW result \in {"true", "false", "null"}, NEW T, T = Settle(S, ids, result),
           ids \subseteq DOMAIN S.share, \A t \in ids : S.share[t].stage # "done"
    PROVE  KeysOK(T.share, T.keys)
  <1>1. /\ DOMAIN T.share = DOMAIN S.share
        /\ \A t \in DOMAIN S.share : t \notin ids => T.share[t] = S.share[t]
        /\ \A t \in ids :
             /\ T.share[t].stage = "done" /\ T.share[t].answer = result
             /\ T.share[t].m = S.share[t].m /\ T.share[t].n = S.share[t].n
    BY SettledList
  <1>2. /\ T.keys.job = IF result = "null"
                        THEN S.keys.job \ {<<S.share[s].m, S.share[s].n>> : s \in ids}
                        ELSE S.keys.job
        /\ T.keys.template = IF result = "true" THEN S.keys.template
                             ELSE S.keys.template \ {S.share[s].n : s \in ids}
    BY DEF Settle, Typed, Fields
  <1>3. \A t \in DOMAIN S.share : /\ T.share[t].m = S.share[t].m /\ T.share[t].n = S.share[t].n
                                  /\ Holds(T.share[t]) => Holds(S.share[t])
                                  /\ Holds(T.share[t]) /\ result # "true" => t \notin ids
    BY <1>1 DEF Holds
  <1>4. \A t \in ids : Holds(S.share[t])
    BY DEF Holds
  <1> SUFFICES ASSUME NEW s \in DOMAIN S.share, Holds(T.share[s])
               PROVE  /\ <<S.share[s].m, S.share[s].n>> \in T.keys.job
                      /\ SharedNonces => S.share[s].n \in T.keys.template
                      /\ \A t \in DOMAIN S.share :
                           s # t /\ Holds(T.share[t]) /\ S.share[s].n = S.share[t].n =>
                               S.share[s].m # S.share[t].m /\ ~SharedNonces
    BY <1>1, <1>3 DEF KeysOK
  <1>5. /\ <<S.share[s].m, S.share[s].n>> \in S.keys.job
        /\ SharedNonces => S.share[s].n \in S.keys.template
        /\ \A t \in DOMAIN S.share :
             s # t /\ Holds(S.share[t]) /\ S.share[s].n = S.share[t].n =>
                 S.share[s].m # S.share[t].m /\ ~SharedNonces
    BY <1>3 DEF KeysOK
  <1>6. <<S.share[s].m, S.share[s].n>> \in T.keys.job
    <2>1. CASE result # "null"
      BY <1>2, <1>5, <2>1
    <2>2. CASE result = "null"
      <3>1. s \notin ids
        BY <1>3, <2>2
      <3>2. \A t \in ids : <<S.share[t].m, S.share[t].n>> # <<S.share[s].m, S.share[s].n>>
        BY <1>4, <1>5, <3>1
      <3> QED BY <1>2, <1>5, <2>2, <3>2
    <2> QED BY <2>1, <2>2
  <1>7. SharedNonces => S.share[s].n \in T.keys.template
    <2>1. CASE result = "true"
      BY <1>2, <1>5, <2>1
    <2>2. CASE result # "true" /\ SharedNonces
      <3>1. s \notin ids
        BY <1>3, <2>2
      <3>2. \A t \in ids : S.share[t].n # S.share[s].n
        BY <1>4, <1>5, <2>2, <3>1
      <3> QED BY <1>2, <1>5, <2>2, <3>2
    <2> QED BY <2>1, <2>2
  <1> QED BY <1>3, <1>5, <1>6, <1>7

\* The work of wallet w among the shares r is that among q without `ids'.
Less(q, r, w, ids) ==
    /\ Started(r, w) = Started(q, w) \ ids
    /\ Waiting(r, w) = Waiting(q, w) \ ids
    /\ Served(r, w) = Served(q, w) \ ids
    /\ Queued(r, w) = Queued(q, w) \ ids

LEMMA SettledWork ==
    ASSUME NEW S, NEW ids, NEW result, NEW T, NEW w, Typed(S), T = Settle(S, ids, result)
    PROVE  Less(S.share, T.share, w, ids)
  <1>1. /\ DOMAIN T.share = DOMAIN S.share
        /\ \A t \in DOMAIN S.share : t \notin ids => T.share[t] = S.share[t]
        /\ \A t \in DOMAIN S.share : t \in ids => T.share[t].stage = "done"
    BY SettledList
  <1>2. Act(T.share, w) = Act(S.share, w) \ ids /\ Act(S.share, w) \subseteq DOMAIN S.share
    BY <1>1 DEF Act
  <1> QED BY <1>1, <1>2 DEF Started, Waiting, Served, Queued, Less

LEMMA AnsweredOK ==
    ASSUME NEW x, x.stage = "done",
           x.answer = "true" => Submitted(x) /\ Genuine(x)
    PROVE  Local(x)
  BY DEF Local

-----------------------------------------------------------------------------
(* The queue of a gate *)

LEMMA TailIs ==
    ASSUME NEW q \in Seq(Nat), q # <<>>, NoRepeats(q)
    PROVE  /\ Tail(q) \in Seq(Nat) /\ ToSet(Tail(q)) = ToSet(q) \ {Head(q)}
           /\ NoRepeats(Tail(q)) /\ Head(q) \in ToSet(q)
  <1>1. /\ Len(q) \in Nat /\ Len(q) > 0 /\ DOMAIN q = 1..Len(q) /\ Head(q) = q[1]
        /\ Tail(q) \in Seq(Nat) /\ Len(Tail(q)) = Len(q) - 1
        /\ \A i \in 1..Len(q) - 1 : Tail(q)[i] = q[i + 1]
    OBVIOUS
  <1>2. DOMAIN Tail(q) = 1..Len(q) - 1
    BY <1>1
  <1>3. ToSet(Tail(q)) = ToSet(q) \ {Head(q)}
    <2>1. ASSUME NEW e \in ToSet(Tail(q)) PROVE e \in ToSet(q) \ {Head(q)}
      <3>1. PICK i \in 1..Len(q) - 1 : e = q[i + 1]
        BY <1>1, <1>2, <2>1 DEF ToSet
      <3>2. i + 1 \in 1..Len(q) /\ i + 1 # 1 /\ 1 \in 1..Len(q)
        BY <1>1
      <3>3. e # Head(q)
        BY <1>1, <3>1, <3>2 DEF NoRepeats
      <3> QED BY <1>1, <3>1, <3>2, <3>3 DEF ToSet
    <2>2. ASSUME NEW e \in ToSet(q), e # Head(q) PROVE e \in ToSet(Tail(q))
      <3>1. PICK i \in 1..Len(q) : e = q[i]
        BY <1>1, <2>2 DEF ToSet
      <3>2. i # 1
        BY <1>1, <2>2, <3>1
      <3>3. i - 1 \in 1..Len(q) - 1 /\ Tail(q)[i - 1] = e
        BY <1>1, <3>1, <3>2
      <3> QED BY <1>2, <3>3 DEF ToSet
    <2> QED BY <2>1, <2>2
  <1>4. NoRepeats(Tail(q))
    <2> SUFFICES ASSUME NEW i \in 1..Len(Tail(q)), NEW j \in 1..Len(Tail(q)),
                        Tail(q)[i] = Tail(q)[j]
                 PROVE  i = j
      BY DEF NoRepeats
    <2>1. q[i + 1] = q[j + 1] /\ i + 1 \in 1..Len(q) /\ j + 1 \in 1..Len(q)
      BY <1>1
    <2>2. i + 1 = j + 1
      BY <2>1 DEF NoRepeats
    <2> QED BY <1>1, <2>2
  <1>5. Head(q) \in ToSet(q)
    BY <1>1 DEF ToSet
  <1> QED BY <1>1, <1>3, <1>4, <1>5

LEMMA EmptyQueue ==
    ToSet(<<>>) = {} /\ NoRepeats(<<>>)
  BY DEF ToSet, NoRepeats

LEMMA AppendIs ==
    ASSUME NEW q \in Seq(Nat), NEW s \in Nat, s \notin ToSet(q), NoRepeats(q)
    PROVE  /\ Append(q, s) \in Seq(Nat) /\ ToSet(Append(q, s)) = ToSet(q) \cup {s}
           /\ NoRepeats(Append(q, s)) /\ Append(q, s) # <<>>
  <1> DEFINE r == Append(q, s)
  <1>1. /\ Len(q) \in Nat /\ DOMAIN q = 1..Len(q)
        /\ r \in Seq(Nat) /\ Len(r) = Len(q) + 1 /\ DOMAIN r = 1..Len(q) + 1
        /\ \A i \in 1..Len(q) : r[i] = q[i]
        /\ r[Len(q) + 1] = s
    OBVIOUS
  <1> HIDE DEF r
  <1>2. ToSet(r) = ToSet(q) \cup {s}
    <2>1. ASSUME NEW e \in ToSet(r) PROVE e \in ToSet(q) \cup {s}
      <3>1. PICK i \in 1..Len(q) + 1 : e = r[i]
        BY <1>1, <2>1 DEF ToSet
      <3>2. CASE i = Len(q) + 1
        BY <1>1, <3>1, <3>2
      <3>3. CASE i \in 1..Len(q)
        BY <1>1, <3>1, <3>3 DEF ToSet
      <3> QED BY <1>1, <3>2, <3>3
    <2>2. s \in ToSet(r)
      <3>1. Len(q) + 1 \in DOMAIN r
        BY <1>1
      <3> QED BY <1>1, <3>1 DEF ToSet
    <2>3. ASSUME NEW e \in ToSet(q) PROVE e \in ToSet(r)
      <3>1. PICK i \in 1..Len(q) : e = q[i]
        BY <1>1, <2>3 DEF ToSet
      <3>2. i \in DOMAIN r /\ r[i] = e
        BY <1>1, <3>1
      <3> QED BY <3>2 DEF ToSet
    <2> QED BY <2>1, <2>2, <2>3
  <1>3. NoRepeats(r)
    <2> SUFFICES ASSUME NEW i \in 1..Len(r), NEW j \in 1..Len(r), r[i] = r[j]
                 PROVE  i = j
      BY DEF NoRepeats
    <2>1. \A k \in 1..Len(q) : r[k] # s
      BY <1>1 DEF ToSet
    <2>2. CASE i \in 1..Len(q) /\ j \in 1..Len(q)
      BY <1>1, <2>2 DEF NoRepeats
    <2>3. CASE i = Len(q) + 1 \/ j = Len(q) + 1
      BY <1>1, <2>1, <2>3
    <2> QED BY <1>1, <2>2, <2>3
  <1>4. r # <<>>
    BY <1>1
  <1> QED BY <1>1, <1>2, <1>3, <1>4 DEF r

\* T is S with the gate g for wallet w.
Regated(S, T, w, g) ==
    /\ DOMAIN T = Fields
    /\ T.wal = S.wal /\ T.keys = S.keys /\ T.share = S.share
    /\ T.suspects = S.suspects /\ T.asks = S.asks
    /\ GateOK(T.gate)
    /\ T.gate[w] = g /\ \A v \in Wallets : v # w => T.gate[v] = S.gate[v]

LEMMA RegateIs ==
    ASSUME NEW S, Typed(S), NEW w \in Wallets, NEW g, DOMAIN g = GateFields,
           g.queue \in Seq(Nat), NEW T, T = [S EXCEPT !.gate[w] = g]
    PROVE  Regated(S, T, w, g)
  <1>1. /\ DOMAIN T = Fields /\ T.wal = S.wal /\ T.keys = S.keys /\ T.share = S.share
        /\ T.suspects = S.suspects /\ T.asks = S.asks /\ T.gate = [S.gate EXCEPT ![w] = g]
    BY DEF Typed, Fields
  <1>2. S.gate = [v \in Wallets |-> S.gate[v]]
    BY DEF Typed, GateOK
  <1>3. T.gate[w] = g /\ \A v \in Wallets : v # w => T.gate[v] = S.gate[v]
    BY <1>1, <1>2
  <1>4. T.gate = [v \in Wallets |-> T.gate[v]]
    BY <1>1, <1>2
  <1>5. GateOK(T.gate)
    BY <1>3, <1>4 DEF GateOK, Typed
  <1> QED BY <1>1, <1>3, <1>5 DEF Regated

LEMMA RegatedTyped ==
    ASSUME NEW S, Typed(S), NEW T, NEW w, NEW g, Regated(S, T, w, g)
    PROVE  Typed(T)
  BY DEF Typed, Regated

\* The gate of a wallet without running verifications is closed and its queue
\* answered.
LEMMA GateCloses ==
    ASSUME NEW S, NEW w \in Wallets, NEW p, NEW f, NEW R, NEW T, Loose(S, p, f, {w}, {}),
           p \subseteq DOMAIN S.share, S.gate[w].inFlight = 0, ~S.gate[w].draining,
           Regated(S, R, w, NewGate), T = Settle(R, ToSet(S.gate[w].queue), "null")
    PROVE  /\ Loose(T, p, f, {}, {})
           /\ \A t \in p : T.share[t] = S.share[t]
           /\ DOMAIN T.share = DOMAIN S.share /\ T.suspects = S.suspects /\ T.asks = S.asks
  <1> DEFINE ids == ToSet(S.gate[w].queue)
  <1>0. Typed(S) /\ DOMAIN S = Fields /\ ListOK(S.share) /\ KeysOK(S.share, S.keys)
    BY DEF Loose, Typed
  <1>1. /\ DOMAIN R = Fields /\ R.wal = S.wal /\ R.keys = S.keys /\ R.share = S.share
        /\ R.suspects = S.suspects /\ R.asks = S.asks
    BY DEF Regated
  <1>2. /\ R.gate[w] = NewGate /\ \A v \in Wallets : v # w => R.gate[v] = S.gate[v]
        /\ GateOK(R.gate)
    BY DEF Regated
  <1>3. Typed(R)
    BY <1>0, RegatedTyped
  <1>4. T = Settle(R, ids, "null")
    OBVIOUS
  <1>5. ids = Queued(S.share, w)
    BY DEF Loose, Gates, Lines
  <1> HIDE DEF ids
  <1>6. \A t \in ids : t \in DOMAIN S.share /\ S.share[t].stage = "queued" /\ W(S, t) = w
    BY <1>5 DEF Queued, Act, W
  <1>7. /\ DOMAIN T = Fields /\ T.wal = S.wal /\ T.gate = R.gate
        /\ T.suspects = S.suspects /\ T.asks = S.asks /\ DOMAIN T.keys = {"job", "template"}
    BY <1>1, <1>3, <1>4, SettleIs
  <1>8. /\ ListOK(T.share) /\ DOMAIN T.share = DOMAIN S.share
        /\ \A t \in DOMAIN S.share : t \notin ids => T.share[t] = S.share[t]
        /\ \A t \in ids : T.share[t].stage = "done" /\ T.share[t].answer = "null"
    BY <1>1, <1>3, <1>4, <1>6, SettledList
  <1>9. KeysOK(T.share, T.keys)
    BY <1>0, <1>1, <1>3, <1>4, <1>6, SettledKeys
  <1>10. Typed(T)
    BY <1>0, <1>2, <1>7, <1>8 DEF Typed
  <1>11. \A t \in p : t \notin ids
    BY <1>6 DEF Loose, InHand
  <1>12. \A t \in DOMAIN T.share : IF t \in p THEN InHand(T, t) ELSE ShareOK(T, t)
    <2> TAKE t \in DOMAIN T.share
    <2>0. IF t \in p THEN InHand(S, t) ELSE ShareOK(S, t)
      BY <1>8 DEF Loose
    <2>1. CASE t \in p
      BY <1>7, <1>8, <1>11, <2>0, <2>1 DEF InHand
    <2>2. CASE t \in ids
      <3>1. Local(T.share[t])
        BY <1>8, <2>2, AnsweredOK
      <3>2. Checked(T.share[t])
        BY <1>8, <2>2 DEF Checked
      <3> QED BY <1>8, <1>11, <2>2, <3>1, <3>2 DEF ShareOK
    <2>3. CASE t \notin p /\ t \notin ids
      <3>1. ShareOK(S, t) /\ T.share[t] = S.share[t] /\ RecOK(S.share[t])
        BY <1>0, <1>8, <2>0, <2>3 DEF ListOK
      <3>2. W(T, t) = W(S, t) /\ W(S, t) \in Wallets
        BY <3>1, PoolSharesAssumption DEF W, RecOK
      <3>3. S.share[t].stage = "queued" => W(S, t) # w
        BY <1>5, <1>8, <2>3 DEF Queued, Act, W
      <3> QED BY <1>2, <1>7, <2>3, <3>1, <3>2, <3>3 DEF ShareOK
    <2> QED BY <2>1, <2>2, <2>3
  <1>13. Gates(T, f, p, {}, {})
    <2> SUFFICES ASSUME NEW v \in Wallets
                 PROVE  /\ Running(T, v, f) /\ Tasks(T, v, p) /\ Lines(T, v)
                        /\ Awake(T, v) /\ Serving(T, v, {})
      BY DEF Gates
    <2>1. /\ Running(S, v, f) /\ Tasks(S, v, p) /\ Lines(S, v)
          /\ v = w \/ Awake(S, v)
          /\ Serving(S, v, {})
      BY DEF Loose, Gates
    <2>2. /\ Started(T.share, v) = Started(S.share, v) \ ids
          /\ Waiting(T.share, v) = Waiting(S.share, v) \ ids
          /\ Served(T.share, v) = Served(S.share, v) \ ids
          /\ Queued(T.share, v) = Queued(S.share, v) \ ids
      <3>1. Less(R.share, T.share, v, ids)
        BY <1>3, <1>4, SettledWork
      <3> QED BY <1>1, <3>1 DEF Less
    <2>3. \A t \in ids : ~S.share[t].started /\ ~S.share[t].fromQueue
      <3> TAKE t \in ids
      <3>1. t \in DOMAIN S.share /\ t \notin p /\ S.share[t].stage = "queued"
        BY <1>6, <1>11
      <3>2. Local(S.share[t])
        BY <3>1 DEF Loose, ShareOK
      <3> QED BY <3>1, <3>2 DEF Local
    <2>4. /\ Started(T.share, v) = Started(S.share, v)
          /\ Waiting(T.share, v) = Waiting(S.share, v)
          /\ Served(T.share, v) = Served(S.share, v)
      BY <1>6, <2>2, <2>3 DEF Started, Waiting, Served
    <2>5. Tasks(T, v, p)
      BY <1>7, <2>1, <2>4 DEF Tasks
    <2>6. CASE v = w
      <3>1. T.gate[v] = NewGate
        BY <1>2, <1>7, <2>6
      <3>2. T.gate[v].inFlight = 0 /\ T.gate[v].queue = <<>> /\ ~T.gate[v].draining
        BY <3>1 DEF NewGate
      <3>3. Queued(T.share, v) = {}
        BY <1>5, <2>2, <2>6
      <3>4. Lines(T, v)
        BY <3>2, <3>3, EmptyQueue DEF Lines
      <3>5. Running(T, v, f)
        <4>1. S.gate[v].inFlight = Cardinality(Started(S.share, v) \ f) /\ S.gate[v].inFlight = 0
          BY <2>1, <2>6 DEF Running
        <4> QED BY <2>4, <3>2, <4>1 DEF Running
      <3>6. Awake(T, v)
        BY <3>2 DEF Awake
      <3>7. Serving(T, v, {})
        BY <2>1, <2>4, <2>6, <3>2 DEF Serving
      <3> QED BY <2>5, <3>4, <3>5, <3>6, <3>7
    <2>7. CASE v # w
      <3>1. T.gate[v] = S.gate[v]
        BY <1>2, <1>7, <2>7
      <3>2. Queued(T.share, v) = Queued(S.share, v)
        BY <1>6, <2>2, <2>7 DEF Queued, Act, W
      <3> QED BY <2>1, <2>4, <2>5, <2>7, <3>1, <3>2 DEF Running, Lines, Awake, Serving
    <2> QED BY <2>6, <2>7
  <1>14. \A t \in p : T.share[t] = S.share[t]
    BY <1>8, <1>11
  <1> QED BY <1>7, <1>8, <1>9, <1>10, <1>12, <1>13, <1>14 DEF Loose


\* Wallets other than w keep what is allowed of their gates.
Elsewhere(S, w, f, h, a, b, d, e) ==
    \A v \in Wallets : v # w => /\ Started(S.share, v) \ h = Started(S.share, v) \ f
                                /\ v \in a => v \in b
                                /\ v \in d <=> v \in e

\* The gate of wallet w changes, its queue stays.
LEMMA RegateKeeps ==
    ASSUME NEW S, NEW T, NEW w \in Wallets, NEW g, NEW p, NEW f, NEW a, NEW d,
           Loose(S, p, f, a, d), Regated(S, T, w, g), g.queue = S.gate[w].queue,
           g.queue # <<>> /\ S.gate[w].force => g.force,
           NEW h, NEW b, NEW e,
           g.inFlight = Cardinality(Started(S.share, w) \ h),
           w \in b \/ Awake(T, w), Serving(T, w, e),
           Elsewhere(S, w, f, h, a, b, d, e)
    PROVE  Loose(T, p, h, b, e)
  <1>0. /\ Typed(S) /\ ListOK(S.share) /\ KeysOK(S.share, S.keys)
        /\ T.wal = S.wal /\ T.share = S.share /\ T.keys = S.keys
        /\ T.suspects = S.suspects /\ T.asks = S.asks
        /\ T.gate[w] = g /\ \A v \in Wallets : v # w => T.gate[v] = S.gate[v]
    BY DEF Loose, Typed, Regated
  <1>1. Typed(T)
    BY <1>0, RegatedTyped
  <1>2. KeysOK(T.share, T.keys)
    BY <1>0
  <1>3. \A t \in DOMAIN T.share : IF t \in p THEN InHand(T, t) ELSE ShareOK(T, t)
    <2> TAKE t \in DOMAIN T.share
    <2>0. IF t \in p THEN InHand(S, t) ELSE ShareOK(S, t)
      BY <1>0 DEF Loose
    <2>1. CASE t \in p
      BY <1>0, <2>0, <2>1 DEF InHand
    <2>2. CASE t \notin p
      <3>1. ShareOK(S, t) /\ RecOK(S.share[t]) /\ t \in DOMAIN S.share
        BY <1>0, <2>0, <2>2 DEF ListOK
      <3>2. W(T, t) = W(S, t) /\ W(S, t) \in Wallets
        BY <1>0, <3>1, PoolSharesAssumption DEF W, RecOK
      <3>3. S.share[t].stage = "queued" /\ W(S, t) = w => g.queue # <<>>
        <4>1. ToSet(g.queue) = Queued(S.share, w)
          BY DEF Loose, Gates, Lines
        <4>2. S.share[t].stage = "queued" /\ W(S, t) = w => t \in Queued(S.share, w)
          BY <3>1 DEF Queued, Act, W
        <4> QED BY <4>1, <4>2, EmptyQueue
      <3>4. /\ Local(S.share[t])
            /\ t \in S.suspects => /\ Checked(S.share[t])
                                   /\ S.share[t].stage = "queued" => S.gate[W(S, t)].force
        BY <3>1 DEF ShareOK
      <3>5. t \in S.suspects /\ S.share[t].stage = "queued" => T.gate[W(T, t)].force
        BY <1>0, <3>2, <3>3, <3>4
      <3>6. ShareOK(T, t)
        BY <1>0, <3>4, <3>5 DEF ShareOK
      <3> QED BY <2>2, <3>6
    <2> QED BY <2>1, <2>2
  <1>4. Gates(T, h, p, b, e)
    <2> SUFFICES ASSUME NEW v \in Wallets
                 PROVE  /\ Running(T, v, h) /\ Tasks(T, v, p) /\ Lines(T, v)
                        /\ v \in b \/ Awake(T, v)
                        /\ Serving(T, v, e)
      BY DEF Gates
    <2>1. /\ Running(S, v, f) /\ Tasks(S, v, p) /\ Lines(S, v)
          /\ v \in a \/ Awake(S, v)
          /\ Serving(S, v, d)
      BY DEF Loose, Gates
    <2>2. T.gate[v].queue = S.gate[v].queue
      BY <1>0
    <2>3. Tasks(T, v, p) /\ Lines(T, v)
      BY <1>0, <2>1, <2>2 DEF Tasks, Lines
    <2>4. CASE v = w
      BY <1>0, <2>3, <2>4 DEF Running
    <2>5. CASE v # w
      <3>1. T.gate[v] = S.gate[v] /\ Started(S.share, v) \ h = Started(S.share, v) \ f
        BY <1>0, <2>5 DEF Elsewhere
      <3>2. Running(T, v, h)
        BY <1>0, <2>1, <3>1 DEF Running
      <3>3. v \in b \/ Awake(T, v)
        BY <2>1, <2>5, <3>1 DEF Awake, Elsewhere
      <3>4. Serving(T, v, e)
        BY <1>0, <2>1, <2>5, <3>1 DEF Serving, Elsewhere
      <3> QED BY <2>3, <3>2, <3>3, <3>4
    <2> QED BY <2>4, <2>5
  <1> QED BY <1>1, <1>2, <1>3, <1>4 DEF Loose

\* The head h of the queue of wallet w is scheduled, with the record y; g is
\* the wallet's gate after it.
Scheduled(S, T, w, h, y, g) ==
    /\ DOMAIN T = Fields /\ T.wal = S.wal /\ T.keys = S.keys
    /\ T.suspects = S.suspects /\ T.asks = S.asks
    /\ T.share = [S.share EXCEPT ![h] = y]
    /\ GateOK(T.gate) /\ T.gate[w] = g /\ \A v \in Wallets : v # w => T.gate[v] = S.gate[v]
    /\ ToSet(g.queue) = ToSet(S.gate[w].queue) \ {h} /\ NoRepeats(g.queue)
    /\ g.draining /\ g.force = S.gate[w].force /\ g.inFlight = S.gate[w].inFlight
    /\ h \in ToSet(S.gate[w].queue)
    /\ RecOK(y) /\ y.m = S.share[h].m /\ y.n = S.share[h].n /\ y.stage = "scheduled"
    /\ y.meets = S.share[h].meets /\ y.kind = S.share[h].kind /\ y.answer = S.share[h].answer
    /\ y.started = S.share[h].started /\ y.fromQueue /\ y.forced = S.gate[w].force

\* drainTrustedQueue takes the head of the queue.
LEMMA HeadIsServed ==
    ASSUME NEW S, NEW w \in Wallets, NEW p, NEW f, NEW T, Loose(S, p, f, {w}, {}),
           p \subseteq DOMAIN S.share, ~S.gate[w].draining,
           NEW h, NEW y, NEW g, Scheduled(S, T, w, h, y, g)
    PROVE  /\ Loose(T, p, f, {}, {})
           /\ \A t \in p : T.share[t] = S.share[t]
           /\ DOMAIN T.share = DOMAIN S.share /\ T.suspects = S.suspects /\ T.asks = S.asks
  <1>0. Typed(S) /\ DOMAIN S = Fields /\ ListOK(S.share) /\ KeysOK(S.share, S.keys)
    BY DEF Loose, Typed
  <1>1. /\ DOMAIN T = Fields /\ T.wal = S.wal /\ T.keys = S.keys
        /\ T.suspects = S.suspects /\ T.asks = S.asks
        /\ T.share = [S.share EXCEPT ![h] = y]
    BY DEF Scheduled
  <1>4. /\ NoRepeats(g.queue)
        /\ ToSet(g.queue) = Queued(S.share, w) \ {h} /\ h \in Queued(S.share, w)
    <2>1. ToSet(S.gate[w].queue) = Queued(S.share, w)
      BY DEF Loose, Gates, Lines
    <2> QED BY <2>1 DEF Scheduled
  <1>5. /\ g.draining /\ g.force = S.gate[w].force /\ g.inFlight = S.gate[w].inFlight
    BY DEF Scheduled
  <1>6. /\ h \in DOMAIN S.share /\ S.share[h].stage = "queued" /\ WalletOf[S.share[h].m] = w
        /\ RecOK(S.share[h]) /\ DOMAIN S.share[h] = ShareFields
    BY <1>0, <1>4 DEF Queued, Act, ListOK, RecOK
  <1>7. h \notin p
    BY <1>6 DEF Loose, InHand
  <1>8. ShareOK(S, h) /\ Local(S.share[h])
    BY <1>6, <1>7 DEF Loose, ShareOK
  <1>9. /\ RecOK(y) /\ y.m = S.share[h].m /\ y.n = S.share[h].n /\ y.stage = "scheduled"
        /\ y.meets = S.share[h].meets /\ y.kind = S.share[h].kind /\ y.answer = S.share[h].answer
        /\ y.started = S.share[h].started /\ y.fromQueue /\ y.forced = S.gate[w].force
    BY DEF Scheduled
  <1>10. /\ ListOK(T.share) /\ DOMAIN T.share = DOMAIN S.share /\ T.share[h] = y
         /\ \A t \in DOMAIN S.share : t # h => T.share[t] = S.share[t]
    BY <1>0, <1>1, <1>6, <1>9, ListUpdate
  <1>11. /\ T.gate[w] = g /\ \A v \in Wallets : v # w => T.gate[v] = S.gate[v]
         /\ GateOK(T.gate)
    BY DEF Scheduled
  <1>12. Typed(T)
    BY <1>0, <1>1, <1>10, <1>11 DEF Typed
  <1>13. KeysOK(T.share, T.keys)
    BY <1>0, <1>1, <1>6, <1>9, KeysUpdate DEF Holds
  <1>14. \A t \in DOMAIN T.share : IF t \in p THEN InHand(T, t) ELSE ShareOK(T, t)
    <2> TAKE t \in DOMAIN T.share
    <2>0. IF t \in p THEN InHand(S, t) ELSE ShareOK(S, t)
      BY <1>10 DEF Loose
    <2>1. CASE t \in p
      BY <1>1, <1>7, <1>10, <2>0, <2>1 DEF InHand
    <2>2. CASE t = h
      <3>1. Local(y)
        <4>1. S.share[h].answer # "true" /\ ~S.share[h].started
          BY <1>6, <1>8 DEF Local
        <4> QED BY <1>9, <4>1 DEF Local
      <3>2. h \in S.suspects => Checked(y)
        <4> HAVE h \in S.suspects
        <4>1. Checked(S.share[h]) /\ S.gate[w].force
          BY <1>6, <1>8 DEF ShareOK, W
        <4>2. S.share[h].answer # "true"
          BY <1>6, <1>8 DEF Local
        <4> QED BY <1>6, <1>9, <4>1, <4>2 DEF Checked
      <3>3. ShareOK(T, h)
        BY <1>1, <1>9, <1>10, <3>1, <3>2 DEF ShareOK
      <3> QED BY <1>7, <2>2, <3>3
    <2>3. CASE t \notin p /\ t # h
      <3>1. ShareOK(S, t) /\ T.share[t] = S.share[t] /\ RecOK(S.share[t])
        BY <1>0, <1>10, <2>0, <2>3 DEF ListOK
      <3>2. W(T, t) = W(S, t) /\ W(S, t) \in Wallets
        BY <3>1, PoolSharesAssumption DEF W, RecOK
      <3>3. T.gate[W(T, t)].force = S.gate[W(S, t)].force
        BY <1>5, <1>11, <3>2
      <3>4. ShareOK(T, t)
        BY <1>1, <3>1, <3>3 DEF ShareOK
      <3> QED BY <2>3, <3>4
    <2> QED BY <2>1, <2>2, <2>3
  <1>15. Gates(T, f, p, {}, {})
    <2> SUFFICES ASSUME NEW v \in Wallets
                 PROVE  /\ Running(T, v, f) /\ Tasks(T, v, p) /\ Lines(T, v)
                        /\ Awake(T, v) /\ Serving(T, v, {})
      BY DEF Gates
    <2>1. /\ Running(S, v, f) /\ Tasks(S, v, p) /\ Lines(S, v)
          /\ v = w \/ Awake(S, v)
          /\ Serving(S, v, {})
      BY DEF Loose, Gates
    <2>2. /\ Started(T.share, v) \ {h} = Started(S.share, v) \ {h}
          /\ Waiting(T.share, v) \ {h} = Waiting(S.share, v) \ {h}
          /\ Served(T.share, v) \ {h} = Served(S.share, v) \ {h}
          /\ Queued(T.share, v) \ {h} = Queued(S.share, v) \ {h}
          /\ h \in Started(T.share, v) <=> v = w /\ y.started
          /\ h \in Waiting(T.share, v) <=> v = w /\ y.stage = "wait"
          /\ h \in Served(T.share, v) <=> v = w /\ y.fromQueue
          /\ h \in Queued(T.share, v) <=> v = w /\ y.stage = "queued"
      BY <1>0, <1>1, <1>6, <1>9, WorkUpdate
    <2>3. /\ h \in Started(S.share, v) <=> v = w /\ y.started
          /\ h \notin Waiting(S.share, v)
      BY <1>6, <1>9 DEF Started, Waiting, Act
    <2>4. /\ Started(T.share, v) = Started(S.share, v)
          /\ Waiting(T.share, v) = Waiting(S.share, v)
      <3>1. /\ h \in Started(T.share, v) <=> h \in Started(S.share, v)
            /\ h \in Waiting(T.share, v) <=> h \in Waiting(S.share, v)
        BY <1>9, <2>2, <2>3
      <3>2. Started(T.share, v) = Started(S.share, v)
        BY <2>2, <3>1
      <3>3. Waiting(T.share, v) = Waiting(S.share, v)
        BY <2>2, <3>1
      <3> QED BY <3>2, <3>3
    <2>5. Tasks(T, v, p)
      BY <1>1, <2>1, <2>4 DEF Tasks
    <2>6. CASE v = w
      <3>1. T.gate[v] = g
        BY <1>11, <2>6
      <3>2. Running(T, v, f)
        BY <1>5, <2>1, <2>4, <2>6, <3>1 DEF Running
      <3>3. Queued(T.share, v) = Queued(S.share, v) \ {h}
        BY <1>9, <2>2
      <3>4. Lines(T, v)
        BY <1>4, <1>5, <2>6, <3>1, <3>3 DEF Lines
      <3>5. Awake(T, v)
        BY <1>5, <3>1 DEF Awake
      <3>6. Served(S.share, v) = {}
        BY <2>1, <2>6 DEF Serving
      <3>7. Served(T.share, v) = {h}
        BY <1>9, <2>2, <2>6, <3>6
      <3>8. Serving(T, v, {})
        BY <1>5, <3>1, <3>7 DEF Serving
      <3> QED BY <2>5, <3>2, <3>4, <3>5, <3>8
    <2>7. CASE v # w
      <3>1. T.gate[v] = S.gate[v]
        BY <1>11, <2>7
      <3>2. h \notin Queued(S.share, v) /\ h \notin Served(S.share, v)
        BY <1>6, <2>7 DEF Queued, Served, Act
      <3>3. Queued(T.share, v) = Queued(S.share, v) /\ Served(T.share, v) = Served(S.share, v)
        BY <2>2, <2>7, <3>2
      <3> QED BY <2>1, <2>4, <2>5, <2>7, <3>1, <3>3 DEF Running, Lines, Awake, Serving
    <2> QED BY <2>6, <2>7
  <1>16. \A t \in p : T.share[t] = S.share[t]
    BY <1>7, <1>10
  <1> QED BY <1>1, <1>10, <1>12, <1>13, <1>14, <1>15, <1>16 DEF Loose

\* The last case of drainTrustedQueue.
Pop(S, w, h) ==
    [S EXCEPT !.gate[w].queue = Tail(@), !.gate[w].draining = TRUE,
              !.share[h].stage = "scheduled", !.share[h].forced = S.gate[w].force,
              !.share[h].fromQueue = TRUE]

LEMMA PopIs ==
    ASSUME NEW S, NEW w \in Wallets, Typed(S), NEW h \in DOMAIN S.share,
           S.gate[w].queue # <<>>, NoRepeats(S.gate[w].queue),
           ToSet(Tail(S.gate[w].queue)) = ToSet(S.gate[w].queue) \ {h},
           h \in ToSet(S.gate[w].queue), NEW T, T = Pop(S, w, h)
    PROVE  \E y, g : Scheduled(S, T, w, h, y, g)
  <1> DEFINE x == S.share[h]
             y == [x EXCEPT !.stage = "scheduled", !.forced = S.gate[w].force,
                            !.fromQueue = TRUE]
             g == [S.gate[w] EXCEPT !.queue = Tail(@), !.draining = TRUE]
  <1>1. /\ DOMAIN T = Fields /\ T.wal = S.wal /\ T.keys = S.keys
        /\ T.suspects = S.suspects /\ T.asks = S.asks
        /\ T.share = [S.share EXCEPT ![h] = y] /\ T.gate = [S.gate EXCEPT ![w] = g]
    BY DEF Fields, Typed, Pop
  <1>2. /\ S.gate = [v \in Wallets |-> S.gate[v]]
        /\ DOMAIN S.gate[w] = GateFields /\ S.gate[w].queue \in Seq(Nat)
    BY DEF Typed, GateOK
  <1>3. /\ Tail(S.gate[w].queue) \in Seq(Nat) /\ NoRepeats(Tail(S.gate[w].queue))
    BY <1>2, TailIs
  <1>4. RecOK(x) /\ DOMAIN x = ShareFields
    BY DEF Typed, ListOK, RecOK
  <1>5. /\ DOMAIN g = GateFields /\ g.queue = Tail(S.gate[w].queue) /\ g.draining
        /\ g.force = S.gate[w].force /\ g.inFlight = S.gate[w].inFlight
    BY <1>2 DEF GateFields
  <1>6. /\ RecOK(y) /\ y.m = x.m /\ y.n = x.n /\ y.stage = "scheduled"
        /\ y.meets = x.meets /\ y.kind = x.kind /\ y.answer = x.answer
        /\ y.started = x.started /\ y.fromQueue /\ y.forced = S.gate[w].force
    BY <1>4 DEF RecOK, ShareFields
  <1> HIDE DEF g, y
  <1>7. /\ T.gate[w] = g /\ \A v \in Wallets : v # w => T.gate[v] = S.gate[v]
        /\ T.gate = [v \in Wallets |-> T.gate[v]]
    BY <1>1, <1>2
  <1>8. GateOK(T.gate)
    BY <1>3, <1>5, <1>7 DEF GateOK, Typed
  <1>9. Scheduled(S, T, w, h, y, g)
    BY <1>1, <1>3, <1>5, <1>6, <1>7, <1>8 DEF Scheduled
  <1> QED BY <1>9

\* The shares p and what is known of the failed generations are not touched.
Kept(S, T, p) ==
    /\ \A t \in p : T.share[t] = S.share[t]
    /\ DOMAIN T.share = DOMAIN S.share /\ T.suspects = S.suspects /\ T.asks = S.asks

LEMMA DrainKeeps ==
    ASSUME NEW S, NEW w \in Wallets, NEW p, NEW f, NEW T, Loose(S, p, f, {w}, {}),
           p \subseteq DOMAIN S.share, T = Drain(S, w)
    PROVE  Loose(T, p, f, {}, {}) /\ Kept(S, T, p)
  <1> DEFINE g == S.gate[w]
             R == [S EXCEPT !.gate[w] = NewGate]
  <1>0. Typed(S) /\ Running(S, w, f) /\ Lines(S, w) /\ Serving(S, w, {})
    BY DEF Loose, Gates
  <1>1. CASE g.inFlight # 0 \/ g.draining
    <2>1. T = S
      BY <1>1 DEF Drain
    <2>2. Awake(S, w)
      BY <1>1 DEF Awake
    <2>3. Gates(S, f, p, {}, {})
      BY <2>2 DEF Loose, Gates
    <2> QED BY <2>1, <2>3 DEF Loose, Kept
  <1>2. DOMAIN NewGate = GateFields /\ NewGate.queue = <<>> /\ <<>> \in Seq(Nat)
        /\ NewGate.inFlight = 0 /\ ~NewGate.draining
    BY DEF NewGate, GateFields
  <1>3. Regated(S, R, w, NewGate)
    BY <1>0, <1>2, RegateIs
  <1>4. CASE ~(g.inFlight # 0 \/ g.draining) /\ S.wal[w].banned
    <2>1. T = Settle(R, ToSet(S.gate[w].queue), "null")
      BY <1>4 DEF Drain, DropQueue
    <2> HIDE DEF R
    <2> QED BY <1>3, <1>4, <2>1, GateCloses DEF Kept
  <1>5. CASE ~(g.inFlight # 0 \/ g.draining) /\ ~S.wal[w].banned /\ g.queue = <<>>
    <2>1. T = R
      BY <1>5 DEF Drain
    <2> HIDE DEF R
    <2>2. R.gate[w] = NewGate /\ R.share = S.share /\ R.suspects = S.suspects /\ R.asks = S.asks
      BY <1>3 DEF Regated
    <2>3. Awake(R, w)
      BY <1>2, <2>2 DEF Awake
    <2>4. Serving(R, w, {})
      BY <1>0, <1>2, <1>5, <2>2 DEF Serving
    <2>5. NewGate.inFlight = Cardinality(Started(S.share, w) \ f)
      BY <1>0, <1>2, <1>5 DEF Running
    <2>6. Elsewhere(S, w, f, f, {w}, {}, {}, {})
      BY DEF Elsewhere
    <2>7. NewGate.queue = S.gate[w].queue /\ ~(NewGate.queue # <<>>)
      BY <1>2, <1>5
    <2>8. Loose(R, p, f, {}, {})
      BY <1>3, <2>3, <2>4, <2>5, <2>6, <2>7, RegateKeeps
    <2> QED BY <2>1, <2>2, <2>8 DEF Kept
  <1>6. CASE ~(g.inFlight # 0 \/ g.draining) /\ ~S.wal[w].banned /\ g.queue # <<>>
    <2> DEFINE h == Head(g.queue)
    <2>1. T = Pop(S, w, h)
      BY <1>6 DEF Drain, Pop
    <2>2. g.queue \in Seq(Nat) /\ NoRepeats(g.queue) /\ ToSet(g.queue) = Queued(S.share, w)
      BY <1>0 DEF Typed, GateOK, Lines
    <2>3. h \in ToSet(g.queue) /\ ToSet(Tail(g.queue)) = ToSet(g.queue) \ {h}
      BY <1>6, <2>2, TailIs
    <2>4. h \in DOMAIN S.share
      BY <2>2, <2>3 DEF Queued, Act
    <2> HIDE DEF h
    <2>5. PICK y, e : Scheduled(S, T, w, h, y, e)
      BY <1>0, <1>6, <2>1, <2>2, <2>3, <2>4, PopIs
    <2> QED BY <1>6, <2>5, HeadIsServed DEF Kept
  <1> QED BY <1>1, <1>4, <1>5, <1>6

-----------------------------------------------------------------------------
(* finishShareProcessing *)

LEMMA RunningIsNat ==
    ASSUME NEW S, Typed(S), NEW w, NEW f
    PROVE  Cardinality(Started(S.share, w) \ f) \in Nat
  <1>1. IsFiniteSet(Started(S.share, w))
    BY Finite DEF Typed
  <1>2. IsFiniteSet(Started(S.share, w) \ f)
    BY <1>1, FS_Subset
  <1> QED BY <1>2, FS_CardinalityType

\* finishTrustVerification, for a share whose verification was started.
LEMMA VerificationEnds ==
    ASSUME NEW S, NEW s, Hand(S, s), NEW w, w = W(S, s), NEW U,
           U = IF S.share[s].started THEN FinishVerification(S, w) ELSE S
    PROVE  Loose(U, {s}, {s}, {}, {}) /\ Kept(S, U, {s})
  <1>0. /\ Typed(S) /\ ListOK(S.share) /\ s \in DOMAIN S.share /\ w \in Wallets
        /\ WalletOf[S.share[s].m] = w /\ S.share[s].stage # "done"
    BY HandIs
  <1>1. \A v : s \in Started(S.share, v) <=> S.share[s].started /\ v = w
    BY <1>0 DEF Started, Act
  <1>2. CASE ~S.share[s].started
    <2>1. U = S
      BY <1>2
    <2>2. \A v \in Wallets : Started(S.share, v) \ {s} = Started(S.share, v) \ {}
      BY <1>1, <1>2
    <2>3. Gates(S, {s}, {s}, {}, {})
      BY <2>2 DEF Hand, Loose, Gates, Running
    <2> QED BY <2>1, <2>3 DEF Hand, Loose, Kept
  <1>3. CASE S.share[s].started
    <2> DEFINE k == IF S.gate[w].inFlight > 0 THEN S.gate[w].inFlight - 1 ELSE 0
               g == [S.gate[w] EXCEPT !.inFlight = k]
               R == [S EXCEPT !.gate[w] = g]
    <2>1. U = Drain(R, w)
      BY <1>3 DEF FinishVerification
    <2>2. DOMAIN S.gate[w] = GateFields /\ S.gate[w].queue \in Seq(Nat)
      BY <1>0 DEF Typed, GateOK
    <2> HIDE DEF k
    <2>3. /\ DOMAIN g = GateFields /\ g.queue = S.gate[w].queue /\ g.inFlight = k
          /\ g.force = S.gate[w].force /\ g.draining = S.gate[w].draining
      BY <2>2 DEF GateFields
    <2> HIDE DEF g
    <2>4. Regated(S, R, w, g)
      BY <1>0, <2>2, <2>3, RegateIs
    <2> HIDE DEF R
    <2>5. k = Cardinality(Started(S.share, w) \ {s})
      <3>1. S.gate[w].inFlight = Cardinality(Started(S.share, w))
        <4>1. Started(S.share, w) \ {} = Started(S.share, w)
          OBVIOUS
        <4> QED BY <1>0, <4>1 DEF Hand, Loose, Gates, Running
      <3>2. IsFiniteSet(Started(S.share, w)) /\ s \in Started(S.share, w)
        BY <1>0, <1>1, <1>3, Finite
      <3>3. Cardinality(Started(S.share, w) \ {s}) = Cardinality(Started(S.share, w)) - 1
        BY <3>2, FS_RemoveElement
      <3>4. Cardinality(Started(S.share, w) \ {s}) \in Nat /\ Cardinality(Started(S.share, w)) \in Nat
        BY <1>0, <3>2, RunningIsNat, FS_CardinalityType
      <3> QED BY <3>1, <3>3, <3>4 DEF k
    <2>6. R.gate[w] = g /\ R.share = S.share /\ R.suspects = S.suspects /\ R.asks = S.asks
      BY <2>4 DEF Regated
    <2>7. Serving(R, w, {})
      BY <1>0, <2>3, <2>6 DEF Hand, Loose, Gates, Serving
    <2>8. Elsewhere(S, w, {}, {s}, {}, {w}, {}, {})
      BY <1>1 DEF Elsewhere
    <2>9. Loose(R, {s}, {s}, {w}, {})
      <3>1. Loose(S, {s}, {}, {}, {})
        BY DEF Hand
      <3>2. g.inFlight = Cardinality(Started(S.share, w) \ {s}) /\ w \in {w}
        BY <2>3, <2>5
      <3>3. g.queue = S.gate[w].queue /\ (g.queue # <<>> /\ S.gate[w].force => g.force)
        BY <2>3
      <3> QED BY <1>0, <2>4, <2>7, <2>8, <3>1, <3>2, <3>3, RegateKeeps
    <2>10. {s} \subseteq DOMAIN R.share
      BY <1>0, <2>6
    <2>11. Loose(U, {s}, {s}, {}, {}) /\ Kept(R, U, {s})
      BY <1>0, <2>1, <2>9, <2>10, DrainKeeps
    <2> QED BY <2>6, <2>11 DEF Kept
  <1> QED BY <1>2, <1>3

\* onShareProcessed of the share in hand.
LEMMA SettleKeeps ==
    ASSUME NEW S, NEW s, Loose(S, {s}, {s}, {}, {}), s \in DOMAIN S.share,
           NEW result \in {"true", "false", "null"},
           result = "true" => /\ Submitted(S.share[s]) /\ Genuine(S.share[s])
                              /\ s \in S.suspects => S.share[s].verified,
           NEW d, \A v \in Wallets : v \in d <=> v = W(S, s) /\ S.share[s].fromQueue,
           NEW T, T = Settle(S, {s}, result)
    PROVE  Loose(T, {}, {}, {}, d)
  <1>0. /\ Typed(S) /\ ListOK(S.share) /\ KeysOK(S.share, S.keys) /\ RecOK(S.share[s])
        /\ S.share[s].stage \notin {"queued", "done"}
    BY DEF Loose, Typed, ListOK, InHand
  <1>1. /\ DOMAIN T = Fields /\ T.wal = S.wal /\ T.gate = S.gate
        /\ T.suspects = S.suspects /\ T.asks = S.asks /\ DOMAIN T.keys = {"job", "template"}
    BY <1>0, SettleIs
  <1>2. /\ ListOK(T.share) /\ DOMAIN T.share = DOMAIN S.share
        /\ \A t \in DOMAIN S.share : t # s => T.share[t] = S.share[t]
        /\ T.share[s].stage = "done" /\ T.share[s].answer = result
        /\ T.share[s].meets = S.share[s].meets /\ T.share[s].data = S.share[s].data
        /\ T.share[s].started = S.share[s].started /\ T.share[s].sub = S.share[s].sub
        /\ T.share[s].verified = S.share[s].verified
    BY <1>0, SettledList
  <1>3. Typed(T)
    BY <1>0, <1>1, <1>2 DEF Typed
  <1>4. KeysOK(T.share, T.keys)
    BY <1>0, SettledKeys
  <1>5. \A t \in DOMAIN T.share : IF t \in {} THEN InHand(T, t) ELSE ShareOK(T, t)
    <2> SUFFICES ASSUME NEW t \in DOMAIN T.share PROVE ShareOK(T, t)
      OBVIOUS
    <2>1. CASE t = s
      <3>1. Local(T.share[s])
        BY <1>2, AnsweredOK DEF Submitted, Genuine
      <3>2. s \in S.suspects => Checked(T.share[s])
        BY <1>2 DEF Checked
      <3> QED BY <1>1, <1>2, <2>1, <3>1, <3>2 DEF ShareOK
    <2>2. CASE t # s
      <3>1. ShareOK(S, t) /\ T.share[t] = S.share[t]
        BY <1>2, <2>2 DEF Loose
      <3> QED BY <1>1, <3>1 DEF ShareOK, W
    <2> QED BY <2>1, <2>2
  <1>6. Gates(T, {}, {}, {}, d)
    <2> SUFFICES ASSUME NEW v \in Wallets
                 PROVE  /\ Running(T, v, {}) /\ Tasks(T, v, {}) /\ Lines(T, v)
                        /\ Awake(T, v) /\ Serving(T, v, d)
      BY DEF Gates
    <2>1. /\ Running(S, v, {s}) /\ Tasks(S, v, {s}) /\ Lines(S, v)
          /\ Awake(S, v) /\ Serving(S, v, {})
      BY DEF Loose, Gates
    <2>2. Less(S.share, T.share, v, {s})
      BY <1>0, SettledWork
    <2>3. Running(T, v, {}) /\ Tasks(T, v, {})
      <3>1. /\ Started(T.share, v) \ {} = Started(S.share, v) \ {s}
            /\ Waiting(T.share, v) \ {} = Waiting(S.share, v) \ {s}
        BY <2>2 DEF Less
      <3> QED BY <1>1, <2>1, <3>1 DEF Running, Tasks
    <2>4. Lines(T, v)
      <3>1. Queued(T.share, v) = Queued(S.share, v)
        BY <1>0, <2>2 DEF Less, Queued
      <3> QED BY <1>1, <2>1, <3>1 DEF Lines
    <2>5. Awake(T, v)
      BY <1>1, <2>1 DEF Awake
    <2>6. s \in Served(S.share, v) <=> v \in d
      BY <1>0 DEF Served, Act, W
    <2>7. Served(T.share, v) = Served(S.share, v) \ {s}
      BY <2>2 DEF Less
    <2>8. CASE v \in d
      <3>1. Served(T.share, v) = {}
        BY <2>1, <2>6, <2>7, <2>8 DEF Serving
      <3> QED BY <2>3, <2>4, <2>5, <2>8, <3>1 DEF Serving
    <2>9. CASE v \notin d
      <3>1. Served(T.share, v) = Served(S.share, v)
        BY <2>6, <2>7, <2>9
      <3> QED BY <1>1, <2>1, <2>3, <2>4, <2>5, <2>9, <3>1 DEF Serving
    <2> QED BY <2>8, <2>9
  <1> QED BY <1>3, <1>4, <1>5, <1>6 DEF Loose

LEMMA AnswerIsQuiet ==
    ASSUME NEW S, NEW s, NEW result, NEW T, T = Settle(S, {s}, result), Typed(T)
    PROVE  Quiet(T, Answer(S, s, result))
  <1> DEFINE m == S.share[s].m
             U == IF result = "null" THEN T ELSE CheckBan(T, m, result = "true")
  <1>1. Quiet(T, U)
    BY QuietSelf, CheckBanIsQuiet
  <1>2. Typed(U)
    BY <1>1 DEF Quiet, Typed
  <1> HIDE DEF U
  <1> DEFINE A == [U EXCEPT !.sess[m].trust = @ + 1, !.sess[m].check = FALSE,
                            !.sess[m].seen = TRUE]
             B == [U EXCEPT !.sess[m].trust = 0]
  <1>3. Quiet(U, U) /\ Quiet(U, A) /\ Quiet(U, B)
    <2>1. Quiet(U, U)
      BY <1>2, QuietSelf
    <2>2. Quiet(U, A)
      BY <1>2 DEF Quiet, Typed, Fields, WalOK
    <2>3. Quiet(U, B)
      BY <1>2 DEF Quiet, Typed, Fields, WalOK
    <2> QED BY <2>1, <2>2, <2>3
  <1>4. Quiet(U, Answer(S, s, result))
    <2>1. Answer(S, s, result) = IF S.sess[m].removed \/ result = "null" THEN U
                                 ELSE IF result = "true" THEN A ELSE B
      BY DEF Answer, U
    <2> HIDE DEF A, B
    <2> QED BY <1>3, <2>1
  <1> QED BY <1>1, <1>4, QuietTrans

\* onQueuedShareProcessed
LEMMA QueuedDoneKeeps ==
    ASSUME NEW S, NEW w \in Wallets, Loose(S, {}, {}, {}, {w})
    PROVE  Good(QueuedDone(S, w))
  <1> DEFINE g == [S.gate[w] EXCEPT !.draining = FALSE, !.force = @ /\ S.gate[w].queue # <<>>]
             R == [S EXCEPT !.gate[w] = g]
  <1>0. /\ Typed(S) /\ DOMAIN S.gate[w] = GateFields /\ S.gate[w].queue \in Seq(Nat)
        /\ Running(S, w, {}) /\ Serving(S, w, {w})
    BY DEF Loose, Typed, GateOK, Gates
  <1>1. QueuedDone(S, w) = Drain(R, w)
    BY DEF QueuedDone
  <1>2. /\ DOMAIN g = GateFields /\ g.queue = S.gate[w].queue /\ ~g.draining
        /\ g.inFlight = S.gate[w].inFlight
    BY <1>0 DEF GateFields
  <1>3. g.force <=> S.gate[w].force /\ S.gate[w].queue # <<>>
    BY <1>0 DEF GateFields
  <1> HIDE DEF g
  <1>4. Regated(S, R, w, g)
    BY <1>0, <1>2, RegateIs
  <1> HIDE DEF R
  <1>5. R.gate[w] = g /\ R.share = S.share
    BY <1>4 DEF Regated
  <1>6. Serving(R, w, {})
    BY <1>0, <1>2, <1>5 DEF Serving
  <1>7. Elsewhere(S, w, {}, {}, {}, {w}, {w}, {})
    BY DEF Elsewhere
  <1>8. Loose(R, {}, {}, {w}, {})
    <2>1. g.inFlight = Cardinality(Started(S.share, w) \ {}) /\ w \in {w}
      BY <1>0, <1>2 DEF Running
    <2>2. g.queue = S.gate[w].queue /\ (g.queue # <<>> /\ S.gate[w].force => g.force)
      BY <1>2, <1>3
    <2> QED BY <1>4, <1>6, <1>7, <2>1, <2>2, RegateKeeps
  <1>9. Loose(Drain(R, w), {}, {}, {}, {})
    BY <1>8, DrainKeeps
  <1> QED BY <1>1, <1>9 DEF Good

LEMMA FinishKeeps ==
    ASSUME NEW S, NEW s, Hand(S, s), NEW result \in {"true", "false", "null"},
           result = "true" => /\ Submitted(S.share[s]) /\ Genuine(S.share[s])
                              /\ s \in S.suspects => S.share[s].verified
    PROVE  Good(Finish(S, s, result))
  <1> DEFINE w == W(S, s)
             x == S.share[s]
             failed == \/ x.started /\ result = "null"
                       \/ result = "false" /\ HasGeneration(S.gate[w])
             T == IF failed THEN MarkFailed(S, x.m) ELSE S
             U == IF x.started THEN FinishVerification(T, w) ELSE T
             V == Answer(U, s, result)
  <1>0. s \in DOMAIN S.share /\ x.m \in Sessions /\ w \in Wallets /\ w = WalletOf[x.m]
    BY HandIs
  <1>1. Finish(S, s, result) = IF x.fromQueue THEN QueuedDone(V, w) ELSE V
    BY DEF Finish
  <1>2. Hand(T, s) /\ T.share = S.share /\ (result = "true" => T = S)
    <2>1. CASE failed
      BY <1>0, <2>1, MarkFailedKeeps
    <2>2. CASE ~failed
      BY <2>2
    <2> QED BY <2>1, <2>2
  <1> HIDE DEF T
  <1>3. w = W(T, s) /\ U = IF T.share[s].started THEN FinishVerification(T, w) ELSE T
    BY <1>2 DEF W
  <1> HIDE DEF U
  <1>4. Loose(U, {s}, {s}, {}, {}) /\ Kept(T, U, {s})
    BY <1>2, <1>3, VerificationEnds
  <1>5. U.share[s] = x /\ s \in DOMAIN U.share /\ U.suspects = T.suspects /\ U.asks = T.asks
    BY <1>0, <1>2, <1>4 DEF Kept
  <1>6. result = "true" => /\ Submitted(U.share[s]) /\ Genuine(U.share[s])
                           /\ s \in U.suspects => U.share[s].verified
    BY <1>2, <1>5
  <1> DEFINE d == IF x.fromQueue THEN {w} ELSE {}
             Y == Settle(U, {s}, result)
  <1>7. \A v \in Wallets : v \in d <=> v = W(U, s) /\ U.share[s].fromQueue
    BY <1>0, <1>5 DEF W
  <1> HIDE DEF d
  <1>8. Loose(Y, {}, {}, {}, d)
    BY <1>4, <1>5, <1>6, <1>7, SettleKeeps
  <1>9. Quiet(Y, V)
    BY <1>8, AnswerIsQuiet DEF Loose
  <1> HIDE DEF Y, V
  <1>10. Loose(V, {}, {}, {}, d)
    BY <1>8, <1>9, QuietKeeps
  <1>11. CASE x.fromQueue
    <2>1. d = {w}
      BY <1>11 DEF d
    <2> QED BY <1>0, <1>1, <1>10, <1>11, <2>1, QueuedDoneKeeps
  <1>12. CASE ~x.fromQueue
    <2>1. d = {}
      BY <1>12 DEF d
    <2> QED BY <1>1, <1>10, <1>12, <2>1 DEF Good
  <1> QED BY <1>11, <1>12

-----------------------------------------------------------------------------
(* Hashes asked for outside a share's verification *)

\* T is S with the hashes `a' asked for and k verifier tasks of wallet w.
Reasked(S, T, w, k, a) ==
    /\ DOMAIN T = Fields /\ WalOK(T.wal)
    /\ T.wal[w].pending = k
    /\ \A v \in Wallets : v # w => T.wal[v].pending = S.wal[v].pending
    /\ T.gate = S.gate /\ T.keys = S.keys /\ T.share = S.share /\ T.suspects = S.suspects
    /\ T.asks = a

LEMMA ReaskKeeps ==
    ASSUME NEW S, NEW T, NEW p, NEW w \in Wallets, NEW k, NEW a, Loose(S, p, {}, {}, {}),
           Reasked(S, T, w, k, a), AsksOK(a, DOMAIN S.share),
           k = Cardinality(Waiting(S.share, w) \ p) + Cardinality(AskWaiting(a, w)),
           \A v \in Wallets : v # w => AskWaiting(a, v) = AskWaiting(S.asks, v)
    PROVE  Loose(T, p, {}, {}, {})
  <1>0. /\ T.share = S.share /\ T.gate = S.gate /\ T.keys = S.keys
        /\ T.suspects = S.suspects /\ T.asks = a
    BY DEF Reasked
  <1>1. Typed(T)
    BY <1>0 DEF Loose, Typed, Reasked
  <1>2. KeysOK(T.share, T.keys)
    BY <1>0 DEF Loose
  <1>3. \A t \in DOMAIN T.share : IF t \in p THEN InHand(T, t) ELSE ShareOK(T, t)
    <2> TAKE t \in DOMAIN T.share
    <2>1. IF t \in p THEN InHand(S, t) ELSE ShareOK(S, t)
      BY <1>0 DEF Loose
    <2>2. InHand(T, t) <=> InHand(S, t)
      BY <1>0 DEF InHand
    <2>3. ShareOK(T, t) <=> ShareOK(S, t)
      BY <1>0 DEF ShareOK, W
    <2> QED BY <2>1, <2>2, <2>3
  <1>4. Gates(T, {}, p, {}, {})
    <2> SUFFICES ASSUME NEW v \in Wallets
                 PROVE  /\ Running(T, v, {}) /\ Tasks(T, v, p) /\ Lines(T, v)
                        /\ Awake(T, v) /\ Serving(T, v, {})
      BY DEF Gates
    <2>1. /\ Running(S, v, {}) /\ Tasks(S, v, p) /\ Lines(S, v)
          /\ Awake(S, v) /\ Serving(S, v, {})
      BY DEF Loose, Gates
    <2>2. Tasks(T, v, p)
      BY <1>0, <2>1 DEF Tasks, Reasked
    <2> QED BY <1>0, <2>1, <2>2 DEF Running, Lines, Awake, Serving
  <1> QED BY <1>1, <1>2, <1>3, <1>4 DEF Loose

\* The list b is `a' with the entry e at place i, which is new or e's old one.
Revised(a, b, i, e) ==
    /\ DOMAIN b = DOMAIN a \cup {i} /\ b[i] = e
    /\ \A j \in DOMAIN a : j # i => b[j] = a[j]

LEMMA AsksUpdate ==
    ASSUME NEW a, NEW D, AsksOK(a, D), NEW i \in DOMAIN a, NEW e, AskOK(e, D),
           NEW b, b = [a EXCEPT ![i] = e]
    PROVE  AsksOK(b, D) /\ Revised(a, b, i, e)
  <1>1. PICK k \in Nat : a = [j \in 1..k |-> a[j]]
    BY DEF AsksOK
  <1>2. b = [j \in 1..k |-> IF j = i THEN e ELSE a[j]]
    BY <1>1
  <1>3. /\ DOMAIN b = DOMAIN a /\ b[i] = e
        /\ \A j \in DOMAIN a : j # i => b[j] = a[j]
    BY <1>1, <1>2
  <1>4. b = [j \in 1..k |-> b[j]]
    BY <1>2
  <1>5. AsksOK(b, D)
    BY <1>3, <1>4 DEF AsksOK
  <1> QED BY <1>3, <1>5 DEF Revised

LEMMA AsksAppend ==
    ASSUME NEW a, NEW D, AsksOK(a, D), NEW e, AskOK(e, D)
    PROVE  /\ AsksOK(Append(a, e), D)
           /\ \E i : i \notin DOMAIN a /\ Revised(a, Append(a, e), i, e)
  <1> DEFINE b == Append(a, e)
  <1>1. PICK k \in Nat : a = [j \in 1..k |-> a[j]]
    BY DEF AsksOK
  <1> DEFINE X == {a[j] : j \in 1..k} \cup {e}
  <1>2. a \in [1..k -> X]
    BY <1>1
  <1>3. a \in Seq(X) /\ e \in X
    BY <1>2
  <1>4. DOMAIN a = 1..k /\ Len(a) = k
    BY <1>1, <1>3
  <1> HIDE DEF X
  <1>5. /\ b \in Seq(X) /\ Len(b) = k + 1 /\ b[k + 1] = e /\ \A j \in 1..k : b[j] = a[j]
    BY <1>3, <1>4
  <1> HIDE DEF b
  <1>6. b \in [1..(k + 1) -> X]
    BY <1>5
  <1>7. DOMAIN b = 1..(k + 1) /\ b = [j \in 1..(k + 1) |-> b[j]]
    BY <1>6
  <1>8. 1..(k + 1) = (1..k) \cup {k + 1} /\ k + 1 \notin 1..k
    OBVIOUS
  <1>9. \A j \in DOMAIN b : AskOK(b[j], D)
    BY <1>4, <1>5, <1>7, <1>8 DEF AsksOK
  <1>10. AsksOK(b, D)
    BY <1>7, <1>9 DEF AsksOK
  <1>11. Revised(a, b, k + 1, e)
    BY <1>4, <1>5, <1>7, <1>8 DEF Revised
  <1> QED BY <1>4, <1>8, <1>10, <1>11 DEF b

\* The entry's wallet has k tasks instead of n.
Moved(a, i, e, n, k) ==
    LET was == i \in DOMAIN a /\ a[i].stage = "wait"
    IN /\ i \in DOMAIN a => a[i].w = e.w
       /\ k = IF was = (e.stage = "wait") THEN n ELSE IF was THEN n - 1 ELSE n + 1

LEMMA ReviseKeeps ==
    ASSUME NEW S, NEW p, Loose(S, p, {}, {}, {}), NEW T, NEW w \in Wallets, NEW k, NEW b,
           Reasked(S, T, w, k, b), NEW i, NEW e, Revised(S.asks, b, i, e), e.w = w,
           AsksOK(b, DOMAIN S.share), Moved(S.asks, i, e, S.wal[w].pending, k)
    PROVE  Loose(T, p, {}, {}, {})
  <1> DEFINE a == S.asks
             X == AskWaiting(a, w)
             Y == AskWaiting(b, w)
             n == Cardinality(Waiting(S.share, w) \ p)
  <1>0. Typed(S) /\ AsksOK(a, DOMAIN S.share) /\ ListOK(S.share)
    BY DEF Loose, Typed
  <1>1. S.wal[w].pending = n + Cardinality(X)
    BY DEF Loose, Gates, Tasks
  <1>2. /\ DOMAIN b = DOMAIN a \cup {i} /\ b[i] = e
        /\ \A j \in DOMAIN a : j # i => b[j] = a[j]
    BY DEF Revised
  <1>3. IsFiniteSet(X) /\ IsFiniteSet(Y) /\ Cardinality(X) \in Nat /\ Cardinality(Y) \in Nat
    BY <1>0, AsksCount
  <1>4. n \in Nat
    <2>1. IsFiniteSet(Waiting(S.share, w))
      BY <1>0, Finite
    <2>2. IsFiniteSet(Waiting(S.share, w) \ p)
      BY <2>1, FS_Subset
    <2> QED BY <2>2, FS_CardinalityType
  <1>5. /\ i \in X <=> i \in DOMAIN a /\ a[i].stage = "wait"
        /\ i \in Y <=> e.stage = "wait"
        /\ X \ {i} = Y \ {i}
    BY <1>2 DEF AskWaiting, Moved
  <1>6. \A v \in Wallets : v # w => AskWaiting(b, v) = AskWaiting(a, v)
    BY <1>2 DEF AskWaiting, Moved
  <1> HIDE DEF X, Y, n, a
  <1>7. k = n + Cardinality(Y)
    <2>1. CASE i \in X <=> i \in Y
      <3>1. X = Y
        BY <1>5, <2>1
      <3>2. k = S.wal[w].pending
        BY <1>5, <2>1 DEF Moved, a
      <3> QED BY <1>1, <3>1, <3>2
    <2>2. CASE i \in X /\ i \notin Y
      <3>1. Y = X \ {i}
        BY <1>5, <2>2
      <3>2. Cardinality(Y) = Cardinality(X) - 1
        BY <1>3, <2>2, <3>1, FS_RemoveElement
      <3>3. k = S.wal[w].pending - 1
        BY <1>5, <2>2 DEF Moved, a
      <3> QED BY <1>1, <1>3, <1>4, <3>2, <3>3
    <2>3. CASE i \notin X /\ i \in Y
      <3>1. Y = X \cup {i}
        BY <1>5, <2>3
      <3>2. Cardinality(Y) = Cardinality(X) + 1
        BY <1>3, <2>3, <3>1, FS_AddElement
      <3>3. k = S.wal[w].pending + 1
        BY <1>5, <2>3 DEF Moved, a
      <3> QED BY <1>1, <1>3, <1>4, <3>2, <3>3
    <2> QED BY <2>1, <2>2, <2>3
  <1> QED BY <1>6, <1>7, ReaskKeeps DEF Y, n, a

LEMMA AppendKeeps ==
    ASSUME NEW S, NEW p, Loose(S, p, {}, {}, {}), NEW s \in DOMAIN S.share, NEW c \in Chains,
           NEW why, NEW stage, NEW k, NEW e,
           e = [s |-> s, c |-> c, why |-> why, w |-> W(S, s), stage |-> stage],
           k = IF stage = "wait" THEN S.wal[W(S, s)].pending + 1 ELSE S.wal[W(S, s)].pending,
           NEW T, Reasked(S, T, W(S, s), k, Append(S.asks, e))
    PROVE  Loose(T, p, {}, {}, {}) /\ T.share = S.share /\ T.suspects = S.suspects
  <1> DEFINE w == W(S, s)
             b == Append(S.asks, e)
  <1>0. AsksOK(S.asks, DOMAIN S.share) /\ w \in Wallets
    BY PoolSharesAssumption DEF Loose, Typed, ListOK, RecOK, W
  <1>1. /\ DOMAIN e = AskFields /\ e.s = s /\ e.c = c /\ e.w = w /\ e.stage = stage
    BY DEF AskFields
  <1>2. AskOK(e, DOMAIN S.share)
    BY <1>0, <1>1 DEF AskOK
  <1>3. AsksOK(b, DOMAIN S.share) /\ \E i : i \notin DOMAIN S.asks /\ Revised(S.asks, b, i, e)
    BY <1>0, <1>2, AsksAppend
  <1>4. PICK i : i \notin DOMAIN S.asks /\ Revised(S.asks, b, i, e)
    BY <1>3
  <1>5. Moved(S.asks, i, e, S.wal[w].pending, k)
    BY <1>1, <1>4 DEF Moved
  <1>6. Reasked(S, T, w, k, b)
    OBVIOUS
  <1> HIDE DEF w, b
  <1>7. Loose(T, p, {}, {}, {})
    BY <1>0, <1>1, <1>3, <1>4, <1>5, <1>6, ReviseKeeps
  <1> QED BY <1>7 DEF Reasked

LEMMA NoteKeeps ==
    ASSUME NEW S, NEW p, Loose(S, p, {}, {}, {}), NEW s \in DOMAIN S.share, NEW c \in Chains,
           NEW why, NEW T, T = Note(S, s, c, why, "timer")
    PROVE  Loose(T, p, {}, {}, {}) /\ T.share = S.share /\ T.suspects = S.suspects
  <1> DEFINE e == [s |-> s, c |-> c, why |-> why, w |-> W(S, s), stage |-> "timer"]
             b == Append(S.asks, e)
             k == S.wal[W(S, s)].pending
  <1>1. T = [S EXCEPT !.asks = Append(@, e)]
    BY DEF Note
  <1>2. Typed(S)
    BY DEF Loose
  <1> HIDE DEF e
  <1>3. /\ DOMAIN T = Fields /\ T.wal = S.wal /\ T.gate = S.gate /\ T.keys = S.keys
        /\ T.share = S.share /\ T.suspects = S.suspects /\ T.asks = b
    BY <1>1, <1>2 DEF Typed, Fields
  <1>4. Reasked(S, T, W(S, s), k, b)
    BY <1>2, <1>3 DEF Reasked, Typed
  <1>5. k = IF "timer" = "wait" THEN S.wal[W(S, s)].pending + 1 ELSE S.wal[W(S, s)].pending
    OBVIOUS
  <1> HIDE DEF k
  <1> QED BY <1>4, <1>5, AppendKeeps DEF e

LEMMA AskAlsoKeeps ==
    ASSUME NEW S, NEW p, Loose(S, p, {}, {}, {}), NEW s \in DOMAIN S.share, NEW c \in Chains,
           NEW why, NEW T, T = AskAlso(S, s, c, why)
    PROVE  Loose(T, p, {}, {}, {}) /\ T.share = S.share /\ T.suspects = S.suspects
  <1> DEFINE w == W(S, s)
             e == [s |-> s, c |-> c, why |-> why, w |-> w, stage |-> "wait"]
             b == Append(S.asks, e)
             k == S.wal[w].pending + 1
             R == [S EXCEPT !.wal[w].pending = k]
  <1>1. Typed(S) /\ w \in Wallets
    BY PoolSharesAssumption DEF Loose, Typed, ListOK, RecOK, W
  <1>2. T = Note(R, s, c, why, "wait")
    BY DEF AskAlso
  <1> HIDE DEF w, k
  <1>3. Recounted(S, R, w, k)
    BY <1>1, RecountIs
  <1> HIDE DEF R
  <1>4. /\ DOMAIN R = Fields /\ WalOK(R.wal) /\ R.wal[w].pending = k
        /\ \A v \in Wallets : v # w => R.wal[v].pending = S.wal[v].pending
        /\ R.gate = S.gate /\ R.keys = S.keys /\ R.share = S.share
        /\ R.suspects = S.suspects /\ R.asks = S.asks
    BY <1>3 DEF Recounted
  <1>5. W(R, s) = w
    BY <1>4 DEF W, w
  <1>6. T = [R EXCEPT !.asks = Append(@, e)]
    BY <1>2, <1>5 DEF Note
  <1> HIDE DEF e
  <1>7. /\ DOMAIN T = Fields /\ T.wal = R.wal /\ T.gate = R.gate /\ T.keys = R.keys
        /\ T.share = R.share /\ T.suspects = R.suspects /\ T.asks = b
    BY <1>4, <1>6 DEF Fields
  <1>8. Reasked(S, T, w, k, b)
    BY <1>4, <1>7 DEF Reasked
  <1>9. k = IF "wait" = "wait" THEN S.wal[w].pending + 1 ELSE S.wal[w].pending
    BY DEF k
  <1> HIDE DEF b
  <1> QED BY <1>8, <1>9, AppendKeeps DEF w, e, b

-----------------------------------------------------------------------------
(* Verification *)

LEMMA HandQuiet ==
    ASSUME NEW S, NEW s, Hand(S, s), NEW T, Quiet(S, T)
    PROVE  Hand(T, s) /\ T.share = S.share /\ T.suspects = S.suspects /\ T.asks = S.asks
  BY QuietKeeps DEF Hand, Quiet

LEMMA InvalidKeeps ==
    ASSUME NEW S, NEW s, Hand(S, s)
    PROVE  Good(Invalid(S, s))
  <1> DEFINE T == ClearTrust(S, S.share[s].m)
  <1>1. Quiet(S, T)
    BY ClearTrustIsQuiet, HandIs
  <1>2. Hand(T, s)
    BY <1>1, HandQuiet
  <1>3. Invalid(S, s) = Finish(T, s, "false")
    BY DEF Invalid
  <1> HIDE DEF T
  <1> QED BY <1>2, <1>3, FinishKeeps

\* The record y for the share in hand.
LEMMA TurnedIs ==
    ASSUME NEW S, NEW s, Hand(S, s), NEW y, NEW T, T = [S EXCEPT !.share[s] = y]
    PROVE  Turned(S, T, s, y)
  BY HandIs DEF Turned, Typed, Fields

\* What SubmitTo does to a record.
Sent(x, y, c) ==
    /\ RecOK(y) /\ Same(x, y)
    /\ y.stage = x.stage /\ y.mode = x.mode /\ y.verified = x.verified /\ y.forced = x.forced
    /\ y.sub[c] # "none" /\ \A e \in Chains : x.sub[e] # "none" => y.sub[e] # "none"

LEMMA SubmitToKeeps ==
    ASSUME NEW S, NEW s, Hand(S, s), NEW c \in Chains, NEW T, T = SubmitTo(S, s, c)
    PROVE  /\ Hand(T, s) /\ T.suspects = S.suspects /\ T.asks = S.asks
           /\ Sent(S.share[s], T.share[s], c)
  <1> DEFINE x == S.share[s]
             y == [x EXCEPT !.sub[c] = "sent"]
  <1>1. /\ RecOK(x) /\ DOMAIN x = ShareFields /\ DOMAIN x.sub = Chains
        /\ x.stage \notin {"queued", "done"} /\ DOMAIN S = Fields
    BY HandIs
  <1>2. T = [S EXCEPT !.share[s] = y]
    BY DEF SubmitTo
  <1>3. y.sub = [x.sub EXCEPT ![c] = "sent"]
    BY <1>1 DEF ShareFields
  <1>4. y.sub[c] = "sent" /\ DOMAIN y.sub = Chains /\ \A e \in Chains : e # c => y.sub[e] = x.sub[e]
    BY <1>1, <1>3
  <1>5. /\ DOMAIN y = ShareFields /\ Same(x, y) /\ y.stage = x.stage /\ y.mode = x.mode
        /\ y.verified = x.verified /\ y.forced = x.forced
    BY <1>1 DEF ShareFields, Same
  <1> HIDE DEF y
  <1>6. RecOK(y)
    BY <1>1, <1>4, <1>5 DEF RecOK, Same
  <1>7. Turned(S, T, s, y)
    BY <1>2, TurnedIs
  <1>8. Hand(T, s) /\ T.share[s] = y
    BY <1>1, <1>5, <1>6, <1>7, Retouch
  <1>9. Sent(x, y, c)
    BY <1>4, <1>5, <1>6 DEF Sent
  <1> QED BY <1>7, <1>8, <1>9 DEF Turned

LEMMA CompleteKeeps ==
    ASSUME NEW S, NEW s, Hand(S, s), NEW needCheck,
           "job" \in S.share[s].meets =>
               /\ Genuine(S.share[s])
               /\ s \in S.suspects => S.share[s].verified
               /\ needCheck \/ ("main" \in S.share[s].meets => S.share[s].sub["main"] # "none")
    PROVE  Good(Complete(S, s, needCheck))
  <1> DEFINE x == S.share[s]
             T == IF needCheck /\ "main" \in x.meets THEN SubmitTo(S, s, "main") ELSE S
             U == IF "child" \in x.meets THEN SubmitTo(T, s, "child") ELSE T
  <1>1. /\ Hand(T, s) /\ T.suspects = S.suspects /\ T.asks = S.asks
        /\ T.share[s].meets = x.meets /\ T.share[s].data = x.data
        /\ T.share[s].started = x.started /\ T.share[s].verified = x.verified
        /\ needCheck /\ "main" \in x.meets => T.share[s].sub["main"] # "none"
        /\ x.sub["main"] # "none" => T.share[s].sub["main"] # "none"
    <2>1. CASE needCheck /\ "main" \in x.meets
      <3>1. T = SubmitTo(S, s, "main") /\ "main" \in Chains
        BY <2>1 DEF Chains
      <3> HIDE DEF T
      <3>2. Hand(T, s) /\ T.suspects = S.suspects /\ T.asks = S.asks /\ Sent(S.share[s], T.share[s], "main")
        BY <3>1, SubmitToKeeps
      <3> QED BY <3>2 DEF Sent, Same
    <2>2. CASE ~(needCheck /\ "main" \in x.meets)
      BY <2>2
    <2> QED BY <2>1, <2>2
  <1>2. Complete(S, s, needCheck) = IF "job" \in x.meets THEN Finish(U, s, "true") ELSE Invalid(U, s)
    BY DEF Complete
  <1> HIDE DEF T
  <1>3. /\ Hand(U, s) /\ U.suspects = S.suspects /\ U.asks = S.asks
        /\ U.share[s].meets = x.meets /\ U.share[s].data = x.data
        /\ U.share[s].started = x.started /\ U.share[s].verified = x.verified
        /\ T.share[s].sub["main"] # "none" => U.share[s].sub["main"] # "none"
        /\ "child" \in x.meets => U.share[s].sub["child"] # "none"
    <2>1. CASE "child" \in x.meets
      <3>1. U = SubmitTo(T, s, "child") /\ "child" \in Chains /\ "main" \in Chains
        BY <2>1 DEF Chains
      <3> HIDE DEF U
      <3>2. Hand(U, s) /\ U.suspects = T.suspects /\ U.asks = T.asks /\ Sent(T.share[s], U.share[s], "child")
        BY <1>1, <3>1, SubmitToKeeps
      <3> QED BY <1>1, <3>1, <3>2 DEF Sent, Same
    <2>2. CASE ~("child" \in x.meets)
      BY <1>1, <2>2
    <2> QED BY <2>1, <2>2
  <1> HIDE DEF U
  <1>4. CASE "job" \in x.meets
    <2>1. Submitted(U.share[s])
      BY <1>1, <1>3, <1>4 DEF Submitted, Chains
    <2>2. Genuine(U.share[s])
      BY <1>3, <1>4 DEF Genuine
    <2>3. s \in U.suspects => U.share[s].verified
      BY <1>3, <1>4
    <2> QED BY <1>2, <1>3, <1>4, <2>1, <2>2, <2>3, FinishKeeps
  <1>5. CASE ~("job" \in x.meets)
    BY <1>2, <1>3, <1>5, InvalidKeeps
  <1> QED BY <1>4, <1>5

LEMMA SubmitUnverifiedKeeps ==
    ASSUME NEW S, NEW s, Hand(S, s), "main" \in S.share[s].meets
    PROVE  Good(SubmitUnverified(S, s))
  <1> DEFINE x == S.share[s]
             y == [x EXCEPT !.mode = "unverified", !.stage = "submit"]
             T == [S EXCEPT !.share[s] = y]
             U == SubmitTo(T, s, "main")
  <1>1. /\ RecOK(x) /\ DOMAIN x = ShareFields /\ x.answer # "true"
        /\ s \in S.suspects => x.meets \cap Chains = {}
    BY HandIs
  <1>2. SubmitUnverified(S, s) = U
    BY DEF SubmitUnverified
  <1>3. Same(x, y) /\ y.stage = "submit" /\ y.sub = x.sub /\ DOMAIN y = ShareFields
    BY <1>1 DEF ShareFields, Same
  <1> HIDE DEF y
  <1>4. RecOK(y)
    BY <1>1, <1>3 DEF RecOK, Same
  <1>5. Turned(S, T, s, y)
    BY TurnedIs
  <1> HIDE DEF T
  <1>6. Hand(T, s) /\ T.share[s] = y /\ T.suspects = S.suspects /\ T.asks = S.asks
    <2>1. Hand(T, s) /\ T.share[s] = y
      BY <1>3, <1>4, <1>5, Retouch
    <2> QED BY <1>5, <2>1 DEF Turned
  <1>7. /\ Hand(U, s) /\ U.suspects = T.suspects /\ U.asks = T.asks /\ Sent(y, U.share[s], "main")
    BY <1>6, SubmitToKeeps DEF Chains
  <1> HIDE DEF U
  <1>8. s \notin S.suspects
    BY <1>1 DEF Chains
  <1>9. ShareOK(U, s) /\ U.share[s].stage # "wait"
    BY <1>1, <1>3, <1>6, <1>7, <1>8 DEF ShareOK, Local, Sent, Same
  <1> QED BY <1>2, <1>7, <1>9, PutDown

LEMMA NoHashKeeps ==
    ASSUME NEW S, NEW s, Hand(S, s), S.share[s].mode = "candidate" => "main" \in S.share[s].meets
    PROVE  Good(NoHash(S, s))
  BY SubmitUnverifiedKeeps, FinishKeeps DEF NoHash

\* slowHashAsync
LEMMA AskHashKeeps ==
    ASSUME NEW S, NEW s, Hand(S, s), Asking(S.share[s]),
           s \in S.suspects => S.share[s].kind # "cycle"
    PROVE  Good(AskHash(S, s))
  <1> DEFINE w == W(S, s)
             T == StartVerification(S, s)
             y == [T.share[s] EXCEPT !.stage = "wait"]
             U == [T EXCEPT !.share[s] = y]
             k == T.wal[w].pending + 1
             V == [U EXCEPT !.wal[w].pending = k]
  <1>0. /\ RecOK(S.share[s]) /\ DOMAIN S.share[s] = ShareFields /\ S.share[s].m \in Sessions
        /\ w \in Wallets /\ w = WalletOf[S.share[s].m]
    BY HandIs
  <1>1. /\ Hand(T, s) /\ T.suspects = S.suspects /\ T.asks = S.asks
        /\ \/ T.share[s] = S.share[s]
           \/ T.share[s] = [S.share[s] EXCEPT !.started = TRUE]
    BY StartVerificationKeeps
  <1>2. AskHash(S, s) = IF T.wal[w].pending > PendingLimit THEN NoHash(T, s)
                        ELSE SetStage([T EXCEPT !.wal[w].pending = k], s, "wait")
    BY DEF AskHash
  <1> HIDE DEF T
  <1>3. /\ T.share[s].mode = S.share[s].mode /\ T.share[s].meets = S.share[s].meets
        /\ T.share[s].sub = S.share[s].sub /\ T.share[s].kind = S.share[s].kind
        /\ T.share[s].m = S.share[s].m
    BY <1>0, <1>1 DEF ShareFields
  <1>4. Asking(T.share[s]) /\ (s \in T.suspects => T.share[s].kind # "cycle") /\ w = W(T, s)
    BY <1>0, <1>1, <1>3 DEF Asking, W
  <1>5. Good(NoHash(T, s))
    BY <1>1, <1>4, NoHashKeeps DEF Asking
  <1>6. /\ RecOK(T.share[s]) /\ DOMAIN T.share[s] = ShareFields /\ Typed(T) /\ DOMAIN T = Fields
        /\ T.share[s].answer # "true" /\ s \in DOMAIN T.share
        /\ s \in T.suspects => T.share[s].meets \cap Chains = {}
    BY <1>1, HandIs
  <1>7. /\ Same(T.share[s], y) /\ y.stage = "wait" /\ y.sub = T.share[s].sub
        /\ DOMAIN y = ShareFields /\ y.mode = T.share[s].mode
    BY <1>6 DEF ShareFields, Same
  <1>8. SetStage([T EXCEPT !.wal[w].pending = k], s, "wait") = V
    BY <1>6 DEF SetStage, Fields
  <1> HIDE DEF y
  <1>9. RecOK(y)
    BY <1>6, <1>7 DEF RecOK, Same
  <1>10. Turned(T, U, s, y)
    BY <1>1, TurnedIs
  <1> HIDE DEF U, k
  <1>11. Hand(U, s) /\ U.share[s] = y /\ U.suspects = T.suspects /\ U.asks = T.asks
    <2>1. Hand(U, s) /\ U.share[s] = y
      BY <1>1, <1>7, <1>9, <1>10, Retouch
    <2> QED BY <1>10, <2>1 DEF Turned
  <1>12. w = W(U, s) /\ U.wal[w].pending = T.wal[w].pending
    BY <1>0, <1>4, <1>7, <1>10, <1>11 DEF W, Same, Turned
  <1>13. ShareOK(U, s)
    <2>1. Asking(y)
      BY <1>4, <1>7 DEF Asking, Same
    <2>2. Local(y)
      BY <1>6, <1>7, <2>1 DEF Local, Same
    <2>3. s \in U.suspects => Checked(y)
      BY <1>4, <1>6, <1>7, <1>11 DEF Checked, Same
    <2> QED BY <1>7, <1>11, <2>2, <2>3 DEF ShareOK
  <1>14. Recounted(U, V, W(U, s), U.wal[W(U, s)].pending + 1)
    <2>1. Typed(U)
      BY <1>11, HandIs
    <2>2. Recounted(U, V, w, k)
      BY <1>0, <2>1, RecountIs
    <2> QED BY <1>12, <2>2 DEF k
  <1> HIDE DEF V
  <1>15. Good(V)
    BY <1>7, <1>11, <1>13, <1>14, PutWait
  <1> QED BY <1>2, <1>5, <1>8, <1>15

\* verifySlowHashWithRetry
LEMMA AskHashForKeeps ==
    ASSUME NEW S, NEW s, Hand(S, s), s \in S.suspects => S.share[s].kind # "cycle",
           NEW mode \in {"slow", "candidate", "special", "failedSubmit"},
           mode = "slow" => "main" \notin S.share[s].meets,
           mode = "candidate" => "main" \in S.share[s].meets,
           mode = "failedSubmit" => S.share[s].sub["main"] # "none"
    PROVE  Good(AskHashFor(S, s, mode))
  <1> DEFINE x == S.share[s]
             y == [x EXCEPT !.mode = mode, !.tries = 0]
             T == [S EXCEPT !.share[s] = y]
  <1>1. RecOK(x) /\ DOMAIN x = ShareFields /\ x.stage \notin {"queued", "done"}
    BY HandIs
  <1>2. AskHashFor(S, s, mode) = AskHash(T, s)
    BY DEF AskHashFor
  <1>3. /\ Same(x, y) /\ y.stage = x.stage /\ y.sub = x.sub /\ DOMAIN y = ShareFields
        /\ y.mode = mode
    BY <1>1 DEF ShareFields, Same
  <1> HIDE DEF y
  <1>4. RecOK(y)
    BY <1>1, <1>3 DEF RecOK, Same
  <1>5. Turned(S, T, s, y)
    BY TurnedIs
  <1> HIDE DEF T
  <1>6. Hand(T, s) /\ T.share[s] = y
    BY <1>1, <1>3, <1>4, <1>5, Retouch
  <1>7. T.suspects = S.suspects /\ T.asks = S.asks
    BY <1>5 DEF Turned
  <1>8. Asking(T.share[s]) /\ (s \in T.suspects => T.share[s].kind # "cycle")
    BY <1>3, <1>6, <1>7 DEF Asking, Same
  <1> QED BY <1>2, <1>6, <1>8, AskHashKeeps

\* T is S with share s appended to the queue of its wallet w.
Joined(S, T, w, s, y, g) ==
    /\ DOMAIN T = Fields /\ T.wal = S.wal /\ T.keys = S.keys
    /\ T.suspects = S.suspects /\ T.asks = S.asks
    /\ T.share = [S.share EXCEPT ![s] = y]
    /\ GateOK(T.gate) /\ T.gate[w] = g /\ \A v \in Wallets : v # w => T.gate[v] = S.gate[v]
    /\ ToSet(g.queue) = ToSet(S.gate[w].queue) \cup {s} /\ NoRepeats(g.queue)
    /\ g.draining = S.gate[w].draining /\ g.force = S.gate[w].force
    /\ g.inFlight = S.gate[w].inFlight
    /\ RecOK(y) /\ Same(S.share[s], y) /\ y.stage = "queued"

LEMMA JoinKeeps ==
    ASSUME NEW S, NEW s, Hand(S, s), s \notin S.suspects, NEW w, w = W(S, s),
           ~S.share[s].started, ~S.share[s].fromQueue, S.share[s].kind # "cycle",
           S.share[s].meets \cap Chains = {}, S.gate[w].inFlight # 0 \/ S.gate[w].draining,
           NEW T, NEW y, NEW g, Joined(S, T, w, s, y, g)
    PROVE  Good(T)
  <1>0. /\ Typed(S) /\ ListOK(S.share) /\ s \in DOMAIN S.share /\ w \in Wallets
        /\ WalletOf[S.share[s].m] = w /\ S.share[s].stage \notin {"queued", "done"}
        /\ S.share[s].answer # "true" /\ KeysOK(S.share, S.keys)
    BY HandIs DEF Hand, Loose
  <1>1. /\ DOMAIN T = Fields /\ T.wal = S.wal /\ T.keys = S.keys
        /\ T.suspects = S.suspects /\ T.asks = S.asks
        /\ T.share = [S.share EXCEPT ![s] = y]
        /\ GateOK(T.gate) /\ T.gate[w] = g /\ \A v \in Wallets : v # w => T.gate[v] = S.gate[v]
    BY DEF Joined
  <1>2. /\ RecOK(y) /\ Same(S.share[s], y) /\ y.stage = "queued" /\ y.m = S.share[s].m
        /\ y.n = S.share[s].n /\ y.started = S.share[s].started
        /\ y.fromQueue = S.share[s].fromQueue
    BY DEF Joined, Same
  <1>3. /\ g.draining = S.gate[w].draining /\ g.force = S.gate[w].force
        /\ g.inFlight = S.gate[w].inFlight /\ NoRepeats(g.queue)
        /\ ToSet(g.queue) = ToSet(S.gate[w].queue) \cup {s}
    BY DEF Joined
  <1>4. /\ ListOK(T.share) /\ DOMAIN T.share = DOMAIN S.share /\ T.share[s] = y
        /\ \A t \in DOMAIN S.share : t # s => T.share[t] = S.share[t]
    BY <1>0, <1>1, <1>2, ListUpdate
  <1>5. Typed(T)
    BY <1>0, <1>1, <1>4 DEF Typed
  <1>6. KeysOK(T.share, T.keys)
    BY <1>0, <1>1, <1>2, KeysUpdate DEF Holds
  <1>7. \A t \in DOMAIN T.share : IF t \in {} THEN InHand(T, t) ELSE ShareOK(T, t)
    <2> SUFFICES ASSUME NEW t \in DOMAIN T.share PROVE ShareOK(T, t)
      OBVIOUS
    <2>1. CASE t = s
      <3>1. Local(y)
        BY <1>0, <1>2 DEF Local, Same
      <3> QED BY <1>1, <1>4, <2>1, <3>1 DEF ShareOK
    <2>2. CASE t # s
      <3>1. ShareOK(S, t) /\ T.share[t] = S.share[t] /\ RecOK(S.share[t])
        BY <1>0, <1>4, <2>2 DEF Hand, Loose, ListOK
      <3>2. W(T, t) = W(S, t) /\ W(S, t) \in Wallets
        BY <3>1, PoolSharesAssumption DEF W, RecOK
      <3>3. T.gate[W(T, t)].force = S.gate[W(S, t)].force
        BY <1>1, <1>3, <3>2
      <3> QED BY <1>1, <3>1, <3>3 DEF ShareOK
    <2> QED BY <2>1, <2>2
  <1>8. Gates(T, {}, {}, {}, {})
    <2> SUFFICES ASSUME NEW v \in Wallets
                 PROVE  /\ Running(T, v, {}) /\ Tasks(T, v, {}) /\ Lines(T, v)
                        /\ Awake(T, v) /\ Serving(T, v, {})
      BY DEF Gates
    <2>1. /\ Running(S, v, {}) /\ Tasks(S, v, {s}) /\ Lines(S, v)
          /\ Awake(S, v) /\ Serving(S, v, {})
      BY DEF Hand, Loose, Gates
    <2>2. /\ Started(T.share, v) \ {s} = Started(S.share, v) \ {s}
          /\ Waiting(T.share, v) \ {s} = Waiting(S.share, v) \ {s}
          /\ Served(T.share, v) \ {s} = Served(S.share, v) \ {s}
          /\ Queued(T.share, v) \ {s} = Queued(S.share, v) \ {s}
          /\ s \in Started(T.share, v) <=> v = w /\ y.started
          /\ s \in Waiting(T.share, v) <=> v = w /\ y.stage = "wait"
          /\ s \in Served(T.share, v) <=> v = w /\ y.fromQueue
          /\ s \in Queued(T.share, v) <=> v = w /\ y.stage = "queued"
      BY <1>0, <1>1, <1>2, WorkUpdate
    <2>3. /\ s \notin Started(S.share, v) /\ s \notin Served(S.share, v)
          /\ s \notin Queued(S.share, v)
      BY <1>0 DEF Started, Served, Queued
    <2>4. /\ Started(T.share, v) = Started(S.share, v)
          /\ Served(T.share, v) = Served(S.share, v)
          /\ Waiting(T.share, v) \ {} = Waiting(S.share, v) \ {s}
      <3>1. /\ s \notin Started(T.share, v) /\ s \notin Served(T.share, v)
            /\ s \notin Waiting(T.share, v)
        BY <1>2, <2>2
      <3>2. Started(T.share, v) = Started(S.share, v)
        BY <2>2, <2>3, <3>1
      <3>3. Served(T.share, v) = Served(S.share, v)
        BY <2>2, <2>3, <3>1
      <3>4. Waiting(T.share, v) \ {} = Waiting(S.share, v) \ {s}
        BY <2>2, <3>1
      <3> QED BY <3>2, <3>3, <3>4
    <2>5. Tasks(T, v, {})
      BY <1>1, <2>1, <2>4 DEF Tasks
    <2>6. CASE v = w
      <3>1. T.gate[v] = g
        BY <1>1, <2>6
      <3>2. Running(T, v, {})
        BY <1>3, <2>1, <2>4, <2>6, <3>1 DEF Running
      <3>3. Queued(T.share, v) = Queued(S.share, v) \cup {s}
        BY <1>2, <2>2, <2>3, <2>6
      <3>4. Lines(T, v)
        BY <1>3, <2>1, <2>6, <3>1, <3>3 DEF Lines
      <3>5. Awake(T, v)
        BY <1>3, <3>1 DEF Awake
      <3>6. Serving(T, v, {})
        BY <1>3, <2>1, <2>4, <2>6, <3>1 DEF Serving
      <3> QED BY <2>5, <3>2, <3>4, <3>5, <3>6
    <2>7. CASE v # w
      <3>1. T.gate[v] = S.gate[v]
        BY <1>1, <2>7
      <3>2. Queued(T.share, v) = Queued(S.share, v)
        BY <2>2, <2>3, <2>7
      <3> QED BY <2>1, <2>4, <2>5, <3>1, <3>2 DEF Running, Lines, Awake, Serving
    <2> QED BY <2>6, <2>7
  <1> QED BY <1>5, <1>6, <1>7, <1>8 DEF Loose, Good

\* The last case of enqueueTrustedShare.
Join(S, w, s) == SetStage([S EXCEPT !.gate[w].queue = Append(@, s)], s, "queued")

LEMMA JoinIs ==
    ASSUME NEW S, NEW s, Hand(S, s), NEW w, w = W(S, s), NEW T, T = Join(S, w, s)
    PROVE  \E y, g : Joined(S, T, w, s, y, g)
  <1> DEFINE x == S.share[s]
             y == [x EXCEPT !.stage = "queued"]
             g == [S.gate[w] EXCEPT !.queue = Append(@, s)]
  <1>0. /\ Typed(S) /\ ListOK(S.share) /\ s \in DOMAIN S.share /\ w \in Wallets
        /\ RecOK(x) /\ DOMAIN x = ShareFields /\ DOMAIN S = Fields /\ x.stage # "queued"
    BY HandIs
  <1>1. /\ DOMAIN T = Fields /\ T.wal = S.wal /\ T.keys = S.keys
        /\ T.suspects = S.suspects /\ T.asks = S.asks
        /\ T.share = [S.share EXCEPT ![s] = y] /\ T.gate = [S.gate EXCEPT ![w] = g]
    BY <1>0 DEF Join, SetStage, Fields
  <1>2. /\ S.gate = [v \in Wallets |-> S.gate[v]]
        /\ DOMAIN S.gate[w] = GateFields /\ S.gate[w].queue \in Seq(Nat)
    BY <1>0 DEF Typed, GateOK
  <1>3. s \in Nat /\ NoRepeats(S.gate[w].queue) /\ s \notin ToSet(S.gate[w].queue)
    <2>1. ToSet(S.gate[w].queue) = Queued(S.share, w) /\ NoRepeats(S.gate[w].queue)
      BY <1>0 DEF Hand, Loose, Gates, Lines
    <2>2. s \notin Queued(S.share, w)
      BY <1>0 DEF Queued
    <2>3. s \in Nat
      BY <1>0, Finite
    <2> QED BY <2>1, <2>2, <2>3
  <1>4. /\ Append(S.gate[w].queue, s) \in Seq(Nat) /\ NoRepeats(Append(S.gate[w].queue, s))
        /\ ToSet(Append(S.gate[w].queue, s)) = ToSet(S.gate[w].queue) \cup {s}
    BY <1>2, <1>3, AppendIs
  <1>5. /\ DOMAIN g = GateFields /\ g.queue = Append(S.gate[w].queue, s)
        /\ g.draining = S.gate[w].draining
        /\ g.force = S.gate[w].force /\ g.inFlight = S.gate[w].inFlight
    BY <1>2 DEF GateFields
  <1>6. DOMAIN y = ShareFields /\ Same(x, y) /\ y.stage = "queued" /\ y.sub = x.sub
    BY <1>0 DEF ShareFields, Same
  <1> HIDE DEF g, y
  <1>7. RecOK(y)
    BY <1>0, <1>6 DEF RecOK, Same
  <1>8. /\ T.gate[w] = g /\ \A v \in Wallets : v # w => T.gate[v] = S.gate[v]
        /\ T.gate = [v \in Wallets |-> T.gate[v]]
    BY <1>0, <1>1, <1>2
  <1>9. GateOK(T.gate)
    BY <1>0, <1>4, <1>5, <1>8 DEF GateOK, Typed
  <1>10. Joined(S, T, w, s, y, g)
    BY <1>1, <1>4, <1>5, <1>6, <1>7, <1>8, <1>9 DEF Joined
  <1> QED BY <1>10

\* enqueueTrustedShare, for a share that is trusted beside other work.
LEMMA EnqueueKeeps ==
    ASSUME NEW S, NEW s, Hand(S, s), s \notin S.suspects, ~S.share[s].started,
           S.share[s].kind # "cycle", S.share[s].meets \cap Chains = {}, MustQueue(S, s)
    PROVE  Good(Enqueue(S, s))
  <1> DEFINE w == W(S, s)
             T == Join(S, w, s)
  <1>1. CASE Len(S.gate[w].queue) >= QueueLimit
    BY <1>1, FinishKeeps DEF Enqueue
  <1>2. CASE ~(Len(S.gate[w].queue) >= QueueLimit)
    <2>1. Enqueue(S, s) = T
      BY <1>2 DEF Enqueue, Join
    <2>2. w \in Wallets /\ ~S.share[s].fromQueue /\ GateBusy(S.gate[w])
      BY HandIs DEF MustQueue
    <2>3. Awake(S, w)
      BY <2>2 DEF Hand, Loose, Gates
    <2>4. S.gate[w].inFlight # 0 \/ S.gate[w].draining
      BY <2>2, <2>3 DEF GateBusy, HasGeneration, Awake
    <2>5. w = W(S, s)
      OBVIOUS
    <2> HIDE DEF w
    <2>6. PICK y, g : Joined(S, T, w, s, y, g)
      BY <2>5, JoinIs
    <2> HIDE DEF T
    <2> QED BY <2>1, <2>2, <2>4, <2>5, <2>6, JoinKeeps
  <1> QED BY <1>1, <1>2

\* A share that has just arrived, or just left the queue.
Fresh(S, s) ==
    /\ Hand(S, s) /\ ~S.share[s].started
    /\ s \in S.suspects => S.share[s].forced /\ S.share[s].kind # "cycle"

LEMMA TrustedIs ==
    ASSUME NEW S, NEW s, NEW lucky, Fresh(S, s), Trusted(S, s, lucky)
    PROVE  /\ s \notin S.suspects /\ S.share[s].meets \cap Chains = {}
           /\ "main" \notin S.share[s].meets /\ Genuine(S.share[s])
  BY DEF Trusted, Fresh, Genuine, Chains

LEMMA VerifySpecialKeeps ==
    ASSUME NEW S, NEW s, NEW lucky, Fresh(S, s), S.share[s].kind # "standard"
    PROVE  Good(VerifySpecial(S, s, lucky))
  <1> DEFINE x == S.share[s]
  <1>0. /\ Hand(S, s) /\ ~x.started /\ (s \in S.suspects => x.kind # "cycle")
        /\ x.kind \in {"cycle", "kawpow", "ethash", "pearl"}
    BY HandIs DEF Fresh, RecOK
  <1>1. Good(Invalid(S, s))
    BY <1>0, InvalidKeeps
  <1>2. Good(AskHashFor(S, s, "special"))
    BY <1>0, AskHashForKeeps
  <1>3. ASSUME Trusted(S, s, lucky), x.kind # "cycle", MustQueue(S, s)
        PROVE  Good(Enqueue(S, s))
    BY <1>0, <1>3, TrustedIs, EnqueueKeeps
  <1>4. ASSUME Trusted(S, s, lucky), NEW b
        PROVE  Good(Complete(S, s, b))
    BY <1>0, <1>4, TrustedIs, CompleteKeeps
  <1>5. ASSUME "job" \notin x.meets
        PROVE  Good(Complete(S, s, TRUE))
    BY <1>0, <1>5, CompleteKeeps
  <1>6. CASE x.data = "broken"
    BY <1>1, <1>6 DEF VerifySpecial
  <1>7. CASE x.data # "broken" /\ x.kind = "cycle"
    <2>1. VerifySpecial(S, s, lucky) = VerifyCycle(S, s)
      BY <1>7 DEF VerifySpecial
    <2>2. x.data = "good" => Good(Complete(S, s, TRUE))
      BY <1>0, <1>7, CompleteKeeps DEF Genuine
    <2> QED BY <1>1, <2>1, <2>2 DEF VerifyCycle
  <1>8. CASE x.data # "broken" /\ x.kind = "ethash"
    <2>1. VerifySpecial(S, s, lucky) = VerifyEthash(S, s)
      BY <1>8 DEF VerifySpecial
    <2> QED BY <1>2, <2>1 DEF VerifyEthash
  <1>9. CASE x.data # "broken" /\ x.kind = "kawpow"
    <2>1. VerifySpecial(S, s, lucky) = VerifyKawpow(S, s, lucky)
      BY <1>9 DEF VerifySpecial
    <2> QED BY <1>2, <1>3, <1>4, <1>5, <1>9, <2>1 DEF VerifyKawpow
  <1>10. CASE x.data # "broken" /\ x.kind = "pearl"
    <2>1. VerifySpecial(S, s, lucky) = VerifyPearl(S, s, lucky)
      BY <1>10 DEF VerifySpecial
    <2> QED BY <1>1, <1>2, <1>3, <1>4, <1>10, <2>1 DEF VerifyPearl
  <1> QED BY <1>0, <1>6, <1>7, <1>8, <1>9, <1>10

\* The record y of the share in hand is put down outside the verifier's queue.
LEMMA TurnKeeps ==
    ASSUME NEW S, NEW s, Hand(S, s), NEW T, NEW y, Turned(S, T, s, y), RecOK(y),
           Same(S.share[s], y), y.stage \notin {"queued", "done", "wait"}, Local(y),
           s \in S.suspects => Checked(y)
    PROVE  Good(T)
  <1>1. Hand(T, s) /\ T.share[s] = y
    BY Retouch
  <1>2. T.suspects = S.suspects /\ T.asks = S.asks
    BY DEF Turned
  <1>3. ShareOK(T, s) /\ T.share[s].stage # "wait"
    BY <1>1, <1>2 DEF ShareOK
  <1> QED BY <1>1, <1>3, PutDown

\* acceptTrustedShare
LEMMA AcceptTrustedKeeps ==
    ASSUME NEW S, NEW s, Hand(S, s), s \notin S.suspects, ~S.share[s].started,
           S.share[s].meets \cap Chains = {}
    PROVE  Good(AcceptTrusted(S, s))
  <1> DEFINE R == IF W(S, s) \in Watched /\ S.share[s].data # "broken" /\ CanAsk(S, s)
                  THEN AskAlso(S, s, "main", "watch") ELSE S
             x == S.share[s]
             y == [x EXCEPT !.stage = "delay"]
             T == [R EXCEPT !.share[s] = y]
  <1>0. RecOK(x) /\ DOMAIN x = ShareFields /\ x.answer # "true" /\ "main" \in Chains
    BY HandIs DEF Chains
  <1>1. Hand(R, s) /\ R.share = S.share /\ R.suspects = S.suspects
    <2> DEFINE U == AskAlso(S, s, "main", "watch")
    <2>1. Loose(U, {s}, {}, {}, {}) /\ U.share = S.share /\ U.suspects = S.suspects
      BY <1>0, AskAlsoKeeps DEF Hand
    <2> HIDE DEF U
    <2>2. Hand(U, s) /\ U.share = S.share /\ U.suspects = S.suspects
      BY <2>1 DEF Hand
    <2>3. R = U \/ R = S
      BY DEF U
    <2> HIDE DEF R
    <2> QED BY <2>2, <2>3
  <1>2. AcceptTrusted(S, s) = [R EXCEPT !.share[s].stage = "delay"]
    BY DEF AcceptTrusted, SetStage
  <1> HIDE DEF R
  <1>3. AcceptTrusted(S, s) = T
    BY <1>1, <1>2, HandIs DEF Fields
  <1>4. Same(x, y) /\ y.stage = "delay" /\ y.sub = x.sub /\ DOMAIN y = ShareFields
    BY <1>0 DEF ShareFields, Same
  <1> HIDE DEF y
  <1>5. RecOK(y)
    BY <1>0, <1>4 DEF RecOK, Same
  <1>6. Turned(R, T, s, y)
    BY <1>1, TurnedIs
  <1> HIDE DEF T
  <1>7. Local(y)
    BY <1>0, <1>4 DEF Local, Same
  <1>8. Same(R.share[s], y) /\ s \notin R.suspects
    BY <1>1, <1>4
  <1>9. y.stage \notin {"queued", "done", "wait"}
    BY <1>4
  <1> QED BY <1>1, <1>3, <1>5, <1>6, <1>7, <1>8, <1>9, TurnKeeps

\* submitTrustedCandidate: the block goes out before its hash is known.
LEMMA SubmitTrustedKeeps ==
    ASSUME NEW S, NEW s, Hand(S, s), "main" \in S.share[s].meets, NEW V,
           V = SubmitTo([StartVerification(S, s) EXCEPT !.share[s].mode = "trusted",
                                                        !.share[s].stage = "submit"], s, "main")
    PROVE  Good(V)
  <1> DEFINE T == StartVerification(S, s)
             x == T.share[s]
             y == [x EXCEPT !.mode = "trusted", !.stage = "submit"]
             U == [T EXCEPT !.share[s] = y]
  <1>1. /\ Hand(T, s) /\ T.suspects = S.suspects /\ T.asks = S.asks
        /\ \/ T.share[s] = S.share[s]
           \/ T.share[s] = [S.share[s] EXCEPT !.started = TRUE]
    BY StartVerificationKeeps
  <1>2. V = SubmitTo(U, s, "main")
    OBVIOUS
  <1> HIDE DEF T
  <1>3. "main" \in x.meets
    <2>1. DOMAIN S.share[s] = ShareFields
      BY HandIs
    <2> QED BY <1>1, <2>1 DEF ShareFields
  <1>4. /\ RecOK(x) /\ DOMAIN x = ShareFields /\ x.answer # "true"
        /\ s \in T.suspects => x.meets \cap Chains = {}
    BY <1>1, HandIs
  <1>5. Same(x, y) /\ y.stage = "submit" /\ y.sub = x.sub /\ DOMAIN y = ShareFields
    BY <1>4 DEF ShareFields, Same
  <1> HIDE DEF y
  <1>6. RecOK(y)
    BY <1>4, <1>5 DEF RecOK, Same
  <1>7. Turned(T, U, s, y)
    BY <1>1, TurnedIs
  <1> HIDE DEF U
  <1>8. Hand(U, s) /\ U.share[s] = y
    BY <1>1, <1>5, <1>6, <1>7, Retouch
  <1>9. Hand(V, s) /\ V.suspects = U.suspects /\ V.asks = U.asks /\ Sent(y, V.share[s], "main")
    BY <1>2, <1>8, SubmitToKeeps DEF Chains
  <1>10. s \notin V.suspects
    BY <1>3, <1>4, <1>7, <1>9 DEF Turned, Chains
  <1>11. ShareOK(V, s) /\ V.share[s].stage # "wait"
    BY <1>4, <1>5, <1>9, <1>10 DEF ShareOK, Local, Sent, Same
  <1> QED BY <1>9, <1>11, PutDown

LEMMA VerifyKeeps ==
    ASSUME NEW S, NEW s, NEW lucky, Fresh(S, s)
    PROVE  Good(Verify(S, s, lucky))
  <1> DEFINE x == S.share[s]
             M == SubmitTo([StartVerification(S, s) EXCEPT !.share[s].mode = "trusted",
                                                           !.share[s].stage = "submit"], s, "main")
             mode == IF "main" \in x.meets THEN "candidate" ELSE "slow"
  <1>0. /\ Hand(S, s) /\ ~x.started /\ (s \in S.suspects => x.kind # "cycle")
        /\ RecOK(x) /\ DOMAIN x = ShareFields /\ x.answer # "true"
    BY HandIs DEF Fresh
  <1>1. CASE x.kind # "standard"
    BY <1>1, VerifySpecialKeeps DEF Verify
  <1>2. CASE x.kind = "standard" /\ Trusted(S, s, lucky)
    <2>0. /\ s \notin S.suspects /\ x.meets \cap Chains = {}
      BY <1>2, TrustedIs
    <2>1. CASE MustQueue(S, s)
      <3>1. Good(Enqueue(S, s))
        BY <1>0, <1>2, <2>0, <2>1, EnqueueKeeps
      <3> QED BY <1>2, <2>1, <3>1 DEF Verify
    <2>2. CASE ~MustQueue(S, s)
      <3>1. Good(AcceptTrusted(S, s))
        BY <1>0, <2>0, AcceptTrustedKeeps
      <3> QED BY <1>2, <2>2, <3>1 DEF Verify
    <2> QED BY <2>1, <2>2
  <1>3. CASE x.kind = "standard" /\ ~Trusted(S, s, lucky)
    <2>1. Good(Invalid(S, s))
      BY <1>0, InvalidKeeps
    <2>2. "main" \in x.meets => Good(M)
      BY <1>0, SubmitTrustedKeeps
    <2>3. Good(AskHashFor(S, s, mode))
      <3>1. /\ mode \in {"slow", "candidate", "special", "failedSubmit"}
            /\ mode = "slow" => "main" \notin x.meets
            /\ mode = "candidate" => "main" \in x.meets
            /\ mode # "failedSubmit"
        OBVIOUS
      <3> HIDE DEF mode
      <3> QED BY <1>0, <3>1, AskHashForKeeps
    <2>4. Verify(S, s, lucky) =
             IF x.data = "broken" THEN Invalid(S, s)
             ELSE IF "main" \in x.meets /\ HasSubmitTrust(S, x.m) THEN M
             ELSE AskHashFor(S, s, mode)
      BY <1>3 DEF Verify
    <2> HIDE DEF M, mode
    <2> QED BY <2>1, <2>2, <2>3, <2>4
  <1> QED BY <1>1, <1>2, <1>3

\* The hash confirms the claim of the share.
LEMMA VerifiedKeeps ==
    ASSUME NEW S, NEW s, Hand(S, s), Asking(S.share[s]), S.share[s].data = "good"
    PROVE  Good(Verified(S, s))
  <1> DEFINE x == S.share[s]
             y == [x EXCEPT !.verified = TRUE]
             T == [S EXCEPT !.share[s] = y]
             U == IF x.kind \in {"kawpow", "ethash"} THEN T ELSE AddWalletTrust(T, s)
             b == x.mode \in {"candidate", "special"}
  <1>1. RecOK(x) /\ DOMAIN x = ShareFields /\ x.stage \notin {"queued", "done"}
    BY HandIs
  <1>2. Verified(S, s) = Complete(U, s, b)
    BY DEF Verified
  <1>3. Same(x, y) /\ y.stage = x.stage /\ y.sub = x.sub /\ DOMAIN y = ShareFields /\ y.verified
    BY <1>1 DEF ShareFields, Same
  <1> HIDE DEF y
  <1>4. RecOK(y)
    BY <1>1, <1>3 DEF RecOK, Same
  <1>5. Turned(S, T, s, y)
    BY TurnedIs
  <1> HIDE DEF T
  <1>6. Hand(T, s) /\ T.share[s] = y
    BY <1>1, <1>3, <1>4, <1>5, Retouch
  <1>7. Hand(U, s) /\ U.share = T.share
    <2>1. Typed(T)
      BY <1>6, HandIs
    <2>2. Quiet(T, U)
      BY <2>1, QuietSelf, AddWalletTrustIsQuiet
    <2> HIDE DEF U
    <2> QED BY <1>6, <2>2, HandQuiet
  <1> HIDE DEF U
  <1>8. /\ Genuine(U.share[s]) /\ U.share[s].verified
        /\ b \/ ("main" \in U.share[s].meets => U.share[s].sub["main"] # "none")
    BY <1>3, <1>6, <1>7 DEF Genuine, Same, Asking
  <1> HIDE DEF b
  <1> QED BY <1>2, <1>7, <1>8, CompleteKeeps

-----------------------------------------------------------------------------
(* The outcome of a block submission *)

\* Only the progress of a submission changes, whatever the share is doing.
LEMMA OutcomeKeeps ==
    ASSUME NEW S, Good(S), NEW s \in DOMAIN S.share, NEW c \in Chains, NEW v, v # "none",
           NEW T, T = [S EXCEPT !.share[s].sub[c] = v]
    PROVE  Good(T) /\ s \in DOMAIN T.share /\ Sent(S.share[s], T.share[s], c)
  <1> DEFINE x == S.share[s]
             y == [x EXCEPT !.sub[c] = v]
  <1>0. /\ Typed(S) /\ ListOK(S.share) /\ DOMAIN S = Fields /\ KeysOK(S.share, S.keys)
        /\ RecOK(x) /\ DOMAIN x = ShareFields /\ DOMAIN x.sub = Chains /\ ShareOK(S, s)
    BY DEF Good, Loose, Typed, ListOK, RecOK
  <1>1. /\ DOMAIN T = Fields /\ T.wal = S.wal /\ T.keys = S.keys
        /\ T.suspects = S.suspects /\ T.asks = S.asks
        /\ T.gate = S.gate /\ T.share = [S.share EXCEPT ![s] = y]
    BY <1>0 DEF Fields
  <1>2. y.sub = [x.sub EXCEPT ![c] = v]
    BY <1>0 DEF ShareFields
  <1>3. y.sub[c] = v /\ DOMAIN y.sub = Chains /\ \A e \in Chains : e # c => y.sub[e] = x.sub[e]
    BY <1>0, <1>2
  <1>4. /\ DOMAIN y = ShareFields /\ Same(x, y) /\ y.stage = x.stage /\ y.mode = x.mode
        /\ y.verified = x.verified /\ y.forced = x.forced
    BY <1>0 DEF ShareFields, Same
  <1> HIDE DEF y
  <1>5. RecOK(y)
    BY <1>0, <1>3, <1>4 DEF RecOK, Same
  <1>6. Sent(x, y, c)
    BY <1>3, <1>4, <1>5 DEF Sent
  <1>7. /\ ListOK(T.share) /\ DOMAIN T.share = DOMAIN S.share /\ T.share[s] = y
        /\ \A t \in DOMAIN S.share : t # s => T.share[t] = S.share[t]
    BY <1>0, <1>1, <1>5, ListUpdate
  <1>8. \A t \in DOMAIN S.share :
           /\ T.share[t].stage = S.share[t].stage /\ T.share[t].m = S.share[t].m
           /\ T.share[t].n = S.share[t].n /\ T.share[t].answer = S.share[t].answer
           /\ T.share[t].started = S.share[t].started
           /\ T.share[t].fromQueue = S.share[t].fromQueue
    BY <1>4, <1>7 DEF Same
  <1>9. Typed(T)
    BY <1>0, <1>1, <1>7 DEF Typed
  <1>10. KeysOK(T.share, T.keys)
    BY <1>0, <1>1, <1>7, <1>8 DEF KeysOK, Holds
  <1>11. \A t \in DOMAIN T.share : IF t \in {} THEN InHand(T, t) ELSE ShareOK(T, t)
    <2> SUFFICES ASSUME NEW t \in DOMAIN T.share PROVE ShareOK(T, t)
      OBVIOUS
    <2>1. CASE t = s
      <3>1. Local(x) /\ (s \in S.suspects => /\ Checked(x)
                                             /\ x.stage = "queued" => S.gate[W(S, s)].force)
        BY <1>0 DEF ShareOK
      <3>2. Asking(x) => Asking(y)
        BY <1>4, <1>6 DEF Asking, Sent, Same, Chains
      <3>3. Submitted(x) /\ Genuine(x) => Submitted(y) /\ Genuine(y)
        BY <1>4, <1>6 DEF Submitted, Genuine, Sent, Same
      <3>4. x.sub["main"] # "none" => y.sub["main"] # "none"
        BY <1>6 DEF Sent, Chains
      <3>5. Local(y)
        BY <1>4, <3>1, <3>2, <3>3, <3>4 DEF Local, Same
      <3>6. s \in S.suspects => Checked(y)
        BY <1>4, <3>1 DEF Checked, Same
      <3>7. W(T, s) = W(S, s)
        BY <1>4, <1>7 DEF W, Same
      <3>8. ShareOK(T, s)
        BY <1>1, <1>4, <1>7, <3>1, <3>5, <3>6, <3>7 DEF ShareOK
      <3> QED BY <2>1, <3>8
    <2>2. CASE t # s
      <3>1. ShareOK(S, t) /\ T.share[t] = S.share[t]
        BY <1>7, <2>2 DEF Good, Loose
      <3> QED BY <1>1, <3>1 DEF ShareOK, W
    <2> QED BY <2>1, <2>2
  <1>12. Gates(T, {}, {}, {}, {})
    <2> SUFFICES ASSUME NEW w \in Wallets
                 PROVE  /\ Running(T, w, {}) /\ Tasks(T, w, {}) /\ Lines(T, w)
                        /\ Awake(T, w) /\ Serving(T, w, {})
      BY DEF Gates
    <2>1. /\ Running(S, w, {}) /\ Tasks(S, w, {}) /\ Lines(S, w)
          /\ Awake(S, w) /\ Serving(S, w, {})
      BY DEF Good, Loose, Gates
    <2>2. Act(T.share, w) = Act(S.share, w) /\ Act(S.share, w) \subseteq DOMAIN S.share
      BY <1>7, <1>8 DEF Act
    <2>3. /\ Started(T.share, w) = Started(S.share, w)
          /\ Waiting(T.share, w) = Waiting(S.share, w)
          /\ Served(T.share, w) = Served(S.share, w)
          /\ Queued(T.share, w) = Queued(S.share, w)
      <3>1. Started(T.share, w) = Started(S.share, w)
        BY <1>8, <2>2 DEF Started
      <3>2. Waiting(T.share, w) = Waiting(S.share, w)
        BY <1>8, <2>2 DEF Waiting
      <3>3. Served(T.share, w) = Served(S.share, w)
        BY <1>8, <2>2 DEF Served
      <3>4. Queued(T.share, w) = Queued(S.share, w)
        BY <1>8, <2>2 DEF Queued
      <3> QED BY <3>1, <3>2, <3>3, <3>4
    <2> QED BY <1>1, <2>1, <2>3 DEF Running, Tasks, Lines, Awake, Serving
  <1> QED BY <1>6, <1>7, <1>9, <1>10, <1>11, <1>12 DEF Good, Loose

LEMMA SubmitOutcomeKeeps ==
    ASSUME NEW S, NEW s \in DOMAIN S.share, Good(S), NEW c, NEW ok,
           ok => S.share[s].data = "good"
    PROVE  Good(SubmitOutcome(S, s, c, ok))
  <1> DEFINE x == S.share[s]
             T == AddWalletTrust(S, s)
  <1>1. CASE x.stage # "submit" \/ c # "main"
    BY <1>1 DEF SubmitOutcome
  <1>2. CASE ~(x.stage # "submit" \/ c # "main")
    <2>1. Hand(S, s) /\ s \notin S.suspects /\ x.sub["main"] # "none"
      <3>1. ShareOK(S, s)
        BY DEF Good, Loose
      <3> QED BY <1>2, <3>1, PickUp DEF ShareOK, Checked, Local
    <2>2. Quiet(S, T)
      BY <2>1, HandIs, AddWalletTrustIsQuiet
    <2> HIDE DEF T
    <2>3. Hand(T, s) /\ T.share = S.share /\ T.suspects = S.suspects /\ T.asks = S.asks
      BY <2>1, <2>2, HandQuiet
    <2>4. ok => Good(Complete(T, s, FALSE))
      BY <2>1, <2>3, CompleteKeeps DEF Genuine
    <2>5. Good(AskHashFor(S, s, "failedSubmit"))
      BY <2>1, AskHashForKeeps
    <2>6. Good(Finish(S, s, "null"))
      BY <2>1, FinishKeeps
    <2> QED BY <1>2, <2>4, <2>5, <2>6 DEF SubmitOutcome, T
  <1> QED BY <1>1, <1>2

LEMMA SubmitFailsKeeps ==
    ASSUME NEW S, NEW s \in DOMAIN S.share, Good(S), NEW c
    PROVE  Good(SubmitFails(S, s, c))
  <1> DEFINE T == ClearTrust(S, S.share[s].m)
  <1>1. Quiet(S, T)
    BY ClearTrustIsQuiet DEF Good, Loose
  <1> HIDE DEF T
  <1>2. Good(T) /\ T.share = S.share
    BY <1>1, QuietKeeps DEF Good, Quiet
  <1>3. Good(SubmitOutcome(T, s, c, FALSE))
    BY <1>2, SubmitOutcomeKeeps
  <1> QED BY <1>3 DEF SubmitFails, T

\* What AskEnds makes of the entry before it goes on.
Ended(S, i, match) ==
    [S EXCEPT !.asks[i].why = "mail",
              !.asks[i].stage = IF S.asks[i].why = "notify" /\ match THEN "timer" ELSE "done"]

LEMMA AskEndsKeeps ==
    ASSUME NEW S, NEW i, NEW match, Good(Ended(S, i, match)),
           S.asks[i].s \in DOMAIN Ended(S, i, match).share
    PROVE  Good(AskEnds(S, i, match))
  <1> DEFINE T == Ended(S, i, match)
             k == S.asks[i]
  <1>1. AskEnds(S, i, match) = CASE k.why = "notify" -> SubmitFails(T, k.s, k.c)
                                 [] k.why = "report" -> SubmitOutcome(T, k.s, k.c, FALSE)
                                 [] OTHER -> T
    BY DEF AskEnds, Ended
  <1> HIDE DEF T, k
  <1>2. Good(T) /\ k.s \in DOMAIN T.share
    BY DEF T, k
  <1>3. Good(SubmitFails(T, k.s, k.c))
    BY <1>2, SubmitFailsKeeps
  <1>4. Good(SubmitOutcome(T, k.s, k.c, FALSE))
    BY <1>2, SubmitOutcomeKeeps
  <1>5. CASE k.why = "notify"
    BY <1>1, <1>3, <1>5
  <1>6. CASE k.why = "report"
    BY <1>1, <1>4, <1>6
  <1>7. CASE k.why \notin {"notify", "report"}
    BY <1>1, <1>2, <1>7
  <1> QED BY <1>5, <1>6, <1>7

-----------------------------------------------------------------------------
(* The submit handler *)

\* T is S with the new share s, which has its submission keys.
Arrived(S, T, s, x) ==
    /\ DOMAIN T = Fields /\ T.wal = S.wal /\ T.gate = S.gate
    /\ T.suspects = S.suspects /\ T.asks = S.asks
    /\ DOMAIN T.keys = {"job", "template"}
    /\ T.keys.job = S.keys.job \cup {<<x.m, x.n>>} /\ S.keys.template \subseteq T.keys.template
    /\ SharedNonces => x.n \in T.keys.template
    /\ ListOK(T.share) /\ s \notin DOMAIN S.share /\ DOMAIN T.share = DOMAIN S.share \cup {s}
    /\ T.share[s] = x /\ \A t \in DOMAIN S.share : T.share[t] = S.share[t]

LEMMA ArriveKeeps ==
    ASSUME NEW S, Good(S), NEW T, NEW s, NEW x, Arrived(S, T, s, x), RecOK(x),
           <<x.m, x.n>> \notin S.keys.job, SharedNonces => x.n \notin S.keys.template,
           x.stage = "new", ~x.started, ~x.fromQueue, x.answer # "true"
    PROVE  Fresh(T, s)
  <1>0. Typed(S) /\ ListOK(S.share) /\ KeysOK(S.share, S.keys) /\ S.suspects \subseteq DOMAIN S.share
    BY DEF Good, Loose, Typed
  <1>1. /\ DOMAIN T = Fields /\ T.wal = S.wal /\ T.gate = S.gate
        /\ T.suspects = S.suspects /\ T.asks = S.asks
        /\ DOMAIN T.keys = {"job", "template"} /\ ListOK(T.share)
        /\ s \notin DOMAIN S.share /\ DOMAIN T.share = DOMAIN S.share \cup {s}
        /\ T.share[s] = x /\ \A t \in DOMAIN S.share : T.share[t] = S.share[t]
    BY DEF Arrived
  <1>2. Typed(T)
    <2>1. AsksOK(T.asks, DOMAIN T.share)
      BY <1>0, <1>1 DEF Typed, AsksOK, AskOK
    <2> QED BY <1>0, <1>1, <2>1 DEF Typed
  <1>3. KeysOK(T.share, T.keys)
    <2>1. /\ S.keys.job \subseteq T.keys.job /\ S.keys.template \subseteq T.keys.template
          /\ <<x.m, x.n>> \in T.keys.job /\ (SharedNonces => x.n \in T.keys.template)
      BY DEF Arrived
    <2>2. ASSUME NEW t \in DOMAIN S.share, Holds(S.share[t]), S.share[t].n = x.n
          PROVE  S.share[t].m # x.m /\ ~SharedNonces
      BY <1>0, <2>2 DEF KeysOK
    <2> SUFFICES ASSUME NEW t \in DOMAIN T.share, Holds(T.share[t])
                 PROVE  /\ <<T.share[t].m, T.share[t].n>> \in T.keys.job
                        /\ SharedNonces => T.share[t].n \in T.keys.template
                        /\ \A r \in DOMAIN T.share :
                             t # r /\ Holds(T.share[r]) /\ T.share[t].n = T.share[r].n =>
                                 T.share[t].m # T.share[r].m /\ ~SharedNonces
      BY DEF KeysOK
    <2>3. CASE t = s
      BY <1>1, <2>1, <2>2, <2>3
    <2>4. CASE t # s
      <3>1. t \in DOMAIN S.share /\ T.share[t] = S.share[t]
        BY <1>1, <2>4
      <3>2. /\ <<S.share[t].m, S.share[t].n>> \in S.keys.job
            /\ SharedNonces => S.share[t].n \in S.keys.template
            /\ \A r \in DOMAIN S.share :
                 t # r /\ Holds(S.share[r]) /\ S.share[t].n = S.share[r].n =>
                     S.share[t].m # S.share[r].m /\ ~SharedNonces
        BY <1>0, <3>1 DEF KeysOK
      <3>3. S.share[t].n = x.n => S.share[t].m # x.m /\ ~SharedNonces
        BY <2>2, <3>1
      <3>4. \A r \in DOMAIN T.share :
              t # r /\ Holds(T.share[r]) /\ T.share[t].n = T.share[r].n =>
                  T.share[t].m # T.share[r].m /\ ~SharedNonces
        BY <1>1, <3>1, <3>2, <3>3
      <3> QED BY <2>1, <3>1, <3>2, <3>4
    <2> QED BY <2>3, <2>4
  <1>4. \A t \in DOMAIN T.share : IF t \in {s} THEN InHand(T, t) ELSE ShareOK(T, t)
    <2> TAKE t \in DOMAIN T.share
    <2>1. CASE t = s
      <3>1. s \notin T.suspects
        BY <1>0, <1>1
      <3> QED BY <1>1, <2>1, <3>1 DEF InHand
    <2>2. CASE t # s
      <3>1. t \in DOMAIN S.share /\ T.share[t] = S.share[t]
        BY <1>1, <2>2
      <3>2. ShareOK(S, t)
        BY <3>1 DEF Good, Loose
      <3>3. ShareOK(T, t)
        BY <1>1, <3>1, <3>2 DEF ShareOK, W
      <3> QED BY <2>2, <3>3
    <2> QED BY <2>1, <2>2
  <1>5. Gates(T, {}, {s}, {}, {})
    <2> SUFFICES ASSUME NEW w \in Wallets
                 PROVE  /\ Running(T, w, {}) /\ Tasks(T, w, {s}) /\ Lines(T, w)
                        /\ Awake(T, w) /\ Serving(T, w, {})
      BY DEF Gates
    <2>1. /\ Running(S, w, {}) /\ Tasks(S, w, {}) /\ Lines(S, w)
          /\ Awake(S, w) /\ Serving(S, w, {})
      BY DEF Good, Loose, Gates
    <2>2. /\ Act(S.share, w) \subseteq DOMAIN S.share
          /\ Act(T.share, w) \subseteq Act(S.share, w) \cup {s}
          /\ Act(S.share, w) \subseteq Act(T.share, w)
      BY <1>1 DEF Act
    <2>3. Started(T.share, w) = Started(S.share, w)
      BY <1>1, <2>2 DEF Started
    <2>4. Waiting(T.share, w) \ {s} = Waiting(S.share, w) \ {}
      BY <1>1, <2>2 DEF Waiting
    <2>5. Served(T.share, w) = Served(S.share, w)
      BY <1>1, <2>2 DEF Served
    <2>6. Queued(T.share, w) = Queued(S.share, w)
      BY <1>1, <2>2 DEF Queued
    <2> QED BY <1>1, <2>1, <2>3, <2>4, <2>5, <2>6 DEF Running, Tasks, Lines, Awake, Serving
  <1>6. s \notin T.suspects
    BY <1>0, <1>1
  <1> QED BY <1>1, <1>2, <1>3, <1>4, <1>5, <1>6 DEF Fresh, Hand, Loose

LEMMA ProcessShareKeeps ==
    ASSUME NEW S, NEW s, NEW lucky, Fresh(S, s)
    PROVE  Good(ProcessShare(S, s, lucky))
  <1> DEFINE T == [S EXCEPT !.wal[W(S, s)].rate = @ + 1]
  <1>1. Typed(S) /\ Hand(S, s)
    BY HandIs DEF Fresh
  <1>2. Quiet(S, T)
    BY <1>1 DEF Quiet, Typed, Fields, WalOK
  <1>3. ProcessShare(S, s, lucky) =
           IF T.wal[W(S, s)].rate > RateLimit THEN Finish(T, s, "null") ELSE Verify(T, s, lucky)
    BY DEF ProcessShare
  <1> HIDE DEF T
  <1>4. Hand(T, s) /\ T.share = S.share /\ T.suspects = S.suspects /\ T.asks = S.asks
    BY <1>1, <1>2, HandQuiet
  <1>5. Fresh(T, s)
    BY <1>4 DEF Fresh
  <1> QED BY <1>3, <1>4, <1>5, FinishKeeps, VerifyKeeps

-----------------------------------------------------------------------------
(* The actions *)

LEMMA BecomeKeeps ==
    ASSUME NEW S, Good(S), Become(S)
    PROVE  Good(Now')
  <1>1. /\ sess' = S.sess /\ wal' = S.wal /\ gate' = S.gate /\ keys' = S.keys
        /\ share' = S.share /\ asks' = S.asks /\ events' = S.events /\ suspects' = S.suspects
    BY DEF Become
  <1>2. /\ DOMAIN Now' = Fields /\ (Now').wal = wal' /\ (Now').gate = gate'
        /\ (Now').keys = keys' /\ (Now').share = share' /\ (Now').suspects = suspects'
        /\ (Now').asks = asks'
    BY DEF Now, Fields
  <1>3. Quiet(S, Now')
    BY <1>1, <1>2 DEF Quiet, Good, Loose, Typed
  <1> QED BY <1>3, QuietKeeps DEF Good

LEMMA GoodQuiet ==
    ASSUME NEW S, Good(S), NEW T, Quiet(S, T)
    PROVE  Good(T)
  BY QuietKeeps DEF Good

LEMMA NowIs ==
    /\ DOMAIN Now = Fields /\ Now.sess = sess /\ Now.wal = wal /\ Now.gate = gate
    /\ Now.keys = keys /\ Now.share = share /\ Now.suspects = suspects /\ Now.events = events
    /\ Now.asks = asks
  BY DEF Now, Fields

LEMMA EventIs ==
    ASSUME Good(Now)
    PROVE  Good(Event) /\ Typed(Event) /\ Quiet(Now, Event)
  <1>1. Quiet(Now, Event)
    BY DEF Quiet, Event, Good, Loose, Typed, Fields, WalOK
  <1>2. Good(Event)
    BY <1>1, GoodQuiet
  <1> QED BY <1>1, <1>2 DEF Good, Loose

\* The list r is q with the record x at the new place s.
Extended(q, r, s, x) ==
    /\ ListOK(r) /\ s \notin DOMAIN q /\ DOMAIN r = DOMAIN q \cup {s}
    /\ r[s] = x /\ \A t \in DOMAIN q : r[t] = q[t]

LEMMA ListAppend ==
    ASSUME NEW q, ListOK(q), NEW x, RecOK(x)
    PROVE  Extended(q, Append(q, x), Len(q) + 1, x)
  <1> DEFINE r == Append(q, x)
  <1>1. PICK k \in Nat : q = [i \in 1..k |-> q[i]]
    BY DEF ListOK
  <1> DEFINE X == {q[i] : i \in 1..k} \cup {x}
  <1>2. q \in [1..k -> X]
    BY <1>1
  <1>3. q \in Seq(X) /\ x \in X
    BY <1>2
  <1>4. DOMAIN q = 1..k /\ Len(q) = k
    BY <1>1, <1>3
  <1> HIDE DEF X
  <1>5. /\ r \in Seq(X) /\ Len(r) = k + 1 /\ r[k + 1] = x /\ \A i \in 1..k : r[i] = q[i]
    BY <1>3, <1>4
  <1> HIDE DEF r
  <1>6. r \in [1..(k + 1) -> X]
    BY <1>5
  <1>7. DOMAIN r = 1..(k + 1) /\ r = [i \in 1..(k + 1) |-> r[i]]
    BY <1>6
  <1>8. 1..(k + 1) = (1..k) \cup {k + 1} /\ k + 1 \notin 1..k
    OBVIOUS
  <1>9. \A t \in DOMAIN r : RecOK(r[t])
    BY <1>4, <1>5, <1>7, <1>8 DEF ListOK
  <1>10. ListOK(r)
    BY <1>7, <1>9 DEF ListOK
  <1>11. Extended(q, r, Len(q) + 1, x)
    BY <1>4, <1>5, <1>7, <1>8, <1>10 DEF Extended
  <1> QED BY <1>11 DEF r

\* A submission with free keys joins the shares.
Arrive(S, m, n, x) ==
    [S EXCEPT !.keys.job = @ \cup {<<m, n>>},
              !.keys.template = IF SharedNonces THEN @ \cup {n} ELSE @,
              !.share = Append(@, x)]

LEMMA ArriveIs ==
    ASSUME NEW S, Typed(S), NEW x, RecOK(x), NEW T, T = Arrive(S, x.m, x.n, x)
    PROVE  Arrived(S, T, Len(S.share) + 1, x)
  <1>1. /\ DOMAIN T = Fields /\ T.wal = S.wal /\ T.gate = S.gate
        /\ T.suspects = S.suspects /\ T.asks = S.asks
        /\ T.share = Append(S.share, x)
    BY DEF Arrive, Typed, Fields
  <1>2. /\ DOMAIN T.keys = {"job", "template"}
        /\ T.keys.job = S.keys.job \cup {<<x.m, x.n>>}
        /\ T.keys.template = IF SharedNonces THEN S.keys.template \cup {x.n} ELSE S.keys.template
    BY DEF Arrive, Typed, Fields
  <1>3. S.keys.template \subseteq T.keys.template /\ (SharedNonces => x.n \in T.keys.template)
    BY <1>2
  <1>4. ListOK(S.share)
    BY DEF Typed
  <1>5. Extended(S.share, T.share, Len(S.share) + 1, x)
    BY <1>1, <1>4, ListAppend
  <1> QED BY <1>1, <1>2, <1>3, <1>5 DEF Arrived, Extended

LEMMA SubmitKeeps ==
    ASSUME Good(Now), NEW m \in Sessions, NEW n, NEW meets \in Claims, NEW data,
           NEW kind \in KindsOf[m], NEW lucky, Submit(m, n, meets, data, kind, lucky)
    PROVE  Good(Now')
  <1> DEFINE s == Len(share) + 1
             x == NewShare(m, n, meets, data, kind)
             T == Arrive(Now, m, n, x)
  <1>1. /\ x.m = m /\ x.n = n /\ x.meets = meets /\ x.kind = kind /\ x.stage = "new"
        /\ ~x.started /\ ~x.fromQueue /\ x.answer # "true" /\ DOMAIN x = ShareFields
        /\ DOMAIN x.sub = Chains
    BY DEF NewShare, ShareFields
  <1>2. RecOK(x)
    BY <1>1, PoolSharesAssumption DEF RecOK
  <1>3. ~Reserved(m, n) /\ Become(ProcessShare(T, s, lucky))
    BY DEF Submit, Arrive
  <1> HIDE DEF x
  <1>4. Typed(Now) /\ Now.share = share /\ Now.keys = keys
    BY NowIs DEF Good, Loose
  <1>5. T = Arrive(Now, x.m, x.n, x)
    BY <1>1
  <1> HIDE DEF T
  <1>6. Arrived(Now, T, s, x)
    BY <1>2, <1>4, <1>5, ArriveIs
  <1> HIDE DEF s
  <1>7. <<x.m, x.n>> \notin Now.keys.job /\ (SharedNonces => x.n \notin Now.keys.template)
    BY <1>1, <1>3, <1>4 DEF Reserved
  <1>8. Fresh(T, s)
    BY <1>1, <1>2, <1>6, <1>7, ArriveKeeps
  <1>9. Good(ProcessShare(T, s, lucky))
    BY <1>8, ProcessShareKeeps
  <1> QED BY <1>3, <1>9, BecomeKeeps

LEMMA EnvironmentKeeps ==
    ASSUME Good(Now), Environment
    PROVE  Good(Now')
  <1>0. /\ Good(Event) /\ Typed(Event) /\ DOMAIN Event = Fields /\ WalOK(Event.wal)
        /\ Event.wal = wal /\ Event.sess = sess
    BY EventIs, NowIs DEF Typed, Event
  <1>1. ASSUME NEW m \in Sessions, Disconnect(m) PROVE Good(Now')
    <2>1. Quiet(Event, RemoveSession(Event, m))
      BY <1>0 DEF RemoveSession, Quiet, Fields, WalOK
    <2> QED BY <1>0, <1>1, <2>1, GoodQuiet, BecomeKeeps DEF Disconnect
  <1>2. ASSUME NEW m \in Sessions, NEW n \in Nonces, SubmitRefused(m, n) PROVE Good(Now')
    <2>1. Quiet(Event, CheckBan(Event, m, FALSE))
      BY <1>0, CheckBanIsQuiet
    <2> QED BY <1>0, <1>2, <2>1, GoodQuiet, BecomeKeeps DEF SubmitRefused
  <1>3. ASSUME NEW m \in Sessions, NEW n \in Nonces, NEW meets \in Claims, NEW data \in Data,
               NEW lucky \in BOOLEAN, NEW kind \in KindsOf[m], Submit(m, n, meets, data, kind, lucky)
        PROVE  Good(Now')
    BY <1>3, SubmitKeeps
  <1>4. ASSUME NEW w \in Wallets, BanWallet(w) PROVE Good(Now')
    <2> DEFINE T == [Event EXCEPT !.wal[w].banned = TRUE]
    <2>1. Quiet(Event, T)
      BY <1>0 DEF Quiet, Fields, WalOK
    <2>2. Become(T)
      BY <1>4 DEF BanWallet
    <2> HIDE DEF T
    <2> QED BY <1>0, <2>1, <2>2, GoodQuiet, BecomeKeeps
  <1>5. CASE ResetWindow
    <2> DEFINE v == [w \in Wallets |-> [wal[w] EXCEPT !.rate = 0]]
               T == [Event EXCEPT !.wal = v]
    <2>1. WalOK(v) /\ \A w \in Wallets : v[w].pending = wal[w].pending
      BY <1>0 DEF WalOK
    <2>2. Become(T)
      BY <1>5 DEF ResetWindow
    <2> HIDE DEF v
    <2>3. Quiet(Event, T)
      BY <1>0, <2>1 DEF Quiet, Fields
    <2> HIDE DEF T
    <2> QED BY <1>0, <2>2, <2>3, GoodQuiet, BecomeKeeps
  <1>6. CASE CheckNextShare
    <2> DEFINE v == [m \in Sessions |-> [sess[m] EXCEPT !.check = @ \/ ~sess[m].removed]]
               T == [Event EXCEPT !.sess = v]
    <2>1. Become(T)
      BY <1>6 DEF CheckNextShare
    <2> HIDE DEF v
    <2>2. Quiet(Event, T)
      BY <1>0, SessIsQuiet
    <2> HIDE DEF T
    <2> QED BY <1>0, <2>1, <2>2, GoodQuiet, BecomeKeeps
  <1>7. CASE TemplateExpires
    BY <1>0, <1>7, BecomeKeeps DEF TemplateExpires
  <1> QED BY <1>1, <1>2, <1>3, <1>4, <1>5, <1>6, <1>7 DEF Environment

\* What the invariant says of one share.
LEMMA ShareIs ==
    ASSUME Good(Now), NEW s \in Ids
    PROVE  /\ s \in DOMAIN Now.share /\ Now.share = share /\ Local(share[s])
           /\ s \in suspects => Checked(share[s])
           /\ RecOK(share[s]) /\ DOMAIN share[s] = ShareFields /\ W(Now, s) \in Wallets
           /\ Typed(Now)
  <1>1. s \in DOMAIN Now.share /\ Now.share = share /\ Now.suspects = suspects
    BY NowIs DEF Ids
  <1>2. Typed(Now) /\ ShareOK(Now, s)
    BY <1>1 DEF Good, Loose
  <1>3. RecOK(share[s])
    BY <1>1, <1>2 DEF Typed, ListOK
  <1>4. W(Now, s) \in Wallets
    BY <1>1, <1>3, PoolSharesAssumption DEF W, RecOK
  <1> QED BY <1>1, <1>2, <1>3, <1>4 DEF ShareOK, RecOK

\* A task of the remote verifier leaves its queue.
LEMMA TaskIs ==
    ASSUME Good(Now), NEW s \in Ids, share[s].stage = "wait", NEW T,
           T = [Now EXCEPT !.wal[W(Now, s)].pending = @ - 1]
    PROVE  Hand(T, s) /\ T.share = share /\ T.suspects = suspects
  <1>1. /\ s \in DOMAIN Now.share /\ Now.share = share /\ W(Now, s) \in Wallets /\ Typed(Now)
    BY ShareIs
  <1>2. Recounted(Now, T, W(Now, s), Now.wal[W(Now, s)].pending - 1)
    BY <1>1, RecountIs
  <1>3. Hand(T, s)
    BY <1>1, <1>2, TakeWait
  <1> QED BY <1>1, <1>2, <1>3, NowIs DEF Recounted

LEMMA HashStartsKeeps ==
    ASSUME Good(Now), NEW s \in Ids, HashStarts(s)
    PROVE  Good(Now')
  <1> DEFINE R == [Now EXCEPT !.wal[W(Now, s)].pending = @ - 1]
             x == R.share[s]
             y == [x EXCEPT !.stage = "hash"]
             T == [R EXCEPT !.share[s] = y]
  <1>1. Become(T) /\ share[s].stage = "wait"
    BY DEF HashStarts, SetStage
  <1>2. Hand(R, s) /\ R.share = share /\ R.suspects = suspects
    BY <1>1, TaskIs
  <1> HIDE DEF R
  <1>3. RecOK(x) /\ DOMAIN x = ShareFields
    BY <1>2, HandIs
  <1>4. Same(x, y) /\ y.stage = "hash" /\ y.sub = x.sub /\ y.mode = x.mode /\ DOMAIN y = ShareFields
    BY <1>3 DEF ShareFields, Same
  <1> HIDE DEF y
  <1>5. RecOK(y)
    BY <1>3, <1>4 DEF RecOK, Same
  <1>6. Turned(R, T, s, y)
    BY <1>2, TurnedIs
  <1>7. Local(x) /\ (s \in R.suspects => Checked(x)) /\ x.stage = "wait"
    BY <1>1, <1>2, ShareIs
  <1>8. Local(y) /\ (s \in R.suspects => Checked(y))
    BY <1>4, <1>7 DEF Local, Checked, Asking, Same
  <1> HIDE DEF T
  <1>9. Good(T)
    BY <1>2, <1>4, <1>5, <1>6, <1>8, TurnKeeps
  <1> QED BY <1>1, <1>9, BecomeKeeps

LEMMA HashExpiresKeeps ==
    ASSUME Good(Now), NEW s \in Ids, HashExpires(s)
    PROVE  Good(Now')
  <1> DEFINE R == [Now EXCEPT !.wal[W(Now, s)].pending = @ - 1]
  <1>1. Become(NoHash(R, s)) /\ share[s].stage = "wait"
    BY DEF HashExpires
  <1>2. Hand(R, s) /\ R.share = share
    BY <1>1, TaskIs
  <1> HIDE DEF R
  <1>3. share[s].mode = "candidate" => "main" \in share[s].meets
    BY <1>1, ShareIs DEF Local, Asking
  <1>4. Good(NoHash(R, s))
    BY <1>2, <1>3, NoHashKeeps
  <1> QED BY <1>1, <1>4, BecomeKeeps

LEMMA HashKeeps ==
    ASSUME Good(Now), NEW s \in Ids, HashTimesOut(s) \/ HashHostFails(s) \/ HashRetries(s) \/ HashArrives(s)
    PROVE  Good(Now')
  <1> DEFINE x == share[s]
             y == [x EXCEPT !.tries = @ + 1, !.stage = "pause"]
             T == [Now EXCEPT !.share[s] = y]
  <1>0. /\ Now.share = share /\ Now.suspects = suspects /\ s \in DOMAIN Now.share
        /\ Local(x) /\ (s \in suspects => Checked(x)) /\ RecOK(x) /\ DOMAIN x = ShareFields
    BY ShareIs, NowIs
  <1>1. x.stage \in {"hash", "pause"}
    BY DEF HashTimesOut, HashHostFails, HashRetries, HashArrives
  <1>2. Hand(Now, s) /\ Asking(x)
    BY <1>0, <1>1, PickUp DEF Local
  <1>3. Good(NoHash(Now, s))
    BY <1>0, <1>2, NoHashKeeps DEF Asking
  <1>4. CASE HashTimesOut(s)
    BY <1>3, <1>4, BecomeKeeps DEF HashTimesOut
  <1>5. CASE HashHostFails(s)
    <2>1. Become(NoHash(Now, s)) \/ Become(T)
      <3>1. SetStage([Now EXCEPT !.share[s].tries = @ + 1], s, "pause") = T
        BY <1>0, NowIs DEF SetStage, Fields
      <3> QED BY <1>5, <3>1 DEF HashHostFails
    <2>2. Same(x, y) /\ y.stage = "pause" /\ y.sub = x.sub /\ y.mode = x.mode /\ DOMAIN y = ShareFields
      BY <1>0 DEF ShareFields, Same
    <2> HIDE DEF y
    <2>3. RecOK(y)
      BY <1>0, <2>2 DEF RecOK, Same
    <2>4. Turned(Now, T, s, y)
      BY <1>2, TurnedIs
    <2>5. Local(y) /\ (s \in Now.suspects => Checked(y))
      BY <1>0, <1>1, <1>2, <2>2 DEF Local, Checked, Asking, Same
    <2>6. Good(T)
      <3> HIDE DEF T
      <3> QED BY <1>0, <1>2, <2>2, <2>3, <2>4, <2>5, TurnKeeps
    <2> QED BY <1>3, <2>1, <2>6, BecomeKeeps
  <1>6. CASE HashRetries(s)
    <2>1. s \in Now.suspects => x.kind # "cycle"
      BY <1>0, <1>1 DEF Checked
    <2>2. Good(AskHash(Now, s))
      BY <1>0, <1>2, <2>1, AskHashKeeps
    <2> QED BY <1>6, <2>2, BecomeKeeps DEF HashRetries
  <1>7. CASE HashArrives(s)
    <2>1. x.data = "good" => Good(Verified(Now, s))
      BY <1>0, <1>2, VerifiedKeeps
    <2>2. Good(Invalid(Now, s))
      BY <1>2, InvalidKeeps
    <2> QED BY <1>7, <2>1, <2>2, BecomeKeeps DEF HashArrives
  <1> QED BY <1>4, <1>5, <1>6, <1>7

LEMMA TurnsKeep ==
    ASSUME Good(Now), NEW s \in Ids, TrustedDelayEnds(s) \/ \E lucky \in BOOLEAN : RunQueued(s, lucky)
    PROVE  Good(Now')
  <1> DEFINE x == share[s]
  <1>0. /\ Now.share = share /\ Now.suspects = suspects /\ s \in DOMAIN Now.share
        /\ Local(x) /\ (s \in suspects => Checked(x))
    BY ShareIs, NowIs
  <1>1. CASE TrustedDelayEnds(s)
    <2>1. x.stage = "delay" /\ Become(Complete(Now, s, TRUE))
      BY <1>1 DEF TrustedDelayEnds
    <2>2. Hand(Now, s)
      BY <1>0, <2>1, PickUp
    <2>3. Genuine(x) /\ s \notin suspects
      BY <1>0, <2>1 DEF Local, Checked, Genuine
    <2>4. Good(Complete(Now, s, TRUE))
      BY <1>0, <2>2, <2>3, CompleteKeeps
    <2> QED BY <2>1, <2>4, BecomeKeeps
  <1>2. ASSUME NEW lucky \in BOOLEAN, RunQueued(s, lucky) PROVE Good(Now')
    <2>1. x.stage = "scheduled" /\ Become(Verify(Now, s, lucky))
      BY <1>2 DEF RunQueued
    <2>2. Hand(Now, s)
      BY <1>0, <2>1, PickUp
    <2>3. Fresh(Now, s)
      BY <1>0, <2>1, <2>2 DEF Fresh, Local, Checked
    <2>4. Good(Verify(Now, s, lucky))
      BY <2>3, VerifyKeeps
    <2> QED BY <2>1, <2>4, BecomeKeeps
  <1> QED BY <1>1, <1>2

\* One more step of a block submission, then what its caller does.
LEMMA BlockKeeps ==
    ASSUME Good(Now), NEW s \in Ids, NEW c \in Chains,
           BlockAccepted(s, c) \/ BlockRefused(s, c) \/ BlockReplyLost(s, c) \/ BlockResent(s, c)
    PROVE  Good(Now')
  <1> DEFINE Set(v) == [Now EXCEPT !.share[s].sub[c] = v]
  <1>0. Now.share = share /\ s \in DOMAIN Now.share
    BY ShareIs
  <1>1. ASSUME NEW v, v # "none"
        PROVE  Good(Set(v)) /\ s \in DOMAIN Set(v).share /\ Sent(share[s], Set(v).share[s], c)
    BY <1>0, <1>1, OutcomeKeeps
  <1>2. ASSUME NEW v, v # "none", NEW ok, ok => share[s].data = "good"
        PROVE  Good(SubmitOutcome(Set(v), s, c, ok))
    <2>1. Good(Set(v)) /\ s \in DOMAIN Set(v).share /\ Sent(share[s], Set(v).share[s], c)
      BY <1>1, <1>2
    <2> HIDE DEF Set
    <2>2. ok => Set(v).share[s].data = "good"
      BY <1>2, <2>1 DEF Sent, Same
    <2> QED BY <2>1, <2>2, SubmitOutcomeKeeps
  <1>3. CASE BlockAccepted(s, c)
    <2>1. PICK end \in {"stored", "dropped"} : Become(SubmitOutcome(Set(end), s, c, TRUE))
      BY <1>3 DEF BlockAccepted
    <2>2. share[s].data = "good"
      BY <1>3 DEF BlockAccepted
    <2>3. Good(SubmitOutcome(Set(end), s, c, TRUE))
      <3> HIDE DEF Set
      <3> QED BY <1>2, <2>2
    <2> HIDE DEF Set
    <2> QED BY <2>1, <2>3, BecomeKeeps
  <1>7. ASSUME NEW why
        PROVE  Good(AskAlso(Set("failed"), s, c, why))
    <2>1. Good(Set("failed")) /\ s \in DOMAIN Set("failed").share
      BY <1>1
    <2> HIDE DEF Set
    <2> QED BY <2>1, AskAlsoKeeps DEF Good
  <1>4. CASE BlockRefused(s, c)
    <2> DEFINE R == Set("failed")
               T == Note(R, s, c, "mail", "timer")
    <2>1. \/ Become(Set("retry")) \/ Become(SubmitFails(T, s, c))
          \/ Become(AskAlso(R, s, c, "notify")) \/ Become(SubmitFails(R, s, c))
      BY <1>4 DEF BlockRefused
    <2>2. Good(R) /\ s \in DOMAIN R.share /\ Good(Set("retry"))
      BY <1>1
    <2>3. Good(AskAlso(R, s, c, "notify"))
      BY <1>7
    <2> HIDE DEF R
    <2>4. Good(T) /\ s \in DOMAIN T.share
      BY <2>2, NoteKeeps DEF Good
    <2> HIDE DEF T
    <2>5. Good(SubmitFails(T, s, c)) /\ Good(SubmitFails(R, s, c))
      BY <2>2, <2>4, SubmitFailsKeeps
    <2> HIDE DEF Set
    <2> QED BY <2>1, <2>2, <2>3, <2>5, BecomeKeeps
  <1>5. CASE BlockReplyLost(s, c)
    <2>1. \/ Become(Set("retry")) \/ Become(AskAlso(Set("failed"), s, c, "report"))
          \/ Become(SubmitOutcome(Set("failed"), s, c, FALSE))
      BY <1>5 DEF BlockReplyLost
    <2>2. Good(Set("retry"))
      BY <1>1
    <2>4. Good(AskAlso(Set("failed"), s, c, "report"))
      BY <1>7
    <2> HIDE DEF Set
    <2>3. Good(SubmitOutcome(Set("failed"), s, c, FALSE))
      BY <1>2
    <2> QED BY <2>1, <2>2, <2>3, <2>4, BecomeKeeps
  <1>6. CASE BlockResent(s, c)
    <2>1. Become(Set("resent"))
      BY <1>6 DEF BlockResent
    <2>2. Good(Set("resent"))
      BY <1>1
    <2> HIDE DEF Set
    <2> QED BY <2>1, <2>2, BecomeKeeps
  <1> QED BY <1>3, <1>4, <1>5, <1>6

\* What the invariant says of one hash asked for.
LEMMA AskIs ==
    ASSUME Good(Now), NEW i \in DOMAIN asks
    PROVE  /\ Typed(Now) /\ i \in DOMAIN Now.asks /\ asks[i].w \in Wallets
           /\ asks[i].s \in DOMAIN share /\ DOMAIN asks[i] = AskFields
           /\ AskOK(asks[i], DOMAIN share) /\ AsksOK(asks, DOMAIN share)
  BY NowIs DEF Good, Loose, Typed, AsksOK, AskOK

\* One step of a hash asked for: the entry becomes e, its wallet has k tasks.
LEMMA AskMoves ==
    ASSUME Good(Now), NEW i \in DOMAIN asks, NEW T, NEW k, NEW e, NEW w, w = asks[i].w,
           Reasked(Now, T, w, k, [asks EXCEPT ![i] = e]),
           DOMAIN e = AskFields, e.s = asks[i].s, e.c = asks[i].c, e.w = w,
           k = IF (asks[i].stage = "wait") = (e.stage = "wait") THEN wal[w].pending
               ELSE IF asks[i].stage = "wait" THEN wal[w].pending - 1 ELSE wal[w].pending + 1
    PROVE  Good(T) /\ T.share = share
  <1> DEFINE b == [asks EXCEPT ![i] = e]
  <1>0. /\ Typed(Now) /\ w \in Wallets /\ AskOK(asks[i], DOMAIN share)
        /\ AsksOK(asks, DOMAIN share)
    BY AskIs
  <1>1. AskOK(e, DOMAIN share)
    BY <1>0 DEF AskOK
  <1>2. AsksOK(b, DOMAIN share) /\ Revised(asks, b, i, e)
    BY <1>0, <1>1, AsksUpdate
  <1>3. Moved(asks, i, e, wal[w].pending, k)
    BY DEF Moved
  <1>4. Reasked(Now, T, w, k, b)
    OBVIOUS
  <1> HIDE DEF b
  <1>5. Loose(T, {}, {}, {}, {})
    <2>1. Loose(Now, {}, {}, {}, {})
      BY DEF Good
    <2>2. Revised(Now.asks, b, i, e) /\ AsksOK(b, DOMAIN Now.share)
      BY <1>2, NowIs
    <2>3. Moved(Now.asks, i, e, Now.wal[w].pending, k)
      BY <1>3, NowIs
    <2> QED BY <1>0, <1>4, <2>1, <2>2, <2>3, ReviseKeeps
  <1> QED BY <1>4, <1>5, NowIs DEF Good, Reasked

\* The new entry, and the verifier's count where it changes.
LEMMA ReaskedIs ==
    ASSUME Good(Now), NEW i \in DOMAIN asks, NEW R, NEW k, NEW w, w = asks[i].w,
           (R = Now /\ k = wal[w].pending) \/ Recounted(Now, R, w, k),
           NEW e, NEW T, T = [R EXCEPT !.asks[i] = e]
    PROVE  Reasked(Now, T, w, k, [asks EXCEPT ![i] = e])
  <1>0. Typed(Now) /\ w \in Wallets
    BY AskIs
  <1>1. /\ DOMAIN R = Fields /\ WalOK(R.wal) /\ R.wal[w].pending = k
        /\ \A v \in Wallets : v # w => R.wal[v].pending = Now.wal[v].pending
        /\ R.gate = Now.gate /\ R.keys = Now.keys /\ R.share = Now.share
        /\ R.suspects = Now.suspects /\ R.asks = Now.asks
    <2>1. CASE R = Now /\ k = wal[w].pending
      BY <1>0, <2>1, NowIs DEF Typed
    <2>2. CASE Recounted(Now, R, w, k)
      BY <2>2 DEF Recounted
    <2> QED BY <2>1, <2>2
  <1>2. /\ DOMAIN T = Fields /\ T.wal = R.wal /\ T.gate = R.gate /\ T.keys = R.keys
        /\ T.share = R.share /\ T.suspects = R.suspects /\ T.asks = [R.asks EXCEPT ![i] = e]
    BY <1>1 DEF Fields
  <1> QED BY <1>1, <1>2, NowIs DEF Reasked

LEMMA TakenIs ==
    ASSUME Good(Now), NEW i \in DOMAIN asks
    PROVE  /\ Recounted(Now, Taken(i), asks[i].w, wal[asks[i].w].pending - 1)
           /\ Taken(i).asks = asks /\ Taken(i).share = share
  <1> DEFINE w == asks[i].w
             T == [Now EXCEPT !.wal[w].pending = Now.wal[w].pending - 1]
  <1>1. Typed(Now) /\ w \in Wallets
    BY AskIs
  <1>2. Recounted(Now, T, w, Now.wal[w].pending - 1)
    BY <1>1, RecountIs
  <1>3. Taken(i) = T
    BY DEF Taken
  <1> HIDE DEF T
  <1> QED BY <1>2, <1>3, NowIs DEF Recounted

\* The callback of the hash i, in the queue or at the verifier.
LEMMA EndedIs ==
    ASSUME Good(Now), NEW i \in DOMAIN asks, NEW match, NEW S,
           \/ asks[i].stage = "wait" /\ S = Taken(i)
           \/ asks[i].stage = "hash" /\ S = Now
    PROVE  Good(AskEnds(S, i, match))
  <1> DEFINE w == asks[i].w
             x == asks[i]
             v == IF x.why = "notify" /\ match THEN "timer" ELSE "done"
             e == [x EXCEPT !.why = "mail", !.stage = v]
             T == [S EXCEPT !.asks[i] = e]
             k == IF x.stage = "wait" THEN wal[w].pending - 1 ELSE wal[w].pending
  <1>0. /\ Typed(Now) /\ w \in Wallets /\ x.s \in DOMAIN share /\ DOMAIN x = AskFields
    BY AskIs
  <1>1. /\ S.asks = asks /\ S.share = share /\ DOMAIN S = Fields
        /\ (S = Now /\ k = wal[w].pending) \/ Recounted(Now, S, w, k)
    BY TakenIs, NowIs DEF Recounted
  <1>2. /\ DOMAIN e = AskFields /\ e.s = x.s /\ e.c = x.c /\ e.w = x.w /\ e.stage # "wait"
    BY <1>0 DEF AskFields
  <1>3. Ended(S, i, match) = T
    <2>1. Ended(S, i, match) = [S EXCEPT !.asks[i].why = "mail", !.asks[i].stage = v]
      BY <1>1 DEF Ended
    <2> HIDE DEF v
    <2> QED BY <1>1, <2>1, AskIs DEF Fields
  <1> HIDE DEF e, T
  <1>4. Reasked(Now, T, w, k, [asks EXCEPT ![i] = e])
    BY <1>1, ReaskedIs DEF T
  <1>5. k = IF (asks[i].stage = "wait") = (e.stage = "wait") THEN wal[w].pending
            ELSE IF asks[i].stage = "wait" THEN wal[w].pending - 1 ELSE wal[w].pending + 1
    BY <1>2
  <1> HIDE DEF k
  <1>6. Good(T) /\ T.share = share
    BY <1>2, <1>4, <1>5, AskMoves
  <1> QED BY <1>0, <1>1, <1>3, <1>6, AskEndsKeeps

LEMMA AskStepsKeep ==
    ASSUME Good(Now), NEW i \in DOMAIN asks,
           AskStarts(i) \/ AskExpires(i) \/ AskAnswered(i) \/ MailDue(i)
    PROVE  Good(Now')
  <1> DEFINE w == asks[i].w
             x == asks[i]
             e(v) == [x EXCEPT !.stage = v]
  <1>0. Typed(Now) /\ w \in Wallets /\ DOMAIN x = AskFields /\ AsksOK(asks, DOMAIN share)
    BY AskIs
  <1>1. ASSUME NEW v, NEW R, NEW k,
               (R = Now /\ k = wal[w].pending) \/ Recounted(Now, R, w, k),
               k = IF (x.stage = "wait") = (v = "wait") THEN wal[w].pending
                   ELSE IF x.stage = "wait" THEN wal[w].pending - 1 ELSE wal[w].pending + 1
        PROVE  Good([R EXCEPT !.asks[i].stage = v])
    <2> DEFINE T == [R EXCEPT !.asks[i] = e(v)]
    <2>1. R.asks = asks /\ DOMAIN R = Fields
      BY <1>1, NowIs DEF Recounted
    <2>2. /\ DOMAIN e(v) = AskFields /\ e(v).s = x.s /\ e(v).c = x.c /\ e(v).w = x.w
          /\ e(v).stage = v
      BY <1>0 DEF AskFields
    <2>3. [R EXCEPT !.asks[i].stage = v] = T
      BY <1>0, <2>1 DEF Fields
    <2> HIDE DEF e
    <2>4. Reasked(Now, T, w, k, [asks EXCEPT ![i] = e(v)])
      BY <1>1, ReaskedIs
    <2> HIDE DEF T
    <2>5. Good(T)
      BY <1>1, <2>2, <2>4, AskMoves
    <2> QED BY <2>3, <2>5
  <1>2. CASE AskStarts(i)
    <2>1. x.stage = "wait" /\ Become([Taken(i) EXCEPT !.asks[i].stage = "hash"])
      BY <1>2 DEF AskStarts
    <2>2. Good([Taken(i) EXCEPT !.asks[i].stage = "hash"])
      BY <1>1, <2>1, TakenIs
    <2> QED BY <2>1, <2>2, BecomeKeeps
  <1>3. CASE AskExpires(i)
    BY <1>3, EndedIs, BecomeKeeps DEF AskExpires
  <1>4. CASE AskAnswered(i)
    BY <1>4, EndedIs, BecomeKeeps DEF AskAnswered
  <1>5. CASE MailDue(i)
    <2> DEFINE k == Now.wal[w].pending + 1
               R == [Now EXCEPT !.wal[w].pending = k]
               T == [Now EXCEPT !.asks[i].stage = "done"]
               U == [R EXCEPT !.asks[i].stage = "wait"]
    <2>1. x.stage = "timer"
      BY <1>5 DEF MailDue
    <2>2. Become(T) \/ Become([Now EXCEPT !.wal[w].pending = @ + 1, !.asks[i].stage = "wait"])
      BY <1>5 DEF MailDue
    <2>3. [Now EXCEPT !.wal[w].pending = @ + 1, !.asks[i].stage = "wait"] = U
      OBVIOUS
    <2>4. Good(T)
      BY <1>1, <2>1
    <2> HIDE DEF k
    <2>5. Recounted(Now, R, w, k)
      BY <1>0, RecountIs
    <2>6. k = wal[w].pending + 1
      BY NowIs DEF k
    <2> HIDE DEF R
    <2>7. Good(U)
      BY <1>1, <2>1, <2>5, <2>6
    <2> HIDE DEF T, U
    <2> QED BY <2>2, <2>3, <2>4, <2>7, BecomeKeeps
  <1> QED BY <1>2, <1>3, <1>4, <1>5

LEMMA StepKeeps ==
    ASSUME Good(Now), [Next]_vars
    PROVE  Good(Now')
  <1>1. CASE UNCHANGED vars
    <2>1. Now' = Now
      BY <1>1 DEF vars, Now
    <2> QED BY <2>1
  <1>2. CASE Environment
    BY <1>2, EnvironmentKeeps
  <1>3. ASSUME NEW s \in Ids, Progress(s) PROVE Good(Now')
    BY <1>3, TurnsKeep, HashStartsKeeps, HashExpiresKeeps, HashKeeps, BlockKeeps DEF Progress
  <1>4. ASSUME NEW i \in DOMAIN asks, AlsoProgress(i) PROVE Good(Now')
    BY <1>4, AskStepsKeep DEF AlsoProgress
  <1> QED BY <1>1, <1>2, <1>3, <1>4 DEF Next, Advance

LEMMA InitKeeps ==
    ASSUME Init
    PROVE  Good(Now)
  <1>1. /\ DOMAIN Now = Fields /\ Now.wal = wal /\ Now.gate = gate /\ Now.keys = keys
        /\ Now.share = share /\ Now.suspects = suspects /\ Now.asks = asks
    BY NowIs
  <1>2. /\ WalOK(wal) /\ \A w \in Wallets : wal[w].pending = 0
    BY DEF Init, WalOK
  <1>3. GateOK(gate) /\ \A w \in Wallets : gate[w] = NewGate
    <2>1. gate = [w \in Wallets |-> NewGate]
      BY DEF Init
    <2>2. DOMAIN NewGate = GateFields /\ NewGate.queue = <<>> /\ <<>> \in Seq(Nat)
      BY DEF NewGate, GateFields
    <2> QED BY <2>1, <2>2 DEF GateOK
  <1>4. share = <<>> /\ suspects = {} /\ keys = [job |-> {}, template |-> {}]
    BY DEF Init
  <1>5. DOMAIN share = {} /\ ListOK(share)
    <2>1. DOMAIN share = {} /\ share = [i \in 1..0 |-> share[i]]
      BY <1>4
    <2> QED BY <2>1 DEF ListOK
  <1>9. DOMAIN asks = {} /\ AsksOK(asks, DOMAIN share)
    <2>1. asks = <<>>
      BY DEF Init
    <2>2. DOMAIN asks = {} /\ asks = [i \in 1..0 |-> asks[i]]
      BY <2>1
    <2> QED BY <2>2 DEF AsksOK
  <1>6. Typed(Now)
    BY <1>1, <1>2, <1>3, <1>4, <1>5, <1>9 DEF Typed
  <1>7. KeysOK(share, keys)
    BY <1>5 DEF KeysOK
  <1>8. Gates(Now, {}, {}, {}, {})
    <2> SUFFICES ASSUME NEW w \in Wallets
                 PROVE  /\ Running(Now, w, {}) /\ Tasks(Now, w, {}) /\ Lines(Now, w)
                        /\ Awake(Now, w) /\ Serving(Now, w, {})
      BY DEF Gates
    <2>1. /\ gate[w].inFlight = 0 /\ gate[w].queue = <<>> /\ ~gate[w].draining
      BY <1>3 DEF NewGate
    <2>2. /\ Started(share, w) = {} /\ Waiting(share, w) = {} /\ Served(share, w) = {}
          /\ Queued(share, w) = {} /\ AskWaiting(asks, w) = {}
      BY <1>5, <1>9 DEF Started, Waiting, Served, Queued, Act, AskWaiting
    <2>3. Started(share, w) \ {} = {} /\ Waiting(share, w) \ {} = {} /\ Cardinality({}) = 0
      BY <2>2, FS_EmptySet
    <2>4. Running(Now, w, {})
      BY <1>1, <2>1, <2>3 DEF Running
    <2>7. Tasks(Now, w, {})
      BY <1>1, <1>2, <2>2, <2>3 DEF Tasks
    <2>5. Lines(Now, w)
      BY <1>1, <2>1, <2>2, EmptyQueue DEF Lines
    <2>6. Awake(Now, w) /\ Serving(Now, w, {})
      BY <1>1, <2>1, <2>2 DEF Awake, Serving
    <2> QED BY <2>4, <2>5, <2>6, <2>7
  <1> QED BY <1>1, <1>5, <1>6, <1>7, <1>8 DEF Good, Loose

-----------------------------------------------------------------------------
(* Theorems *)

\* What every state of the worker satisfies: the counters of every gate are its
\* work, no two shares hold the same submission keys, a share that waits for a
\* hash knows what to do without one, and a share of a failed generation stays
\* on the way to its own check.
THEOREM InvariantHolds == Spec => []IInv
  <1>1. Init => IInv
    BY InitKeeps DEF IInv
  <1>2. IInv /\ [Next]_vars => IInv'
    BY StepKeeps DEF IInv
  <1> QED BY <1>1, <1>2, PTL DEF Spec

\* verifyShare, finishShareProcessing, drainTrustedQueue: gate.inFlight,
\* gate.draining and miner_address_verify are exactly the work under way, and a
\* queued share has something running that will drain the queue.
THEOREM CountersMatchWorkHolds == Spec => []CountersMatchWork
  <1>1. IInv => CountersMatchWork
    <2> SUFFICES ASSUME IInv, NEW w \in Wallets
                 PROVE  /\ gate[w].inFlight = Cardinality({s \in Active(w) : share[s].started})
                        /\ wal[w].pending = Cardinality({s \in Active(w) : share[s].stage = "wait"})
                                             + Cardinality(AsksWaiting(w))
                        /\ Cardinality({s \in Active(w) : share[s].fromQueue})
                             = (IF gate[w].draining THEN 1 ELSE 0)
                        /\ ToSet(gate[w].queue) = {s \in Active(w) : share[s].stage = "queued"}
                        /\ gate[w].queue # <<>> => gate[w].inFlight # 0 \/ gate[w].draining
      BY DEF CountersMatchWork
    <2>0. Now.wal = wal /\ Now.gate = gate /\ Now.share = share /\ Now.asks = asks
      BY NowIs
    <2>1. /\ Running(Now, w, {}) /\ Tasks(Now, w, {}) /\ Lines(Now, w)
          /\ Awake(Now, w) /\ Serving(Now, w, {})
      BY DEF IInv, Good, Loose, Gates
    <2>2. Active(w) = Act(share, w)
      BY DEF Active, Act, Ids
    <2>3. /\ {s \in Active(w) : share[s].started} = Started(share, w)
          /\ {s \in Active(w) : share[s].stage = "wait"} = Waiting(share, w)
          /\ {s \in Active(w) : share[s].fromQueue} = Served(share, w)
          /\ {s \in Active(w) : share[s].stage = "queued"} = Queued(share, w)
      BY <2>2 DEF Started, Waiting, Served, Queued
    <2>4. Started(share, w) \ {} = Started(share, w) /\ Waiting(share, w) \ {} = Waiting(share, w)
      OBVIOUS
    <2>5. Cardinality(Served(share, w)) = IF gate[w].draining THEN 1 ELSE 0
      <3>1. CASE gate[w].draining
        <4>1. PICK t : Served(share, w) = {t}
          BY <2>0, <2>1, <3>1 DEF Serving
        <4>2. Cardinality({t}) = 1
          BY FS_Singleton
        <4> QED BY <3>1, <4>1, <4>2
      <3>2. CASE ~gate[w].draining
        <4>1. Served(share, w) = {}
          BY <2>0, <2>1, <3>2 DEF Serving
        <4> QED BY <3>2, <4>1, FS_EmptySet
      <3> QED BY <3>1, <3>2
    <2>6. /\ gate[w].inFlight = Cardinality(Started(share, w))
          /\ wal[w].pending = Cardinality(Waiting(share, w)) + Cardinality(AsksWaiting(w))
      BY <2>0, <2>1, <2>4 DEF Running, Tasks, AskWaiting, AsksWaiting
    <2>7. ToSet(gate[w].queue) = Queued(share, w)
      BY <2>0, <2>1 DEF Lines
    <2>8. gate[w].queue # <<>> => gate[w].inFlight # 0 \/ gate[w].draining
      BY <2>0, <2>1 DEF Awake
    <2> QED BY <2>3, <2>5, <2>6, <2>7, <2>8
  <1> QED BY <1>1, InvariantHolds, PTL

\* markFailedTrustVerification: a share that waited in the trust queue when a
\* check of its wallet failed is credited only after its own check.
THEOREM SuspectsAreCheckedHolds == Spec => []SuspectsAreChecked
  <1>1. IInv => SuspectsAreChecked
    BY ShareIs DEF IInv, SuspectsAreChecked, Credited, Checked
  <1> QED BY <1>1, InvariantHolds, PTL

\* handleSubmitRequest: a submission key is credited once for a job, and once
\* for a template where nonces are shared.
THEOREM CreditedOnceHolds == Spec => []CreditedOnce
  <1>1. IInv => CreditedOnce
    <2> SUFFICES ASSUME IInv, NEW s \in Credited, NEW t \in Credited,
                        s # t, share[s].n = share[t].n
                 PROVE  share[s].m # share[t].m /\ ~SharedNonces
      BY DEF CreditedOnce
    <2>1. KeysOK(share, keys)
      BY NowIs DEF IInv, Good, Loose
    <2>2. s \in DOMAIN share /\ t \in DOMAIN share /\ Holds(share[s]) /\ Holds(share[t])
      BY DEF Credited, Ids, Holds
    <2> QED BY <2>1, <2>2 DEF KeysOK
  <1> QED BY <1>1, InvariantHolds, PTL

\* processBlockCandidate and its callers: a credited share that reaches a
\* chain's difficulty has been sent to that chain's daemon.
THEOREM CreditedBlockIsSubmittedHolds == Spec => []CreditedBlockIsSubmitted
  <1>1. IInv => CreditedBlockIsSubmitted
    BY ShareIs DEF IInv, CreditedBlockIsSubmitted, Credited, Local, Submitted
  <1> QED BY <1>1, InvariantHolds, PTL

\* tryTrustedShare: fake work is credited only by the trust lottery, never by
\* a path that submits a block before it verifies the share.
THEOREM FakeOnlyByTrustHolds == Spec => []FakeOnlyByTrust
  <1>1. IInv => FakeOnlyByTrust
    BY ShareIs DEF IInv, FakeOnlyByTrust, Credited, Local, Genuine
  <1> QED BY <1>1, InvariantHolds, PTL
=============================================================================
