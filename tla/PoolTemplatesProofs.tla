------------------------- MODULE PoolTemplatesProofs -------------------------
(***************************************************************************)
(* Theorems about PoolTemplates for any number of workers and coins and    *)
(* every bound, and about MinerJobs for any miners, coins and versions.    *)
(* The two modules share no variable; their theorems only share a file.    *)
(*                                                                         *)
(* The actions of PoolTemplates are compositions of operators on the       *)
(* record of all variables, so the invariant is a predicate on such a      *)
(* record, each operator has a lemma that says what it keeps, and an       *)
(* action only adds up the lemmas of the operators it is built from.       *)
(***************************************************************************)
EXTENDS PoolTemplates, MinerJobs, TLAPS

Kinds == {"repeat", "once"}
Rpcs == {"header", "template"}
PollRecs == [on : BOOLEAN, at : Nat]
Fetch == [c : Coins, header : Nat, new : BOOLEAN, full : BOOLEAN, f : Nat,
          at : Nat, fails : Nat, timer : BOOLEAN]
Message == [c : Coins, h : Nat, f : Nat, same : BOOLEAN]
OwnRecs == [st : {"boot", "asking", "done"}, at : Nat]

State ==
    [chain : [Coins -> Nat], db : [Alts -> {0, 1}], newF : [Coins -> Nat],
     lastF : [Coins -> Nat], head : [Coins -> Nat],
     polls : [Coins -> [Kinds -> PollRecs]], fetches : SUBSET Fetch,
     grace : [Alts -> SUBSET Rpcs], failing : BOOLEAN,
     mm : [Procs -> [Alts -> Nat]], tmpl : [Procs -> [Coins -> Nat]],
     ipc : [Workers -> Seq(Message)], own : [Workers -> OwnRecs],
     lost : [Coins -> BOOLEAN], split : [Alts -> BOOLEAN], events : Nat]

\* The parts of the inductive invariant, on a record of all variables.
\* Heights are heights of a chain, and nothing is fetched for a coin that is off.
Sane(S) ==
    /\ \A c \in Coins : S.chain[c] >= 1
    /\ \A c \in Coins, k \in Kinds : S.polls[c][k].on => S.polls[c][k].at >= 1
    /\ \A q \in S.fetches : /\ 1 <= q.header /\ q.header <= q.at /\ q.header <= S.chain[q.c]
                            /\ q.f # 0
    /\ \A w \in Workers : S.own[w].st = "asking" => S.own[w].at >= 1

\* The recorded header is served, given up, or its template is being fetched.
Served(S) ==
    \A c \in Coins :
        \/ S.lost[c] \/ S.tmpl[Master][c] >= S.head[c]
        \/ \E q \in S.fetches : q.c = c /\ q.new /\ q.header = S.head[c]

Frozen(S) == S.newF[Main] = 0 => S.failing

\* The last template message about an alt that a worker has not read carries
\* the master's template; with none the worker has that template or nothing.
TemplateAgrees(S, w, c) ==
    LET s == S.ipc[w] IN
    /\ \A i \in 1..Len(s) :
        (/\ s[i].c = c /\ s[i].h > 0
         /\ \A j \in i + 1..Len(s) : s[j].c = c => s[j].h = 0) => s[i].h = S.tmpl[Master][c]
    /\ (\A i \in 1..Len(s) : s[i].c = c => s[i].h = 0) => S.tmpl[w][c] \in {0, S.tmpl[Master][c]}

\* The last message about an alt carries the master's factor, unless it was a
\* template that the master itself ignored.
FactorAgrees(S, w, c) ==
    LET s == S.ipc[w] IN
    \/ S.split[c]
    \/ /\ \A i \in 1..Len(s) :
            (s[i].c = c /\ \A j \in i + 1..Len(s) : s[j].c # c) =>
                ~s[i].same /\ s[i].f = S.mm[Master][c]
       /\ (\A i \in 1..Len(s) : s[i].c # c) => S.mm[w][c] \in {0, S.mm[Master][c]}

Agree(S) == \A w \in Workers, c \in Alts : TemplateAgrees(S, w, c) /\ FactorAgrees(S, w, c)

Rest(S) == Sane(S) /\ Served(S) /\ Frozen(S)

\* The inductive invariant.
IInv(S) == S \in State /\ Rest(S) /\ Agree(S)

-----------------------------------------------------------------------------
(* Records of all variables *)

LEMMA Fields ==
    ASSUME NEW S \in State
    PROVE  /\ S.chain \in [Coins -> Nat] /\ S.db \in [Alts -> {0, 1}] /\ S.newF \in [Coins -> Nat]
           /\ S.lastF \in [Coins -> Nat] /\ S.head \in [Coins -> Nat]
           /\ S.polls \in [Coins -> [Kinds -> PollRecs]] /\ S.fetches \in SUBSET Fetch
           /\ S.grace \in [Alts -> SUBSET Rpcs] /\ S.failing \in BOOLEAN
           /\ S.mm \in [Procs -> [Alts -> Nat]] /\ S.tmpl \in [Procs -> [Coins -> Nat]]
           /\ S.ipc \in [Workers -> Seq(Message)] /\ S.own \in [Workers -> OwnRecs]
           /\ S.lost \in [Coins -> BOOLEAN] /\ S.split \in [Alts -> BOOLEAN]
           /\ S.events \in Nat
  BY Zenon DEF State

\* Agreement depends on these fields only.
LEMMA PartsKeep ==
    ASSUME NEW S, NEW T, T.mm = S.mm, T.tmpl = S.tmpl, T.ipc = S.ipc, T.split = S.split
    PROVE  Agree(S) => Agree(T)
  <1>1. ASSUME NEW w \in Workers, NEW c \in Alts, TemplateAgrees(S, w, c), FactorAgrees(S, w, c)
        PROVE  TemplateAgrees(T, w, c) /\ FactorAgrees(T, w, c)
    BY <1>1 DEF TemplateAgrees, FactorAgrees
  <1> QED BY <1>1, Zenon DEF Agree

LEMMA NowFields ==
    /\ Now.chain = chain /\ Now.db = db /\ Now.newF = newF /\ Now.lastF = lastF
    /\ Now.head = head /\ Now.polls = polls /\ Now.fetches = fetches /\ Now.grace = grace
    /\ Now.failing = failing /\ Now.mm = mm /\ Now.tmpl = tmpl /\ Now.ipc = ipc
    /\ Now.own = own /\ Now.lost = lost /\ Now.split = split /\ Now.events = events
  BY Zenon DEF Now

LEMMA Names ==
    /\ Main \in Coins /\ Alts \subseteq Coins /\ Workers \subseteq Procs
    /\ Master \in Procs /\ Master \notin Workers /\ Main \notin Alts
    /\ \A c \in Coins : c # Main => c \in Alts
  BY PoolTemplatesAssumption DEF Coins, Procs, Master

\* A step to a record of the right type is a step to that record.
LEMMA BecomeIs ==
    ASSUME NEW S \in State, Become(S)
    PROVE  Now' = S
  <1>1. Now' = [chain |-> S.chain, db |-> S.db, newF |-> S.newF, lastF |-> S.lastF, head |-> S.head,
                polls |-> S.polls, fetches |-> S.fetches, grace |-> S.grace, failing |-> S.failing,
                mm |-> S.mm, tmpl |-> S.tmpl, ipc |-> S.ipc, own |-> S.own,
                lost |-> S.lost, split |-> S.split, events |-> S.events]
    BY Zenon DEF Become, Now
  <1> QED BY <1>1, Zenon DEF State

LEMMA EventIs ==
    ASSUME NEW S \in State, NEW T, T = [S EXCEPT !.events = @ + 1]
    PROVE  /\ T \in State
           /\ T.chain = S.chain /\ T.newF = S.newF /\ T.head = S.head /\ T.polls = S.polls
           /\ T.fetches = S.fetches /\ T.failing = S.failing /\ T.mm = S.mm /\ T.tmpl = S.tmpl
           /\ T.ipc = S.ipc /\ T.own = S.own /\ T.split = S.split /\ T.lost = S.lost
  <1>1. S.events + 1 \in Nat BY Fields
  <1> QED BY <1>1, Zenon DEF State

LEMMA FreshIs ==
    ASSUME NEW S \in State
    PROVE  /\ Fresh(S) \in State
           /\ Fresh(S).chain = S.chain /\ Fresh(S).fetches = {} /\ ~Fresh(S).failing
           /\ Fresh(S).newF = [c \in Coins |-> IF c = Main THEN 1 ELSE 0]
           /\ Fresh(S).head = [c \in Coins |-> 0]
           /\ Fresh(S).polls = [c \in Coins |-> [k \in Kinds |-> Idle]]
           /\ Fresh(S).mm = [p \in Procs |-> [c \in Alts |-> 0]]
           /\ Fresh(S).tmpl = [p \in Procs |-> [c \in Coins |-> 0]]
           /\ Fresh(S).ipc = [w \in Workers |-> <<>>]
           /\ Fresh(S).own = [w \in Workers |-> Booting]
           /\ Fresh(S).split = [c \in Alts |-> FALSE]
  <1>1. /\ [c \in Coins |-> IF c = Main THEN 1 ELSE 0] \in [Coins -> Nat]
        /\ [c \in Coins |-> 0] \in [Coins -> Nat]
    OBVIOUS
  <1>2. /\ [c \in Coins |-> [k \in Kinds |-> Idle]] \in [Coins -> [Kinds -> PollRecs]]
        /\ {} \in SUBSET Fetch /\ [c \in Alts |-> {}] \in [Alts -> SUBSET Rpcs]
    BY DEF Idle, PollRecs
  <1>3. /\ [p \in Procs |-> [c \in Alts |-> 0]] \in [Procs -> [Alts -> Nat]]
        /\ [p \in Procs |-> [c \in Coins |-> 0]] \in [Procs -> [Coins -> Nat]]
        /\ [w \in Workers |-> <<>>] \in [Workers -> Seq(Message)]
    OBVIOUS
  <1>4. /\ [w \in Workers |-> Booting] \in [Workers -> OwnRecs]
        /\ [c \in Alts |-> FALSE] \in [Alts -> BOOLEAN]
        /\ [c \in Coins |-> FALSE] \in [Coins -> BOOLEAN]
    BY DEF Booting, OwnRecs
  <1>5. S.chain \in [Coins -> Nat] /\ S.db \in [Alts -> {0, 1}] /\ S.events \in Nat
    BY Fields
  <1> QED BY <1>1, <1>2, <1>3, <1>4, <1>5, Zenon DEF Fresh, State, Kinds

-----------------------------------------------------------------------------
(* What the operators of a worker change *)

\* T is S after worker w did something to its templates and factors.
WorkerStep(S, T, w) ==
    /\ T \in State
    /\ T.chain = S.chain /\ T.newF = S.newF /\ T.head = S.head /\ T.polls = S.polls
    /\ T.fetches = S.fetches /\ T.failing = S.failing /\ T.lost = S.lost
    /\ T.ipc = S.ipc /\ T.own = S.own /\ T.split = S.split
    /\ \A p \in Procs : p # w => T.mm[p] = S.mm[p] /\ T.tmpl[p] = S.tmpl[p]

LEMMA WorkerFactorIs ==
    ASSUME NEW S \in State, NEW w \in Workers, NEW c \in Coins, NEW f \in Nat,
           NEW T, T = WorkerFactor(S, w, c, f)
    PROVE  /\ WorkerStep(S, T, w) /\ T.tmpl = S.tmpl
           /\ \A d \in Alts : T.mm[w][d] = IF d = c THEN f ELSE S.mm[w][d]
  <1>1. CASE c = Main
    <2>1. T = S /\ \A d \in Alts : d # c
      BY <1>1, Names DEF WorkerFactor
    <2> QED BY <2>1, Zenon DEF WorkerStep
  <1>2. CASE c # Main
    <2> DEFINE M == [S.mm EXCEPT ![w][c] = f]
    <2>1. /\ M \in [Procs -> [Alts -> Nat]] /\ \A p \in Procs : p # w => M[p] = S.mm[p]
          /\ \A d \in Alts : M[w][d] = IF d = c THEN f ELSE S.mm[w][d]
      BY <1>2, Fields, Names
    <2>2. T = [S EXCEPT !.mm = M]
      BY <1>2 DEF WorkerFactor
    <2> HIDE DEF M
    <2>3. T \in State
      BY <2>1, <2>2, Zenon DEF State
    <2>4. /\ T.chain = S.chain /\ T.newF = S.newF /\ T.head = S.head /\ T.polls = S.polls
          /\ T.fetches = S.fetches /\ T.failing = S.failing /\ T.lost = S.lost
          /\ T.ipc = S.ipc /\ T.own = S.own /\ T.tmpl = S.tmpl /\ T.split = S.split /\ T.mm = M
      BY <2>2, Zenon DEF State
    <2> QED BY <2>1, <2>3, <2>4, Zenon DEF WorkerStep
  <1> QED BY <1>1, <1>2

\* A template that is ignored is the one the worker has; its factor may differ.
LEMMA WorkerTemplateIs ==
    ASSUME NEW S \in State, NEW w \in Workers, NEW m \in Message, NEW T, T = WorkerTemplate(S, w, m)
    PROVE  /\ WorkerStep(S, T, w)
           /\ \A d \in Coins : T.tmpl[w][d] = IF d = m.c THEN m.h ELSE S.tmpl[w][d]
           /\ \A d \in Alts : /\ d # m.c => T.mm[w][d] = S.mm[w][d]
                              /\ (d = m.c /\ ~m.same) => T.mm[w][d] = m.f
  <1>0. m.c \in Coins /\ m.h \in Nat /\ m.f \in Nat /\ m.same \in BOOLEAN
    BY DEF Message
  <1>1. CASE m.same /\ S.tmpl[w][m.c] = m.h
    <2>1. T = S
      BY <1>1 DEF WorkerTemplate
    <2> QED BY <1>1, <2>1, Zenon DEF WorkerStep
  <1>2. CASE ~(m.same /\ S.tmpl[w][m.c] = m.h)
    <2> DEFINE B == [S.tmpl EXCEPT ![w][m.c] = m.h]
               U == [S EXCEPT !.tmpl = B]
    <2>1. T = WorkerFactor(U, w, m.c, m.f)
      BY <1>2, Zenon DEF WorkerTemplate
    <2>2. /\ B \in [Procs -> [Coins -> Nat]] /\ \A p \in Procs : p # w => B[p] = S.tmpl[p]
          /\ \A d \in Coins : B[w][d] = IF d = m.c THEN m.h ELSE S.tmpl[w][d]
      BY <1>0, Fields, Names
    <2> HIDE DEF B
    <2>3. U \in State
      BY <2>2, Zenon DEF State
    <2>4. /\ U.chain = S.chain /\ U.newF = S.newF /\ U.head = S.head /\ U.polls = S.polls
          /\ U.fetches = S.fetches /\ U.failing = S.failing /\ U.lost = S.lost
          /\ U.ipc = S.ipc /\ U.own = S.own /\ U.tmpl = B /\ U.split = S.split /\ U.mm = S.mm
      BY Zenon DEF State
    <2> HIDE DEF U
    <2>5. /\ WorkerStep(U, T, w) /\ T.tmpl = U.tmpl
          /\ \A d \in Alts : T.mm[w][d] = IF d = m.c THEN m.f ELSE U.mm[w][d]
      BY <1>0, <2>1, <2>3, WorkerFactorIs
    <2>6. WorkerStep(S, T, w)
      <3>1. \A p \in Procs : p # w => T.tmpl[p] = S.tmpl[p]
        BY <2>2, <2>4, <2>5
      <3> QED BY <2>4, <2>5, <3>1 DEF WorkerStep
    <2>7. \A d \in Coins : T.tmpl[w][d] = IF d = m.c THEN m.h ELSE S.tmpl[w][d]
      BY <2>2, <2>4, <2>5
    <2>8. \A d \in Alts : /\ d # m.c => T.mm[w][d] = S.mm[w][d]
                          /\ (d = m.c /\ ~m.same) => T.mm[w][d] = m.f
      BY <2>4, <2>5
    <2> QED BY <2>6, <2>7, <2>8, Zenon
  <1> QED BY <1>1, <1>2

\* What a worker does with its templates is no concern of the other parts of
\* the invariant.
LEMMA WorkerKeeps ==
    ASSUME NEW S, NEW T, NEW w \in Workers, Rest(S), WorkerStep(S, T, w)
    PROVE  Rest(T)
  <1>1. Sane(T) /\ Frozen(T)
    BY DEF Rest, WorkerStep, Sane, Frozen
  <1>2. T.tmpl[Master] = S.tmpl[Master]
    BY Names DEF WorkerStep
  <1>3. Served(T)
    BY <1>2 DEF Rest, WorkerStep, Served
  <1> QED BY <1>1, <1>3, Zenon DEF Rest

-----------------------------------------------------------------------------
(* What the messages say *)

\* A worker that applied its first message agrees with the master as before.
LEMMA ReadAgrees ==
    ASSUME NEW S \in State, NEW T \in State, NEW w \in Workers, NEW c \in Alts,
           S.ipc[w] # <<>>, T.ipc[w] = Tail(S.ipc[w]),
           T.mm[Master] = S.mm[Master], T.tmpl[Master] = S.tmpl[Master],
           T.tmpl[w][c] = (IF c = Head(S.ipc[w]).c /\ Head(S.ipc[w]).h > 0
                           THEN Head(S.ipc[w]).h ELSE S.tmpl[w][c]),
           c # Head(S.ipc[w]).c => T.mm[w][c] = S.mm[w][c],
           (c = Head(S.ipc[w]).c /\ ~Head(S.ipc[w]).same) => T.mm[w][c] = Head(S.ipc[w]).f,
           T.split = S.split, TemplateAgrees(S, w, c), FactorAgrees(S, w, c)
    PROVE  TemplateAgrees(T, w, c) /\ FactorAgrees(T, w, c)
  <1> DEFINE s == S.ipc[w]
             t == T.ipc[w]
             m == Head(s)
  <1>1. s \in Seq(Message) /\ s # <<>>
    BY Fields
  <1>2. /\ Len(t) = Len(s) - 1 /\ Len(s) \in Nat \ {0} /\ m = s[1]
        /\ \A i \in 1..Len(t) : t[i] = s[i + 1]
    BY <1>1
  <1> HIDE DEF s, t, m
  <1>3. \A j \in 2..Len(s) : j - 1 \in 1..Len(t) /\ s[j] = t[j - 1]
    BY <1>2
  <1>4. m.h \in Nat
    <2>1. m \in Message
      BY <1>1, <1>2
    <2> QED BY <2>1 DEF Message
  <1>5. ASSUME NEW i \in 1..Len(t), t[i].c = c, t[i].h > 0,
               \A j \in i + 1..Len(t) : t[j].c = c => t[j].h = 0
        PROVE  t[i].h = T.tmpl[Master][c]
    <2>1. i + 1 \in 1..Len(s) /\ t[i] = s[i + 1]
      BY <1>2
    <2>2. \A j \in (i + 1) + 1..Len(s) : s[j].c = c => s[j].h = 0
      <3> TAKE j \in (i + 1) + 1..Len(s)
      <3>1. j \in 2..Len(s) /\ j - 1 \in i + 1..Len(t)
        BY <1>2
      <3> QED BY <1>3, <1>5, <3>1
    <2> QED BY <1>5, <2>1, <2>2 DEF TemplateAgrees, s
  <1>6. ASSUME \A i \in 1..Len(t) : t[i].c = c => t[i].h = 0
        PROVE  T.tmpl[w][c] \in {0, T.tmpl[Master][c]}
    <2>1. \A j \in 1 + 1..Len(s) : s[j].c = c => s[j].h = 0
      BY <1>2, <1>3, <1>6
    <2>2. CASE c = m.c /\ m.h > 0
      <3>1. m.h = S.tmpl[Master][c]
        <4>1. 1 \in 1..Len(s) /\ s[1].c = c /\ s[1].h > 0
          BY <1>2, <2>2
        <4> QED BY <1>2, <2>1, <4>1 DEF TemplateAgrees, s
      <3> QED BY <2>2, <3>1 DEF m, s
    <2>3. CASE ~(c = m.c /\ m.h > 0)
      <3>1. \A j \in 1..Len(s) : s[j].c = c => s[j].h = 0
        BY <1>2, <1>4, <2>1, <2>3
      <3> QED BY <2>3, <3>1 DEF TemplateAgrees, m, s
    <2> QED BY <2>2, <2>3
  <1>7. ASSUME NEW i \in 1..Len(t), t[i].c = c, \A j \in i + 1..Len(t) : t[j].c # c, ~S.split[c]
        PROVE  ~t[i].same /\ t[i].f = T.mm[Master][c]
    <2>1. i + 1 \in 1..Len(s) /\ t[i] = s[i + 1]
      BY <1>2
    <2>2. \A j \in (i + 1) + 1..Len(s) : s[j].c # c
      <3> TAKE j \in (i + 1) + 1..Len(s)
      <3>1. j \in 2..Len(s) /\ j - 1 \in i + 1..Len(t)
        BY <1>2
      <3> QED BY <1>3, <1>7, <3>1
    <2> QED BY <1>7, <2>1, <2>2 DEF FactorAgrees, s
  <1>8. ASSUME \A i \in 1..Len(t) : t[i].c # c, ~S.split[c]
        PROVE  T.mm[w][c] \in {0, T.mm[Master][c]}
    <2>1. \A j \in 1 + 1..Len(s) : s[j].c # c
      BY <1>2, <1>3, <1>8
    <2>2. CASE c = m.c
      <3>1. ~m.same /\ m.f = S.mm[Master][c]
        <4>1. 1 \in 1..Len(s) /\ s[1].c = c
          BY <1>2, <2>2
        <4> QED BY <1>2, <1>8, <2>1, <4>1 DEF FactorAgrees, s
      <3> QED BY <2>2, <3>1 DEF m, s
    <2>3. CASE c # m.c
      <3>1. \A j \in 1..Len(s) : s[j].c # c
        BY <1>2, <2>1, <2>3
      <3> QED BY <1>8, <2>3, <3>1 DEF FactorAgrees, m, s
    <2> QED BY <2>2, <2>3
  <1>9. TemplateAgrees(T, w, c)
    BY <1>5, <1>6 DEF TemplateAgrees, t
  <1>10. FactorAgrees(T, w, c)
    BY <1>7, <1>8 DEF FactorAgrees, t
  <1> QED BY <1>9, <1>10

\* What the master holds after it sent m: the factor m carries, or, if it
\* ignored m itself, a factor that the workers may differ from.
Says(S, T, m, c) ==
    \/ T.split[c]
    \/ c = m.c /\ ~m.same /\ T.mm[Master][c] = m.f
    \/ c # m.c /\ T.split[c] = S.split[c] /\ T.mm[Master][c] = S.mm[Master][c]

\* A message sent to everybody says what the master now holds.
LEMMA ToldAgrees ==
    ASSUME NEW S \in State, NEW T \in State, NEW m \in Message, NEW w \in Workers, NEW c \in Alts,
           T.ipc[w] = Append(S.ipc[w], m), T.mm[w] = S.mm[w], T.tmpl[w] = S.tmpl[w],
           T.tmpl[Master][c] = (IF c = m.c /\ m.h > 0 THEN m.h ELSE S.tmpl[Master][c]),
           Says(S, T, m, c), TemplateAgrees(S, w, c), FactorAgrees(S, w, c)
    PROVE  TemplateAgrees(T, w, c) /\ FactorAgrees(T, w, c)
  <1> DEFINE s == S.ipc[w]
             t == T.ipc[w]
  <1>1. s \in Seq(Message)
    BY Fields
  <1>2. /\ Len(t) = Len(s) + 1 /\ Len(s) \in Nat /\ t[Len(t)] = m
        /\ \A i \in 1..Len(s) : t[i] = s[i]
    BY <1>1
  <1>3. m.h \in Nat
    BY DEF Message
  <1> HIDE DEF s, t
  <1>4. ASSUME NEW i \in 1..Len(t), t[i].c = c, t[i].h > 0,
               \A j \in i + 1..Len(t) : t[j].c = c => t[j].h = 0
        PROVE  t[i].h = T.tmpl[Master][c]
    <2>1. CASE i = Len(t)
      BY <1>2, <1>4, <2>1
    <2>2. CASE i \in 1..Len(s)
      <3>1. ~(c = m.c /\ m.h > 0)
        BY <1>2, <1>3, <1>4, <2>2
      <3>2. \A j \in i + 1..Len(s) : s[j].c = c => s[j].h = 0
        BY <1>2, <1>4, <2>2
      <3>3. s[i].h = S.tmpl[Master][c]
        BY <1>2, <1>4, <2>2, <3>2 DEF TemplateAgrees, s
      <3> QED BY <1>2, <2>2, <3>1, <3>3
    <2> QED BY <1>2, <2>1, <2>2
  <1>5. ASSUME \A i \in 1..Len(t) : t[i].c = c => t[i].h = 0
        PROVE  T.tmpl[w][c] \in {0, T.tmpl[Master][c]}
    <2>1. ~(c = m.c /\ m.h > 0)
      BY <1>2, <1>3, <1>5
    <2>2. \A i \in 1..Len(s) : s[i].c = c => s[i].h = 0
      BY <1>2, <1>5
    <2> QED BY <2>1, <2>2 DEF TemplateAgrees, s
  <1>6. ASSUME NEW i \in 1..Len(t), t[i].c = c, \A j \in i + 1..Len(t) : t[j].c # c, ~T.split[c]
        PROVE  ~t[i].same /\ t[i].f = T.mm[Master][c]
    <2>1. CASE i = Len(t)
      BY <1>2, <1>6, <2>1 DEF Says
    <2>2. CASE i \in 1..Len(s)
      <3>1. c # m.c
        BY <1>2, <1>6, <2>2
      <3>2. \A j \in i + 1..Len(s) : s[j].c # c
        BY <1>2, <1>6, <2>2
      <3>3. ~S.split[c] /\ T.mm[Master][c] = S.mm[Master][c]
        BY <1>6, <3>1 DEF Says
      <3>4. ~s[i].same /\ s[i].f = S.mm[Master][c]
        BY <1>2, <1>6, <2>2, <3>2, <3>3 DEF FactorAgrees, s
      <3> QED BY <1>2, <2>2, <3>3, <3>4
    <2> QED BY <1>2, <2>1, <2>2
  <1>7. ASSUME \A i \in 1..Len(t) : t[i].c # c, ~T.split[c]
        PROVE  T.mm[w][c] \in {0, T.mm[Master][c]}
    <2>1. c # m.c
      BY <1>2, <1>7
    <2>2. \A i \in 1..Len(s) : s[i].c # c
      BY <1>2, <1>7
    <2>3. ~S.split[c] /\ T.mm[Master][c] = S.mm[Master][c]
      BY <1>7, <2>1 DEF Says
    <2> QED BY <2>1, <2>2, <2>3 DEF FactorAgrees, s
  <1>8. TemplateAgrees(T, w, c)
    BY <1>4, <1>5 DEF TemplateAgrees, t
  <1>9. FactorAgrees(T, w, c)
    BY <1>6, <1>7 DEF FactorAgrees, t
  <1> QED BY <1>8, <1>9

-----------------------------------------------------------------------------
(* The steps of a worker *)

LEMMA ReceiveKeeps ==
    ASSUME IInv(Now), NEW w \in Workers, Receive(w)
    PROVE  IInv(Now')
  <1> DEFINE m == Head(ipc[w])
             I == [ipc EXCEPT ![w] = Tail(@)]
             S == [Now EXCEPT !.ipc = I]
  <1>0. Now \in State /\ Rest(Now) /\ Agree(Now)
    BY DEF IInv
  <1>1. ipc \in [Workers -> Seq(Message)] /\ ipc[w] # <<>>
    BY <1>0, Fields, NowFields DEF Receive
  <1>2. m \in Message
    <2>1. ipc[w] \in Seq(Message) /\ 1 \in 1..Len(ipc[w]) /\ m = ipc[w][1]
      BY <1>1
    <2> QED BY <2>1
  <1>3. m.c \in Coins /\ m.h \in Nat /\ m.f \in Nat /\ m.same \in BOOLEAN
    BY <1>2 DEF Message
  <1>4. /\ I \in [Workers -> Seq(Message)] /\ I[w] = Tail(ipc[w])
        /\ \A v \in Workers : v # w => I[v] = ipc[v]
    BY <1>1
  <1>5. S = [Now EXCEPT !.ipc[w] = Tail(@)]
    BY NowFields
  <1> DEFINE T == IF m.h = 0 THEN WorkerFactor(S, w, m.c, m.f) ELSE WorkerTemplate(S, w, m)
  <1>6. Become(T)
    BY <1>5 DEF Receive
  <1> HIDE DEF I
  <1>7. S \in State
    BY <1>0, <1>4, Zenon DEF State
  <1>8. /\ S.chain = chain /\ S.newF = newF /\ S.head = head /\ S.polls = polls
        /\ S.fetches = fetches /\ S.failing = failing /\ S.lost = lost
        /\ S.ipc = I /\ S.own = own /\ S.tmpl = tmpl /\ S.split = split /\ S.mm = mm
    BY <1>0, NowFields, Zenon DEF State
  <1> HIDE DEF S
  <1>9. Rest(S)
    BY <1>0, <1>8, NowFields DEF Rest, Sane, Served, Frozen
  <1>11. /\ WorkerStep(S, T, w)
         /\ \A d \in Alts : T.tmpl[w][d] = IF d = m.c /\ m.h > 0 THEN m.h ELSE tmpl[w][d]
         /\ \A d \in Alts : /\ d # m.c => T.mm[w][d] = mm[w][d]
                            /\ (d = m.c /\ ~m.same) => T.mm[w][d] = m.f
    <2> HIDE DEF m
    <2>1. CASE m.h = 0
      <3>1. T = WorkerFactor(S, w, m.c, m.f)
        BY <2>1
      <3> HIDE DEF T
      <3>2. /\ WorkerStep(S, T, w) /\ T.tmpl = S.tmpl
            /\ \A d \in Alts : T.mm[w][d] = IF d = m.c THEN m.f ELSE S.mm[w][d]
        BY <1>3, <1>7, <3>1, WorkerFactorIs
      <3> QED BY <1>8, <2>1, <3>2
    <2>2. CASE m.h # 0
      <3>1. T = WorkerTemplate(S, w, m)
        BY <2>2
      <3> HIDE DEF T
      <3>2. /\ WorkerStep(S, T, w)
            /\ \A d \in Coins : T.tmpl[w][d] = IF d = m.c THEN m.h ELSE S.tmpl[w][d]
            /\ \A d \in Alts : /\ d # m.c => T.mm[w][d] = S.mm[w][d]
                               /\ (d = m.c /\ ~m.same) => T.mm[w][d] = m.f
        BY <1>2, <1>7, <3>1, WorkerTemplateIs
      <3> QED BY <1>3, <1>8, <2>2, <3>2, Names
    <2> QED BY <2>1, <2>2
  <1> HIDE DEF m, T
  <1>12. Rest(T)
    BY <1>9, <1>11, WorkerKeeps
  <1>13. T \in State /\ T.ipc = I /\ T.split = split
    BY <1>8, <1>11 DEF WorkerStep
  <1>14. \A p \in Procs : p # w => T.mm[p] = mm[p] /\ T.tmpl[p] = tmpl[p]
    BY <1>8, <1>11 DEF WorkerStep
  <1>15. Agree(T)
    <2> SUFFICES ASSUME NEW v \in Workers, NEW c \in Alts
                 PROVE  TemplateAgrees(T, v, c) /\ FactorAgrees(T, v, c)
      BY Zenon DEF Agree
    <2>1. TemplateAgrees(Now, v, c) /\ FactorAgrees(Now, v, c)
      BY <1>0, Zenon DEF Agree
    <2>2. CASE v # w
      <3>1. /\ T.ipc[v] = ipc[v] /\ T.mm[v] = mm[v] /\ T.tmpl[v] = tmpl[v]
            /\ T.mm[Master] = mm[Master] /\ T.tmpl[Master] = tmpl[Master]
        BY <1>4, <1>13, <1>14, <2>2, Names
      <3> QED BY <1>13, <2>1, <3>1, NowFields DEF TemplateAgrees, FactorAgrees
    <2>3. CASE v = w
      <3>1. T.mm[Master] = Now.mm[Master] /\ T.tmpl[Master] = Now.tmpl[Master]
        BY <1>14, Names, NowFields
      <3>2. T.ipc[w] = Tail(Now.ipc[w]) /\ Now.ipc[w] # <<>> /\ m = Head(Now.ipc[w])
        BY <1>1, <1>4, <1>13, NowFields DEF m
      <3>3. /\ T.tmpl[w][c] = IF c = m.c /\ m.h > 0 THEN m.h ELSE Now.tmpl[w][c]
            /\ c # m.c => T.mm[w][c] = Now.mm[w][c]
            /\ (c = m.c /\ ~m.same) => T.mm[w][c] = m.f
            /\ T.split = Now.split
        BY <1>11, <1>13, NowFields
      <3> QED BY <1>0, <1>13, <2>1, <2>3, <3>1, <3>2, <3>3, ReadAgrees
    <2> QED BY <2>2, <2>3
  <1> QED BY <1>6, <1>12, <1>13, <1>15, BecomeIs DEF IInv

\* T is S but for what belongs to worker w.
LocalStep(S, T, w) ==
    /\ T \in State
    /\ T.chain = S.chain /\ T.newF = S.newF /\ T.head = S.head /\ T.polls = S.polls
    /\ T.fetches = S.fetches /\ T.failing = S.failing /\ T.lost = S.lost /\ T.split = S.split
    /\ \A p \in Procs : p # w => T.mm[p] = S.mm[p] /\ T.tmpl[p] = S.tmpl[p]
    /\ \A v \in Workers : v # w => T.ipc[v] = S.ipc[v] /\ T.own[v] = S.own[v]

LEMMA LocalKeeps ==
    ASSUME NEW S, NEW T, NEW w \in Workers, IInv(S), LocalStep(S, T, w),
           T.own[w].st = "asking" => T.own[w].at >= 1,
           \A c \in Alts : TemplateAgrees(T, w, c) /\ FactorAgrees(T, w, c)
    PROVE  IInv(T)
  <1>0. S \in State /\ Sane(S) /\ Served(S) /\ Frozen(S) /\ Agree(S)
    BY DEF IInv, Rest
  <1>1. Frozen(T)
    BY <1>0 DEF LocalStep, Frozen
  <1>2. T.tmpl[Master] = S.tmpl[Master] /\ T.mm[Master] = S.mm[Master]
    BY Names DEF LocalStep
  <1>3. Served(T)
    BY <1>0, <1>2 DEF LocalStep, Served
  <1>4. Sane(T)
    <2>1. ASSUME NEW v \in Workers PROVE T.own[v].st = "asking" => T.own[v].at >= 1
      BY <1>0 DEF LocalStep, Sane
    <2> QED BY <1>0, <2>1 DEF LocalStep, Sane
  <1>7. Agree(T)
    <2>1. ASSUME NEW v \in Workers, v # w, NEW c \in Alts PROVE TemplateAgrees(T, v, c) /\ FactorAgrees(T, v, c)
      <3>1. /\ T.ipc[v] = S.ipc[v] /\ T.mm[v] = S.mm[v] /\ T.tmpl[v] = S.tmpl[v]
            /\ T.split = S.split
        BY <2>1, Names DEF LocalStep
      <3>2. TemplateAgrees(S, v, c) /\ FactorAgrees(S, v, c)
        BY <1>0, Zenon DEF Agree
      <3> QED BY <1>2, <3>1, <3>2 DEF TemplateAgrees, FactorAgrees
    <2> QED BY <2>1, Zenon DEF Agree
  <1> QED BY <1>1, <1>3, <1>4, <1>7 DEF IInv, Rest, LocalStep

LEMMA BecomeKeeps == ASSUME NEW S, IInv(S), Become(S) PROVE IInv(Now')
  BY BecomeIs DEF IInv

LEMMA StartWorkerKeeps ==
    ASSUME IInv(Now), NEW w \in Workers, StartWorker(w)
    PROVE  IInv(Now')
  <1> DEFINE O == [own EXCEPT ![w] = [st |-> "asking", at |-> chain[Main]]]
             M == [mm EXCEPT ![w] = [c \in Alts |-> 0]]
             T == [Now EXCEPT !.own = O, !.mm = M]
  <1>0. Now \in State /\ Sane(Now) /\ Agree(Now)
    BY DEF IInv, Rest
  <1>1. own \in [Workers -> OwnRecs] /\ mm \in [Procs -> [Alts -> Nat]] /\ chain[Main] \in Nat /\ chain[Main] >= 1
    BY <1>0, Fields, NowFields, Names DEF Sane
  <1>2. /\ O \in [Workers -> OwnRecs] /\ O[w].at >= 1 /\ \A v \in Workers : v # w => O[v] = own[v]
    <2>1. [st |-> "asking", at |-> chain[Main]] \in OwnRecs
      BY <1>1 DEF OwnRecs
    <2> QED BY <1>1, <2>1
  <1>3. /\ M \in [Procs -> [Alts -> Nat]] /\ \A p \in Procs : p # w => M[p] = mm[p]
        /\ \A c \in Alts : M[w][c] = 0
    BY <1>1, Names
  <1>4. T = [Now EXCEPT !.own[w] = [st |-> "asking", at |-> chain[Main]], !.mm[w] = [c \in Alts |-> 0]]
    BY NowFields
  <1> HIDE DEF O, M
  <1>5. T \in State
    BY <1>0, <1>2, <1>3, Zenon DEF State
  <1>6. /\ T.chain = Now.chain /\ T.newF = Now.newF /\ T.head = Now.head /\ T.polls = Now.polls
        /\ T.fetches = Now.fetches /\ T.failing = Now.failing /\ T.lost = Now.lost
        /\ T.ipc = Now.ipc /\ T.own = O /\ T.tmpl = Now.tmpl /\ T.split = Now.split /\ T.mm = M
    BY <1>0, Zenon DEF State
  <1>7. Become(T)
    BY <1>4 DEF StartWorker
  <1> HIDE DEF T
  <1>8. LocalStep(Now, T, w)
    BY <1>2, <1>3, <1>5, <1>6, NowFields DEF LocalStep
  <1>11. \A c \in Alts : TemplateAgrees(T, w, c) /\ FactorAgrees(T, w, c)
    <2> TAKE c \in Alts
    <2>1. TemplateAgrees(Now, w, c) /\ FactorAgrees(Now, w, c)
      BY <1>0 DEF Agree
    <2>2. T.mm[Master] = Now.mm[Master] /\ T.mm[w][c] = 0
      BY <1>3, <1>6, Names, NowFields
    <2>3. TemplateAgrees(T, w, c)
      BY <1>6, <2>1 DEF TemplateAgrees
    <2>4. FactorAgrees(T, w, c)
      <3>1. T.split = Now.split /\ T.ipc[w] = Now.ipc[w] /\ T.mm[w][c] \in {0, T.mm[Master][c]}
        BY <1>6, <2>2
      <3>2. T.mm[Master][c] = Now.mm[Master][c]
        BY <2>2
      <3> QED BY <2>1, <3>1, <3>2 DEF FactorAgrees
    <2> QED BY <2>3, <2>4
  <1>12. IInv(T)
    BY <1>2, <1>6, <1>8, <1>11, LocalKeeps
  <1> QED BY <1>7, <1>12, BecomeKeeps

\* A change of the own template request, whether it was answered or not.
LEMMA OwnKeeps ==
    ASSUME NEW S, IInv(S), NEW w \in Workers
    PROVE  IInv([S EXCEPT !.own[w] = Started])
  <1> DEFINE O == [S.own EXCEPT ![w] = Started]
             T == [S EXCEPT !.own = O]
  <1>0. S \in State /\ Agree(S)
    BY DEF IInv, Rest
  <1>1. S.own \in [Workers -> OwnRecs] /\ Started \in OwnRecs /\ Started.st # "asking"
    BY <1>0, Fields DEF Started, OwnRecs
  <1>2. O \in [Workers -> OwnRecs] /\ O[w] = Started /\ \A v \in Workers : v # w => O[v] = S.own[v]
    BY <1>1
  <1> HIDE DEF O
  <1>3. T \in State
    BY <1>0, <1>2, Zenon DEF State
  <1>4. /\ T.chain = S.chain /\ T.newF = S.newF /\ T.head = S.head /\ T.polls = S.polls
        /\ T.fetches = S.fetches /\ T.failing = S.failing /\ T.lost = S.lost
        /\ T.ipc = S.ipc /\ T.own = O /\ T.tmpl = S.tmpl /\ T.split = S.split /\ T.mm = S.mm
    BY <1>0, Zenon DEF State
  <1> HIDE DEF T
  <1>5. LocalStep(S, T, w)
    BY <1>2, <1>3, <1>4 DEF LocalStep
  <1>7. \A c \in Alts : TemplateAgrees(T, w, c) /\ FactorAgrees(T, w, c)
    BY <1>0, <1>4 DEF Agree, TemplateAgrees, FactorAgrees
  <1>8. IInv(T)
    BY <1>1, <1>2, <1>4, <1>5, <1>7, LocalKeeps
  <1> QED BY <1>8 DEF T, O

LEMMA EventKeeps ==
    ASSUME IInv(Now) PROVE IInv(Event)
  <1>1. /\ Event \in State /\ Now \in State
        /\ Event.chain = Now.chain /\ Event.newF = Now.newF /\ Event.head = Now.head /\ Event.polls = Now.polls
        /\ Event.fetches = Now.fetches /\ Event.failing = Now.failing /\ Event.mm = Now.mm /\ Event.tmpl = Now.tmpl
        /\ Event.ipc = Now.ipc /\ Event.own = Now.own /\ Event.split = Now.split /\ Event.lost = Now.lost
    <2>1. Event = [Now EXCEPT !.events = @ + 1]
      BY DEF Event
    <2> QED BY <2>1, EventIs, Zenon DEF IInv
  <1>2. Sane(Event) /\ Served(Event) /\ Frozen(Event)
    BY <1>1 DEF IInv, Rest, Sane, Served, Frozen
  <1>3. Agree(Event)
    BY <1>1, PartsKeep DEF IInv, Rest
  <1> QED BY <1>1, <1>2, <1>3 DEF IInv, Rest

LEMMA OwnTemplateKeeps ==
    ASSUME IInv(Now), NEW w \in Workers, OwnTemplate(w) \/ OwnFails(w)
    PROVE  IInv(Now')
  <1>1. CASE OwnFails(w)
    BY <1>1, EventKeeps, OwnKeeps, BecomeKeeps DEF OwnFails
  <1>2. CASE OwnTemplate(w)
    <2> DEFINE S == [Now EXCEPT !.own[w] = Started]
    <2>1. IInv(S) /\ S \in State
      BY OwnKeeps DEF IInv
    <2>2. PICK h \in own[w].at..chain[Main] :
            Become([Now EXCEPT !.own[w] = Started, !.tmpl[w][Main] = h])
      BY <1>2, Zenon DEF OwnTemplate
    <2>3. own \in [Workers -> OwnRecs] /\ chain[Main] \in Nat
      BY Fields, NowFields, Names DEF IInv
    <2>4. h \in Nat
      BY <2>3 DEF OwnRecs
    <2> DEFINE B == [S.tmpl EXCEPT ![w][Main] = h]
               T == [S EXCEPT !.tmpl = B]
    <2>5. S.tmpl \in [Procs -> [Coins -> Nat]]
      BY <2>1, Fields
    <2>6. /\ B \in [Procs -> [Coins -> Nat]] /\ \A p \in Procs : p # w => B[p] = S.tmpl[p]
          /\ \A c \in Alts : B[w][c] = S.tmpl[w][c]
      BY <2>4, <2>5, Names
    <2>7. T = [Now EXCEPT !.own[w] = Started, !.tmpl[w][Main] = h]
      OBVIOUS
    <2> HIDE DEF S, B
    <2>8. T \in State
      BY <2>1, <2>6, Zenon DEF State
    <2>9. /\ T.chain = S.chain /\ T.newF = S.newF /\ T.head = S.head /\ T.polls = S.polls
          /\ T.fetches = S.fetches /\ T.failing = S.failing /\ T.mm = S.mm /\ T.tmpl = B
          /\ T.ipc = S.ipc /\ T.own = S.own /\ T.lost = S.lost /\ T.split = S.split
      BY <2>1, Zenon DEF State
    <2> HIDE DEF T
    <2>10. LocalStep(S, T, w)
      BY <2>6, <2>8, <2>9 DEF LocalStep
    <2>11. \A c \in Alts : TemplateAgrees(T, w, c) /\ FactorAgrees(T, w, c)
      <3> TAKE c \in Alts
      <3>1. TemplateAgrees(S, w, c) /\ FactorAgrees(S, w, c)
        BY <2>1, Zenon DEF IInv, Agree
      <3>2. T.tmpl[w][c] = S.tmpl[w][c] /\ T.tmpl[Master] = S.tmpl[Master]
        BY <2>6, <2>9, Names
      <3> QED BY <2>9, <3>1, <3>2 DEF TemplateAgrees, FactorAgrees
    <2>12. T.own[w].st = "asking" => T.own[w].at >= 1
      BY <2>1, <2>9 DEF IInv, Rest, Sane
    <2>13. IInv(T)
      BY <2>1, <2>10, <2>11, <2>12, LocalKeeps
    <2> QED BY <2>2, <2>7, <2>13, BecomeKeeps
  <1> QED BY <1>1, <1>2

LEMMA WorkerCrashKeeps ==
    ASSUME IInv(Now), NEW w \in Workers, WorkerCrash(w)
    PROVE  IInv(Now')
  <1> DEFINE O == [Event.own EXCEPT ![w] = Booting]
             I == [Event.ipc EXCEPT ![w] = <<>>]
             F == [Event.mm EXCEPT ![w] = [c \in Alts |-> 0]]
             B == [Event.tmpl EXCEPT ![w] = [c \in Coins |-> 0]]
             T == [Event EXCEPT !.own = O, !.ipc = I, !.mm = F, !.tmpl = B]
  <1>0. Event \in State /\ IInv(Event)
    BY EventKeeps DEF IInv
  <1>1. /\ Event.own \in [Workers -> OwnRecs] /\ Event.ipc \in [Workers -> Seq(Message)]
        /\ Event.mm \in [Procs -> [Alts -> Nat]] /\ Event.tmpl \in [Procs -> [Coins -> Nat]]
    BY <1>0, Fields
  <1>2. /\ O \in [Workers -> OwnRecs] /\ O[w].st = "boot" /\ \A v \in Workers : v # w => O[v] = Event.own[v]
    <2>1. Booting \in OwnRecs /\ Booting.st = "boot"
      BY DEF Booting, OwnRecs
    <2> QED BY <1>1, <2>1
  <1>3. /\ I \in [Workers -> Seq(Message)] /\ I[w] = <<>> /\ \A v \in Workers : v # w => I[v] = Event.ipc[v]
    BY <1>1
  <1>5. /\ F \in [Procs -> [Alts -> Nat]] /\ \A p \in Procs : p # w => F[p] = Event.mm[p]
        /\ \A c \in Alts : F[w][c] = 0
        /\ B \in [Procs -> [Coins -> Nat]] /\ \A p \in Procs : p # w => B[p] = Event.tmpl[p]
        /\ \A c \in Coins : B[w][c] = 0
    BY <1>1, Names
  <1>6. T = [Event EXCEPT !.own[w] = Booting, !.ipc[w] = <<>>,
                          !.mm[w] = [c \in Alts |-> 0], !.tmpl[w] = [c \in Coins |-> 0]]
    OBVIOUS
  <1>7. Become(T)
    BY <1>6 DEF WorkerCrash
  <1> HIDE DEF O, I, F, B
  <1>8. T \in State
    BY <1>0, <1>2, <1>3, <1>5, Zenon DEF State
  <1>9. /\ T.chain = Event.chain /\ T.newF = Event.newF /\ T.head = Event.head /\ T.polls = Event.polls
        /\ T.fetches = Event.fetches /\ T.failing = Event.failing /\ T.lost = Event.lost
        /\ T.ipc = I /\ T.own = O /\ T.tmpl = B /\ T.mm = F /\ T.split = Event.split
    BY <1>0, Zenon DEF State
  <1> HIDE DEF T
  <1>10. LocalStep(Event, T, w)
    BY <1>2, <1>3, <1>5, <1>8, <1>9 DEF LocalStep
  <1>12. \A c \in Alts : TemplateAgrees(T, w, c) /\ FactorAgrees(T, w, c)
    BY <1>3, <1>5, <1>9, Names DEF TemplateAgrees, FactorAgrees
  <1>13. IInv(T)
    BY <1>0, <1>2, <1>9, <1>10, <1>12, LocalKeeps
  <1> QED BY <1>7, <1>13, BecomeKeeps

-----------------------------------------------------------------------------
(* The operators of the master *)

\* T differs from S in nothing the invariant speaks of, or only in `failing'.
Alike(S, T) ==
    /\ T \in State
    /\ T.chain = S.chain /\ T.newF = S.newF /\ T.head = S.head /\ T.polls = S.polls
    /\ T.fetches = S.fetches /\ T.mm = S.mm /\ T.tmpl = S.tmpl
    /\ T.ipc = S.ipc /\ T.own = S.own /\ T.split = S.split /\ T.lost = S.lost
    /\ S.newF[Main] = 0 => (S.failing => T.failing)

\* The fetch q was taken out of S, and its header may be without a template.
ServedBut(S, q) ==
    \A c \in Coins :
        \/ S.lost[c] \/ S.tmpl[Master][c] >= S.head[c]
        \/ \E r \in S.fetches : r.c = c /\ r.new /\ r.header = S.head[c]
        \/ c = q.c /\ q.new /\ q.header = S.head[c]

DInv(S, q) ==
    /\ S \in State /\ Sane(S) /\ ServedBut(S, q) /\ Frozen(S)
    /\ Agree(S)

LEMMA AlikeKeeps ==
    ASSUME NEW S, NEW T, Alike(S, T)
    PROVE  /\ IInv(S) => IInv(T)
           /\ \A q : DInv(S, q) => DInv(T, q)
  <1>1. (Sane(S) => Sane(T)) /\ (Frozen(S) => Frozen(T))
    BY DEF Alike, Sane, Frozen
  <1>2. (Served(S) => Served(T)) /\ \A q : ServedBut(S, q) => ServedBut(T, q)
    BY DEF Alike, Served, ServedBut
  <1>3. Agree(S) => Agree(T)
    BY PartsKeep DEF Alike
  <1> QED BY <1>1, <1>2, <1>3 DEF IInv, Rest, DInv, Alike

LEMMA EventAlike ==
    ASSUME NEW S \in State
    PROVE  Alike(S, [S EXCEPT !.events = @ + 1])
  BY EventIs DEF Alike

LEMMA GraceAlike ==
    ASSUME NEW S \in State, NEW c \in Alts, NEW g \in SUBSET Rpcs
    PROVE  Alike(S, [S EXCEPT !.grace[c] = g])
  <1> DEFINE G == [S.grace EXCEPT ![c] = g]
             T == [S EXCEPT !.grace = G]
  <1>1. G \in [Alts -> SUBSET Rpcs]
    BY Fields
  <1> HIDE DEF G
  <1>2. T \in State
    BY <1>1, Zenon DEF State
  <1>3. /\ T.chain = S.chain /\ T.newF = S.newF /\ T.head = S.head /\ T.polls = S.polls
        /\ T.fetches = S.fetches /\ T.failing = S.failing /\ T.mm = S.mm /\ T.tmpl = S.tmpl
        /\ T.ipc = S.ipc /\ T.own = S.own /\ T.split = S.split /\ T.lost = S.lost
    BY Zenon DEF State
  <1>4. Alike(S, T)
    BY <1>2, <1>3 DEF Alike
  <1> QED BY <1>4 DEF G

LEMMA FailingAlike ==
    ASSUME NEW S \in State, NEW b \in BOOLEAN, S.newF[Main] = 0 => b
    PROVE  Alike(S, [S EXCEPT !.failing = b]) /\ [S EXCEPT !.failing = b].failing = b
  <1> DEFINE T == [S EXCEPT !.failing = b]
  <1>2. T \in State
    BY Zenon DEF State
  <1>3. /\ T.chain = S.chain /\ T.newF = S.newF /\ T.head = S.head /\ T.polls = S.polls
        /\ T.fetches = S.fetches /\ T.failing = b /\ T.mm = S.mm /\ T.tmpl = S.tmpl
        /\ T.ipc = S.ipc /\ T.own = S.own /\ T.split = S.split /\ T.lost = S.lost
    BY Zenon DEF State
  <1> QED BY <1>2, <1>3, Zenon DEF Alike

LEMMA RpcFailureAlike ==
    ASSUME NEW S \in State, NEW c \in Coins, NEW rpc \in Rpcs
    PROVE  /\ Alike(S, RpcFailure(S, c, rpc))
           /\ c = Main => RpcFailure(S, c, rpc).failing
  <1>1. CASE c = Main
    BY <1>1, FailingAlike, Zenon DEF RpcFailure
  <1>2. CASE c # Main
    <2>1. S.grace[c] \cup {rpc} \in SUBSET Rpcs /\ c \in Alts
      BY <1>2, Fields, Names
    <2>2. RpcFailure(S, c, rpc) = [S EXCEPT !.grace[c] = S.grace[c] \cup {rpc}]
      BY <1>2 DEF RpcFailure
    <2> QED BY <1>2, <2>1, <2>2, GraceAlike
  <1> QED BY <1>1, <1>2

LEMMA HeaderHealthAlike ==
    ASSUME NEW S \in State, NEW c \in Coins, NEW old \in BOOLEAN, S.newF[c] # 0
    PROVE  Alike(S, HeaderHealth(S, c, old))
  <1>1. CASE c = Main
    BY <1>1, FailingAlike, Zenon DEF HeaderHealth
  <1>2. CASE c # Main
    <2>1. S.grace[c] \ {"header"} \in SUBSET Rpcs /\ c \in Alts
      BY <1>2, Fields, Names
    <2>2. HeaderHealth(S, c, old) = [S EXCEPT !.grace[c] = S.grace[c] \ {"header"}]
      BY <1>2 DEF HeaderHealth
    <2> QED BY <1>2, <2>1, <2>2, GraceAlike
  <1> QED BY <1>1, <1>2

\* T is S after m was sent to everybody and the master did what it says.
Told(S, T, m) ==
    /\ T \in State
    /\ T.chain = S.chain /\ T.newF = S.newF /\ T.head = S.head /\ T.polls = S.polls
    /\ T.fetches = S.fetches /\ T.failing = S.failing /\ T.tmpl = S.tmpl
    /\ T.own = S.own /\ T.lost = S.lost
    /\ \A w \in Workers : T.ipc[w] = Append(S.ipc[w], m) /\ T.mm[w] = S.mm[w]
    /\ \A c \in Alts : Says(S, T, m, c)

LEMMA BroadcastIs ==
    ASSUME NEW S \in State, NEW m \in Message, NEW U, U = Broadcast(S, m)
    PROVE  /\ U \in State
           /\ U.chain = S.chain /\ U.newF = S.newF /\ U.head = S.head /\ U.polls = S.polls
           /\ U.fetches = S.fetches /\ U.failing = S.failing /\ U.tmpl = S.tmpl /\ U.mm = S.mm
           /\ U.own = S.own /\ U.lost = S.lost /\ U.lastF = S.lastF /\ U.split = S.split
           /\ \A w \in Workers : U.ipc[w] = Append(S.ipc[w], m)
  <1> DEFINE I == [w \in Workers |-> Append(S.ipc[w], m)]
  <1>1. I \in [Workers -> Seq(Message)] /\ \A w \in Workers : I[w] = Append(S.ipc[w], m)
    BY Fields
  <1>2. U = [S EXCEPT !.ipc = I]
    BY DEF Broadcast
  <1> HIDE DEF I
  <1>3. U \in State
    BY <1>1, <1>2, Zenon DEF State
  <1>4. /\ U.chain = S.chain /\ U.newF = S.newF /\ U.head = S.head /\ U.polls = S.polls
        /\ U.fetches = S.fetches /\ U.failing = S.failing /\ U.tmpl = S.tmpl /\ U.mm = S.mm
        /\ U.own = S.own /\ U.lost = S.lost /\ U.lastF = S.lastF /\ U.split = S.split /\ U.ipc = I
    BY <1>2, Zenon DEF State
  <1> QED BY <1>1, <1>3, <1>4, Zenon

\* Broadcast and MasterFactor, in this order.
LEMMA TellIs ==
    ASSUME NEW S \in State, NEW m \in Message, ~m.same, NEW full \in BOOLEAN,
           NEW T, T = MasterFactor(Broadcast(S, m), full, m.c, m.f)
    PROVE  Told(S, T, m)
  <1> DEFINE U == Broadcast(S, m)
             M == [S.mm EXCEPT ![Master][m.c] = m.f]
             L == [S.lastF EXCEPT ![m.c] = IF full THEN m.f ELSE @]
             P == [S.split EXCEPT ![m.c] = FALSE]
             V == [U EXCEPT !.mm = M, !.lastF = L, !.split = P]
  <1>0. m.c \in Coins /\ m.f \in Nat
    BY DEF Message
  <1>1. /\ U \in State
        /\ U.chain = S.chain /\ U.newF = S.newF /\ U.head = S.head /\ U.polls = S.polls
        /\ U.fetches = S.fetches /\ U.failing = S.failing /\ U.tmpl = S.tmpl /\ U.mm = S.mm
        /\ U.own = S.own /\ U.lost = S.lost /\ U.lastF = S.lastF /\ U.split = S.split
        /\ \A w \in Workers : U.ipc[w] = Append(S.ipc[w], m)
    BY BroadcastIs
  <1>2. L \in [Coins -> Nat]
    BY <1>0, Fields
  <1>3. m.c # Main => /\ M \in [Procs -> [Alts -> Nat]]
                      /\ \A w \in Workers : M[w] = S.mm[w]
                      /\ \A c \in Alts : M[Master][c] = IF c = m.c THEN m.f ELSE S.mm[Master][c]
    BY <1>0, Fields, Names
  <1>4. P \in [Alts -> BOOLEAN] /\ \A c \in Alts : c # m.c => P[c] = S.split[c]
    BY Fields
  <1>5. m.c # Main => T = V
    BY <1>1 DEF MasterFactor
  <1>6. m.c = Main => T = U
    BY Zenon DEF MasterFactor
  <1> HIDE DEF U, M, L, P
  <1>7. CASE m.c = Main
    <2>1. \A c \in Alts : c # m.c
      BY <1>7, Names
    <2>2. \A c \in Alts : Says(S, T, m, c)
      BY <1>1, <1>6, <1>7, <2>1 DEF Says
    <2> QED BY <1>1, <1>6, <1>7, <2>2 DEF Told
  <1>8. CASE m.c # Main
    <2>1. V \in State
      BY <1>1, <1>2, <1>3, <1>4, <1>8, Zenon DEF State
    <2>2. /\ V.chain = U.chain /\ V.newF = U.newF /\ V.head = U.head /\ V.polls = U.polls
          /\ V.fetches = U.fetches /\ V.failing = U.failing /\ V.tmpl = U.tmpl
          /\ V.own = U.own /\ V.lost = U.lost /\ V.ipc = U.ipc /\ V.mm = M /\ V.split = P
      BY <1>1, Zenon DEF State
    <2> HIDE DEF V
    <2>3. \A c \in Alts : Says(S, T, m, c)
      BY <1>3, <1>4, <1>5, <1>8, <2>2 DEF Says
    <2> QED BY <1>1, <1>3, <1>5, <1>8, <2>1, <2>2, <2>3 DEF Told
  <1> QED BY <1>7, <1>8

\* A template the master has already is sent, and nothing else is done.
LEMMA HushIs ==
    ASSUME NEW S \in State, NEW m \in Message,
           NEW T, T = IF m.c = Main THEN Broadcast(S, m)
                      ELSE [Broadcast(S, m) EXCEPT !.split[m.c] = TRUE]
    PROVE  Told(S, T, m)
  <1> DEFINE U == Broadcast(S, m)
             P == [S.split EXCEPT ![m.c] = TRUE]
             V == [U EXCEPT !.split = P]
  <1>0. m.c \in Coins
    BY DEF Message
  <1>1. /\ U \in State
        /\ U.chain = S.chain /\ U.newF = S.newF /\ U.head = S.head /\ U.polls = S.polls
        /\ U.fetches = S.fetches /\ U.failing = S.failing /\ U.tmpl = S.tmpl /\ U.mm = S.mm
        /\ U.own = S.own /\ U.lost = S.lost /\ U.lastF = S.lastF /\ U.split = S.split
        /\ \A w \in Workers : U.ipc[w] = Append(S.ipc[w], m)
    BY BroadcastIs
  <1>2. /\ P \in [Alts -> BOOLEAN] /\ \A c \in Alts : c # m.c => P[c] = S.split[c]
        /\ m.c # Main => P[m.c]
    BY <1>0, Fields, Names
  <1>3. m.c # Main => T = V
    BY <1>1
  <1>4. m.c = Main => T = U
    BY Zenon
  <1> HIDE DEF U, P
  <1>5. CASE m.c = Main
    <2>1. \A c \in Alts : c # m.c
      BY <1>5, Names
    <2>2. \A c \in Alts : Says(S, T, m, c)
      BY <1>1, <1>4, <1>5, <2>1 DEF Says
    <2> QED BY <1>1, <1>4, <1>5, <2>2 DEF Told
  <1>6. CASE m.c # Main
    <2>1. V \in State
      BY <1>1, <1>2, Zenon DEF State
    <2>2. /\ V.chain = U.chain /\ V.newF = U.newF /\ V.head = U.head /\ V.polls = U.polls
          /\ V.fetches = U.fetches /\ V.failing = U.failing /\ V.tmpl = U.tmpl
          /\ V.own = U.own /\ V.lost = U.lost /\ V.ipc = U.ipc /\ V.mm = U.mm /\ V.split = P
      BY <1>1, Zenon DEF State
    <2> HIDE DEF V
    <2>3. \A c \in Alts : Says(S, T, m, c)
      BY <1>1, <1>2, <1>3, <1>6, <2>2 DEF Says
    <2> QED BY <1>1, <1>3, <1>6, <2>1, <2>2, <2>3 DEF Told
  <1> QED BY <1>5, <1>6

\* Everybody was sent m, and the master holds what it says.
LEMMA TellKeeps ==
    ASSUME NEW S \in State, NEW T \in State, NEW m \in Message, Agree(S),
           \A w \in Workers : /\ T.ipc[w] = Append(S.ipc[w], m)
                              /\ T.mm[w] = S.mm[w] /\ T.tmpl[w] = S.tmpl[w],
           \A c \in Alts : T.tmpl[Master][c] = IF c = m.c /\ m.h > 0 THEN m.h ELSE S.tmpl[Master][c],
           \A c \in Alts : Says(S, T, m, c)
    PROVE  Agree(T)
  <1> SUFFICES ASSUME NEW w \in Workers, NEW c \in Alts PROVE TemplateAgrees(T, w, c) /\ FactorAgrees(T, w, c)
    BY Zenon DEF Agree
  <1>1. TemplateAgrees(S, w, c) /\ FactorAgrees(S, w, c)
    BY Zenon DEF Agree
  <1> QED BY <1>1, ToldAgrees

LEMMA CoinHashFactorUpdateKeeps ==
    ASSUME NEW S, IInv(S), NEW c \in Coins, NEW f \in Nat
    PROVE  /\ IInv(CoinHashFactorUpdate(S, c, f))
           /\ CoinHashFactorUpdate(S, c, f).failing = S.failing
  <1>1. CASE c = Main
    BY <1>1, Zenon DEF CoinHashFactorUpdate
  <1>2. CASE c # Main
    <2> DEFINE U == IF f = 0 THEN [S EXCEPT !.grace[c] = {}] ELSE S
               m == FactorMessage(c, f)
    <2>1. c \in Alts /\ S \in State
      BY <1>2, Names DEF IInv
    <2>2. Alike(S, U) /\ U.failing = S.failing
      <3>1. Alike(S, S)
        BY <2>1 DEF Alike
      <3>2. Alike(S, [S EXCEPT !.grace[c] = {}])
        BY <2>1, GraceAlike
      <3>3. [S EXCEPT !.grace[c] = {}].failing = S.failing
        BY <2>1, Zenon DEF State
      <3> QED BY <3>1, <3>2, <3>3, Zenon
    <2>3. IInv(U)
      BY <2>2, AlikeKeeps
    <2>4. m \in Message /\ ~m.same /\ m.c = c /\ m.f = f /\ m.h = 0
      BY DEF Message, FactorMessage
    <2> DEFINE T == MasterFactor(Broadcast(U, m), TRUE, m.c, m.f)
    <2>5. CoinHashFactorUpdate(S, c, f) = IF f = 0 /\ S.lastF[c] = 0 THEN U ELSE T
      BY <1>2, <2>4 DEF CoinHashFactorUpdate
    <2> HIDE DEF U, m
    <2>6. U \in State /\ Sane(U) /\ Served(U) /\ Frozen(U) /\ Agree(U)
      BY <2>3 DEF IInv, Rest
    <2>7. \E full \in BOOLEAN : T = MasterFactor(Broadcast(U, m), full, m.c, m.f)
      BY Zenon
    <2> HIDE DEF T
    <2>8. PICK full \in BOOLEAN : T = MasterFactor(Broadcast(U, m), full, m.c, m.f)
      BY <2>7, Zenon
    <2>9. Told(U, T, m)
      BY <2>4, <2>6, <2>8, TellIs
    <2>10. Sane(T) /\ Served(T) /\ Frozen(T)
      BY <2>6, <2>9 DEF Told, Sane, Served, Frozen
    <2>11. Agree(T)
      BY <2>4, <2>6, <2>9, TellKeeps DEF Told
    <2>12. IInv(T)
      BY <2>9, <2>10, <2>11 DEF Told, IInv, Rest
    <2> QED BY <2>2, <2>3, <2>5, <2>9, <2>12 DEF Told
  <1> QED BY <1>1, <1>2

LEMMA SwitchOffKeeps ==
    ASSUME NEW S, IInv(S), NEW c \in Coins, c = Main => S.failing
    PROVE  IInv(SwitchOff(S, c))
  <1> DEFINE N == [S.newF EXCEPT ![c] = 0]
             U == [S EXCEPT !.newF = N]
  <1>0. S \in State
    BY DEF IInv
  <1>1. N \in [Coins -> Nat] /\ (c # Main => N[Main] = S.newF[Main])
    BY <1>0, Fields, Names
  <1>2. SwitchOff(S, c) = CoinHashFactorUpdate(U, c, 0)
    BY DEF SwitchOff
  <1> HIDE DEF N
  <1>3. U \in State
    BY <1>0, <1>1, Zenon DEF State
  <1>4. /\ U.chain = S.chain /\ U.newF = N /\ U.head = S.head /\ U.polls = S.polls
        /\ U.fetches = S.fetches /\ U.failing = S.failing /\ U.mm = S.mm /\ U.tmpl = S.tmpl
        /\ U.ipc = S.ipc /\ U.own = S.own /\ U.split = S.split /\ U.lost = S.lost
    BY <1>0, Zenon DEF State
  <1> HIDE DEF U
  <1>5. Frozen(U)
    BY <1>1, <1>4 DEF IInv, Rest, Frozen
  <1>6. Sane(U) /\ Served(U) /\ Agree(U)
    <2>1. Sane(U) /\ Served(U)
      BY <1>4 DEF IInv, Rest, Sane, Served
    <2> QED BY <1>4, <2>1, PartsKeep DEF IInv, Rest
  <1>7. IInv(U)
    BY <1>3, <1>5, <1>6 DEF IInv, Rest
  <1> QED BY <1>2, <1>7, CoinHashFactorUpdateKeeps

-----------------------------------------------------------------------------
(* Headers *)

LEMMA StartFetchKeeps ==
    ASSUME NEW S, IInv(S), NEW c \in Coins, NEW h \in Nat, 1 <= h, h <= S.chain[c], S.newF[c] # 0
    PROVE  IInv(StartFetch(S, c, h))
  <1> DEFINE H == [S.head EXCEPT ![c] = h]
             L == [S.lost EXCEPT ![c] = @ /\ h = S.head[c]]
             q == [c |-> c, header |-> h, new |-> h # S.head[c],
                   full |-> S.lastF[c] # S.newF[c], f |-> S.newF[c],
                   at |-> S.chain[c], fails |-> 0, timer |-> FALSE]
             Q == S.fetches \cup {q}
             T == [S EXCEPT !.head = H, !.lost = L, !.fetches = Q]
  <1>0. /\ S \in State /\ Sane(S) /\ Served(S) /\ Frozen(S) /\ Agree(S)
    BY DEF IInv, Rest
  <1>1. /\ S.newF[c] \in Nat /\ S.chain[c] \in Nat /\ S.fetches \in SUBSET Fetch
        /\ S.head \in [Coins -> Nat] /\ S.lost \in [Coins -> BOOLEAN] /\ S.lastF[c] \in Nat
    BY <1>0, Fields
  <1>2. q \in Fetch
    BY <1>1 DEF Fetch
  <1>3. /\ H \in [Coins -> Nat] /\ H[c] = h /\ \A d \in Coins : d # c => H[d] = S.head[d]
        /\ Q \in SUBSET Fetch
    BY <1>1, <1>2
  <1>4. /\ L \in [Coins -> BOOLEAN] /\ (L[c] <=> S.lost[c] /\ h = S.head[c])
        /\ \A d \in Coins : d # c => L[d] = S.lost[d]
    BY <1>1
  <1>5. /\ q.c = c /\ q.header = h /\ (q.new <=> h # S.head[c]) /\ q.f = S.newF[c] /\ q.at = S.chain[c]
    OBVIOUS
  <1>6. StartFetch(S, c, h) = T
    BY DEF StartFetch
  <1> HIDE DEF H, L, q
  <1>7. T \in State
    BY <1>0, <1>3, <1>4, Zenon DEF State
  <1>8. /\ T.chain = S.chain /\ T.newF = S.newF /\ T.head = H /\ T.polls = S.polls
        /\ T.fetches = Q /\ T.failing = S.failing /\ T.mm = S.mm /\ T.tmpl = S.tmpl
        /\ T.ipc = S.ipc /\ T.own = S.own /\ T.split = S.split /\ T.lost = L
    BY <1>0, Zenon DEF State
  <1> HIDE DEF T
  <1>9. Frozen(T) /\ Agree(T)
    BY <1>0, <1>8, PartsKeep DEF Frozen
  <1>10. Sane(T)
    BY <1>0, <1>1, <1>5, <1>8 DEF Sane
  <1>11. Served(T)
    <2> SUFFICES ASSUME NEW d \in Coins
                 PROVE  \/ T.lost[d] \/ T.tmpl[Master][d] >= T.head[d]
                        \/ \E r \in T.fetches : r.c = d /\ r.new /\ r.header = T.head[d]
      BY Zenon DEF Served
    <2>1. \/ S.lost[d] \/ S.tmpl[Master][d] >= S.head[d]
          \/ \E r \in S.fetches : r.c = d /\ r.new /\ r.header = S.head[d]
      BY <1>0, Zenon DEF Served
    <2>2. CASE d # c
      BY <1>3, <1>4, <1>8, <2>1, <2>2
    <2>3. CASE d = c /\ h = S.head[c]
      BY <1>3, <1>4, <1>8, <2>1, <2>3
    <2>4. CASE d = c /\ h # S.head[c]
      BY <1>3, <1>5, <1>8, <2>4
    <2> QED BY <2>2, <2>3, <2>4
  <1> QED BY <1>6, <1>7, <1>9, <1>10, <1>11 DEF IInv, Rest

LEMMA GotHeaderKeeps ==
    ASSUME NEW S, IInv(S), NEW c \in Coins, NEW h \in Nat, 1 <= h, h <= S.chain[c],
           NEW old \in BOOLEAN, NEW hour \in BOOLEAN
    PROVE  IInv(GotHeader(S, c, h, old, hour))
  <1>1. CASE S.newF[c] = 0
    BY <1>1, Zenon DEF GotHeader
  <1>2. CASE S.newF[c] # 0
    <2> DEFINE T == HeaderHealth(S, c, old)
    <2>1. Alike(S, T) /\ S \in State
      BY <1>2, HeaderHealthAlike, Zenon DEF IInv
    <2>2. IInv(T) /\ T.newF = S.newF /\ T.chain = S.chain /\ T.head = S.head
      BY <2>1, AlikeKeeps DEF Alike
    <2>3. GotHeader(S, c, h, old, hour) =
            IF h # T.head[c] \/ hour THEN StartFetch(T, c, h)
            ELSE IF T.lastF[c] # T.newF[c] THEN CoinHashFactorUpdate(T, c, T.newF[c]) ELSE T
      BY <1>2, Zenon DEF GotHeader
    <2> HIDE DEF T
    <2>4. IInv(StartFetch(T, c, h))
      BY <1>2, <2>2, StartFetchKeeps
    <2>5. IInv(CoinHashFactorUpdate(T, c, T.newF[c]))
      <3>1. T.newF[c] \in Nat
        BY <2>2, Fields DEF IInv
      <3> QED BY <2>2, <3>1, CoinHashFactorUpdateKeeps
    <2> QED BY <2>2, <2>3, <2>4, <2>5, Zenon
  <1> QED BY <1>1, <1>2

\* A poll was sent or answered.
LEMMA PollKeeps ==
    ASSUME IInv(Now), NEW c \in Coins, NEW k \in Kinds, NEW p \in PollRecs, p.on => p.at >= 1
    PROVE  LET T == [Now EXCEPT !.polls[c][k] = p] IN
           IInv(T) /\ T.chain = chain /\ T.newF = newF
  <1> DEFINE P == [polls EXCEPT ![c][k] = p]
             T == [Now EXCEPT !.polls = P]
  <1>0. Now \in State /\ Sane(Now)
    BY DEF IInv, Rest
  <1>1. polls \in [Coins -> [Kinds -> PollRecs]]
    BY <1>0, Fields, NowFields
  <1>2. /\ P \in [Coins -> [Kinds -> PollRecs]]
        /\ \A d \in Coins, j \in Kinds : P[d][j] = IF d = c /\ j = k THEN p ELSE polls[d][j]
    BY <1>1
  <1>3. T = [Now EXCEPT !.polls[c][k] = p]
    BY NowFields
  <1> HIDE DEF P
  <1>4. T \in State
    BY <1>0, <1>2, Zenon DEF State
  <1>5. /\ T.chain = Now.chain /\ T.newF = Now.newF /\ T.head = Now.head /\ T.polls = P
        /\ T.fetches = Now.fetches /\ T.failing = Now.failing /\ T.mm = Now.mm /\ T.tmpl = Now.tmpl
        /\ T.ipc = Now.ipc /\ T.own = Now.own /\ T.split = Now.split /\ T.lost = Now.lost
    BY <1>0, Zenon DEF State
  <1> HIDE DEF T
  <1>6. Sane(T)
    BY <1>0, <1>2, <1>5, NowFields DEF Sane
  <1>7. Served(T) /\ Frozen(T) /\ Agree(T)
    <2>1. Served(T) /\ Frozen(T)
      BY <1>5 DEF IInv, Rest, Served, Frozen
    <2> QED BY <1>5, <2>1, PartsKeep DEF IInv, Rest
  <1>8. IInv(T) /\ T.chain = chain /\ T.newF = newF
    BY <1>4, <1>5, <1>6, <1>7, NowFields DEF IInv, Rest
  <1> QED BY <1>3, <1>8

LEMMA HeaderStepsKeep ==
    ASSUME IInv(Now), NEW c \in Coins, NEW k \in Kinds,
           TemplateUpdate(c, k) \/ HeaderArrives(c, k) \/ HeaderFails(c, k)
    PROVE  IInv(Now')
  <1>0. Now \in State /\ Sane(Now) /\ chain \in [Coins -> Nat] /\ polls \in [Coins -> [Kinds -> PollRecs]]
    BY Fields, NowFields DEF IInv, Rest
  <1>1. CASE TemplateUpdate(c, k)
    <2>1. [on |-> TRUE, at |-> chain[c]] \in PollRecs
      BY <1>0 DEF PollRecs
    <2>2. chain[c] >= 1
      BY <1>0, NowFields DEF Sane
    <2>3. IInv([Now EXCEPT !.polls[c][k] = [on |-> TRUE, at |-> chain[c]]])
      BY <2>1, <2>2, PollKeeps
    <2> QED BY <1>1, <2>3, BecomeKeeps DEF TemplateUpdate
  <1> DEFINE A == Answered(c, k)
             E == [A EXCEPT !.events = @ + 1]
  <1>2. /\ IInv(A) /\ A.chain = chain /\ A.newF = newF
        /\ IInv(E) /\ E.chain = chain /\ E.newF = newF
    <2>1. Idle \in PollRecs /\ ~Idle.on
      BY DEF Idle, PollRecs
    <2>2. IInv(A) /\ A.chain = chain /\ A.newF = newF
      BY <2>1, PollKeeps DEF Answered
    <2> HIDE DEF A
    <2>3. Alike(A, E)
      BY <2>2, EventAlike DEF IInv
    <2> HIDE DEF E
    <2> QED BY <2>2, <2>3, AlikeKeeps DEF Alike
  <1>3. CASE HeaderArrives(c, k)
    <2>1. PICK h \in polls[c][k].at..chain[c] :
            \/ Become(GotHeader(A, c, h, FALSE, FALSE))
            \/ \E old, hour \in BOOLEAN : /\ old \/ hour
                                          /\ Become(GotHeader(E, c, h, old, hour))
      BY <1>3, Zenon DEF HeaderArrives
    <2>2. h \in Nat /\ 1 <= h /\ h <= chain[c]
      <3>1. polls[c][k].on /\ polls[c][k] \in PollRecs
        BY <1>0, <1>3 DEF HeaderArrives
      <3>2. polls[c][k].at \in Nat /\ polls[c][k].at >= 1
        BY <1>0, <3>1, NowFields DEF PollRecs, Sane
      <3> QED BY <1>0, <3>2
    <2> HIDE DEF A, E
    <2>3. \A old, hour \in BOOLEAN : IInv(GotHeader(A, c, h, old, hour)) /\ IInv(GotHeader(E, c, h, old, hour))
      BY <1>2, <2>2, GotHeaderKeeps
    <2>4. \E S : Become(S) /\ IInv(S)
      BY <2>1, <2>3, Zenon
    <2> QED BY <2>4, BecomeKeeps
  <1>4. CASE HeaderFails(c, k)
    <2>1. Become(IF newF[c] = 0 THEN E ELSE RpcFailure(E, c, "header"))
      BY <1>4, Zenon DEF HeaderFails
    <2> HIDE DEF A, E
    <2>2. Alike(E, RpcFailure(E, c, "header"))
      BY <1>2, RpcFailureAlike DEF IInv, Rpcs
    <2>3. IInv(IF newF[c] = 0 THEN E ELSE RpcFailure(E, c, "header"))
      BY <1>2, <2>2, AlikeKeeps
    <2> QED BY <2>1, <2>3, BecomeKeeps
  <1> QED BY <1>1, <1>3, <1>4

-----------------------------------------------------------------------------
(* Template fetches *)

LEMMA FetchFields ==
    ASSUME IInv(Now), NEW q \in fetches
    PROVE  /\ q \in Fetch /\ q.c \in Coins /\ q.header \in Nat /\ q.at \in Nat /\ q.f \in Nat
           /\ q.fails \in Nat /\ q.full \in BOOLEAN /\ q.new \in BOOLEAN
           /\ 1 <= q.header /\ q.header <= q.at /\ q.header <= chain[q.c] /\ q.f # 0
           /\ chain[q.c] \in Nat
  <1>1. q \in Fetch /\ chain \in [Coins -> Nat]
    BY Fields, NowFields DEF IInv
  <1>2. /\ q.c \in Coins /\ q.header \in Nat /\ q.at \in Nat /\ q.f \in Nat
        /\ q.fails \in Nat /\ q.full \in BOOLEAN /\ q.new \in BOOLEAN
    BY <1>1 DEF Fetch
  <1>3. 1 <= q.header /\ q.header <= q.at /\ q.header <= chain[q.c] /\ q.f # 0
    BY NowFields DEF IInv, Rest, Sane
  <1> QED BY <1>1, <1>2, <1>3

\* The set of fetches after q is gone or replaced.
LEMMA FetchesIs ==
    ASSUME NEW S \in State, NEW Q \in SUBSET Fetch, NEW T, T = [S EXCEPT !.fetches = Q]
    PROVE  /\ T \in State
           /\ T.chain = S.chain /\ T.newF = S.newF /\ T.head = S.head /\ T.polls = S.polls
           /\ T.fetches = Q /\ T.failing = S.failing /\ T.mm = S.mm /\ T.tmpl = S.tmpl
           /\ T.ipc = S.ipc /\ T.own = S.own /\ T.split = S.split /\ T.lost = S.lost
  <1>1. T \in State
    BY Zenon DEF State
  <1>2. /\ T.chain = S.chain /\ T.newF = S.newF /\ T.head = S.head /\ T.polls = S.polls
        /\ T.fetches = Q /\ T.failing = S.failing /\ T.mm = S.mm /\ T.tmpl = S.tmpl
        /\ T.ipc = S.ipc /\ T.own = S.own /\ T.split = S.split /\ T.lost = S.lost
    BY Zenon DEF State
  <1> QED BY <1>1, <1>2, Zenon

LEMMA DoneKeeps ==
    ASSUME IInv(Now), NEW q \in fetches
    PROVE  DInv(Done(q), q) /\ Done(q).head = head /\ Done(q).chain = chain /\ Done(q).newF = newF
  <1> DEFINE Q == fetches \ {q}
             T == Done(q)
  <1>1. Now \in State /\ Sane(Now) /\ Served(Now) /\ Frozen(Now) /\ Agree(Now)
    BY DEF IInv, Rest
  <1>2. T = [Now EXCEPT !.fetches = Q] /\ Q \in SUBSET Fetch
    BY <1>1, Fields, NowFields DEF Done
  <1> HIDE DEF T
  <1>3. /\ T \in State
        /\ T.chain = Now.chain /\ T.newF = Now.newF /\ T.head = Now.head /\ T.polls = Now.polls
        /\ T.fetches = Q /\ T.failing = Now.failing /\ T.mm = Now.mm /\ T.tmpl = Now.tmpl
        /\ T.ipc = Now.ipc /\ T.own = Now.own /\ T.split = Now.split /\ T.lost = Now.lost
    <2> HIDE DEF Q
    <2> QED BY <1>1, <1>2, FetchesIs
  <1>4. Sane(T)
    BY <1>1, <1>3, NowFields DEF Sane
  <1>5. ServedBut(T, q)
    <2> SUFFICES ASSUME NEW c \in Coins
                 PROVE  \/ T.lost[c] \/ T.tmpl[Master][c] >= T.head[c]
                        \/ \E r \in T.fetches : r.c = c /\ r.new /\ r.header = T.head[c]
                        \/ c = q.c /\ q.new /\ q.header = T.head[c]
      BY Zenon DEF ServedBut
    <2>1. \/ Now.lost[c] \/ Now.tmpl[Master][c] >= Now.head[c]
          \/ \E r \in fetches : r.c = c /\ r.new /\ r.header = Now.head[c]
      BY <1>1, NowFields DEF Served
    <2> QED BY <1>3, <2>1
  <1>6. Frozen(T) /\ Agree(T)
    BY <1>1, <1>3, PartsKeep DEF Frozen
  <1>7. DInv(T, q)
    BY <1>1, <1>3, <1>4, <1>5, <1>6 DEF DInv
  <1> QED BY <1>3, <1>7, NowFields DEF T

\* The fetch is given up.
LEMMA LoseKeeps ==
    ASSUME NEW S, NEW q \in Fetch, DInv(S, q)
    PROVE  IInv(Lose(S, q)) /\ Lose(S, q).failing = S.failing
  <1> DEFINE L == [S.lost EXCEPT ![q.c] = @ \/ (q.new /\ q.header = S.head[q.c])]
             T == [S EXCEPT !.lost = L]
  <1>0. S \in State /\ q.c \in Coins /\ q.new \in BOOLEAN
    BY DEF DInv, Fetch
  <1>1. S.lost \in [Coins -> BOOLEAN]
    BY <1>0, Fields
  <1>2. /\ L \in [Coins -> BOOLEAN]
        /\ \A c \in Coins : L[c] <=> S.lost[c] \/ (c = q.c /\ q.new /\ q.header = S.head[c])
    BY <1>0, <1>1
  <1>3. Lose(S, q) = T
    BY DEF Lose
  <1> HIDE DEF L
  <1>4. T \in State
    BY <1>0, <1>2, Zenon DEF State
  <1>5. /\ T.chain = S.chain /\ T.newF = S.newF /\ T.head = S.head /\ T.polls = S.polls
        /\ T.fetches = S.fetches /\ T.failing = S.failing /\ T.mm = S.mm /\ T.tmpl = S.tmpl
        /\ T.ipc = S.ipc /\ T.own = S.own /\ T.split = S.split /\ T.lost = L
    BY <1>0, Zenon DEF State
  <1> HIDE DEF T
  <1>6. Served(T)
    BY <1>2, <1>5 DEF DInv, ServedBut, Served
  <1>7. Sane(T) /\ Frozen(T) /\ Agree(T)
    <2>1. Sane(T) /\ Frozen(T)
      BY <1>5 DEF DInv, Sane, Frozen
    <2> QED BY <1>5, <2>1, PartsKeep DEF DInv
  <1> QED BY <1>3, <1>4, <1>5, <1>6, <1>7 DEF IInv, Rest

\* It is tried again for the same header.
LEMMA AgainKeeps ==
    ASSUME NEW S, NEW q \in Fetch, DInv(S, q), NEW r \in Fetch,
           r.c = q.c, r.new = q.new, r.header = q.header, r.f = q.f, q.f # 0,
           1 <= q.header, r.header <= r.at, q.header <= S.chain[q.c]
    PROVE  IInv([S EXCEPT !.fetches = @ \cup {r}])
  <1> DEFINE Q == S.fetches \cup {r}
             T == [S EXCEPT !.fetches = @ \cup {r}]
  <1>0. S \in State
    BY DEF DInv
  <1>1. Q \in SUBSET Fetch
    BY <1>0, Fields
  <1>2. T = [S EXCEPT !.fetches = Q]
    OBVIOUS
  <1> HIDE DEF T
  <1>3. /\ T \in State
        /\ T.chain = S.chain /\ T.newF = S.newF /\ T.head = S.head /\ T.polls = S.polls
        /\ T.fetches = Q /\ T.failing = S.failing /\ T.mm = S.mm /\ T.tmpl = S.tmpl
        /\ T.ipc = S.ipc /\ T.own = S.own /\ T.split = S.split /\ T.lost = S.lost
    <2> HIDE DEF Q
    <2> QED BY <1>0, <1>1, <1>2, FetchesIs
  <1>4. Served(T)
    BY <1>3 DEF DInv, ServedBut, Served
  <1>5. Sane(T)
    BY <1>3 DEF DInv, Sane
  <1>6. Frozen(T) /\ Agree(T)
    BY <1>3, PartsKeep DEF DInv, Frozen
  <1>7. IInv(T)
    BY <1>3, <1>4, <1>5, <1>6 DEF IInv, Rest
  <1> QED BY <1>7 DEF T

\* Its template is published.
LEMMA PublishKeeps ==
    ASSUME NEW S, NEW q \in Fetch, DInv(S, q), q.f # 0, 1 <= q.header, q.header >= S.head[q.c],
           NEW h \in Nat, h >= q.header, NEW same \in BOOLEAN
    PROVE  IInv(Publish(S, q, h, same))
  <1> DEFINE B == [S.tmpl EXCEPT ![Master][q.c] = h]
             L == [S.lost EXCEPT ![q.c] = @ /\ h < S.head[q.c]]
             U == [S EXCEPT !.tmpl = B, !.lost = L]
             m == [c |-> q.c, h |-> h, f |-> q.f, same |-> same]
             T == Publish(S, q, h, same)
  <1>0. /\ S \in State /\ Sane(S) /\ ServedBut(S, q) /\ Frozen(S) /\ Agree(S)
        /\ q.c \in Coins /\ q.header \in Nat /\ q.f \in Nat /\ q.full \in BOOLEAN
    BY DEF DInv, Fetch
  <1>1. S.tmpl \in [Procs -> [Coins -> Nat]] /\ S.lost \in [Coins -> BOOLEAN] /\ S.head \in [Coins -> Nat]
    BY <1>0, Fields
  <1>2. /\ B \in [Procs -> [Coins -> Nat]] /\ \A w \in Workers : B[w] = S.tmpl[w]
        /\ \A c \in Coins : B[Master][c] = IF c = q.c THEN h ELSE S.tmpl[Master][c]
    BY <1>0, <1>1, Names
  <1>3. L \in [Coins -> BOOLEAN] /\ \A c \in Coins : c # q.c => L[c] = S.lost[c]
    BY <1>0, <1>1
  <1>4. m \in Message /\ m.c = q.c /\ m.h = h /\ m.f = q.f /\ m.same = same
    BY <1>0 DEF Message
  <1>5. /\ ~same => T = MasterFactor(Broadcast(U, m), q.full, m.c, m.f)
        /\ same => T = IF m.c = Main THEN Broadcast(U, m)
                       ELSE [Broadcast(U, m) EXCEPT !.split[m.c] = TRUE]
    <2>1. Publish(S, q, h, same) =
            IF ~same THEN MasterFactor(Broadcast(U, m), q.full, q.c, q.f)
            ELSE IF q.c = Main THEN Broadcast(U, m)
            ELSE [Broadcast(U, m) EXCEPT !.split[q.c] = TRUE]
      BY DEF Publish
    <2> HIDE DEF m, U
    <2>2. CASE same
      <3>1. T = IF m.c = Main THEN Broadcast(U, m)
                ELSE [Broadcast(U, m) EXCEPT !.split[m.c] = TRUE]
        BY <1>4, <2>1, <2>2
      <3> QED BY <2>2, <3>1
    <2>3. CASE ~same
      BY <1>4, <2>1, <2>3
    <2> QED BY <2>2, <2>3
  <1> HIDE DEF B, L, m, T
  <1>6. U \in State
    BY <1>0, <1>2, <1>3, Zenon DEF State
  <1>7. /\ U.chain = S.chain /\ U.newF = S.newF /\ U.head = S.head /\ U.polls = S.polls
        /\ U.fetches = S.fetches /\ U.failing = S.failing /\ U.mm = S.mm /\ U.tmpl = B
        /\ U.ipc = S.ipc /\ U.own = S.own /\ U.split = S.split /\ U.lost = L
    BY <1>0, Zenon DEF State
  <1> HIDE DEF U
  <1>8. Told(U, T, m)
    <2>1. CASE ~same
      <3>1. PICK full \in BOOLEAN : T = MasterFactor(Broadcast(U, m), full, m.c, m.f)
        BY <1>0, <1>5, <2>1, Zenon
      <3> QED BY <1>4, <1>6, <2>1, <3>1, TellIs
    <2>2. CASE same
      BY <1>4, <1>5, <1>6, <2>2, HushIs
    <2> QED BY <2>1, <2>2
  <1>9. /\ T \in State
        /\ T.chain = U.chain /\ T.newF = U.newF /\ T.head = U.head /\ T.polls = U.polls
        /\ T.fetches = U.fetches /\ T.failing = U.failing /\ T.tmpl = U.tmpl
        /\ T.own = U.own /\ T.lost = U.lost
        /\ \A w \in Workers : T.ipc[w] = Append(U.ipc[w], m) /\ T.mm[w] = U.mm[w]
    BY <1>8 DEF Told
  <1>10. Sane(T) /\ Frozen(T)
    BY <1>0, <1>7, <1>9 DEF Sane, Frozen
  <1>11. Served(T)
    <2> SUFFICES ASSUME NEW c \in Coins
                 PROVE  \/ T.lost[c] \/ T.tmpl[Master][c] >= T.head[c]
                        \/ \E r \in T.fetches : r.c = c /\ r.new /\ r.header = T.head[c]
      BY Zenon DEF Served
    <2>1. CASE c = q.c
      BY <1>0, <1>1, <1>2, <1>7, <1>9, <2>1
    <2>2. CASE c # q.c
      <3>1. \/ S.lost[c] \/ S.tmpl[Master][c] >= S.head[c]
            \/ \E r \in S.fetches : r.c = c /\ r.new /\ r.header = S.head[c]
        BY <1>0, <2>2, Zenon DEF ServedBut
      <3>2. T.lost[c] = S.lost[c] /\ T.tmpl[Master][c] = S.tmpl[Master][c] /\ T.head[c] = S.head[c] /\ T.fetches = S.fetches
        BY <1>2, <1>3, <1>7, <1>9, <2>2
      <3> QED BY <3>1, <3>2
    <2> QED BY <2>1, <2>2
  <1>12. \A w \in Workers : /\ T.ipc[w] = Append(S.ipc[w], m)
                           /\ T.mm[w] = S.mm[w] /\ T.tmpl[w] = S.tmpl[w]
    BY <1>2, <1>7, <1>9
  <1>13. h > 0
    BY <1>0
  <1>14. /\ \A c \in Alts : T.tmpl[Master][c] = IF c = m.c /\ m.h > 0 THEN m.h ELSE S.tmpl[Master][c]
         /\ \A c \in Alts : Says(S, T, m, c)
    <2>1. \A c \in Alts : Says(S, T, m, c)
      BY <1>7, <1>8 DEF Told, Says
    <2> QED BY <1>2, <1>4, <1>7, <1>9, <1>13, <2>1, Names
  <1>15. Agree(T)
    BY <1>0, <1>4, <1>9, <1>12, <1>14, TellKeeps
  <1> QED BY <1>9, <1>10, <1>11, <1>15 DEF IInv, Rest, T

LEMMA TemplateArrivesKeeps ==
    ASSUME IInv(Now), NEW q \in fetches, TemplateArrives(q)
    PROVE  IInv(Now')
  <1>0. /\ q \in Fetch /\ q.c \in Coins /\ q.header \in Nat /\ q.at \in Nat /\ q.new \in BOOLEAN
        /\ 1 <= q.header /\ q.header <= q.at /\ q.f # 0 /\ chain[q.c] \in Nat
    BY FetchFields
  <1>1. DInv(Done(q), q) /\ Done(q).head = head
    BY DoneKeeps
  <1>2. CASE Skip(q)
    <2>1. Become(Lose(Done(q), q))
      BY <1>2 DEF TemplateArrives
    <2>2. IInv(Lose(Done(q), q))
      BY <1>0, <1>1, LoseKeeps
    <2> QED BY <2>1, <2>2, BecomeKeeps
  <1>3. CASE ~Skip(q)
    <2> DEFINE S == IF q.c = Main THEN Done(q) ELSE [Done(q) EXCEPT !.grace[q.c] = @ \ {"template"}]
               E == [S EXCEPT !.events = @ + 1]
    <2>1. \/ \E h \in q.at..chain[q.c], same \in BOOLEAN : Become(Publish(S, q, h, same))
          \/ ~q.new /\ Become(S)
          \/ Become(Lose(E, q))
      BY <1>3 DEF TemplateArrives
    <2>2. DInv(S, q) /\ S.head = head
      <3>1. CASE q.c = Main
        BY <1>1, <3>1
      <3>2. CASE q.c # Main
        <4> DEFINE D == Done(q)
                   g == D.grace[q.c] \ {"template"}
        <4>1. D \in State /\ q.c \in Alts
          BY <1>0, <1>1, <3>2, Names DEF DInv
        <4>2. g \in SUBSET Rpcs
          BY <4>1, Fields
        <4>3. S = [D EXCEPT !.grace[q.c] = g]
          BY <3>2
        <4> HIDE DEF g
        <4>4. Alike(D, S)
          <5> HIDE DEF D, S
          <5> QED BY <4>1, <4>2, <4>3, GraceAlike
        <4> QED BY <1>1, <4>4, AlikeKeeps DEF Alike
      <3> QED BY <3>1, <3>2
    <2> HIDE DEF S
    <2>3. DInv(E, q)
      BY <2>2, EventAlike, AlikeKeeps DEF DInv
    <2> HIDE DEF E
    <2>4. CASE \E h \in q.at..chain[q.c], same \in BOOLEAN : Become(Publish(S, q, h, same))
      <3>1. PICK h \in q.at..chain[q.c], same \in BOOLEAN : Become(Publish(S, q, h, same))
        BY <2>4, Zenon
      <3>2. h \in Nat /\ h >= q.header
        BY <1>0
      <3>3. head[q.c] \in Nat
        BY <1>0, Fields, NowFields DEF IInv
      <3>4. q.header >= S.head[q.c]
        BY <1>0, <1>3, <2>2, <3>3 DEF Skip
      <3>5. IInv(Publish(S, q, h, same))
        BY <1>0, <2>2, <3>2, <3>4, PublishKeeps
      <3> QED BY <3>1, <3>5, BecomeKeeps
    <2>5. CASE ~q.new /\ Become(S)
      <3>1. IInv(S)
        BY <2>2, <2>5, Zenon DEF DInv, ServedBut, IInv, Rest, Served
      <3> QED BY <2>5, <3>1, BecomeKeeps
    <2>6. CASE Become(Lose(E, q))
      BY <1>0, <2>3, <2>6, LoseKeeps, BecomeKeeps
    <2> QED BY <2>1, <2>4, <2>5, <2>6
  <1> QED BY <1>2, <1>3

LEMMA TemplateFailsKeeps ==
    ASSUME IInv(Now), NEW q \in fetches, NEW rpc \in BOOLEAN, TemplateFails(q, rpc)
    PROVE  IInv(Now')
  <1> DEFINE S == [Done(q) EXCEPT !.events = @ + 1]
             F == RpcFailure(S, q.c, "template")
             T == IF rpc THEN F ELSE S
             r == [q EXCEPT !.fails = @ + 1, !.timer = TRUE]
             A == [T EXCEPT !.fetches = @ \cup {r}]
             M == RpcFailure(Lose(T, q), Main, "template")
  <1>0. /\ q \in Fetch /\ q.c \in Coins /\ q.header \in Nat /\ q.at \in Nat /\ q.fails \in Nat
        /\ 1 <= q.header /\ q.header <= q.at /\ q.header <= chain[q.c] /\ q.f # 0
    BY FetchFields
  <1>1. DInv(Done(q), q) /\ Done(q).chain = chain
    BY DoneKeeps
  <1>2. Alike(Done(q), S)
    BY <1>1, EventAlike DEF DInv
  <1>3. \/ Become(A)
        \/ rpc /\ Become(Lose(T, q))
        \/ Become(SwitchOff(IF q.c = Main THEN M ELSE Lose(T, q), q.c))
    BY Zenon DEF TemplateFails
  <1> HIDE DEF S
  <1>4. DInv(S, q) /\ S.chain = chain /\ S \in State
    BY <1>1, <1>2, AlikeKeeps DEF Alike
  <1>5. "template" \in Rpcs
    BY DEF Rpcs
  <1>6. Alike(S, F)
    BY <1>0, <1>4, <1>5, RpcFailureAlike
  <1> HIDE DEF F
  <1>7. DInv(F, q) /\ F.chain = chain
    BY <1>4, <1>6, AlikeKeeps DEF Alike
  <1>8. DInv(T, q) /\ T.chain = chain
    BY <1>4, <1>7, Zenon
  <1> HIDE DEF T
  <1>9. CASE Become(A)
    <2>1. /\ r \in Fetch /\ r.c = q.c /\ r.new = q.new /\ r.header = q.header /\ r.f = q.f
          /\ r.at = q.at
      <3>1. q.fails + 1 \in Nat
        BY <1>0
      <3>2. r \in Fetch
        BY <1>0, <3>1, Zenon DEF Fetch
      <3>3. r.c = q.c /\ r.new = q.new /\ r.header = q.header /\ r.f = q.f /\ r.at = q.at
        BY <1>0, Zenon DEF Fetch
      <3> QED BY <3>2, <3>3
    <2> HIDE DEF r
    <2>2. IInv(A)
      BY <1>0, <1>8, <2>1, AgainKeeps
    <2> HIDE DEF A
    <2> QED BY <1>9, <2>2, BecomeKeeps
  <1>10. IInv(Lose(T, q))
    BY <1>0, <1>8, LoseKeeps
  <1>11. CASE rpc /\ Become(Lose(T, q))
    BY <1>10, <1>11, BecomeKeeps
  <1>12. CASE Become(SwitchOff(IF q.c = Main THEN M ELSE Lose(T, q), q.c))
    <2>1. Alike(Lose(T, q), M) /\ M.failing
      BY <1>5, <1>10, RpcFailureAlike, Names DEF IInv
    <2> HIDE DEF M
    <2>2. IInv(M)
      BY <1>10, <2>1, AlikeKeeps
    <2>3. IInv(SwitchOff(IF q.c = Main THEN M ELSE Lose(T, q), q.c))
      <3>1. CASE q.c = Main
        BY <1>0, <2>1, <2>2, <3>1, SwitchOffKeeps
      <3>2. CASE q.c # Main
        BY <1>0, <1>10, <3>2, SwitchOffKeeps
      <3> QED BY <3>1, <3>2
    <2> QED BY <1>12, <2>3, BecomeKeeps
  <1> QED BY <1>3, <1>9, <1>11, <1>12

LEMMA RetryTemplateKeeps ==
    ASSUME IInv(Now), NEW q \in fetches, RetryTemplate(q)
    PROVE  IInv(Now')
  <1> DEFINE r == [q EXCEPT !.timer = FALSE, !.at = chain[q.c]]
  <1>0. /\ q \in Fetch /\ q.c \in Coins /\ q.header \in Nat /\ q.f # 0 /\ chain[q.c] \in Nat
        /\ 1 <= q.header /\ q.header <= chain[q.c]
    BY FetchFields
  <1>1. DInv(Done(q), q) /\ Done(q).chain = chain
    BY DoneKeeps
  <1>2. /\ r \in Fetch /\ r.c = q.c /\ r.new = q.new /\ r.header = q.header /\ r.f = q.f
        /\ r.at = chain[q.c]
    BY <1>0 DEF Fetch
  <1>3. Become([Done(q) EXCEPT !.fetches = @ \cup {r}])
    BY DEF RetryTemplate
  <1> HIDE DEF r
  <1>4. IInv([Done(q) EXCEPT !.fetches = @ \cup {r}])
    BY <1>0, <1>1, <1>2, AgainKeeps
  <1> QED BY <1>3, <1>4, BecomeKeeps

-----------------------------------------------------------------------------
(* Factors, blocks and restarts *)

LEMMA FactorStepsKeep ==
    ASSUME IInv(Now), NEW c \in Alts, UpdateCoinHashFactor(c) \/ SetCoinHashFactor(c) \/ GraceEnds(c)
    PROVE  IInv(Now')
  <1>0. /\ Now \in State /\ c \in Coins /\ c # Main /\ IInv(Event) /\ Event \in State
        /\ db \in [Alts -> {0, 1}] /\ newF \in [Coins -> Nat]
    BY EventKeeps, Names, Fields, NowFields DEF IInv
  <1>1. IInv(SwitchOff(Now, c)) /\ IInv(SwitchOff(Event, c))
    BY <1>0, SwitchOffKeeps
  <1>2. CASE UpdateCoinHashFactor(c)
    <2> DEFINE N == [newF EXCEPT ![c] = db[c]]
               T == [Now EXCEPT !.newF = N]
    <2>1. N \in [Coins -> Nat] /\ N[Main] = newF[Main]
      BY <1>0, Names
    <2>2. T = [Now EXCEPT !.newF[c] = db[c]]
      BY NowFields
    <2> HIDE DEF N
    <2>3. T \in State
      BY <1>0, <2>1, Zenon DEF State
    <2>4. /\ T.chain = Now.chain /\ T.newF = N /\ T.head = Now.head /\ T.polls = Now.polls
          /\ T.fetches = Now.fetches /\ T.failing = Now.failing /\ T.mm = Now.mm /\ T.tmpl = Now.tmpl
          /\ T.ipc = Now.ipc /\ T.own = Now.own /\ T.split = Now.split /\ T.lost = Now.lost
      BY <1>0, Zenon DEF State
    <2> HIDE DEF T
    <2>5. Frozen(T)
      BY <2>1, <2>4, NowFields DEF IInv, Rest, Frozen
    <2>6. Sane(T) /\ Served(T) /\ Agree(T)
      <3>1. Sane(T) /\ Served(T)
        BY <2>4 DEF IInv, Rest, Sane, Served
      <3> QED BY <2>4, <3>1, PartsKeep DEF IInv, Rest
    <2>7. IInv(T)
      BY <2>3, <2>5, <2>6 DEF IInv, Rest
    <2> QED BY <1>1, <1>2, <2>2, <2>7, BecomeKeeps DEF UpdateCoinHashFactor
  <1>3. CASE SetCoinHashFactor(c)
    <2> DEFINE D == [Event.db EXCEPT ![c] = 1 - @]
               T == [Event EXCEPT !.db = D]
    <2>1. T = [Event EXCEPT !.db[c] = 1 - @]
      OBVIOUS
    <2>2. Become(T)
      BY <1>3, <2>1 DEF SetCoinHashFactor
    <2>3. D \in [Alts -> {0, 1}]
      <3>1. Event.db \in [Alts -> {0, 1}]
        BY <1>0, Fields
      <3>2. 1 - Event.db[c] \in {0, 1}
        BY <3>1
      <3> QED BY <3>1, <3>2, Zenon
    <2> HIDE DEF D
    <2>4. T \in State
      BY <1>0, <2>3, Zenon DEF State
    <2>5. /\ T.chain = Event.chain /\ T.newF = Event.newF /\ T.head = Event.head /\ T.polls = Event.polls
          /\ T.fetches = Event.fetches /\ T.failing = Event.failing /\ T.mm = Event.mm /\ T.tmpl = Event.tmpl
          /\ T.ipc = Event.ipc /\ T.own = Event.own /\ T.split = Event.split /\ T.lost = Event.lost
      BY <1>0, Zenon DEF State
    <2> HIDE DEF T
    <2>6. IInv(T)
      BY <1>0, <2>4, <2>5, AlikeKeeps DEF Alike
    <2> QED BY <2>2, <2>6, BecomeKeeps
  <1>4. CASE GraceEnds(c)
    <2>1. PICK rpc \in grace[c] : Become(SwitchOff([Now EXCEPT !.grace[c] = @ \ {rpc}], c))
      BY <1>4 DEF GraceEnds
    <2> DEFINE g == Now.grace[c] \ {rpc}
               T == [Now EXCEPT !.grace[c] = g]
    <2>2. g \in SUBSET Rpcs
      BY <1>0, Fields
    <2> HIDE DEF g
    <2>3. Alike(Now, T)
      BY <1>0, <2>2, GraceAlike
    <2> HIDE DEF T
    <2>4. IInv(SwitchOff(T, c))
      BY <1>0, <2>3, AlikeKeeps, SwitchOffKeeps
    <2> QED BY <2>1, <2>4, BecomeKeeps DEF T, g
  <1> QED BY <1>2, <1>3, <1>4

LEMMA NewBlockKeeps ==
    ASSUME IInv(Now), NEW c \in Coins, NewBlock(c)
    PROVE  IInv(Now')
  <1> DEFINE C == [Event.chain EXCEPT ![c] = @ + 1]
             T == [Event EXCEPT !.chain = C]
  <1>0. Event \in State /\ IInv(Event) /\ Sane(Event) /\ Event.fetches \in SUBSET Fetch
    BY EventKeeps, Fields DEF IInv, Rest
  <1>1. /\ C \in [Coins -> Nat] /\ \A d \in Coins : C[d] >= Event.chain[d]
        /\ Event.chain \in [Coins -> Nat]
    BY <1>0, Fields
  <1>2. Become(T)
    BY DEF NewBlock
  <1> HIDE DEF C
  <1>3. T \in State
    BY <1>0, <1>1, Zenon DEF State
  <1>4. /\ T.chain = C /\ T.newF = Event.newF /\ T.head = Event.head /\ T.polls = Event.polls
        /\ T.fetches = Event.fetches /\ T.failing = Event.failing /\ T.mm = Event.mm /\ T.tmpl = Event.tmpl
        /\ T.ipc = Event.ipc /\ T.own = Event.own /\ T.split = Event.split /\ T.lost = Event.lost
    BY <1>0, Zenon DEF State
  <1> HIDE DEF T
  <1>5. Sane(T)
    <2>1. \A q \in T.fetches : q.header <= T.chain[q.c]
      <3> TAKE q \in T.fetches
      <3>1. q.c \in Coins /\ q.header \in Nat
        BY <1>0, <1>4 DEF Fetch
      <3>2. q.header <= Event.chain[q.c] /\ Event.chain[q.c] \in Nat /\ C[q.c] \in Nat
        BY <1>0, <1>1, <1>4, <3>1 DEF Sane
      <3> QED BY <1>1, <1>4, <3>1, <3>2
    <2>2. \A d \in Coins : T.chain[d] >= 1
      BY <1>0, <1>1, <1>4 DEF Sane
    <2> QED BY <1>0, <1>4, <2>1, <2>2 DEF Sane
  <1>6. Served(T) /\ Frozen(T) /\ Agree(T)
    <2>1. Served(T) /\ Frozen(T)
      BY <1>0, <1>4 DEF IInv, Rest, Served, Frozen
    <2> QED BY <1>0, <1>4, <2>1, PartsKeep DEF IInv, Rest
  <1>7. IInv(T)
    BY <1>3, <1>5, <1>6 DEF IInv, Rest
  <1> QED BY <1>2, <1>7, BecomeKeeps

\* A pool that just started.
LEMMA FreshKeeps ==
    ASSUME NEW T \in State, \A c \in Coins : T.chain[c] >= 1, T.fetches = {}, ~T.failing,
           T.newF = [c \in Coins |-> IF c = Main THEN 1 ELSE 0],
           T.head = [c \in Coins |-> 0],
           T.polls = [c \in Coins |-> [k \in Kinds |-> Idle]],
           T.mm = [p \in Procs |-> [c \in Alts |-> 0]],
           T.tmpl = [p \in Procs |-> [c \in Coins |-> 0]],
           T.ipc = [w \in Workers |-> <<>>],
           T.own = [w \in Workers |-> Booting],
           T.split = [c \in Alts |-> FALSE]
    PROVE  IInv(T)
  <1>1. Sane(T)
    BY DEF Sane, Idle, Booting
  <1>2. Served(T)
    BY Names DEF Served
  <1>3. Frozen(T)
    BY Names DEF Frozen
  <1>5. Agree(T)
    BY Names DEF Agree, TemplateAgrees, FactorAgrees
  <1> QED BY <1>1, <1>2, <1>3, <1>5 DEF IInv, Rest

LEMMA MonitorKeeps ==
    ASSUME IInv(Now), Monitor
    PROVE  IInv(Now')
  <1>1. Event \in State /\ Sane(Event)
    BY EventKeeps DEF IInv, Rest
  <1>2. IInv(Fresh(Event))
    <2> DEFINE T == Fresh(Event)
    <2>1. /\ T \in State /\ T.chain = Event.chain /\ T.fetches = {} /\ ~T.failing
          /\ T.newF = [c \in Coins |-> IF c = Main THEN 1 ELSE 0]
          /\ T.head = [c \in Coins |-> 0]
          /\ T.polls = [c \in Coins |-> [k \in Kinds |-> Idle]]
          /\ T.mm = [p \in Procs |-> [c \in Alts |-> 0]]
          /\ T.tmpl = [p \in Procs |-> [c \in Coins |-> 0]]
          /\ T.ipc = [w \in Workers |-> <<>>]
          /\ T.own = [w \in Workers |-> Booting]
          /\ T.split = [c \in Alts |-> FALSE]
      BY <1>1, FreshIs
    <2>2. \A c \in Coins : T.chain[c] >= 1
      BY <1>1, <2>1 DEF Sane
    <2> HIDE DEF T
    <2>3. IInv(T)
      BY <2>1, <2>2, FreshKeeps
    <2> QED BY <2>3 DEF T
  <1> QED BY <1>2, BecomeKeeps DEF Monitor

-----------------------------------------------------------------------------
(* The theorems *)

LEMMA InitKeeps == Init => IInv(Now)
  <1> SUFFICES ASSUME Init PROVE IInv(Now)
    OBVIOUS
  <1>1. /\ chain = [c \in Coins |-> 1] /\ db = [c \in Alts |-> 1] /\ events = 0
        /\ fetches = {} /\ failing = FALSE
        /\ newF = [c \in Coins |-> IF c = Main THEN 1 ELSE 0]
        /\ lastF = [c \in Coins |-> IF c = Main THEN 1 ELSE 0]
        /\ head = [c \in Coins |-> 0]
        /\ polls = [c \in Coins |-> [k \in Kinds |-> Idle]]
        /\ grace = [c \in Alts |-> {}]
        /\ mm = [p \in Procs |-> [c \in Alts |-> 0]]
        /\ tmpl = [p \in Procs |-> [c \in Coins |-> 0]]
        /\ ipc = [w \in Workers |-> <<>>]
        /\ own = [w \in Workers |-> Booting]
        /\ split = [c \in Alts |-> FALSE]
        /\ lost = [c \in Coins |-> FALSE]
    BY Zenon DEF Init, Fresh, Kinds
  <1>2. /\ chain \in [Coins -> Nat] /\ db \in [Alts -> {0, 1}] /\ events \in Nat
        /\ newF \in [Coins -> Nat] /\ lastF \in [Coins -> Nat] /\ head \in [Coins -> Nat]
        /\ fetches \in SUBSET Fetch /\ failing \in BOOLEAN /\ grace \in [Alts -> SUBSET Rpcs]
        /\ mm \in [Procs -> [Alts -> Nat]] /\ tmpl \in [Procs -> [Coins -> Nat]]
        /\ ipc \in [Workers -> Seq(Message)] /\ lost \in [Coins -> BOOLEAN]
    <2>1. /\ chain \in [Coins -> Nat] /\ db \in [Alts -> {0, 1}] /\ events \in Nat
          /\ newF \in [Coins -> Nat] /\ lastF \in [Coins -> Nat] /\ head \in [Coins -> Nat]
      BY <1>1
    <2>2. fetches \in SUBSET Fetch /\ failing \in BOOLEAN /\ grace \in [Alts -> SUBSET Rpcs]
      BY <1>1
    <2>3. /\ mm \in [Procs -> [Alts -> Nat]] /\ tmpl \in [Procs -> [Coins -> Nat]]
          /\ ipc \in [Workers -> Seq(Message)] /\ lost \in [Coins -> BOOLEAN]
      BY <1>1
    <2> QED BY <2>1, <2>2, <2>3
  <1>3. /\ polls \in [Coins -> [Kinds -> PollRecs]] /\ own \in [Workers -> OwnRecs]
        /\ split \in [Alts -> BOOLEAN]
    BY <1>1 DEF Idle, PollRecs, Booting, OwnRecs
  <1>4. Now \in State
    BY <1>2, <1>3, Zenon DEF Now, State
  <1>5. \A c \in Coins : Now.chain[c] >= 1
    BY <1>1, NowFields
  <1>6. /\ Now.fetches = {} /\ ~Now.failing
        /\ Now.newF = [c \in Coins |-> IF c = Main THEN 1 ELSE 0]
        /\ Now.head = [c \in Coins |-> 0]
        /\ Now.polls = [c \in Coins |-> [k \in Kinds |-> Idle]]
        /\ Now.mm = [p \in Procs |-> [c \in Alts |-> 0]]
        /\ Now.tmpl = [p \in Procs |-> [c \in Coins |-> 0]]
        /\ Now.ipc = [w \in Workers |-> <<>>]
        /\ Now.own = [w \in Workers |-> Booting]
        /\ Now.split = [c \in Alts |-> FALSE]
    BY <1>1, NowFields, Zenon
  <1> QED BY <1>4, <1>5, <1>6, FreshKeeps

LEMMA StepKeeps == IInv(Now) /\ [Next]_vars => IInv(Now')
  <1> SUFFICES ASSUME IInv(Now), [Next]_vars PROVE IInv(Now')
    OBVIOUS
  <1>1. CASE UNCHANGED vars
    <2>1. Now' = Now
      BY <1>1 DEF vars, Now
    <2> QED BY <2>1
  <1>2. ASSUME NEW c \in Coins, NewBlock(c) PROVE IInv(Now')
    BY <1>2, NewBlockKeeps
  <1>3. ASSUME NEW c \in Coins, NEW k \in {"repeat", "once"},
               TemplateUpdate(c, k) \/ HeaderArrives(c, k) \/ HeaderFails(c, k)
        PROVE  IInv(Now')
    BY <1>3, HeaderStepsKeep DEF Kinds
  <1>4. ASSUME NEW q \in fetches,
               TemplateArrives(q) \/ RetryTemplate(q) \/ \E rpc \in BOOLEAN : TemplateFails(q, rpc)
        PROVE  IInv(Now')
    BY <1>4, TemplateArrivesKeeps, RetryTemplateKeeps, TemplateFailsKeeps
  <1>5. ASSUME NEW c \in Alts, UpdateCoinHashFactor(c) \/ SetCoinHashFactor(c) \/ GraceEnds(c)
        PROVE  IInv(Now')
    BY <1>5, FactorStepsKeep
  <1>6. ASSUME NEW w \in Workers,
               \/ Receive(w) \/ WorkerCrash(w)
               \/ StartWorker(w) \/ OwnTemplate(w) \/ OwnFails(w)
        PROVE  IInv(Now')
    BY <1>6, ReceiveKeeps, WorkerCrashKeeps, StartWorkerKeeps, OwnTemplateKeeps
  <1>7. CASE Monitor
    BY <1>7, MonitorKeeps
  <1> QED BY <1>1, <1>2, <1>3, <1>4, <1>5, <1>6, <1>7, Zenon DEF Next

\* The invariant of the whole pool: every record of the master and the workers
\* has its type, a fetch is for a coin that was on and a block its daemon has,
\* the unread messages end with what the master holds.
THEOREM InvariantHolds == Spec => []IInv(Now)
  <1>1. IInv(Now) /\ [Next]_vars => IInv(Now)'
    BY StepKeeps
  <1> QED BY InitKeeps, <1>1, PTL DEF Spec

\* templateUpdate2 and onTemplate: the master serves the block it knows of.
THEOREM HeaderIsServedHolds == Spec => []HeaderIsServed
  <1>1. IInv(Now) => HeaderIsServed
    BY NowFields DEF IInv, Rest, Served, HeaderIsServed
  <1> QED BY <1>1, InvariantHolds, PTL

\* retryTemplateFetch and the health monitor: a master that stopped asking its
\* main daemon has marked it as failed.
THEOREM FrozenIsNoticedHolds == Spec => []FrozenIsNoticed
  <1>1. IInv(Now) => FrozenIsNoticed
    BY NowFields, Zenon DEF IInv, Rest, Frozen, FrozenIsNoticed
  <1> QED BY <1>1, InvariantHolds, PTL

\* messageHandler: with its messages read, a worker mines an alt on the master's
\* template and at the master's factor, or not at all; the factor may differ while
\* the master's last template message carried one it ignored itself (split).
THEOREM WorkersAgreeHolds == Spec => []WorkersAgree
  <1>1. IInv(Now) => WorkersAgree
    BY NowFields DEF IInv, Agree, TemplateAgrees, FactorAgrees, WorkersAgree
  <1> QED BY <1>1, InvariantHolds, PTL

-----------------------------------------------------------------------------
(* The jobs of the miners (MinerJobs) *)

Works == Templates \cup {NoWork}

SessionRecs ==
    [up : BOOLEAN, native : BOOLEAN, algos : SUBSET JobCoins, perf : SUBSET JobCoins,
     coin : JobCoins \cup {NoBest}, big : BOOLEAN, due : BOOLEAN, cached : BOOLEAN,
     last : Works, job : Works, unbuilt : Works, torn : BOOLEAN]

\* What holds of a session whatever became of its job: its coin has a template,
\* and a cached job is that of the template noted last, unless that could not
\* be built.
Base(W, s) ==
    /\ s \in SessionRecs
    /\ s.coin # NoBest => s.up /\ W[s.coin] # NoWork
    /\ s.up => W[MainCoin] # NoWork
    /\ (s.cached /\ s.last # NoWork) => s.job = s.last \/ s.unbuilt = s.last

\* The miner was just given the template of its coin.
Settled(W, s) == s.coin # NoBest /\ (s.job = W[s.coin] \/ s.unbuilt = W[s.coin])

\* JobIsCurrent for one miner, with any templates and factors
Current(W, F, s) ==
    (/\ s.coin # NoBest /\ s.job # NoWork /\ ~s.torn /\ s.unbuilt # W[s.coin]
     /\ s.coin \in s.algos /\ (MainCoin \in s.perf \/ Fits(W, F, s, s.coin)))
        => s.job = W[s.coin]

\* The inductive invariant of MinerJobs.
JInv ==
    /\ work \in [JobCoins -> Works] /\ factor \in [JobCoins -> {0, 1}]
    /\ session \in [Miners -> SessionRecs]
    /\ \A m \in Miners : Base(work, session[m]) /\ Current(work, factor, session[m])

LEMMA SettledIsCurrent ==
    ASSUME NEW W, NEW F, NEW s, Settled(W, s)
    PROVE  Current(W, F, s)
  BY DEF Settled, Current

\* selectBestCoin finds coins with a template, and finds none only if no coin
\* of the miner's algorithms can be given to it.
LEMMA BestIs ==
    ASSUME NEW W, NEW F, NEW s, Base(W, s), s.up, NEW c \in Best(W, F, s)
    PROVE  /\ c # NoBest => c \in JobCoins /\ W[c] # NoWork
           /\ c = NoBest => MainCoin \notin s.perf /\ \A d \in s.algos : ~Fits(W, F, s, d)
  <1>1. s.algos \subseteq JobCoins /\ W[MainCoin] # NoWork /\ NoBest \notin JobCoins /\ MainCoin \in JobCoins
    BY MinerJobsAssumption DEF Base, SessionRecs, JobCoins
  <1>2. \A d \in Offers(W, F, s) : d \in JobCoins /\ W[d] # NoWork
    BY <1>1 DEF Offers, Measured, Fits, JobCoins
  <1>3. CASE c \in Keeps(W, F, s)
    BY <1>1, <1>3 DEF Keeps
  <1>4. CASE c \notin Keeps(W, F, s) /\ Offers(W, F, s) # {}
    BY <1>1, <1>2, <1>4 DEF Best
  <1>5. CASE c \notin Keeps(W, F, s) /\ Offers(W, F, s) = {}
    <2>1. c = NoBest
      BY <1>5 DEF Best
    <2>2. MainCoin \notin s.perf
      BY <1>5 DEF Offers
    <2>3. \A d \in s.algos : ~Fits(W, F, s, d)
      BY <1>5, <2>2 DEF Offers
    <2> QED BY <2>1, <2>2, <2>3
  <1> QED BY <1>3, <1>4, <1>5

LEMMA TakenIs ==
    ASSUME NEW W, NEW s, Base(W, s), s.up, NEW c \in JobCoins, W[c] # NoWork
    PROVE  Base(W, Taken(s, c)) /\ Taken(s, c).coin = c /\ Taken(s, c).up = s.up
  <1>1. CASE c = s.coin
    BY <1>1 DEF Taken
  <1>2. CASE c # s.coin
    <2> DEFINE a == IF s.coin = NoBest THEN s.cached ELSE FALSE
               b == IF s.coin = NoBest THEN s.last ELSE NoWork
               t == [s EXCEPT !.coin = c, !.cached = a, !.last = b]
    <2>1. Taken(s, c) = t
      BY <1>2 DEF Taken
    <2>2. s \in SessionRecs /\ NoWork \in Works
      BY DEF Base, Works
    <2>3. a \in BOOLEAN /\ b \in Works /\ (a /\ b # NoWork => s.cached /\ b = s.last)
      BY <2>2 DEF SessionRecs
    <2> HIDE DEF a, b
    <2>4. /\ t \in SessionRecs
          /\ t.coin = c /\ t.cached = a /\ t.last = b
          /\ t.up = s.up /\ t.job = s.job /\ t.unbuilt = s.unbuilt
      BY <2>2, <2>3 DEF SessionRecs
    <2> HIDE DEF t
    <2>5. Base(W, t)
      BY <2>3, <2>4 DEF Base
    <2> QED BY <2>1, <2>4, <2>5
  <1> QED BY <1>1, <1>2

\* getCoinJob: whether the cached job answers, a job is built or none can be.
LEMMA CoinJobIs ==
    ASSUME NEW W \in [JobCoins -> Works], NEW s, Base(W, s), s.coin # NoBest, NEW t \in CoinJob(W, s)
    PROVE  Base(W, t) /\ Settled(W, t)
  <1>1. /\ s \in SessionRecs /\ W[s.coin] # NoWork /\ W[s.coin] \in Works /\ NoWork \in Works
    BY DEF Base, SessionRecs, Works
  <1>2. CASE Hit(W, s)
    <2>1. t = [s EXCEPT !.torn = FALSE]
      BY <1>2 DEF CoinJob
    <2>2. /\ t \in SessionRecs /\ t.coin = s.coin /\ t.up = s.up /\ t.cached = s.cached
          /\ t.last = s.last /\ t.job = s.job /\ t.unbuilt = s.unbuilt
      BY <1>1, <2>1 DEF SessionRecs
    <2>3. s.job = W[s.coin] \/ s.unbuilt = W[s.coin]
      BY <1>1, <1>2 DEF Hit, Base
    <2> QED BY <2>2, <2>3 DEF Base, Settled
  <1>3. CASE ~Hit(W, s)
    <2>1. PICK b \in BOOLEAN : t = Built(W, Noted(W, s, b)) \/ t = Unbuilt(W, Noted(W, s, b))
      BY <1>3 DEF CoinJob
    <2> DEFINE n == Noted(W, s, b)
    <2>2. /\ n \in SessionRecs /\ n.coin = s.coin /\ n.up = s.up /\ n.last = W[s.coin]
          /\ n.cached = s.cached /\ n.job = s.job
      BY <1>1 DEF SessionRecs, Noted
    <2> HIDE DEF n
    <2>3. CASE t = Built(W, n)
      <3>1. /\ t \in SessionRecs /\ t.coin = s.coin /\ t.up = s.up /\ t.last = W[s.coin]
            /\ t.job = W[s.coin]
        BY <1>1, <2>2, <2>3 DEF SessionRecs, Built
      <3> QED BY <1>1, <3>1 DEF Base, Settled
    <2>4. CASE t = Unbuilt(W, n)
      <3>1. /\ t \in SessionRecs /\ t.coin = s.coin /\ t.up = s.up /\ t.last = W[s.coin]
            /\ t.unbuilt = W[s.coin]
        BY <1>1, <2>2, <2>4 DEF SessionRecs, Unbuilt
      <3> QED BY <1>1, <3>1 DEF Base, Settled
    <2> QED BY <2>1, <2>3, <2>4 DEF n
  <1> QED BY <1>2, <1>3

\* getBestCoinJob: a miner that gets nothing cannot be given its coin.
LEMMA BestCoinJobIs ==
    ASSUME NEW W \in [JobCoins -> Works], NEW F, NEW s, Base(W, s), s.up,
           NEW t \in BestCoinJob(W, F, s)
    PROVE  Base(W, t) /\ Current(W, F, t)
  <1>1. PICK c \in Best(W, F, s) : t \in IF c = NoBest THEN {s} ELSE CoinJob(W, Taken(s, c))
    BY DEF BestCoinJob
  <1>2. CASE c = NoBest
    <2>1. t = s /\ MainCoin \notin s.perf /\ \A d \in s.algos : ~Fits(W, F, s, d)
      BY <1>1, <1>2, BestIs
    <2> QED BY <2>1 DEF Current
  <1>3. CASE c # NoBest
    <2>1. c \in JobCoins /\ W[c] # NoWork /\ t \in CoinJob(W, Taken(s, c))
      BY <1>1, <1>3, BestIs
    <2>2. Base(W, Taken(s, c)) /\ Taken(s, c).coin # NoBest
      BY <1>3, <2>1, TakenIs
    <2>3. Base(W, t) /\ Settled(W, t)
      BY <2>1, <2>2, CoinJobIs
    <2> QED BY <2>3, SettledIsCurrent
  <1> QED BY <1>2, <1>3

\* New work or a new factor for c, whose template is there by then.
LEMMA NotifiedIs ==
    ASSUME NEW W \in [JobCoins -> Works], NEW F \in [JobCoins -> {0, 1}], NEW c \in JobCoins,
           NEW V \in [JobCoins -> Works], NEW G \in [JobCoins -> {0, 1}],
           \A d \in JobCoins : d # c => V[d] = W[d] /\ G[d] = F[d],
           V[c] # NoWork, NEW full \in BOOLEAN,
           NEW s, Base(W, s), Current(W, F, s),
           NEW t \in Notified(V, G, s, c, full)
    PROVE  Base(V, t) /\ Current(V, G, t)
  <1>1. s \in SessionRecs /\ s.algos \subseteq JobCoins /\ s.coin \in JobCoins \cup {NoBest} /\ MainCoin \in JobCoins
    BY DEF Base, SessionRecs, JobCoins
  <1>2. Base(V, s)
    BY <1>1 DEF Base
  <1>3. CASE s.up /\ full /\ c \in s.algos
    BY <1>2, <1>3, BestCoinJobIs DEF Notified
  <1>4. CASE s.up /\ ~full /\ s.coin = c
    <2>1. t \in CoinJob(V, s) /\ s.coin # NoBest
      BY <1>4, MinerJobsAssumption DEF Notified, JobCoins
    <2> QED BY <1>2, <2>1, CoinJobIs, SettledIsCurrent
  <1>5. CASE ~(s.up /\ full /\ c \in s.algos) /\ ~(s.up /\ ~full /\ s.coin = c)
    <2>1. t = s
      BY <1>5 DEF Notified
    <2>2. s.coin # NoBest => s.coin # c \/ c \notin s.algos
      BY <1>5 DEF Base
    <2>3. Current(V, G, s)
      BY <1>1, <2>2 DEF Current, Fits
    <2> QED BY <1>2, <2>1, <2>3
  <1> QED BY <1>3, <1>4, <1>5

LEMMA JobsInitKeeps == JobsInit => JInv
  <1> SUFFICES ASSUME JobsInit PROVE JInv
    OBVIOUS
  <1>1. NoSession \in SessionRecs
    BY DEF NoSession, SessionRecs, Works
  <1>2. \A W, F : Base(W, NoSession) /\ Current(W, F, NoSession)
    BY <1>1 DEF Base, Current, NoSession
  <1>3. work \in [JobCoins -> Works] /\ factor \in [JobCoins -> {0, 1}]
    BY DEF JobsInit, Works
  <1> QED BY <1>1, <1>2, <1>3 DEF JobsInit, JInv

\* NewTemplate and NewFactor, once work and factor are set
LEMMA NotifyKeeps ==
    ASSUME JInv, NEW c \in JobCoins, NEW V \in [JobCoins -> Works], NEW G \in [JobCoins -> {0, 1}],
           \A d \in JobCoins : d # c => V[d] = work[d] /\ G[d] = factor[d],
           V[c] # NoWork \/ V[c] = work[c],
           NEW full \in BOOLEAN, Notify(V, G, c, full), work' = V, factor' = G
    PROVE  JInv'
  <1>0. /\ work \in [JobCoins -> Works] /\ factor \in [JobCoins -> {0, 1}]
        /\ session \in [Miners -> SessionRecs]
        /\ \A m \in Miners : Base(work, session[m]) /\ Current(work, factor, session[m])
    BY DEF JInv
  <1>1. CASE V[c] # NoWork
    <2>1. ASSUME NEW m \in Miners PROVE Base(V, session'[m]) /\ Current(V, G, session'[m])
      <3>1. session'[m] \in Notified(V, G, session[m], c, full)
        BY <1>1, <2>1 DEF Notify
      <3> QED BY <1>0, <1>1, <3>1, NotifiedIs
    <2>2. session' \in [Miners -> SessionRecs]
      <3>1. DOMAIN session' = Miners /\ session' = [m \in Miners |-> session'[m]]
        BY <1>1 DEF Notify
      <3>2. \A m \in Miners : session'[m] \in SessionRecs
        BY <2>1 DEF Base
      <3> QED BY <3>1, <3>2
    <2> QED BY <2>1, <2>2 DEF JInv
  <1>2. CASE V[c] = NoWork
    <2>1. session' = session
      BY <1>2 DEF Notify
    <2>2. ASSUME NEW m \in Miners PROVE Base(V, session[m]) /\ Current(V, G, session[m])
      <3> DEFINE s == session[m]
      <3>1. /\ s \in SessionRecs /\ s.coin \in JobCoins \cup {NoBest} /\ MainCoin \in JobCoins
            /\ Base(work, s) /\ Current(work, factor, s)
        BY <1>0 DEF SessionRecs, JobCoins
      <3> HIDE DEF s
      <3>2. s.coin # c /\ Base(V, s)
        BY <1>2, <3>1, MinerJobsAssumption DEF Base, JobCoins
      <3>3. Current(V, G, s)
        BY <3>1, <3>2 DEF Current, Fits
      <3> QED BY <3>2, <3>3 DEF s
    <2> QED BY <1>0, <2>1, <2>2 DEF JInv
  <1> QED BY <1>1, <1>2

\* A step of one miner to a session that is as it should be.
LEMMA SessionKeeps ==
    ASSUME JInv, NEW m \in Miners, NEW s, Base(work, s), Current(work, factor, s), SessionIs(m, s)
    PROVE  JInv'
  <1>1. /\ work' = work /\ factor' = factor
        /\ session \in [Miners -> SessionRecs] /\ session' = [session EXCEPT ![m] = s]
    BY DEF JInv, SessionIs
  <1>2. session' \in [Miners -> SessionRecs]
    BY <1>1 DEF Base
  <1>3. \A n \in Miners : Base(work, session'[n]) /\ Current(work, factor, session'[n])
    BY <1>1 DEF JInv
  <1> QED BY <1>1, <1>2, <1>3 DEF JInv

LEMMA NewWorkKeeps ==
    ASSUME JInv, NEW c \in JobCoins, NewTemplate(c) \/ NewFactor(c)
    PROVE  JInv'
  <1>0. work \in [JobCoins -> Works] /\ factor \in [JobCoins -> {0, 1}]
    BY DEF JInv
  <1>1. CASE NewTemplate(c)
    <2>1. PICK t \in Templates, f \in {0, 1}, full \in BOOLEAN :
            /\ work' = [work EXCEPT ![c] = t]
            /\ factor' = [factor EXCEPT ![c] = f]
            /\ Notify([work EXCEPT ![c] = t], [factor EXCEPT ![c] = f], c, full)
      BY <1>1 DEF NewTemplate
    <2> DEFINE V == [work EXCEPT ![c] = t]
               G == [factor EXCEPT ![c] = f]
    <2>2. /\ V \in [JobCoins -> Works] /\ G \in [JobCoins -> {0, 1}] /\ V[c] # NoWork
          /\ \A d \in JobCoins : d # c => V[d] = work[d] /\ G[d] = factor[d]
      BY <1>0, NoWorkIsNone DEF Works
    <2>3. work' = V /\ factor' = G /\ Notify(V, G, c, full)
      BY <2>1
    <2> HIDE DEF V, G
    <2> QED BY <2>2, <2>3, NotifyKeeps
  <1>2. CASE NewFactor(c)
    <2>1. PICK f \in {0, 1} :
            /\ factor' = [factor EXCEPT ![c] = f]
            /\ Notify(work, [factor EXCEPT ![c] = f], c, TRUE)
            /\ work' = work
      BY <1>2 DEF NewFactor
    <2> DEFINE G == [factor EXCEPT ![c] = f]
    <2>2. /\ G \in [JobCoins -> {0, 1}]
          /\ \A d \in JobCoins : d # c => work[d] = work[d] /\ G[d] = factor[d]
      BY <1>0
    <2>3. work' = work /\ factor' = G /\ Notify(work, G, c, TRUE)
      BY <2>1
    <2> HIDE DEF G
    <2> QED BY <1>0, <2>2, <2>3, NotifyKeeps
  <1> QED BY <1>1, <1>2

\* A session with new algorithms, whose cached job may be forgotten.
LEMMA AskingIs ==
    ASSUME NEW W, NEW s, Base(W, s), NEW t \in Asking(s)
    PROVE  Base(W, t) /\ t.up = s.up
  <1>1. CASE t = s
    BY <1>1
  <1>2. ASSUME NEW a \in Announcements, NEW changed \in BOOLEAN, t = Announced(s, a, changed)
        PROVE  Base(W, t) /\ t.up = s.up
    <2> DEFINE k == s.cached /\ ~changed
               l == IF changed THEN NoWork ELSE s.last
    <2>1. t = [s EXCEPT !.algos = a.algos, !.perf = a.perf, !.cached = k, !.last = l]
      BY <1>2 DEF Announced
    <2>2. s \in SessionRecs /\ a.algos \in SUBSET JobCoins /\ a.perf \in SUBSET JobCoins
      BY DEF Base, Announcements
    <2>3. k \in BOOLEAN /\ l \in Works /\ ((k /\ l # NoWork) => s.cached /\ l = s.last)
      BY <2>2 DEF SessionRecs, Works
    <2> HIDE DEF k, l
    <2>4. /\ t \in SessionRecs /\ t.cached = k /\ t.last = l
          /\ t.coin = s.coin /\ t.up = s.up /\ t.job = s.job /\ t.unbuilt = s.unbuilt
      BY <2>1, <2>2, <2>3 DEF SessionRecs
    <2>5. Base(W, t)
      BY <2>3, <2>4 DEF Base
    <2> QED BY <2>4, <2>5
  <1> QED BY <1>1, <1>2 DEF Asking

LEMMA LoginKeeps ==
    ASSUME JInv, NEW m \in Miners, Login(m)
    PROVE  JInv'
  <1>0. work \in [JobCoins -> Works] /\ work[MainCoin] # NoWork
    BY DEF JInv, Login
  <1>1. PICK a \in Announcements, native \in BOOLEAN, b \in BOOLEAN, raised \in BOOLEAN, due \in BOOLEAN :
            \E s \in Created(a, native, b) :
             LET t == [s EXCEPT !.big = @ \/ raised, !.due = due] IN
             \/ SessionIs(m, t)
             \/ \E c \in Best(work, factor, t) \ {NoBest} :
                \E u \in CoinJob(work, Taken(t, c)) : SessionIs(m, u)
    BY Zenon DEF Login
  <1> DEFINE n == [NoSession EXCEPT !.up = TRUE, !.native = native, !.algos = a.algos,
                                    !.perf = a.perf, !.big = b]
  <1>2. PICK c \in Best(work, factor, n) :
             LET s == Taken(n, c)
                 t == [s EXCEPT !.big = @ \/ raised, !.due = due] IN
             \/ SessionIs(m, t)
             \/ \E d \in Best(work, factor, t) \ {NoBest} :
                \E u \in CoinJob(work, Taken(t, d)) : SessionIs(m, u)
    BY <1>1, Zenon DEF Created
  <1>3. /\ n \in SessionRecs /\ n.up /\ n.coin = NoBest /\ n.job = NoWork /\ n.last = NoWork
    BY DEF Announcements, NoSession, SessionRecs, Works
  <1> HIDE DEF n
  <1>4. Base(work, n)
    BY <1>0, <1>3 DEF Base
  <1> DEFINE s == Taken(n, c)
  <1>5. Base(work, s) /\ s.up /\ s.job = NoWork
    <2>1. CASE c = NoBest
      BY <1>3, <1>4, <2>1 DEF Taken
    <2>2. CASE c # NoBest
      <3>1. Base(work, s) /\ s.up
        BY <1>3, <1>4, <2>2, BestIs, TakenIs
      <3>2. s.job = NoWork
        BY <1>3 DEF Taken, SessionRecs
      <3> QED BY <3>1, <3>2
    <2> QED BY <2>1, <2>2
  <1> DEFINE t == [s EXCEPT !.big = @ \/ raised, !.due = due]
  <1> HIDE DEF s
  <1>6. Base(work, t) /\ t.up /\ t.job = NoWork
    <2>1. /\ t \in SessionRecs /\ t.up /\ t.job = NoWork /\ t.coin = s.coin /\ t.cached = s.cached
          /\ t.last = s.last /\ t.unbuilt = s.unbuilt
      BY <1>5 DEF Base, SessionRecs
    <2> QED BY <1>5, <2>1 DEF Base
  <1>7. \/ SessionIs(m, t)
        \/ \E d \in Best(work, factor, t) \ {NoBest} :
           \E u \in CoinJob(work, Taken(t, d)) : SessionIs(m, u)
    BY <1>2 DEF s
  <1> HIDE DEF t
  <1>8. CASE SessionIs(m, t)
    BY <1>6, <1>8, SessionKeeps DEF Current
  <1>9. ASSUME NEW d \in Best(work, factor, t) \ {NoBest}, NEW u \in CoinJob(work, Taken(t, d)), SessionIs(m, u)
        PROVE  JInv'
    <2>1. d \in JobCoins /\ work[d] # NoWork /\ d # NoBest
      BY <1>6, BestIs
    <2>2. Base(work, Taken(t, d)) /\ Taken(t, d).coin # NoBest
      BY <1>6, <2>1, TakenIs
    <2>3. Base(work, u) /\ Current(work, factor, u)
      BY <1>0, <2>2, CoinJobIs, SettledIsCurrent
    <2> QED BY <1>9, <2>3, SessionKeeps
  <1> QED BY <1>7, <1>8, <1>9

LEMMA RequestsKeep ==
    ASSUME JInv, NEW m \in Miners,
           GetJob(m) \/ RefusedGetJob(m) \/ NativeGetJob(m) \/ Resend(m) \/ Leave(m)
    PROVE  JInv'
  <1> DEFINE s == session[m]
  <1>0. /\ work \in [JobCoins -> Works] /\ s \in SessionRecs /\ Base(work, s) /\ Current(work, factor, s)
        /\ NoSession \in SessionRecs
    BY DEF JInv, NoSession, SessionRecs, Works
  <1>1. Base(work, NoSession) /\ Current(work, factor, NoSession)
    BY <1>0 DEF Base, Current, NoSession
  <1>2. CASE GetJob(m)
    <2>1. PICK a \in Asking(s) : \E t \in BestCoinJob(work, factor, a) : SessionIs(m, t)
      BY <1>2 DEF GetJob
    <2>2. Base(work, a) /\ a.up
      <3>1. s.up
        BY <1>2 DEF GetJob
      <3> QED BY <1>0, <3>1, AskingIs
    <2> QED BY <1>0, <2>1, <2>2, BestCoinJobIs, SessionKeeps
  <1>3. CASE RefusedGetJob(m)
    <2>1. PICK algos \in SUBSET JobCoins : SessionIs(m, [s EXCEPT !.algos = algos, !.torn = TRUE])
      BY <1>3 DEF RefusedGetJob
    <2> DEFINE t == [s EXCEPT !.algos = algos, !.torn = TRUE]
    <2>2. /\ t \in SessionRecs /\ t.torn /\ t.coin = s.coin /\ t.up = s.up /\ t.cached = s.cached
          /\ t.last = s.last /\ t.job = s.job /\ t.unbuilt = s.unbuilt
      BY <1>0 DEF SessionRecs
    <2> HIDE DEF t
    <2>3. Base(work, t) /\ Current(work, factor, t)
      BY <1>0, <2>2 DEF Base, Current
    <2> QED BY <2>1, <2>3, SessionKeeps DEF t
  <1>4. CASE NativeGetJob(m)
    <2>1. \/ \E a \in Asking(s) : \E c \in Best(work, factor, a) \ {NoBest}, b \in BOOLEAN :
               SessionIs(m, Built(work, Noted(work, Taken(a, c), b)))
          \/ SessionIs(m, NoSession)
      BY <1>4 DEF NativeGetJob
    <2>2. ASSUME NEW a \in Asking(s), NEW c \in Best(work, factor, a) \ {NoBest}, NEW b \in BOOLEAN,
                 SessionIs(m, Built(work, Noted(work, Taken(a, c), b)))
          PROVE  JInv'
      <3>1. Base(work, a) /\ a.up
        <4>1. s.up
          BY <1>4 DEF NativeGetJob
        <4> QED BY <1>0, <4>1, AskingIs
      <3>2. c \in JobCoins /\ work[c] # NoWork /\ c # NoBest
        BY <3>1, BestIs
      <3> DEFINE k == Taken(a, c)
      <3>3. Base(work, k) /\ k.coin = c /\ k.up
        BY <3>1, <3>2, TakenIs
      <3> DEFINE n == Noted(work, k, b)
                 t == Built(work, n)
      <3> HIDE DEF k
      <3>4. /\ n \in SessionRecs /\ n.coin = c /\ n.up /\ n.last = work[c]
        BY <1>0, <3>2, <3>3 DEF Base, SessionRecs, Noted
      <3> HIDE DEF n
      <3>5. /\ t \in SessionRecs /\ t.coin = c /\ t.up /\ t.last = work[c] /\ t.job = work[c]
        BY <1>0, <3>2, <3>4 DEF SessionRecs, Built, Works
      <3> HIDE DEF t
      <3>6. Base(work, t) /\ Settled(work, t)
        BY <3>2, <3>3, <3>5 DEF Base, Settled
      <3>7. SessionIs(m, t)
        BY <2>2 DEF t, n, k
      <3> QED BY <3>6, <3>7, SettledIsCurrent, SessionKeeps
    <2> QED BY <1>1, <2>1, <2>2, SessionKeeps
  <1>5. CASE Resend(m)
    <2>1. PICK due \in {s.due, TRUE} : \E t \in SameCoinJob(work, [s EXCEPT !.due = due]) : SessionIs(m, t)
      BY <1>5 DEF Resend
    <2> DEFINE d == [s EXCEPT !.due = due]
    <2>2. /\ d \in SessionRecs /\ d.coin = s.coin /\ d.up = s.up /\ d.cached = s.cached
          /\ d.last = s.last /\ d.job = s.job /\ d.unbuilt = s.unbuilt
      BY <1>0, <2>1 DEF SessionRecs
    <2>3. \E t \in SameCoinJob(work, d) : SessionIs(m, t)
      BY <2>1
    <2> HIDE DEF d
    <2>4. Base(work, d)
      BY <1>0, <2>2 DEF Base
    <2>5. CASE d.coin = NoBest
      <3>1. SessionIs(m, d)
        BY <2>3, <2>5 DEF SameCoinJob
      <3> QED BY <2>4, <2>5, <3>1, SessionKeeps DEF Current
    <2>6. CASE d.coin # NoBest
      <3>1. PICK t \in CoinJob(work, d) : SessionIs(m, t)
        BY <2>3, <2>6 DEF SameCoinJob
      <3> QED BY <1>0, <2>4, <2>6, <3>1, CoinJobIs, SettledIsCurrent, SessionKeeps
    <2> QED BY <2>5, <2>6
  <1>6. CASE Leave(m)
    BY <1>1, <1>6, SessionKeeps DEF Leave
  <1> QED BY <1>2, <1>3, <1>4, <1>5, <1>6

\* Every session of a worker has its type, a coin with a template once it has
\* one, and a cached job that is the template noted last or could not be built.
THEOREM SessionsHold == JobsSpec => []JInv
  <1>1. JInv /\ [JobsNext]_jobVars => JInv'
    <2> SUFFICES ASSUME JInv, [JobsNext]_jobVars PROVE JInv'
      OBVIOUS
    <2>1. CASE UNCHANGED jobVars
      BY <2>1 DEF jobVars, JInv
    <2>2. CASE JobsNext
      BY <2>2, NewWorkKeeps, LoginKeeps, RequestsKeep DEF JobsNext
    <2> QED BY <2>1, <2>2
  <1> QED BY JobsInitKeeps, <1>1, PTL DEF JobsSpec

\* getCoinJob, notifyBestCoinMiners, notifySameCoinMiners: no sequence of
\* updates, switches and cached answers leaves a miner on old work.
THEOREM JobIsCurrentHolds == JobsSpec => []JobIsCurrent
  <1>1. JInv => JobIsCurrent
    BY Zenon DEF JInv, Current, JobIsCurrent, Reached
  <1> QED BY <1>1, SessionsHold, PTL
==============================================================================
