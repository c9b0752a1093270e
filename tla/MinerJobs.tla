------------------------------ MODULE MinerJobs ------------------------------
(***************************************************************************)
(* The jobs of the miners of one worker: which coin a miner is given       *)
(* (selectBestCoin, pool/miners.js), when a job is built for it and when   *)
(* the cached one answers instead (getCoinJob, pool/jobs.js), and who is   *)
(* told of a new template or hash factor (pool/templates.js), while miners *)
(* log in, ask for work and change their algorithms (pool/protocol.js).    *)
(* PoolTemplates models how templates and factors reach the worker; here   *)
(* any of them may arrive at any moment.                                   *)
(*                                                                         *)
(* A template is its identity (idHash): its coin, a version and whether    *)
(* its difficulty is so low that a miner of high difficulty is not given   *)
(* it.  A hash factor is 0 (the coin is off) or 1.  An algorithm stands    *)
(* for the coins mined with it.                                            *)
(***************************************************************************)
EXTENDS Naturals

CONSTANTS
    Miners,     \* sessions of the worker
    MainCoin,   \* the main coin, ""
    AltCoins,   \* the other coins
    NoBest,     \* selectBestCoin returned false
    NoWork,     \* no template
    Versions    \* versions of a coin's template

ASSUME MinerJobsAssumption ==
    MainCoin \notin AltCoins /\ NoBest \notin AltCoins \cup {MainCoin}

JobCoins == AltCoins \cup {MainCoin}

Templates == [coin : JobCoins, version : Versions, easy : BOOLEAN]

ASSUME NoWorkIsNone == NoWork \notin Templates

VARIABLES
    work,    \* activeBlockTemplates
    factor,  \* lastCoinHashFactorMM
    session  \* per miner: what the worker keeps of it, and the job it was sent

jobVars == <<work, factor, session>>

(***************************************************************************)
(* A session: native is mo_native, algos and perf the coins of its         *)
(* algorithms and those of coin_perf that are not negative, coin is        *)
(* curr_coin, big a difficulty too high for an easy template, due          *)
(* newDiffToSet, cached says that cachedJob is not null, last is           *)
(* jobLastBlockHash.  What the client holds: job is the template of the    *)
(* job it was sent last.  History: unbuilt is the template for which its   *)
(* last job could not be built, torn says that a refused getjob has        *)
(* overwritten its algorithms since it was last answered.                  *)
(***************************************************************************)
NoSession ==
    [up |-> FALSE, native |-> FALSE, algos |-> {}, perf |-> {}, coin |-> NoBest,
     big |-> FALSE, due |-> FALSE, cached |-> FALSE, last |-> NoWork, job |-> NoWork,
     unbuilt |-> NoWork, torn |-> FALSE]

JobsInit ==
    /\ work = [c \in JobCoins |-> NoWork]
    /\ factor = [c \in JobCoins |-> IF c = MainCoin THEN 1 ELSE 0]
    /\ session = [m \in Miners |-> NoSession]

-----------------------------------------------------------------------------
(* selectBestCoin *)

\* The worker can give the coin to this miner: it has a template, is switched
\* on and is not too easy for the miner's difficulty.
Fits(W, F, s, c) == W[c] # NoWork /\ F[c] # 0 /\ ~(s.big /\ W[c].easy)

Measured(W, F, s) == {c \in AltCoins \cap s.perf \cap s.algos : Fits(W, F, s, c)}

\* A miner that measured the main coin falls back to it, whatever its factor
\* and difficulty; otherwise a coin of its algorithms is taken unmeasured.
Offers(W, F, s) ==
    IF MainCoin \in s.perf THEN Measured(W, F, s) \cup {MainCoin}
    ELSE IF Measured(W, F, s) # {} THEN Measured(W, F, s)
    ELSE {c \in s.algos : Fits(W, F, s, c)}

\* Until algo_min_time has passed a miner keeps its coin; how long it has had
\* it, and whether coin_perf lists it with a negative value, are left open.
Keeps(W, F, s) == {c \in {s.coin} \cap s.algos : W[c] # NoWork /\ F[c] # 0}

Best(W, F, s) ==
    Keeps(W, F, s) \cup IF Offers(W, F, s) = {} THEN {NoBest} ELSE Offers(W, F, s)

\* The coin is noted, and the job of another coin forgotten.
Taken(s, c) ==
    IF c = s.coin THEN s
    ELSE [s EXCEPT !.coin = c,
                   !.cached = IF s.coin = NoBest THEN @ ELSE FALSE,
                   !.last = IF s.coin = NoBest THEN @ ELSE NoWork]

-----------------------------------------------------------------------------
(* getCoinJob *)

\* Variant: the cached job answers whatever template it was built from.
HitAnyTemplate(W, s) == s.last # NoWork /\ ~s.due /\ s.cached

\* The cached job answers: nothing is sent.
Hit(W, s) == s.last = W[s.coin] /\ ~s.due /\ s.cached

\* The template is noted before the job is built; with it the difficulty that
\* was wanted or recommended (any, that is) becomes the miner's.
Noted(W, s, b) == [s EXCEPT !.last = W[s.coin], !.due = FALSE, !.big = b]

\* buildJob and buildJobPayload: the client gets the job
Built(W, s) == [s EXCEPT !.cached = TRUE, !.job = W[s.coin], !.unbuilt = NoWork, !.torn = FALSE]

\* No extranonce is left, or the blob cannot be converted: null is returned.
Unbuilt(W, s) == [s EXCEPT !.unbuilt = W[s.coin], !.torn = FALSE]

CoinJob(W, s) ==
    IF Hit(W, s) THEN {[s EXCEPT !.torn = FALSE]}
    ELSE UNION {{Built(W, Noted(W, s, b)), Unbuilt(W, Noted(W, s, b))} : b \in BOOLEAN}

\* getBestCoinJob, sendBestCoinJob: without a coin the miner keeps what it has.
BestCoinJob(W, F, s) ==
    UNION {IF c = NoBest THEN {s} ELSE CoinJob(W, Taken(s, c)) : c \in Best(W, F, s)}

\* sendSameCoinJob
SameCoinJob(W, s) == IF s.coin = NoBest THEN {s} ELSE CoinJob(W, s)

-----------------------------------------------------------------------------
(* New work in the worker: setNewBlockTemplate, setNewCoinHashFactor *)

\* notifyBestCoinMiners for a change of the factor, notifySameCoinMiners
Notified(W, F, s, c, full) ==
    CASE s.up /\ full /\ c \in s.algos -> BestCoinJob(W, F, s)
      [] s.up /\ ~full /\ s.coin = c -> CoinJob(W, s)
      [] OTHER -> {s}

Notify(W, F, c, full) ==
    IF W[c] = NoWork THEN UNCHANGED session
    ELSE /\ session' \in [Miners -> UNION {Notified(W, F, session[m], c, full) : m \in Miners}]
         /\ \A m \in Miners : session'[m] \in Notified(W, F, session[m], c, full)

\* A template that is the active one already is ignored.
NewTemplate(c) ==
    \E t \in Templates, f \in {0, 1}, full \in BOOLEAN :
        /\ t.coin = c /\ t # work[c] /\ (c = MainCoin => f = 1)
        /\ work' = [work EXCEPT ![c] = t]
        /\ factor' = [factor EXCEPT ![c] = f]
        /\ Notify([work EXCEPT ![c] = t], [factor EXCEPT ![c] = f], c, full)

NewFactor(c) ==
    \E f \in {0, 1} :
        /\ c = MainCoin => f = 1
        /\ factor' = [factor EXCEPT ![c] = f]
        /\ Notify(work, [factor EXCEPT ![c] = f], c, TRUE)
        /\ UNCHANGED work

-----------------------------------------------------------------------------
(* What miners ask for (pool/protocol.js) *)

SessionIs(m, s) == session' = [session EXCEPT ![m] = s] /\ UNCHANGED <<work, factor>>

\* What setAlgos accepts: coin_perf has the main coin only with an algorithm of it.
Announcements ==
    {a \in [algos : SUBSET JobCoins \ {{}}, perf : SUBSET JobCoins] :
        MainCoin \in a.perf => MainCoin \in a.algos}

\* createMiner: the coin is selected before a NiceHash miner's difficulty is raised.
Created(a, native, b) ==
    LET s == [NoSession EXCEPT !.up = TRUE, !.native = native, !.algos = a.algos,
                               !.perf = a.perf, !.big = b]
    IN {Taken(s, c) : c \in Best(work, factor, s)}

\* handleLoginRequest and sendLoginJob.  A miner of the "Stratum" (grin) kind
\* asks for its first job itself, and one that authorizes without a coin stays;
\* a login without a coin gets a final reply.
Login(m) ==
    /\ ~session[m].up /\ work[MainCoin] # NoWork
    /\ \E a \in Announcements, native, b, raised, due \in BOOLEAN :
       \E s \in Created(a, native, b) :
        LET t == [s EXCEPT !.big = @ \/ raised, !.due = due] IN
        \/ SessionIs(m, t)
        \/ \E c \in Best(work, factor, t) \ {NoBest} :
           \E u \in CoinJob(work, Taken(t, c)) : SessionIs(m, u)

\* setAlgos in a getjob; `changed' covers algo-min-time and the benchmark's
\* values as well
Announced(s, a, changed) ==
    [s EXCEPT !.algos = a.algos, !.perf = a.perf,
              !.cached = @ /\ ~changed,
              !.last = IF changed THEN NoWork ELSE @]

Asking(s) ==
    {s} \cup {Announced(s, a, TRUE) : a \in Announcements}
        \cup {Announced(s, a, FALSE) : a \in {x \in Announcements : x.algos = s.algos /\ x.perf = s.perf}}

\* getjob and getjobtemplate: the reply has no job when there is no coin, or
\* nothing new.
GetJob(m) ==
    /\ session[m].up /\ ~session[m].native
    /\ \E s \in Asking(session[m]) :
       \E t \in BestCoinJob(work, factor, s) : SessionIs(m, t)

\* A refused getjob has overwritten miner.algos, and nothing else.
RefusedGetJob(m) ==
    /\ session[m].up
    /\ \E algos \in SUBSET JobCoins :
        SessionIs(m, [session[m] EXCEPT !.algos = algos, !.torn = TRUE])

\* buildNativeGetJobResult: the reply is always a new job, or the last one that
\* the session gets.
NativeGetJob(m) ==
    /\ session[m].up /\ session[m].native
    /\ \/ \E s \in Asking(session[m]) :
          \E c \in Best(work, factor, s) \ {NoBest}, b \in BOOLEAN :
            SessionIs(m, Built(work, Noted(work, Taken(s, c), b)))
       \/ SessionIs(m, NoSession)

\* sendSameCoinJob, after a retarget or a share that was refused or late
Resend(m) ==
    /\ session[m].up
    /\ \E due \in {session[m].due, TRUE} :
       \E s \in SameCoinJob(work, [session[m] EXCEPT !.due = due]) : SessionIs(m, s)

Leave(m) == session[m].up /\ SessionIs(m, NoSession)

-----------------------------------------------------------------------------
JobsNext ==
    \/ \E c \in JobCoins : NewTemplate(c) \/ NewFactor(c)
    \/ \E m \in Miners :
        \/ Login(m) \/ GetJob(m) \/ RefusedGetJob(m) \/ NativeGetJob(m)
        \/ Resend(m) \/ Leave(m)

JobsSpec == JobsInit /\ [][JobsNext]_jobVars

-----------------------------------------------------------------------------
(* Property *)

\* The miner lists its coin, and the coin is one selectBestCoin finds.
Reached(s) ==
    s.coin \in s.algos /\ (MainCoin \in s.perf \/ Fits(work, factor, s, s.coin))

\* A miner works on the newest template its worker has for its coin, whatever
\* mixture of factor changes, template updates, coin switches, retargets and
\* answers from the job cache came before.  Excepted is a miner that cannot be
\* given it: its coin is none of its algorithms' or not one selectBestCoin
\* finds, its algorithms are left over from a refused getjob, or no job could
\* be built from that template.
JobIsCurrent ==
    \A m \in Miners : LET s == session[m] IN
        (/\ s.coin # NoBest /\ s.job # NoWork /\ ~s.torn
         /\ s.unbuilt # work[s.coin] /\ Reached(s))
            => s.job = work[s.coin]
==============================================================================
