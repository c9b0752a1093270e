---------------------------- MODULE BlockManager ----------------------------
(***************************************************************************)
(* Block rewards become balances: lib/block_manager.js over the block      *)
(* tables of lib/common/local_comms.js (LMDB) and over MySQL, with the     *)
(* block_balance cleaner of lib/long_runner.js and the operator scripts    *)
(* that edit block records.                                                *)
(*                                                                         *)
(* One process runs one chain of cycles: init.js starts it once and the    *)
(* next cycle is scheduled when the last one has ended, so the             *)
(* paymentInProgress and inFlightPrecalc latches are always free when they *)
(* are tested and are left out.  A cycle is cut at every await: one action *)
(* is one RPC, one query or one transaction and the local code that        *)
(* follows it.  The list a cycle walks is a copy of the records made when  *)
(* the list was read; the records may change under it.                     *)
(*                                                                         *)
(* A block is named by its LMDB key.  A main block's Height is its own     *)
(* height, an alt block's Height is the main-chain height it is anchored   *)
(* at (anchor_height).  The outcome of the PPLNS share scan is any split   *)
(* of Window parts among the accounts; a credit rounds down as the code    *)
(* does.                                                                   *)
(***************************************************************************)
EXTENDS Integers, FiniteSets, FiniteSetsExt, Functions

CONSTANTS
    MainBlocks,      \* keys of blockDB
    AltBlocks,       \* keys of altblockDB
    Height,          \* height or anchor_height, by block
    Reward,          \* the daemon's reward, by block
    Legacy,          \* blocks whose poolType is not PPLNS
    Accounts,        \* recipients
    Window,          \* parts a reward is split into
    PayValues,       \* what the exchange may report as pay_value
    Seeded,          \* accounts that own a balance row at the start
    ConfirmDelay,    \* BLOCK_HASH_CONFIRM_DELAY
    BlocksRequired,  \* config.payout.blocksRequired
    AltDelay,        \* ALTBLOCK_PRECALC_DELAY
    AnchorRound,     \* config.payout.anchorRound
    MaxAnchors,      \* MAX_ANCHOR_PRECALC_PER_CYCLE
    ReorgDepth,      \* depth up to which a chain may reorganise
    LateFind,        \* depth up to which a found block is still recorded
    CleanGap,        \* new main blocks while the cleaner decides what is stale
    Ops,             \* operator scripts in use
    Edited,          \* bound: blocks whose records they edit
    MaxTop,          \* bound: the main chain's height
    MaxFaults,       \* bound: crashes, failed RPCs and failed queries
    MaxRowId         \* bound: balance rows an account is ever given

Blocks == MainBlocks \cup AltBlocks

ASSUME BlocksAssumption ==
    /\ MainBlocks \subseteq Nat /\ AltBlocks \subseteq Nat
    /\ MainBlocks \cap AltBlocks = {} /\ IsFiniteSet(Blocks)
    /\ Height \in [Blocks -> Nat] /\ Reward \in [Blocks -> Nat \ {0}]
    /\ Legacy \subseteq Blocks
ASSUME AccountsAssumption ==
    /\ IsFiniteSet(Accounts) /\ Seeded \subseteq Accounts
    /\ Window \in Nat \ {0} /\ PayValues \subseteq Nat
ASSUME DelaysAssumption ==
    /\ ConfirmDelay \in Nat /\ BlocksRequired \in Nat /\ AltDelay \in Nat
    /\ AnchorRound \in Nat \ {0} /\ MaxAnchors \in Nat
    /\ ReorgDepth \in Nat /\ LateFind \in Nat /\ CleanGap \in Nat
ASSUME BlockBoundsAssumption ==
    MaxTop \in Nat /\ MaxFaults \in Nat /\ MaxRowId \in Nat \ {0}

VARIABLES
    pc,          \* the await the cycle is at; "timer" between cycles
    started,     \* state.started
    isFullStop,  \* state.isFullStop
    cache,       \* state.balanceIdCache, 0 where nothing is cached
    mem,         \* locals of the running cycle
    blocks,      \* blockDB and altblockDB
    rows,        \* block_balance: the split stored for a block
    paid,        \* paid_blocks
    acct,        \* balance: the account's row id (0: no row) and amount
    top,         \* the main chain's height
    canon,       \* the block is on its chain
    clean,       \* the block_balance cleaner
    faults,      \* faults so far
    credits,     \* history: what was credited for a block
    debited      \* history: what payouts and deletions took from balances

process == <<pc, started, isFullStop, cache, mem>>
sql == <<rows, paid, acct>>
chain == <<top, canon>>
history == <<credits, debited>>
vars == <<process, blocks, sql, chain, clean, faults, history>>

-----------------------------------------------------------------------------
(* Data *)

TotalOf(f) == SumFunctionOnSet(f, Accounts)
NoRows == [a \in Accounts |-> 0]
\* Window is not 0, so a split gives somebody something.
Splits == {s \in [Accounts -> 0..Window] \ {NoRows} : TotalOf(s) = Window}
RowIds == 0..MaxRowId

Amounts == Range(Reward) \cup PayValues \cup {0}
BlockRecord == [known : BOOLEAN, valid : BOOLEAN, unlocked : BOOLEAN,
                pay_ready : BOOLEAN, value : Amounts, pay_value : Amounts]
Absent == [known |-> FALSE, valid |-> FALSE, unlocked |-> FALSE,
           pay_ready |-> FALSE, value |-> 0, pay_value |-> 0]

EmptyList == [b \in {} |-> Absent]
NoMem == [list |-> EmptyList, cur |-> 0, top |-> 0, alt |-> FALSE,
          waiting |-> {}, group |-> {}, anchors |-> 0,
          sum |-> 0, split |-> NoRows]

Locked(b) == blocks[b].known /\ blocks[b].valid /\ ~blocks[b].unlocked
Listed(db) == [b \in {x \in db : Locked(x)} |-> blocks[b]]

BalanceSum == TotalOf([a \in Accounts |-> acct[a].amount])
Anchor(b) == Height[b] - (Height[b] % AnchorRound)

\* Math.floor(row.amount * blockReward), by account.
Credit(split, reward) == [a \in Accounts |-> (split[a] * reward) \div Window]

RewardOf(b, rec) == IF b \in MainBlocks THEN rec.value ELSE rec.pay_value
CreditNow == Credit(mem.split, RewardOf(mem.cur, mem.list[mem.cur]))
Recipients == {a \in Accounts : CreditNow[a] # 0}

-----------------------------------------------------------------------------
(* The cycle's control *)

Given(a) == IF a \in Seeded THEN 1 ELSE 0

Init ==
    /\ pc = "down" /\ started = FALSE /\ isFullStop = FALSE
    /\ cache = [a \in Accounts |-> 0]
    /\ mem = NoMem
    /\ blocks = [b \in Blocks |-> Absent]
    /\ rows = [b \in Blocks |-> NoRows]
    /\ paid = {}
    /\ acct = [a \in Accounts |->
                 [id |-> Given(a), issued |-> Given(a), amount |-> 0]]
    /\ top = 0 /\ canon = [b \in Blocks |-> TRUE]
    /\ clean = [pc |-> "idle", keep |-> {}, stale |-> {}, since |-> 0]
    /\ faults = 0
    /\ credits = [b \in Blocks |-> 0] /\ debited = 0

Fault == faults < MaxFaults /\ faults' = faults + 1
NoFault == UNCHANGED faults

\* The next block of the list, in key order.
Turn(b) == b \in DOMAIN mem.list /\ \A o \in DOMAIN mem.list : b <= o
Without(m, b) == [m EXCEPT !.list = Restrict(@, DOMAIN @ \ {b}), !.cur = 0,
                           !.sum = 0, !.split = NoRows]
Walk == IF mem.alt THEN "alt" ELSE "main"
\* The loop goes on with the block after b.
Continue(b) == pc' = Walk /\ mem' = Without(mem, b)

EndCycle ==
    /\ pc' = IF started THEN "timer" ELSE "down"
    /\ mem' = NoMem

\* runAltblockUnlocker up to its first await.
BeginAlt ==
    IF isFullStop THEN EndCycle
    ELSE /\ pc' = "altTop"
         /\ mem' = [NoMem EXCEPT !.list = Listed(AltBlocks), !.alt = TRUE]

Start ==
    /\ pc = "down"
    /\ pc' = "timer" /\ started' = TRUE /\ isFullStop' = FALSE
    /\ cache' = [a \in Accounts |-> 0]
    /\ UNCHANGED <<mem, blocks, sql, chain, clean, faults, history>>

\* Memory is gone with the process.
Gone ==
    /\ pc' = "down" /\ started' = FALSE /\ isFullStop' = FALSE
    /\ cache' = [a \in Accounts |-> 0] /\ mem' = NoMem
    /\ UNCHANGED <<blocks, sql, chain, clean, history>>

Crash == pc # "down" /\ Fault /\ Gone

\* SIGTERM: no further cycle, the running one is awaited.
Stop ==
    /\ started
    /\ \/ pc = "timer" /\ NoFault /\ Gone
       \/ /\ pc # "timer"
          /\ started' = FALSE
          /\ UNCHANGED <<pc, isFullStop, cache, mem, blocks, sql, chain, clean,
                         faults, history>>

\* runBlockUnlocker up to its first await; a full stop leaves an empty cycle.
RunCycle ==
    /\ pc = "timer" /\ ~isFullStop
    /\ pc' = "mainTop"
    /\ mem' = [NoMem EXCEPT !.list = Listed(MainBlocks)]
    /\ UNCHANGED <<started, isFullStop, cache, blocks, sql, chain, clean, faults, history>>

GetTopBlockHeight ==
    /\ pc \in {"mainTop", "altTop"}
    /\ \/ NoFault /\ pc' = Walk /\ mem' = [mem EXCEPT !.top = top]
       \/ Fault /\ (IF mem.alt THEN EndCycle ELSE BeginAlt)
    /\ UNCHANGED <<started, isFullStop, cache, blocks, sql, chain, clean, history>>

-----------------------------------------------------------------------------
(* runBlockUnlocker *)

Depth(b) == mem.top - Height[b]
TooShallowOffByOne(b, delay) == Depth(b) < delay
TooShallow(b, delay) == Depth(b) <= delay
Mature(b) == Depth(b) > BlocksRequired

\* invalidateBlock, invalidateAltBlock.
InvalidatedStaysValid(rec) == [rec EXCEPT !.unlocked = TRUE]
Invalidated(rec) == [rec EXCEPT !.valid = FALSE, !.unlocked = TRUE]

MainDone ==
    /\ pc = "main" /\ DOMAIN mem.list = {}
    /\ BeginAlt
    /\ UNCHANGED <<started, isFullStop, cache, blocks, sql, chain, clean, faults, history>>

SkipMain(b) ==
    /\ pc = "main" /\ Turn(b)
    /\ TooShallow(b, ConfirmDelay) \/ b \in Legacy
    /\ Continue(b)
    /\ UNCHANGED <<started, isFullStop, cache, blocks, sql, chain, clean, faults, history>>

\* header.body.hash === block.hash for the header at the block's height.
AnyHash(b) == TRUE
SameHash(b) == canon[b]

\* The daemon names the hash at the block's height.
HeaderByHeight(b) ==
    /\ pc = "main" /\ Turn(b)
    /\ ~TooShallow(b, ConfirmDelay) /\ b \notin Legacy
    /\ \/ Fault /\ Continue(b) /\ UNCHANGED blocks
       \/ /\ NoFault /\ ~SameHash(b)
          /\ blocks' = [blocks EXCEPT ![b] = Invalidated(@)]
          /\ Continue(b)
       \/ /\ NoFault /\ SameHash(b) /\ ~mem.list[b].pay_ready
          /\ pc' = "precalc" /\ mem' = [mem EXCEPT !.cur = b, !.group = {b}]
          /\ UNCHANGED blocks
       \/ /\ NoFault /\ SameHash(b) /\ mem.list[b].pay_ready
          /\ IF Mature(b) THEN pc' = "byHash" /\ mem' = [mem EXCEPT !.cur = b]
                          ELSE Continue(b)
          /\ UNCHANGED blocks
    /\ UNCHANGED <<started, isFullStop, cache, sql, chain, clean, history>>

-----------------------------------------------------------------------------
(* preCalculateAndMark *)

\* Back to the loop that asked for the precalculation.
PrecalcEnds ==
    IF mem.alt THEN pc' = "anchor" /\ mem' = [mem EXCEPT !.group = {}]
    ELSE pc' = "main" /\ mem' = [Without(mem, mem.cur) EXCEPT !.group = {}]

\* The share scan may find nothing to pay, even from the top height; otherwise
\* replaceBlockBalanceRows first deletes what the group had.
PrecalcDelete ==
    /\ pc = "precalc"
    /\ \/ Fault /\ PrecalcEnds /\ UNCHANGED rows
       \/ /\ NoFault /\ pc' = "insert" /\ UNCHANGED mem
          /\ rows' = [b \in Blocks |-> IF b \in mem.group THEN NoRows ELSE rows[b]]
    /\ UNCHANGED <<started, isFullStop, cache, blocks, paid, acct, chain, clean, history>>

\* One INSERT holds the rows of every block of the group.
PrecalcInsert ==
    /\ pc = "insert"
    /\ \E s \in Splits :
         LET written == [b \in Blocks |-> IF b \in mem.group THEN s ELSE rows[b]]
         IN \/ NoFault /\ rows' = written /\ pc' = "mark" /\ UNCHANGED mem
            \/ Fault /\ rows' \in {rows, written} /\ PrecalcEnds
    /\ UNCHANGED <<started, isFullStop, cache, blocks, paid, acct, chain, clean, history>>

\* payReadyBlock, payReadyAltBlock: one LMDB transaction per block.
ReadyNotSaved(rec) == rec  \* mutant of Ready
Ready(rec) == [rec EXCEPT !.pay_ready = TRUE]
MarkReady(b) ==
    /\ pc = "mark" /\ b \in mem.group /\ \A o \in mem.group : b <= o
    /\ blocks' = [blocks EXCEPT ![b] = Ready(@)]
    /\ IF mem.group = {b} THEN PrecalcEnds
       ELSE pc' = "mark" /\ mem' = [mem EXCEPT !.group = @ \ {b}]
    /\ UNCHANGED <<started, isFullStop, cache, sql, chain, clean, faults, history>>

-----------------------------------------------------------------------------
(* runAltblockUnlocker *)

AltDone ==
    /\ pc = "alt" /\ DOMAIN mem.list = {}
    /\ pc' = "anchor" /\ UNCHANGED mem
    /\ UNCHANGED <<started, isFullStop, cache, blocks, sql, chain, clean, faults, history>>

\* Blocks handled without an RPC: too young, legacy, to be precalculated, worth
\* nothing yet, or waiting for their pay_value.
SkipAlt(b) ==
    /\ pc = "alt" /\ Turn(b)
    /\ LET rec == mem.list[b]
           young == TooShallow(b, AltDelay) \/ b \in Legacy
       IN /\ young \/ ~rec.pay_ready \/ rec.pay_value = 0
          /\ pc' = "alt"
          /\ mem' = [Without(mem, b) EXCEPT !.waiting =
                       IF ~young /\ ~rec.pay_ready /\ rec.value # 0 THEN @ \cup {b} ELSE @]
    /\ UNCHANGED <<started, isFullStop, cache, blocks, sql, chain, clean, faults, history>>

\* isAltblockOrphanResponse of the header by hash.
OrphanResponse(b) == ~canon[b]

\* handleAltBlock's first RPC: the daemon flags an orphan, fails, or knows it.
AltHeader(b) ==
    /\ pc = "alt" /\ Turn(b)
    /\ ~TooShallow(b, AltDelay) /\ b \notin Legacy
    /\ mem.list[b].pay_ready /\ mem.list[b].pay_value # 0
    /\ \/ /\ NoFault /\ OrphanResponse(b) /\ Continue(b)
          /\ blocks' = [blocks EXCEPT ![b] = Invalidated(@)]
       \/ /\ NoFault /\ ~OrphanResponse(b) /\ UNCHANGED blocks
          /\ pc' = "byHash" /\ mem' = [mem EXCEPT !.cur = b]
       \/ Fault /\ pc' = "byHeight" /\ mem' = [mem EXCEPT !.cur = b] /\ UNCHANGED blocks
    /\ UNCHANGED <<started, isFullStop, cache, sql, chain, clean, history>>

\* After a failed header by hash: only another hash at its height proves the
\* block orphaned; either way it is not paid in this cycle.
AltByHeight ==
    /\ pc = "byHeight"
    /\ \/ /\ ~canon[mem.cur]
          /\ blocks' = [blocks EXCEPT ![mem.cur] = Invalidated(@)]
       \/ UNCHANGED blocks
    /\ Continue(mem.cur)
    /\ UNCHANGED <<started, isFullStop, cache, sql, chain, clean, faults, history>>

\* The anchor groups, lowest height first, at most MaxAnchors of them.
AnchorHeader(b) ==
    /\ pc = "anchor" /\ mem.anchors < MaxAnchors
    /\ b \in mem.waiting /\ \A o \in mem.waiting : Anchor(b) <= Anchor(o)
    /\ LET group == {o \in mem.waiting : Anchor(o) = Anchor(b)}
           next == [mem EXCEPT !.waiting = @ \ group, !.anchors = @ + 1]
       IN \/ NoFault /\ pc' = "precalc" /\ mem' = [next EXCEPT !.group = group]
          \/ Fault /\ pc' = "anchor" /\ mem' = next
    /\ UNCHANGED <<started, isFullStop, cache, blocks, sql, chain, clean, history>>

AnchorsDone ==
    /\ pc = "anchor"
    /\ mem.waiting = {} \/ mem.anchors >= MaxAnchors
    /\ EndCycle
    /\ UNCHANGED <<started, isFullStop, cache, blocks, sql, chain, clean, faults, history>>

-----------------------------------------------------------------------------
(* payMainBlock, payAltBlock, executePayout, doPPLNSPayments *)

\* The header answers the copied record's value; alt rewards may have been moved
\* into the block, so its value may exceed the header's.
HeaderMatches(b, rec) ==
    IF b \in MainBlocks THEN rec.value = Reward[b] ELSE rec.value >= Reward[b]

HeaderByHash ==
    /\ pc = "byHash"
    /\ \/ /\ NoFault
          /\ IF HeaderMatches(mem.cur, mem.list[mem.cur])
             THEN pc' = "sumBefore" /\ UNCHANGED mem
             ELSE Continue(mem.cur)
       \/ Fault /\ Continue(mem.cur)
    /\ UNCHANGED <<started, isFullStop, cache, blocks, sql, chain, clean, history>>

\* SUM over a table without rows is NULL, which getBalanceSum refuses.
SumIsNull == \A a \in Accounts : acct[a].id = 0
FullStop == isFullStop' = TRUE /\ Continue(mem.cur)

SumBefore ==
    /\ pc = "sumBefore"
    /\ \/ NoFault /\ SumIsNull /\ FullStop
       \/ Fault /\ FullStop
       \/ /\ NoFault /\ ~SumIsNull
          /\ pc' = "rows" /\ mem' = [mem EXCEPT !.sum = BalanceSum]
          /\ UNCHANGED isFullStop
    /\ UNCHANGED <<started, cache, blocks, sql, chain, clean, history>>

LoadRows ==
    /\ pc = "rows"
    /\ \/ NoFault /\ rows[mem.cur] = NoRows /\ Continue(mem.cur)
       \/ /\ NoFault /\ rows[mem.cur] # NoRows
          /\ pc' = "resolve" /\ mem' = [mem EXCEPT !.split = rows[mem.cur]]
       \/ Fault /\ EndCycle
    /\ UNCHANGED <<started, isFullStop, cache, blocks, sql, chain, clean, history>>

\* getOrCreateBalanceId for a recipient that is not cached.
ResolveBalance(a) ==
    /\ pc = "resolve" /\ a \in Recipients /\ cache[a] = 0
    /\ \/ /\ NoFault /\ acct[a].id # 0
          /\ cache' = [cache EXCEPT ![a] = acct[a].id]
          /\ UNCHANGED <<pc, mem, acct>>
       \/ /\ NoFault /\ acct[a].id = 0
          /\ acct' = [acct EXCEPT ![a] = [id |-> @.issued + 1, issued |-> @.issued + 1, amount |-> 0]]
          /\ cache' = [cache EXCEPT ![a] = acct[a].issued + 1]
          /\ UNCHANGED <<pc, mem>>
       \/ Fault /\ EndCycle /\ UNCHANGED <<cache, acct>>
    /\ UNCHANGED <<started, isFullStop, blocks, rows, paid, chain, clean, history>>

\* Every recipient is resolved; nothing to credit is a full stop.
Resolved ==
    /\ pc = "resolve" /\ \A a \in Recipients : cache[a] # 0
    /\ IF Recipients = {} THEN FullStop
       ELSE pc' = "credit" /\ UNCHANGED <<mem, isFullStop>>
    /\ UNCHANGED <<started, cache, blocks, sql, chain, clean, faults, history>>

\* The transaction fails on paid_blocks' unique hex, or when an UPDATE does not
\* affect as many rows as it names (a cached id whose row is gone).
IgnoresPaidBlocks == \E a \in Recipients : acct[a].id # cache[a]
IgnoresAffectedRows == mem.cur \in paid
CreditRefused ==
    \/ mem.cur \in paid
    \/ \E a \in Recipients : acct[a].id # cache[a]

ApplyCredits ==
    /\ paid' = paid \cup {mem.cur}
    /\ acct' = [a \in Accounts |->
                  IF acct[a].id = cache[a] /\ a \in Recipients
                  THEN [acct[a] EXCEPT !.amount = @ + CreditNow[a]] ELSE acct[a]]
    /\ credits' = [credits EXCEPT ![mem.cur] = @ + TotalOf(CreditNow)]

CreditBalances ==
    /\ pc = "credit"
    /\ \/ NoFault /\ CreditRefused /\ Continue(mem.cur) /\ UNCHANGED <<paid, acct, credits>>
       \/ NoFault /\ ~CreditRefused /\ ApplyCredits /\ pc' = "sumAfter" /\ UNCHANGED mem
       \* The transaction is lost, or only its acknowledgement.
       \/ Fault /\ Continue(mem.cur) /\ UNCHANGED <<paid, acct, credits>>
       \/ Fault /\ ~CreditRefused /\ ApplyCredits /\ Continue(mem.cur)
    /\ UNCHANGED <<started, isFullStop, cache, blocks, rows, chain, clean, debited>>

\* A changed total unlocks the record, an unchanged one is a full stop.
SumAfter ==
    /\ pc = "sumAfter"
    /\ \/ Fault /\ FullStop /\ UNCHANGED blocks
       \/ /\ NoFault /\ ~SumIsNull /\ BalanceSum # mem.sum
          /\ blocks' = [blocks EXCEPT ![mem.cur].unlocked = TRUE]
          /\ Continue(mem.cur) /\ UNCHANGED isFullStop
       \/ NoFault /\ (SumIsNull \/ BalanceSum = mem.sum) /\ FullStop /\ UNCHANGED blocks
    /\ UNCHANGED <<started, cache, sql, chain, clean, history>>

-----------------------------------------------------------------------------
(* The chains, the other processes and the operator *)

NewTop ==
    /\ top < MaxTop
    /\ clean.pc \in {"recent", "distinct"} => top < clean.since + CleanGap
    /\ top' = top + 1
    /\ UNCHANGED <<process, blocks, sql, canon, clean, faults, history>>

Reorg(b) ==
    /\ top >= Height[b] /\ top - Height[b] <= ReorgDepth
    /\ canon' = [canon EXCEPT ![b] = ~@]
    /\ UNCHANGED <<process, blocks, sql, top, clean, faults, history>>

\* The ingest process records a block; an alt block's reward may be unknown.
Found(b, v) ==
    /\ ~blocks[b].known
    /\ top >= Height[b] /\ top - Height[b] <= LateFind
    /\ v = Reward[b] \/ (b \in AltBlocks /\ v = 0)
    /\ blocks' = [blocks EXCEPT ![b] =
                    [Absent EXCEPT !.known = TRUE, !.valid = TRUE, !.value = v]]
    /\ UNCHANGED <<process, sql, chain, clean, faults, history>>

\* Block scripts each edit one record in one LMDB transaction.
Edit(op, b, rec) ==
    /\ op \in Ops /\ b \in Edited /\ blocks[b].known
    /\ blocks' = [blocks EXCEPT ![b] = rec]
    /\ UNCHANGED <<process, sql, chain, clean, faults, history>>

\* changeAltBlockPayValue: the reward was exchanged.
Exchanged(b, v) ==
    /\ b \in AltBlocks /\ blocks[b].pay_value = 0 /\ v # 0
    /\ Edit("exchange", b, [blocks[b] EXCEPT !.pay_value = v])
\* altblock_pay_set, altblock_pay_set_many.
PaySet(b, v) ==
    b \in AltBlocks /\ Edit("paySet", b, [blocks[b] EXCEPT !.pay_value = v, !.unlocked = FALSE])
\* block_mark_unpaid, altblock_mark_unpaid.
MarkUnpaid(b) == Edit("unpaid", b, [blocks[b] EXCEPT !.unlocked = TRUE])
\* block_relock_for_payment.
Relock(b) == b \in MainBlocks /\ Edit("relock", b, [blocks[b] EXCEPT !.unlocked = FALSE])
\* altblock_revalidate_from_rpc: the daemon knows the hash and a reward.
Revalidate(b) ==
    b \in AltBlocks /\ Edit("revalidate", b, [blocks[b] EXCEPT !.valid = TRUE, !.unlocked = FALSE])
\* altblock_pay_ready_reset.
ReadyReset(b) == b \in AltBlocks /\ Edit("reset", b, [blocks[b] EXCEPT !.pay_ready = FALSE])
\* altblock_reward_fix_from_rpc, block_reward_fix_from_rpc.
RewardFix(b) == Edit("reward", b, [blocks[b] EXCEPT !.value = Reward[b]])

\* A payment batch is finalized.
Debit(a, n) ==
    /\ "debit" \in Ops /\ acct[a].id # 0 /\ n <= acct[a].amount
    /\ acct' = [acct EXCEPT ![a].amount = @ - n]
    /\ debited' = debited + n
    /\ UNCHANGED <<process, blocks, rows, paid, chain, clean, faults, credits>>

\* user_delete removes the account's row in one transaction.
DeleteUser(a) ==
    /\ "delete" \in Ops /\ acct[a].id # 0 /\ acct[a].issued < MaxRowId
    /\ acct' = [acct EXCEPT ![a] = [id |-> 0, issued |-> @.issued, amount |-> 0]]
    /\ debited' = debited + acct[a].amount
    /\ UNCHANGED <<process, blocks, rows, paid, chain, clean, faults, credits>>

-----------------------------------------------------------------------------
(* cleanBlockBalanceTable of lib/long_runner.js *)

CleanerSame == UNCHANGED <<process, blocks, paid, acct, chain, faults, history>>

\* collectLockedBlockHashes.
KeepUnready == {b \in Blocks : Locked(b) /\ ~blocks[b].pay_ready}
KeepHexes == {b \in Blocks : Locked(b)}

CollectLocked ==
    /\ "clean" \in Ops /\ clean.pc = "idle"
    /\ clean' = [pc |-> "recent", keep |-> KeepHexes, stale |-> {}, since |-> top]
    /\ CleanerSame /\ UNCHANGED rows

\* Some of the paid blocks were paid within two days.
QueryRecent(recent) ==
    /\ clean.pc = "recent" /\ recent \subseteq paid
    /\ clean' = [clean EXCEPT !.pc = "distinct", !.keep = @ \cup recent]
    /\ CleanerSame /\ UNCHANGED rows

QueryDistinct ==
    /\ clean.pc = "distinct"
    /\ clean' = [clean EXCEPT !.pc = "delete", !.keep = {},
                    !.stale = {b \in Blocks : rows[b] # NoRows} \ clean.keep]
    /\ CleanerSame /\ UNCHANGED rows

\* A failed DELETE is logged and its batch forgotten.
DeleteStale ==
    /\ clean.pc = "delete"
    /\ clean' = [pc |-> "idle", keep |-> {}, stale |-> {}, since |-> 0]
    /\ \/ NoFault /\ rows' = [b \in Blocks |-> IF b \in clean.stale THEN NoRows ELSE rows[b]]
       \/ Fault /\ UNCHANGED rows
    /\ UNCHANGED <<process, blocks, paid, acct, chain, history>>

-----------------------------------------------------------------------------
Cycle ==
    \/ RunCycle \/ GetTopBlockHeight
    \/ MainDone \/ AltDone \/ AnchorsDone
    \/ \E b \in MainBlocks : SkipMain(b) \/ HeaderByHeight(b)
    \/ PrecalcDelete \/ PrecalcInsert
    \/ \E b \in Blocks : MarkReady(b)
    \/ \E b \in AltBlocks : SkipAlt(b) \/ AltHeader(b) \/ AnchorHeader(b)
    \/ AltByHeight \/ HeaderByHash
    \/ SumBefore \/ LoadRows \/ Resolved \/ CreditBalances \/ SumAfter
    \/ \E a \in Accounts : ResolveBalance(a)

Environment ==
    \/ NewTop
    \/ \E b \in Blocks : Reorg(b)
    \/ \E b \in Blocks, v \in Amounts : Found(b, v)

Others ==
    \/ \E b \in AltBlocks, v \in PayValues : Exchanged(b, v) \/ PaySet(b, v)
    \/ \E b \in Blocks : MarkUnpaid(b) \/ RewardFix(b)
    \/ \E b \in MainBlocks : Relock(b)
    \/ \E b \in AltBlocks : Revalidate(b) \/ ReadyReset(b)
    \/ \E a \in Accounts : DeleteUser(a) \/ \E n \in 1..acct[a].amount : Debit(a, n)

Cleaner ==
    \/ CollectLocked \/ QueryDistinct \/ DeleteStale
    \/ \E recent \in SUBSET paid : QueryRecent(recent)

Next == Start \/ Stop \/ Crash \/ Cycle \/ Environment \/ Others \/ Cleaner

Spec == Init /\ [][Next]_vars

\* The process manager restarts the process, an operator restarts it after a
\* full stop, timers fire and answers arrive; chains grow and rewards are
\* exchanged.
Fairness ==
    /\ WF_vars(Start) /\ WF_vars(isFullStop /\ Stop) /\ SF_vars(Cycle) /\ WF_vars(NewTop)
    /\ WF_vars(clean.pc # "idle" /\ Cleaner)
    /\ \A b \in AltBlocks : WF_vars(\E v \in PayValues : Exchanged(b, v))
LiveSpec == Spec /\ Fairness

-----------------------------------------------------------------------------
(* Properties *)

Pcs == {"down", "timer", "mainTop", "main", "precalc", "insert", "mark", "altTop",
        "alt", "byHeight", "anchor", "byHash", "sumBefore", "rows", "resolve",
        "credit", "sumAfter"}

\* The process, the tables, the cleaner and the history have their types.
TypeOK ==
    /\ pc \in Pcs /\ started \in BOOLEAN /\ isFullStop \in BOOLEAN
    /\ cache \in [Accounts -> RowIds]
    /\ blocks \in [Blocks -> BlockRecord]
    /\ rows \in [Blocks -> Splits \cup {NoRows}]
    /\ paid \subseteq Blocks
    /\ acct \in [Accounts -> [id : RowIds, issued : RowIds, amount : Nat]]
    /\ top \in 0..MaxTop /\ canon \in [Blocks -> BOOLEAN]
    /\ clean \in [pc : {"idle", "recent", "distinct", "delete"},
                  keep : SUBSET Blocks, stale : SUBSET Blocks, since : 0..MaxTop]
    /\ faults \in 0..MaxFaults
    /\ credits \in [Blocks -> Nat] /\ debited \in Nat

\* runBlockUnlocker and handleAltBlock never credit a block that is, or later
\* becomes, orphaned, although the chain reorganises between the list, the
\* header checks and the payout.
PaidOnMainChain == \A b \in Blocks : credits[b] > 0 => canon[b]

\* A record is only invalidated when its block is orphaned for good: waiting
\* for ConfirmDelay (AltDelay) blocks outlasts every reorganisation.
OnlyOrphansDropped == \A b \in Blocks : blocks[b].known /\ ~blocks[b].valid => ~canon[b]

\* A block the unlocker has still to pay has its block_balance rows, although
\* precalculation deletes and inserts them in two queries, may be cut off
\* anywhere, and the cleaner deletes rows on the strength of old reads.
PayableHasRows ==
    \A b \in Blocks \ paid : Locked(b) /\ blocks[b].pay_ready => rows[b] # NoRows

\* No block is credited more than its reward: not after a crash or a lost
\* acknowledgement between the credit and the unlock, nor after a relock.
NeverOverCredited ==
    \A b \in Blocks : \E r \in (IF b \in MainBlocks THEN {Reward[b]} ELSE Amounts) : credits[b] <= r

\* What stands on balances is what was credited less what was taken: no credit
\* is lost on a row that was deleted behind balanceIdCache.
BalancesAddUp ==
    BalanceSum + debited = SumFunctionOnSet(credits, Blocks)

\* The block manager unlocks a valid record only once paid_blocks holds the
\* block, although it decides on a copy of the record that scripts edit.
UnlockedIsPaid ==
    [][\A b \in Blocks :
          process' # process /\ blocks'[b].unlocked /\ ~blocks[b].unlocked /\ blocks'[b].valid
          => b \in paid]_vars

\* A locked block with a reward is eventually credited or leaves the locked
\* list (orphaned, or unlocked by the operator), whatever the failed cycles,
\* crashes and full stops on the way.
EventuallyPaid ==
    \A b \in Blocks :
        (Locked(b) /\ blocks[b].value # 0) ~> (b \in paid \/ ~Locked(b))
=============================================================================
