------------------------- MODULE BlockManagerProofs -------------------------
(***************************************************************************)
(* Theorems about BlockManager for any blocks, accounts, delays and bounds.*)
(*                                                                         *)
(* A cycle decides on a height it asked for earlier and on copies of the   *)
(* records.  The invariant says what those are still worth: the height     *)
(* only bounds the chain's from below, a copy that is not ready is of a    *)
(* record that is not ready, and a block the cycle is about to pay is on   *)
(* its chain and too deep to leave it.                                     *)
(***************************************************************************)
EXTENDS BlockManager, FiniteSetTheorems, TLAPS

\* A block that the manager acts on is deeper than any reorganisation.
DelaysOutlastReorgs == ReorgDepth <= ConfirmDelay /\ ReorgDepth <= AltDelay

\* A block that is found late has no rows before the cleaner has looked.
DelaysOutlastCleaner ==
    LateFind + CleanGap <= ConfirmDelay /\ LateFind + CleanGap <= AltDelay

\* Operators that unlock an unpaid block or revive an invalid one do it
\* outside of what the cleaner can know.
NoRevival == "unpaid" \notin Ops /\ "revalidate" \notin Ops

Delay(b) == IF b \in MainBlocks THEN ConfirmDelay ELSE AltDelay

Payers == {"byHash", "sumBefore", "rows", "resolve", "credit", "sumAfter"}
Precalcs == {"precalc", "insert", "mark"}
MemFields == {"list", "cur", "top", "alt", "waiting", "group", "anchors", "sum", "split"}

\* The locals of a cycle.
MemOK ==
    /\ DOMAIN mem = MemFields
    /\ DOMAIN mem.list \subseteq Blocks
    /\ mem.waiting \subseteq Blocks /\ mem.group \subseteq Blocks
    /\ mem.alt \in BOOLEAN
    /\ mem.top \in Nat
    /\ pc \in Payers \cup {"byHeight"} => mem.cur \in Blocks

TablesOK ==
    /\ blocks \in [Blocks -> BlockRecord]
    /\ DOMAIN rows = Blocks
    /\ top \in Nat
    /\ canon \in [Blocks -> BOOLEAN]
    /\ DOMAIN credits = Blocks

\* The height of the cycle has been reached, and the block it is at is deep.
TopReached == mem.top <= top
CurIsDeep == pc \in Payers \cup {"byHeight"} => mem.top - Height[mem.cur] > Delay(mem.cur)

\* The credit is booked before the record is unlocked.
CurIsPaid == pc = "sumAfter" => mem.cur \in paid

BaseInv == MemOK /\ TablesOK /\ TopReached /\ CurIsDeep /\ CurIsPaid

\* Nothing that the manager acts on can be reorganised any more.
Final(b) == top - Height[b] > ReorgDepth
CurOnChain == pc \in Payers => canon[mem.cur]
DroppedForGood == \A b \in Blocks : blocks[b].known /\ ~blocks[b].valid => ~canon[b] /\ Final(b)
PaidForGood == \A b \in Blocks : credits[b] > 0 => canon[b] /\ Final(b)

ChainInv == CurOnChain /\ DroppedForGood /\ PaidForGood

\* What the cycle is about to credit: the copy it holds has the reward of the
\* header, the split is one that was stored, and the block was never credited.
CopiesTyped == \A b \in DOMAIN mem.list : mem.list[b] \in BlockRecord
CurIsListed == pc \in Payers => mem.cur \in DOMAIN mem.list
RewardChecked ==
    pc \in Payers \ {"byHash"} /\ mem.cur \in MainBlocks => mem.list[mem.cur].value = Reward[mem.cur]
SplitStored == pc \in {"resolve", "credit"} => mem.split \in Splits
RowsTyped == rows \in [Blocks -> Splits \cup {NoRows}]
UnpaidUncredited == \A b \in Blocks \ paid : credits[b] = 0

CreditInv ==
    /\ CopiesTyped /\ CurIsListed /\ RewardChecked /\ SplitStored /\ RowsTyped
    /\ UnpaidUncredited /\ NeverOverCredited

\* What the cycle is precalculating.
GroupIsDeep == \A b \in mem.group \cup mem.waiting : mem.top - Height[b] > Delay(b)
GroupShape ==
    /\ pc \in {"alt", "anchor"} => mem.alt
    /\ pc = "main" => ~mem.alt
    /\ pc \notin Precalcs => mem.group = {}
    /\ ~mem.alt /\ pc \in Precalcs => mem.group = {mem.cur}
    /\ ~mem.alt => mem.waiting = {}
    /\ mem.alt /\ pc \in Precalcs \cup {"anchor"} => DOMAIN mem.list = {}
    /\ mem.waiting \cap mem.group = {}
    /\ mem.waiting \cap DOMAIN mem.list = {}

\* Copies that say "not ready" are of records that are not.
CopiesHold ==
    /\ \A b \in DOMAIN mem.list : blocks[b].known
    /\ \A b \in DOMAIN mem.list : ~mem.list[b].pay_ready => ~blocks[b].pay_ready
    /\ \A b \in mem.group \cup mem.waiting : blocks[b].known /\ ~blocks[b].pay_ready

\* Never again payable.
Over(b) == b \in paid \/ (blocks[b].known /\ ~blocks[b].valid)

UnlockedWasPaid == \A b \in Blocks : blocks[b].known /\ blocks[b].unlocked => Over(b)
RowsAreDeep ==
    \A b \in Blocks : rows[b] # NoRows => blocks[b].known /\ top - Height[b] > Delay(b)
MarkHasRows == pc = "mark" => \A b \in mem.group : rows[b] # NoRows \/ Over(b)

\* What the cleaner has not kept is over, or too young to have rows.
KeepIsEnough ==
    clean.pc \in {"recent", "distinct"} =>
        /\ clean.since <= top /\ top <= clean.since + CleanGap
        /\ \A b \in Blocks \ clean.keep :
              blocks[b].known => Over(b) \/ Height[b] + LateFind >= clean.since
StaleIsOver == \A b \in clean.stale : Over(b)

CleanOK ==
    /\ clean \in [pc : {"idle", "recent", "distinct", "delete"},
                  keep : SUBSET Blocks, stale : SUBSET Blocks, since : Nat]
    /\ paid \subseteq Blocks

RowsInv ==
    /\ CleanOK /\ GroupIsDeep /\ GroupShape /\ CopiesHold /\ UnlockedWasPaid
    /\ RowsAreDeep /\ MarkHasRows /\ KeepIsEnough /\ StaleIsOver /\ PayableHasRows
-----------------------------------------------------------------------------
(* Records and locals *)

\* What the edits of a record do to its fields.
LEMMA RecordEdits ==
    ASSUME NEW rec \in BlockRecord, NEW v \in BOOLEAN, NEW u \in BOOLEAN, NEW n \in Amounts
    PROVE  /\ [rec EXCEPT !.valid = v, !.unlocked = u] \in BlockRecord
           /\ [rec EXCEPT !.unlocked = u] \in BlockRecord
           /\ [rec EXCEPT !.pay_ready = v] \in BlockRecord
           /\ [rec EXCEPT !.pay_value = n] \in BlockRecord
           /\ [rec EXCEPT !.pay_value = n, !.unlocked = u] \in BlockRecord
           /\ [rec EXCEPT !.value = n] \in BlockRecord
BY DEF BlockRecord

\* An edit by the cycle or by a script, as the fields the properties look at.
Keeps(old, new) == new.known = old.known /\ new.valid = old.valid

LEMMA RecordFields ==
    ASSUME NEW rec \in BlockRecord
    PROVE  /\ DOMAIN rec = {"known", "valid", "unlocked", "pay_ready", "value", "pay_value"}
           /\ rec.known \in BOOLEAN /\ rec.valid \in BOOLEAN
           /\ rec.unlocked \in BOOLEAN /\ rec.pay_ready \in BOOLEAN
BY DEF BlockRecord

LEMMA InvalidatedRecord ==
    ASSUME NEW rec \in BlockRecord
    PROVE  /\ Invalidated(rec) \in BlockRecord
           /\ Invalidated(rec).known = rec.known /\ Invalidated(rec).valid = FALSE
           /\ Invalidated(rec).unlocked = TRUE
           /\ Invalidated(rec).pay_ready = rec.pay_ready
<1>1. Invalidated(rec) \in BlockRecord
  <2>1. FALSE \in BOOLEAN /\ TRUE \in BOOLEAN /\ 0 \in Amounts
    BY DEF Amounts
  <2> QED
    BY <2>1, RecordEdits, Zenon DEF Invalidated
<1> QED
  BY <1>1, RecordFields DEF Invalidated

LEMMA ReadyRecord ==
    ASSUME NEW rec \in BlockRecord
    PROVE  /\ Ready(rec) \in BlockRecord
           /\ Ready(rec).known = rec.known /\ Ready(rec).valid = rec.valid
           /\ Ready(rec).unlocked = rec.unlocked
           /\ Ready(rec).pay_ready = TRUE
<1>1. Ready(rec) \in BlockRecord
  <2>1. FALSE \in BOOLEAN /\ TRUE \in BOOLEAN /\ 0 \in Amounts
    BY DEF Amounts
  <2> QED
    BY <2>1, RecordEdits, Zenon DEF Ready
<1> QED
  BY <1>1, RecordFields DEF Ready

LEMMA UnlockedRecord ==
    ASSUME NEW rec \in BlockRecord, NEW u \in BOOLEAN
    PROVE  /\ [rec EXCEPT !.unlocked = u] \in BlockRecord
           /\ [rec EXCEPT !.unlocked = u].known = rec.known
           /\ [rec EXCEPT !.unlocked = u].valid = rec.valid
           /\ [rec EXCEPT !.unlocked = u].unlocked = u
           /\ [rec EXCEPT !.unlocked = u].pay_ready = rec.pay_ready
<1>1. [rec EXCEPT !.unlocked = u] \in BlockRecord
  BY DEF BlockRecord
<1> QED
  BY <1>1, RecordFields

\* A record when its block is found.
LEMMA FoundRecord ==
    ASSUME NEW v \in Amounts, NEW rec,
           rec = [Absent EXCEPT !.known = TRUE, !.valid = TRUE, !.value = v]
    PROVE  /\ rec \in BlockRecord
           /\ rec.known = TRUE /\ rec.valid = TRUE
           /\ rec.unlocked = FALSE /\ rec.pay_ready = FALSE
<1>1. /\ Absent \in BlockRecord
      /\ Absent.unlocked = FALSE /\ Absent.pay_ready = FALSE
  <2>1. 0 \in Amounts
    BY DEF Amounts
  <2> QED
    BY <2>1 DEF Absent, BlockRecord
<1>2. ASSUME NEW r \in BlockRecord, NEW k \in BOOLEAN, NEW l \in BOOLEAN
      PROVE  LET t == [r EXCEPT !.known = k, !.valid = l, !.value = v]
             IN  /\ t \in BlockRecord /\ t.known = k /\ t.valid = l
                 /\ t.unlocked = r.unlocked /\ t.pay_ready = r.pay_ready
  BY DEF BlockRecord
<1>3. TRUE \in BOOLEAN
  OBVIOUS
<1>4. LET t == [Absent EXCEPT !.known = TRUE, !.valid = TRUE, !.value = v]
      IN  /\ t \in BlockRecord /\ t.known = TRUE /\ t.valid = TRUE
          /\ t.unlocked = Absent.unlocked /\ t.pay_ready = Absent.pay_ready
  BY <1>1, <1>2, <1>3, Zenon
<1> QED
  BY <1>1, <1>4, Zenon

\* The locals between cycles.
LEMMA NoMemFields ==
    /\ DOMAIN NoMem = MemFields
    /\ DOMAIN NoMem.list = {} /\ NoMem.cur = 0 /\ NoMem.top = 0 /\ NoMem.alt = FALSE
    /\ NoMem.waiting = {} /\ NoMem.group = {}
BY DEF NoMem, MemFields, EmptyList

\* The locals once a block is dealt with.
LEMMA WithoutFields ==
    ASSUME DOMAIN mem = MemFields, NEW b
    PROVE  /\ DOMAIN Without(mem, b) = MemFields
           /\ DOMAIN Without(mem, b).list = DOMAIN mem.list \ {b}
           /\ \A o \in DOMAIN mem.list \ {b} : Without(mem, b).list[o] = mem.list[o]
           /\ Without(mem, b).top = mem.top /\ Without(mem, b).alt = mem.alt
           /\ Without(mem, b).waiting = mem.waiting /\ Without(mem, b).group = mem.group
           /\ Without(mem, b).cur = 0
BY DEF Without, MemFields, Restrict

-----------------------------------------------------------------------------
(* The chain *)

\* What a step does to the cycle's locals.
Flow ==
    /\ DOMAIN mem' = MemFields
    /\ DOMAIN mem'.list \subseteq Blocks
    /\ mem'.waiting \subseteq Blocks /\ mem'.group \subseteq Blocks
    /\ mem'.alt \in BOOLEAN
    /\ mem'.top \in {0, mem.top, top}
    /\ pc' \in Payers \cup {"byHeight"} =>
          /\ mem'.top = mem.top /\ mem'.cur \in Blocks
          /\ \/ /\ mem'.cur = mem.cur /\ pc \in Payers \cup {"byHeight"}
                /\ pc' \in Payers => pc \in Payers
                /\ pc' = "sumAfter" => mem.cur \in paid'
             \/ /\ mem.top - Height[mem'.cur] > Delay(mem'.cur)
                /\ pc' \in Payers => canon[mem'.cur]
                /\ pc' # "sumAfter"

\* What a step does to the chain, the records and the credits.
Moves ==
    /\ top' \in Nat /\ top <= top'
    /\ canon' \in [Blocks -> BOOLEAN]
    /\ \A b \in Blocks : Final(b) => canon'[b] = canon[b]
    /\ DOMAIN rows' = Blocks /\ DOMAIN credits' = Blocks
    /\ \A b \in Blocks : credits'[b] = credits[b] \/ (b = mem.cur /\ pc \in Payers)
    /\ blocks' \in [Blocks -> BlockRecord]
    /\ \A b \in Blocks : blocks'[b].known /\ ~blocks'[b].valid =>
          (blocks[b].known /\ ~blocks[b].valid) \/ (~canon[b] /\ mem.top - Height[b] > Delay(b))

Standing == BlocksAssumption /\ DelaysAssumption

\* The block the cycle is at is still the one it found deep, or on its chain.
LEMMA CurFollows ==
    ASSUME BaseInv, Flow, pc' \in Payers \cup {"byHeight"}
    PROVE  /\ mem'.cur \in Blocks
           /\ mem'.top = mem.top
           /\ mem.top - Height[mem'.cur] > Delay(mem'.cur)
           /\ pc' \in Payers => canon[mem'.cur] \/ (pc \in Payers /\ mem'.cur = mem.cur)
           /\ pc' = "sumAfter" => mem'.cur \in paid'
<1>1. mem'.top = mem.top /\ mem'.cur \in Blocks
  BY DEF Flow
<1>2. CASE /\ mem'.cur = mem.cur /\ pc \in Payers \cup {"byHeight"}
           /\ pc' \in Payers => pc \in Payers
           /\ pc' = "sumAfter" => mem.cur \in paid'
  BY <1>1, <1>2 DEF BaseInv, CurIsDeep
<1>3. CASE /\ mem.top - Height[mem'.cur] > Delay(mem'.cur)
           /\ pc' \in Payers => canon[mem'.cur]
           /\ pc' # "sumAfter"
  BY <1>1, <1>3
<1> QED
  BY <1>2, <1>3 DEF Flow

LEMMA BaseKeeps ==
    ASSUME Standing, BaseInv, Flow, Moves
    PROVE  BaseInv'
<1>1. mem.top \in Nat /\ top \in Nat /\ mem.top <= top
  BY DEF BaseInv, MemOK, TablesOK, TopReached
<1>2. top' \in Nat /\ top <= top'
  BY DEF Moves
<1>3. mem'.top \in Nat /\ mem'.top <= top'
  <2>1. mem'.top = 0 \/ mem'.top = mem.top \/ mem'.top = top
    BY DEF Flow
  <2> QED
    BY <2>1, <1>1, <1>2
<1>4. MemOK' /\ TopReached'
  BY <1>3 DEF MemOK, TopReached, Flow
<1>5. TablesOK'
  BY DEF TablesOK, Moves
<1>6. CurIsPaid'
  <2>1. "sumAfter" \in Payers
    BY DEF Payers
  <2> QED
    BY <2>1, CurFollows DEF CurIsPaid
<1>7. CurIsDeep'
  BY CurFollows DEF CurIsDeep, Delay
<1> QED
  BY <1>4, <1>5, <1>6, <1>7 DEF BaseInv

LEMMA FinalStays ==
    ASSUME Standing, top \in Nat, top' \in Nat, top <= top',
           NEW b \in Blocks, Final(b)
    PROVE  Final(b)'
<1>1. Height[b] \in Nat /\ ReorgDepth \in Nat
  BY DEF Standing, BlocksAssumption, DelaysAssumption
<1> QED
  BY <1>1 DEF Final

\* A block the cycle finds deep enough is final.
LEMMA DeepIsFinal ==
    ASSUME Standing, DelaysOutlastReorgs, BaseInv,
           NEW b \in Blocks, mem.top - Height[b] > Delay(b)
    PROVE  Final(b)
<1>1. Height[b] \in Nat /\ ReorgDepth \in Nat /\ ConfirmDelay \in Nat /\ AltDelay \in Nat
  BY DEF Standing, BlocksAssumption, DelaysAssumption
<1>2. mem.top \in Nat /\ top \in Nat /\ mem.top <= top
  BY DEF BaseInv, MemOK, TablesOK, TopReached
<1>3. Delay(b) \in Nat /\ ReorgDepth <= Delay(b)
  BY <1>1 DEF Delay, DelaysOutlastReorgs
<1> QED
  BY <1>1, <1>2, <1>3 DEF Final

LEMMA ChainKeeps ==
    ASSUME Standing, DelaysOutlastReorgs, BaseInv, ChainInv, Flow, Moves
    PROVE  ChainInv'
<1>0. CurOnChain /\ DroppedForGood /\ PaidForGood
  BY DEF ChainInv
<1>1. top \in Nat /\ top' \in Nat /\ top <= top'
  BY DEF BaseInv, TablesOK, Moves
<1>2. CurOnChain'
  <2>1. ASSUME pc' \in Payers PROVE canon'[mem'.cur]
    <3>1. mem'.cur \in Blocks /\ canon[mem'.cur] /\ Final(mem'.cur)
      BY <1>0, <2>1, CurFollows, DeepIsFinal DEF CurOnChain
    <3> QED
      BY <3>1 DEF Moves
  <2> QED
    BY <2>1 DEF CurOnChain
<1>3. DroppedForGood'
  <2>1. ASSUME NEW b \in Blocks, blocks'[b].known, ~blocks'[b].valid
        PROVE  ~canon'[b] /\ Final(b)'
    <3>1. ~canon[b] /\ Final(b)
      BY <2>1, <1>0, DeepIsFinal DEF Moves, DroppedForGood
    <3> QED
      BY <3>1, <1>1, FinalStays DEF Moves
  <2> QED
    BY <2>1 DEF DroppedForGood
<1>4. PaidForGood'
  <2>1. ASSUME NEW b \in Blocks, credits'[b] > 0
        PROVE  canon'[b] /\ Final(b)'
    <3>1. CASE credits'[b] = credits[b]
      BY <2>1, <3>1, <1>0, <1>1, FinalStays DEF Moves, PaidForGood
    <3>2. CASE b = mem.cur /\ pc \in Payers
      <4>1. canon[b] /\ Final(b)
        BY <3>2, <1>0, DeepIsFinal DEF BaseInv, CurIsDeep, CurOnChain
      <4> QED
        BY <4>1, <1>1, FinalStays DEF Moves
    <3> QED
      BY <2>1, <3>1, <3>2 DEF Moves
  <2> QED
    BY <2>1 DEF PaidForGood
<1> QED
  BY <1>2, <1>3, <1>4 DEF ChainInv

\* Ways through the cycle, each with what it does to the locals.
LEMMA QuietFlow ==
    ASSUME BaseInv, pc' = pc, mem' = mem, paid \subseteq paid'
    PROVE  Flow
BY DEF BaseInv, MemOK, CurIsPaid, Flow

LEMMA RestFlow ==
    ASSUME mem' = NoMem, pc' \in {"timer", "down"}
    PROVE  Flow
BY NoMemFields DEF Flow, Payers

LEMMA ContinueFlow ==
    ASSUME BaseInv, NEW b, Continue(b)
    PROVE  Flow
<1>1. pc' \in {"main", "alt"} /\ mem' = Without(mem, b)
  BY DEF Continue, Walk
<1>2. MemOK
  BY DEF BaseInv
<1>3. DOMAIN mem = MemFields
  BY <1>2 DEF MemOK
<1> QED
  BY <1>1, <1>2, <1>3, WithoutFields DEF Flow, MemOK, Payers

LEMMA EndFlow ==
    ASSUME EndCycle
    PROVE  Flow
BY RestFlow DEF EndCycle

LEMMA BeginAltMem ==
    ASSUME BeginAlt, ~isFullStop
    PROVE  /\ pc' = "altTop" /\ DOMAIN mem' = MemFields
           /\ DOMAIN mem'.list = {b \in AltBlocks : Locked(b)}
           /\ \A b \in DOMAIN mem'.list : mem'.list[b] = blocks[b]
           /\ mem'.top = 0 /\ mem'.alt = TRUE /\ mem'.waiting = {} /\ mem'.group = {}
<1>1. pc' = "altTop" /\ mem' = [NoMem EXCEPT !.list = Listed(AltBlocks), !.alt = TRUE]
  BY DEF BeginAlt
<1>2. TRUE \in BOOLEAN
  OBVIOUS
<1> DEFINE L == Listed(AltBlocks)
<1>3. /\ DOMAIN L = {b \in AltBlocks : Locked(b)}
      /\ \A b \in DOMAIN L : L[b] = blocks[b]
  BY DEF Listed
<1> HIDE DEF L
<1>4. ASSUME NEW v \in BOOLEAN, NEW m, m = [NoMem EXCEPT !.list = L, !.alt = v]
      PROVE  /\ DOMAIN m = MemFields /\ m.list = L
             /\ m.top = 0 /\ m.alt = v /\ m.waiting = {} /\ m.group = {}
  BY <1>4, NoMemFields DEF MemFields
<1>5. /\ DOMAIN mem' = MemFields /\ mem'.list = L
      /\ mem'.top = 0 /\ mem'.alt = TRUE /\ mem'.waiting = {} /\ mem'.group = {}
  BY <1>1, <1>2, <1>4, Zenon DEF L
<1> QED
  BY <1>1, <1>3, <1>5

LEMMA BeginAltFlow ==
    ASSUME BeginAlt
    PROVE  Flow
<1>1. CASE isFullStop
  BY <1>1, EndFlow DEF BeginAlt
<1>2. CASE ~isFullStop
  <2>1. mem'.alt \in BOOLEAN
    BY <1>2, BeginAltMem, Zenon
  <2> QED
    BY <1>2, <2>1, BeginAltMem DEF Flow, Payers, Blocks
<1> QED
  BY <1>1, <1>2

\* The locals once a precalculation has ended.
LEMMA PrecalcEndsMem ==
    ASSUME DOMAIN mem = MemFields, PrecalcEnds
    PROVE  /\ DOMAIN mem' = MemFields
           /\ mem'.top = mem.top /\ mem'.alt = mem.alt /\ mem'.waiting = mem.waiting
           /\ mem'.group = {}
           /\ \/ mem.alt /\ pc' = "anchor" /\ mem'.list = mem.list
              \/ /\ ~mem.alt /\ pc' = "main"
                 /\ DOMAIN mem'.list = DOMAIN mem.list \ {mem.cur}
                 /\ \A o \in DOMAIN mem'.list : mem'.list[o] = mem.list[o]
<1>1. CASE mem.alt
  <2>1. pc' = "anchor" /\ mem' = [mem EXCEPT !.group = {}]
    BY <1>1 DEF PrecalcEnds
  <2> QED
    BY <2>1, <1>1 DEF MemFields
<1>2. CASE ~mem.alt
  <2> DEFINE w == Without(mem, mem.cur)
  <2>1. pc' = "main" /\ mem' = [w EXCEPT !.group = {}]
    BY <1>2 DEF PrecalcEnds
  <2>2. /\ DOMAIN w = MemFields
        /\ DOMAIN w.list = DOMAIN mem.list \ {mem.cur}
        /\ \A o \in DOMAIN mem.list \ {mem.cur} : w.list[o] = mem.list[o]
        /\ w.top = mem.top /\ w.alt = mem.alt /\ w.waiting = mem.waiting
    BY WithoutFields
  <2> HIDE DEF w
  <2>3. /\ DOMAIN mem' = MemFields /\ mem'.list = w.list /\ mem'.top = w.top
        /\ mem'.alt = w.alt /\ mem'.waiting = w.waiting /\ mem'.group = {}
    BY <2>1, <2>2 DEF MemFields
  <2> QED
    BY <2>1, <2>2, <2>3, <1>2
<1> QED
  BY <1>1, <1>2

LEMMA PrecalcEndsFlow ==
    ASSUME BaseInv, PrecalcEnds
    PROVE  Flow
<1>1. MemOK /\ DOMAIN mem = MemFields
  BY DEF BaseInv, MemOK
<1> QED
  BY <1>1, PrecalcEndsMem DEF Flow, MemOK, Payers

\* The locals once an alt block is passed over.
LEMMA SkipAltMem ==
    ASSUME DOMAIN mem = MemFields, NEW b \in AltBlocks, SkipAlt(b)
    PROVE  /\ pc' = "alt" /\ DOMAIN mem' = MemFields
           /\ DOMAIN mem'.list = DOMAIN mem.list \ {b}
           /\ \A o \in DOMAIN mem'.list : mem'.list[o] = mem.list[o]
           /\ mem'.top = mem.top /\ mem'.alt = mem.alt /\ mem'.group = mem.group
           /\ \/ mem'.waiting = mem.waiting
              \/ /\ mem'.waiting = mem.waiting \cup {b}
                 /\ ~TooShallow(b, AltDelay) /\ ~mem.list[b].pay_ready
<1> DEFINE w == Without(mem, b)
           young == TooShallow(b, AltDelay) \/ b \in Legacy
           X == IF ~young /\ ~mem.list[b].pay_ready /\ mem.list[b].value # 0
                THEN w.waiting \cup {b} ELSE w.waiting
<1>1. pc' = "alt" /\ mem' = [w EXCEPT !.waiting = X]
  BY DEF SkipAlt
<1>2. /\ DOMAIN w = MemFields
      /\ DOMAIN w.list = DOMAIN mem.list \ {b}
      /\ \A o \in DOMAIN mem.list \ {b} : w.list[o] = mem.list[o]
      /\ w.top = mem.top /\ w.alt = mem.alt /\ w.group = mem.group /\ w.waiting = mem.waiting
  BY WithoutFields
<1>3. \/ X = mem.waiting
      \/ X = mem.waiting \cup {b} /\ ~TooShallow(b, AltDelay) /\ ~mem.list[b].pay_ready
  BY <1>2
<1> HIDE DEF w, X
<1>4. /\ DOMAIN mem' = MemFields /\ mem'.list = w.list /\ mem'.top = w.top
      /\ mem'.alt = w.alt /\ mem'.waiting = X /\ mem'.group = w.group
  BY <1>1, <1>2 DEF MemFields
<1> QED
  BY <1>1, <1>2, <1>3, <1>4

\* The locals once an anchor group is taken up.
LEMMA AnchorMem ==
    ASSUME DOMAIN mem = MemFields, NEW b, AnchorHeader(b)
    PROVE  \E group \in SUBSET mem.waiting :
              /\ DOMAIN mem' = MemFields /\ mem'.list = mem.list
              /\ mem'.top = mem.top /\ mem'.alt = mem.alt /\ mem'.waiting = mem.waiting \ group
              /\ \/ pc' = "anchor" /\ mem'.group = mem.group
                 \/ pc' = "precalc" /\ mem'.group = group
<1> DEFINE group == {o \in mem.waiting : Anchor(o) = Anchor(b)}
           next == [mem EXCEPT !.waiting = @ \ group, !.anchors = @ + 1]
<1>1. \/ pc' = "anchor" /\ mem' = next
      \/ pc' = "precalc" /\ mem' = [next EXCEPT !.group = group]
  BY DEF AnchorHeader
<1>2. group \subseteq mem.waiting
  OBVIOUS
<1> HIDE DEF group
<1>3. /\ DOMAIN mem' = MemFields /\ mem'.list = mem.list /\ mem'.top = mem.top
      /\ mem'.alt = mem.alt /\ mem'.waiting = mem.waiting \ group
      /\ \/ pc' = "anchor" /\ mem'.group = mem.group
         \/ pc' = "precalc" /\ mem'.group = group
  BY <1>1 DEF MemFields
<1> QED
  BY <1>2, <1>3

\* The locals of a cycle that has read its list.
LEMMA RunCycleMem ==
    ASSUME RunCycle
    PROVE  /\ pc' = "mainTop" /\ DOMAIN mem' = MemFields
           /\ DOMAIN mem'.list = {b \in MainBlocks : Locked(b)}
           /\ \A b \in DOMAIN mem'.list : mem'.list[b] = blocks[b]
           /\ mem'.top = 0 /\ mem'.alt = FALSE /\ mem'.waiting = {} /\ mem'.group = {}
BY DEF RunCycle, NoMem, MemFields, Listed

\* The cycle goes on to a block it has found deep enough.
LEMMA TakeFlow ==
    ASSUME BaseInv, NEW b \in Blocks, mem' = [mem EXCEPT !.cur = b],
           pc' \in {"byHash", "byHeight"},
           mem.top - Height[b] > Delay(b),
           pc' = "byHash" => canon[b]
    PROVE  Flow
<1>1. MemOK /\ DOMAIN mem = MemFields
  BY DEF BaseInv, MemOK
<1>2. /\ DOMAIN mem' = MemFields /\ mem'.cur = b /\ mem'.list = mem.list /\ mem'.top = mem.top
      /\ mem'.alt = mem.alt /\ mem'.waiting = mem.waiting /\ mem'.group = mem.group
  BY <1>1 DEF MemFields
<1>3. pc' # "sumAfter" /\ (pc' \in Payers => canon[b])
  BY DEF Payers
<1> QED
  BY <1>1, <1>2, <1>3 DEF Flow, MemOK

\* The payout of a block goes on.
LEMMA PayFlow ==
    ASSUME BaseInv, pc \in Payers, pc' \in Payers, DOMAIN mem' = MemFields,
           mem'.cur = mem.cur, mem'.list = mem.list, mem'.top = mem.top,
           mem'.alt = mem.alt, mem'.waiting = mem.waiting, mem'.group = mem.group,
           pc' = "sumAfter" => mem.cur \in paid'
    PROVE  Flow
BY DEF BaseInv, MemOK, Flow

\* Steps that leave chain, records and credits alone.
LEMMA SameMoves ==
    ASSUME BaseInv, top' = top, canon' = canon, credits' = credits, blocks' = blocks,
           DOMAIN rows' = Blocks
    PROVE  Moves
BY DEF BaseInv, TablesOK, Moves

\* A step that edits one record.
LEMMA EditMoves ==
    ASSUME BaseInv, top' = top, canon' = canon, credits' = credits, DOMAIN rows' = Blocks,
           NEW b \in Blocks, NEW rec \in BlockRecord, blocks' = [blocks EXCEPT ![b] = rec],
           rec.known /\ ~rec.valid =>
              (blocks[b].known /\ ~blocks[b].valid) \/ (~canon[b] /\ mem.top - Height[b] > Delay(b))
    PROVE  Moves
<1>1. TablesOK
  BY DEF BaseInv
<1>2. /\ blocks' \in [Blocks -> BlockRecord] /\ blocks'[b] = rec
      /\ \A o \in Blocks \ {b} : blocks'[o] = blocks[o]
  BY <1>1 DEF TablesOK
<1> QED
  BY <1>1, <1>2 DEF TablesOK, Moves

\* Steps of the cycle that only move on.
LEMMA ControlSteps ==
    ASSUME Standing, BaseInv,
           \/ Start \/ Stop \/ Crash \/ RunCycle \/ GetTopBlockHeight \/ MainDone
           \/ AltDone \/ AnchorsDone \/ \E b \in MainBlocks : SkipMain(b)
           \/ \E b \in AltBlocks : SkipAlt(b) \/ AnchorHeader(b)
    PROVE  Flow /\ Moves
<1>0. MemOK /\ TablesOK /\ DOMAIN mem = MemFields
  BY DEF BaseInv, MemOK
<1>1. /\ top' = top /\ canon' = canon /\ credits' = credits /\ blocks' = blocks /\ rows' = rows
      /\ paid' = paid
  BY DEF Start, Stop, Crash, Gone, RunCycle, GetTopBlockHeight, MainDone, AltDone, AnchorsDone,
         SkipMain, SkipAlt, AnchorHeader, sql, chain, history
<1>2. Moves
  BY <1>0, <1>1, SameMoves DEF TablesOK
<1>3. ASSUME Start PROVE Flow
  <2>1. pc' = "timer" /\ mem' = mem
    BY <1>3 DEF Start
  <2> QED
    BY <2>1, <1>0 DEF Flow, MemOK, Payers
<1>4. ASSUME Stop \/ Crash PROVE Flow
  <2>1. CASE Gone
    BY <2>1, RestFlow DEF Gone
  <2>2. CASE ~Gone
    BY <2>2, <1>1, <1>4, QuietFlow DEF Stop, Crash
  <2> QED
    BY <2>1, <2>2
<1>5. ASSUME RunCycle PROVE Flow
  BY <1>5, RunCycleMem DEF Flow, Payers, Blocks
<1>6. ASSUME GetTopBlockHeight PROVE Flow
  <2>1. CASE pc' = Walk /\ mem' = [mem EXCEPT !.top = top]
    <3>1. /\ pc' \in {"main", "alt"}
          /\ DOMAIN mem' = MemFields /\ mem'.list = mem.list /\ mem'.top = top
          /\ mem'.alt = mem.alt /\ mem'.waiting = mem.waiting /\ mem'.group = mem.group
      BY <2>1, <1>0 DEF Walk, MemFields
    <3> QED
      BY <3>1, <1>0 DEF Flow, MemOK, Payers
  <2>2. CASE EndCycle \/ BeginAlt
    BY <2>2, EndFlow, BeginAltFlow
  <2> QED
    BY <1>6, <2>1, <2>2 DEF GetTopBlockHeight
<1>7. ASSUME MainDone PROVE Flow
  BY <1>7, BeginAltFlow DEF MainDone
<1>8. ASSUME AltDone PROVE Flow
  <2>1. pc' = "anchor" /\ mem' = mem
    BY <1>8 DEF AltDone
  <2> QED
    BY <2>1, <1>0 DEF Flow, MemOK, Payers
<1>9. ASSUME AnchorsDone PROVE Flow
  BY <1>9, EndFlow DEF AnchorsDone
<1>10. ASSUME NEW b \in MainBlocks, SkipMain(b) PROVE Flow
  BY <1>10, ContinueFlow DEF SkipMain
<1>11. ASSUME NEW b \in AltBlocks, SkipAlt(b) PROVE Flow
  BY <1>0, <1>11, SkipAltMem DEF Flow, MemOK, Payers, Blocks
<1>12. ASSUME NEW b \in AltBlocks, AnchorHeader(b) PROVE Flow
  BY <1>0, <1>12, AnchorMem DEF Flow, MemOK, Payers
<1> QED
  BY <1>2, <1>3, <1>4, <1>5, <1>6, <1>7, <1>8, <1>9, <1>10, <1>11, <1>12

\* Steps of the precalculation.
LEMMA PrecalcSteps ==
    ASSUME Standing, BaseInv,
           PrecalcDelete \/ PrecalcInsert \/ \E b \in Blocks : MarkReady(b)
    PROVE  Flow /\ Moves
<1>0. MemOK /\ TablesOK /\ DOMAIN mem = MemFields
  BY DEF BaseInv, MemOK
<1>1. top' = top /\ canon' = canon /\ credits' = credits /\ paid' = paid
  BY DEF PrecalcDelete, PrecalcInsert, MarkReady, sql, chain, history
<1>2. ASSUME PrecalcDelete \/ PrecalcInsert PROVE Flow /\ Moves
  <2>1. ASSUME PrecalcDelete
        PROVE  /\ blocks' = blocks /\ DOMAIN rows' = Blocks
               /\ PrecalcEnds \/ (pc' \in {"insert", "mark"} /\ mem' = mem)
    <3>1. /\ rows' = rows \/ rows' = [b \in Blocks |-> IF b \in mem.group THEN NoRows ELSE rows[b]]
          /\ PrecalcEnds \/ (pc' = "insert" /\ mem' = mem)
      BY <2>1 DEF PrecalcDelete
    <3> QED
      BY <3>1, <2>1, <1>0 DEF PrecalcDelete, TablesOK
  <2>2. ASSUME PrecalcInsert
        PROVE  /\ blocks' = blocks /\ DOMAIN rows' = Blocks
               /\ PrecalcEnds \/ (pc' \in {"insert", "mark"} /\ mem' = mem)
    <3>1. PICK s \in Splits :
             LET written == [b \in Blocks |-> IF b \in mem.group THEN s ELSE rows[b]]
             IN \/ NoFault /\ rows' = written /\ pc' = "mark" /\ UNCHANGED mem
                \/ Fault /\ rows' \in {rows, written} /\ PrecalcEnds
      BY <2>2, Zenon DEF PrecalcInsert
    <3> DEFINE written == [b \in Blocks |-> IF b \in mem.group THEN s ELSE rows[b]]
    <3>2. DOMAIN written = Blocks
      OBVIOUS
    <3>3. /\ rows' = written \/ rows' = rows
          /\ PrecalcEnds \/ (pc' = "mark" /\ mem' = mem)
      BY <3>1, Zenon
    <3> HIDE DEF written
    <3>4. blocks' = blocks
      BY <2>2 DEF PrecalcInsert
    <3> QED
      BY <3>2, <3>3, <3>4, <1>0 DEF TablesOK
  <2>3. Flow
    BY <1>2, <2>1, <2>2, <1>0, PrecalcEndsFlow DEF Flow, MemOK, Payers
  <2> QED
    BY <1>2, <2>1, <2>2, <2>3, <1>1, SameMoves
<1>3. ASSUME NEW b \in Blocks, MarkReady(b) PROVE Flow /\ Moves
  <2>1. /\ blocks' = [blocks EXCEPT ![b] = Ready(blocks[b])] /\ rows' = rows
        /\ PrecalcEnds \/ (pc' = "mark" /\ mem' = [mem EXCEPT !.group = @ \ {b}])
    BY <1>3 DEF MarkReady, sql
  <2>2. blocks[b] \in BlockRecord
    BY <1>0 DEF TablesOK
  <2>3. Moves
    BY <2>1, <2>2, <1>0, <1>1, ReadyRecord, EditMoves DEF TablesOK
  <2>4. CASE PrecalcEnds
    BY <2>3, <2>4, PrecalcEndsFlow
  <2>5. CASE pc' = "mark" /\ mem' = [mem EXCEPT !.group = @ \ {b}]
    <3>1. /\ DOMAIN mem' = MemFields /\ mem'.list = mem.list /\ mem'.top = mem.top
          /\ mem'.alt = mem.alt /\ mem'.waiting = mem.waiting /\ mem'.group = mem.group \ {b}
      BY <2>5, <1>0 DEF MemFields
    <3>2. Flow
      BY <3>1, <2>5, <1>0 DEF Flow, MemOK, Payers
    <3> QED
      BY <3>2, <2>3
  <2> QED
    BY <2>1, <2>4, <2>5
<1> QED
  BY <1>2, <1>3

LEMMA NotShallow ==
    ASSUME Standing, BaseInv, NEW b \in Blocks, NEW d \in Nat, ~TooShallow(b, d)
    PROVE  mem.top - Height[b] > d
<1>1. Height[b] \in Nat /\ mem.top \in Nat
  BY DEF Standing, BlocksAssumption, BaseInv, MemOK
<1> QED
  BY <1>1 DEF TooShallow, Depth

\* A deep block that is off its chain is dropped.
LEMMA DropMoves ==
    ASSUME Standing, BaseInv, top' = top, canon' = canon, credits' = credits, rows' = rows,
           NEW b \in Blocks, blocks' = [blocks EXCEPT ![b] = Invalidated(blocks[b])],
           ~canon[b], mem.top - Height[b] > Delay(b)
    PROVE  Moves
<1>1. TablesOK
  BY DEF BaseInv
<1>2. blocks[b] \in BlockRecord /\ DOMAIN rows' = Blocks
  BY <1>1 DEF TablesOK
<1> QED
  BY <1>2, InvalidatedRecord, EditMoves

\* Steps that ask the daemon about a block.
LEMMA HeaderSteps ==
    ASSUME Standing, BaseInv,
           \/ \E b \in MainBlocks : HeaderByHeight(b)
           \/ \E b \in AltBlocks : AltHeader(b)
           \/ AltByHeight
    PROVE  Flow /\ Moves
<1>0. MemOK /\ TablesOK /\ DOMAIN mem = MemFields
  BY DEF BaseInv, MemOK
<1>1. top' = top /\ canon' = canon /\ credits' = credits /\ paid' = paid /\ rows' = rows
  BY DEF HeaderByHeight, AltHeader, AltByHeight, sql, chain, history
<1>2. blocks' = blocks => Moves
  BY <1>0, <1>1, SameMoves DEF TablesOK
<1>3. ConfirmDelay \in Nat /\ AltDelay \in Nat /\ MainBlocks \cap AltBlocks = {}
  BY DEF Standing, DelaysAssumption, BlocksAssumption
<1>4. ASSUME NEW b \in MainBlocks, HeaderByHeight(b) PROVE Flow /\ Moves
  <2>1. b \in Blocks /\ Delay(b) = ConfirmDelay
    BY DEF Blocks, Delay
  <2>2. mem.top - Height[b] > Delay(b)
    BY <2>1, <1>3, <1>4, NotShallow DEF HeaderByHeight
  <2>3. CASE Continue(b) /\ blocks' = blocks
    BY <2>3, <1>2, ContinueFlow
  <2>4. CASE ~canon[b] /\ blocks' = [blocks EXCEPT ![b] = Invalidated(blocks[b])] /\ Continue(b)
    BY <2>1, <2>2, <2>4, <1>1, DropMoves, ContinueFlow
  <2>5. CASE pc' = "precalc" /\ mem' = [mem EXCEPT !.cur = b, !.group = {b}] /\ blocks' = blocks
    <3>1. /\ DOMAIN mem' = MemFields /\ mem'.list = mem.list /\ mem'.top = mem.top
          /\ mem'.alt = mem.alt /\ mem'.waiting = mem.waiting /\ mem'.group = {b}
      BY <2>5, <1>0 DEF MemFields
    <3>2. Flow
      BY <3>1, <2>1, <2>5, <1>0 DEF Flow, MemOK, Payers
    <3> QED
      BY <3>2, <2>5, <1>2
  <2>6. CASE canon[b] /\ pc' = "byHash" /\ mem' = [mem EXCEPT !.cur = b] /\ blocks' = blocks
    BY <2>1, <2>2, <2>6, <1>2, TakeFlow
  <2> QED
    BY <1>4, <2>3, <2>4, <2>5, <2>6 DEF HeaderByHeight, SameHash
<1>5. ASSUME NEW b \in AltBlocks, AltHeader(b) PROVE Flow /\ Moves
  <2>1. b \in Blocks /\ Delay(b) = AltDelay
    BY <1>3 DEF Blocks, Delay
  <2>2. mem.top - Height[b] > Delay(b)
    BY <2>1, <1>3, <1>5, NotShallow DEF AltHeader
  <2>3. CASE ~canon[b] /\ blocks' = [blocks EXCEPT ![b] = Invalidated(blocks[b])] /\ Continue(b)
    BY <2>1, <2>2, <2>3, <1>1, DropMoves, ContinueFlow
  <2>4. CASE canon[b] /\ pc' = "byHash" /\ mem' = [mem EXCEPT !.cur = b] /\ blocks' = blocks
    BY <2>1, <2>2, <2>4, <1>2, TakeFlow
  <2>5. CASE pc' = "byHeight" /\ mem' = [mem EXCEPT !.cur = b] /\ blocks' = blocks
    BY <2>1, <2>2, <2>5, <1>2, TakeFlow
  <2> QED
    BY <1>5, <2>3, <2>4, <2>5 DEF AltHeader, OrphanResponse
<1>6. ASSUME AltByHeight PROVE Flow /\ Moves
  <2>1. pc = "byHeight" /\ Continue(mem.cur)
    BY <1>6 DEF AltByHeight
  <2>2. mem.cur \in Blocks /\ mem.top - Height[mem.cur] > Delay(mem.cur)
    BY <2>1 DEF BaseInv, MemOK, CurIsDeep
  <2>3. CASE ~canon[mem.cur] /\ blocks' = [blocks EXCEPT ![mem.cur] = Invalidated(blocks[mem.cur])]
    BY <2>1, <2>2, <2>3, <1>1, DropMoves, ContinueFlow
  <2>4. CASE blocks' = blocks
    BY <2>1, <2>4, <1>2, ContinueFlow
  <2> QED
    BY <1>6, <2>3, <2>4 DEF AltByHeight
<1> QED
  BY <1>4, <1>5, <1>6

\* Steps of the payout.
LEMMA PaySteps ==
    ASSUME Standing, BaseInv,
           \/ HeaderByHash \/ SumBefore \/ LoadRows \/ Resolved \/ CreditBalances \/ SumAfter
           \/ \E a \in Accounts : ResolveBalance(a)
    PROVE  Flow /\ Moves
<1>0. MemOK /\ TablesOK /\ DOMAIN mem = MemFields
  BY DEF BaseInv, MemOK
<1>1. top' = top /\ canon' = canon /\ rows' = rows /\ pc \in Payers
  BY DEF HeaderByHash, SumBefore, LoadRows, Resolved, CreditBalances, SumAfter, ResolveBalance,
         sql, chain, history, Payers
<1>2. blocks' = blocks /\ credits' = credits => Moves
  BY <1>0, <1>1, SameMoves DEF TablesOK
<1>3. mem.cur \in Blocks
  BY <1>1 DEF BaseInv, MemOK
<1>4. ASSUME \/ HeaderByHash \/ SumBefore \/ LoadRows \/ Resolved
             \/ \E a \in Accounts : ResolveBalance(a)
      PROVE  Flow /\ Moves
  <2>1. blocks' = blocks /\ credits' = credits
    BY <1>4 DEF HeaderByHash, SumBefore, LoadRows, Resolved, ResolveBalance, history
  <2>2. \/ Continue(mem.cur) \/ EndCycle
        \/ /\ pc' \in Payers \ {"sumAfter"}
           /\ \/ mem' = mem
              \/ mem' = [mem EXCEPT !.sum = BalanceSum]
              \/ mem' = [mem EXCEPT !.split = rows[mem.cur]]
    BY <1>4 DEF HeaderByHash, SumBefore, LoadRows, Resolved, ResolveBalance, FullStop, Payers
  <2>3. CASE /\ pc' \in Payers \ {"sumAfter"}
             /\ \/ mem' = mem
                \/ mem' = [mem EXCEPT !.sum = BalanceSum]
                \/ mem' = [mem EXCEPT !.split = rows[mem.cur]]
    <3>1. /\ DOMAIN mem' = MemFields /\ mem'.cur = mem.cur /\ mem'.list = mem.list
          /\ mem'.top = mem.top /\ mem'.alt = mem.alt /\ mem'.waiting = mem.waiting
          /\ mem'.group = mem.group
      BY <2>3, <1>0 DEF MemFields
    <3> QED
      BY <3>1, <2>1, <2>3, <1>1, <1>2, PayFlow
  <2> QED
    BY <2>1, <2>2, <2>3, <1>2, ContinueFlow, EndFlow
<1>5. ASSUME CreditBalances PROVE Flow /\ Moves
  <2>1. blocks' = blocks /\ \/ Continue(mem.cur)
                            \/ pc' = "sumAfter" /\ mem' = mem /\ mem.cur \in paid'
    BY <1>5 DEF CreditBalances, ApplyCredits
  <2>2. Flow
    BY <2>1, <1>0, <1>1, ContinueFlow, PayFlow DEF Payers
  <2>3. credits' = credits \/ credits' = [credits EXCEPT ![mem.cur] = @ + TotalOf(CreditNow)]
    BY <1>5 DEF CreditBalances, ApplyCredits
  <2>4. /\ DOMAIN credits' = Blocks
        /\ \A b \in Blocks : credits'[b] = credits[b] \/ (b = mem.cur /\ pc \in Payers)
    BY <2>3, <1>0, <1>1, <1>3 DEF TablesOK
  <2> QED
    BY <2>1, <2>2, <2>4, <1>0, <1>1 DEF Moves, TablesOK
<1>6. ASSUME SumAfter PROVE Flow /\ Moves
  <2>1. /\ credits' = credits /\ Continue(mem.cur)
        /\ blocks' = blocks \/ blocks' = [blocks EXCEPT ![mem.cur].unlocked = TRUE]
    BY <1>6 DEF SumAfter, FullStop, history
  <2> DEFINE rec == [blocks[mem.cur] EXCEPT !.unlocked = TRUE]
  <2>2. blocks[mem.cur] \in BlockRecord /\ TRUE \in BOOLEAN
    BY <1>0, <1>3 DEF TablesOK
  <2>3. rec \in BlockRecord /\ rec.known = blocks[mem.cur].known /\ rec.valid = blocks[mem.cur].valid
    BY <2>2, UnlockedRecord, Zenon
  <2>4. CASE blocks' = [blocks EXCEPT ![mem.cur] = rec]
    <3> HIDE DEF rec
    <3> QED
      BY <2>1, <2>3, <2>4, <1>0, <1>1, <1>3, EditMoves, ContinueFlow DEF TablesOK
  <2> QED
    BY <2>1, <2>4, <1>2, ContinueFlow
<1> QED
  BY <1>4, <1>5, <1>6


\* What a script may do to a record.
Scripted(old, new) ==
    /\ new \in BlockRecord /\ new.known = old.known
    /\ new.valid = old.valid \/ (new.valid /\ "revalidate" \in Ops)
    /\ new.pay_ready => old.pay_ready
    /\ new.unlocked => old.unlocked \/ "unpaid" \in Ops

LEMMA EditFields ==
    ASSUME NEW rec \in BlockRecord, NEW v \in BOOLEAN, NEW u \in BOOLEAN, NEW n \in Amounts,
           u => rec.unlocked \/ "unpaid" \in Ops, NEW new,
           \/ new = [rec EXCEPT !.pay_value = n]
           \/ new = [rec EXCEPT !.value = n]
           \/ new = [rec EXCEPT !.pay_value = n, !.unlocked = u]
           \/ new = [rec EXCEPT !.unlocked = u]
           \/ new = [rec EXCEPT !.valid = v, !.unlocked = u] /\ v /\ "revalidate" \in Ops
           \/ new = [rec EXCEPT !.pay_ready = v] /\ (v => rec.pay_ready)
    PROVE  Scripted(rec, new)
<1>1. new \in BlockRecord
  <2>1. CASE new = [rec EXCEPT !.pay_value = n]
    BY <2>1, RecordEdits, Zenon
  <2>2. CASE new = [rec EXCEPT !.value = n]
    BY <2>2, RecordEdits, Zenon
  <2>3. CASE new = [rec EXCEPT !.pay_value = n, !.unlocked = u]
    BY <2>3, RecordEdits, Zenon
  <2>4. CASE new = [rec EXCEPT !.unlocked = u]
    BY <2>4, RecordEdits, Zenon
  <2>5. CASE new = [rec EXCEPT !.valid = v, !.unlocked = u]
    BY <2>5, RecordEdits, Zenon
  <2>6. CASE new = [rec EXCEPT !.pay_ready = v]
    BY <2>6, RecordEdits, Zenon
  <2> QED
    BY <2>1, <2>2, <2>3, <2>4, <2>5, <2>6
<1>2. DOMAIN rec = {"known", "valid", "unlocked", "pay_ready", "value", "pay_value"}
  BY RecordFields
<1>3. new.known = rec.known
  BY <1>2
<1>4. new.valid = rec.valid \/ (new.valid /\ "revalidate" \in Ops)
  BY <1>2
<1>5. new.pay_ready => rec.pay_ready
  BY <1>2
<1>6. new.unlocked = rec.unlocked \/ new.unlocked = u
  BY <1>2
<1> QED
  BY <1>1, <1>3, <1>4, <1>5, <1>6 DEF Scripted

\* One record is edited by a script.
ScriptStep(b, new) ==
    /\ b \in Blocks /\ blocks[b].known /\ Scripted(blocks[b], new)
    /\ blocks' = [blocks EXCEPT ![b] = new]
    /\ UNCHANGED <<process, sql, chain, clean, faults, history>>
\* A balance is debited or deleted.
AccountStep == UNCHANGED <<process, blocks, rows, paid, chain, clean, faults, credits>>

LEMMA OthersSteps ==
    ASSUME BlocksAssumption, blocks \in [Blocks -> BlockRecord], Others
    PROVE  AccountStep \/ \E b, new : ScriptStep(b, new)
<1>0. /\ TRUE \in BOOLEAN /\ FALSE \in BOOLEAN /\ 0 \in Amounts
      /\ MainBlocks \subseteq Blocks /\ AltBlocks \subseteq Blocks
      /\ \A v \in PayValues : v \in Amounts
      /\ \A b \in Blocks : blocks[b] \in BlockRecord
  BY DEF Amounts, Blocks
<1>1. ASSUME NEW b \in Blocks PROVE Reward[b] \in Amounts
  BY DEF Amounts, Range, BlocksAssumption
<1>2. ASSUME NEW op, NEW b \in Blocks, NEW new, Edit(op, b, new), Scripted(blocks[b], new)
      PROVE  \E x, y : ScriptStep(x, y)
  <2>1. ScriptStep(b, new)
    BY <1>2, Zenon DEF Edit, ScriptStep
  <2> QED
    BY <2>1
<1>3. ASSUME NEW b \in AltBlocks, NEW v \in PayValues, Exchanged(b, v)
      PROVE  \E x, y : ScriptStep(x, y)
  <2>1. Scripted(blocks[b], [blocks[b] EXCEPT !.pay_value = v])
    BY <1>0, EditFields, Zenon
  <2> QED
    BY <2>1, <1>0, <1>2, <1>3, Zenon DEF Exchanged
<1>4. ASSUME NEW b \in AltBlocks, NEW v \in PayValues, PaySet(b, v)
      PROVE  \E x, y : ScriptStep(x, y)
  <2>1. Scripted(blocks[b], [blocks[b] EXCEPT !.pay_value = v, !.unlocked = FALSE])
    BY <1>0, EditFields, Zenon
  <2> QED
    BY <2>1, <1>0, <1>2, <1>4, Zenon DEF PaySet
<1>5. ASSUME NEW b \in Blocks, MarkUnpaid(b)
      PROVE  \E x, y : ScriptStep(x, y)
  <2>1. "unpaid" \in Ops
    BY <1>5, Zenon DEF MarkUnpaid, Edit
  <2>2. Scripted(blocks[b], [blocks[b] EXCEPT !.unlocked = TRUE])
    BY <2>1, <1>0, EditFields, Zenon
  <2> QED
    BY <2>2, <1>0, <1>2, <1>5, Zenon DEF MarkUnpaid
<1>6. ASSUME NEW b \in Blocks, RewardFix(b)
      PROVE  \E x, y : ScriptStep(x, y)
  <2>1. Scripted(blocks[b], [blocks[b] EXCEPT !.value = Reward[b]])
    BY <1>0, <1>1, EditFields, Zenon
  <2> QED
    BY <2>1, <1>2, <1>6, Zenon DEF RewardFix
<1>7. ASSUME NEW b \in MainBlocks, Relock(b)
      PROVE  \E x, y : ScriptStep(x, y)
  <2>1. Scripted(blocks[b], [blocks[b] EXCEPT !.unlocked = FALSE])
    BY <1>0, EditFields, Zenon
  <2> QED
    BY <2>1, <1>0, <1>2, <1>7, Zenon DEF Relock
<1>8. ASSUME NEW b \in AltBlocks, Revalidate(b)
      PROVE  \E x, y : ScriptStep(x, y)
  <2>1. "revalidate" \in Ops
    BY <1>8, Zenon DEF Revalidate, Edit
  <2>2. Scripted(blocks[b], [blocks[b] EXCEPT !.valid = TRUE, !.unlocked = FALSE])
    BY <2>1, <1>0, EditFields, Zenon
  <2> QED
    BY <2>2, <1>0, <1>2, <1>8, Zenon DEF Revalidate
<1>9. ASSUME NEW b \in AltBlocks, ReadyReset(b)
      PROVE  \E x, y : ScriptStep(x, y)
  <2>1. Scripted(blocks[b], [blocks[b] EXCEPT !.pay_ready = FALSE])
    BY <1>0, EditFields, Zenon
  <2> QED
    BY <2>1, <1>0, <1>2, <1>9, Zenon DEF ReadyReset
<1>10. ASSUME NEW a \in Accounts, DeleteUser(a) \/ \E n \in 1..acct[a].amount : Debit(a, n)
       PROVE  AccountStep
  BY <1>10, Zenon DEF DeleteUser, Debit, AccountStep
<1> QED
  BY <1>3, <1>4, <1>5, <1>6, <1>7, <1>8, <1>9, <1>10, Zenon DEF Others

\* Steps of the chain, the ingest, the operator, the payouts and the cleaner.
LEMMA OtherSteps ==
    ASSUME Standing, BaseInv, Environment \/ Others \/ Cleaner
    PROVE  Flow /\ Moves
<1>0. MemOK /\ TablesOK
  BY DEF BaseInv
<1>1. pc' = pc /\ mem' = mem /\ paid' = paid
  BY DEF Environment, Others, Cleaner, NewTop, Reorg, Found, Exchanged, PaySet, MarkUnpaid,
         RewardFix, Relock, Revalidate, ReadyReset, Edit, DeleteUser, Debit, CollectLocked,
         QueryRecent, QueryDistinct, DeleteStale, CleanerSame, process, sql
<1>2. Flow
  BY <1>1, QuietFlow
<1>3. ASSUME NewTop PROVE Moves
  <2>1. /\ top' = top + 1 /\ canon' = canon /\ blocks' = blocks /\ rows' = rows
        /\ credits' = credits
    BY <1>3 DEF NewTop, sql, history
  <2> QED
    BY <2>1, <1>0 DEF Moves, TablesOK
<1>4. ASSUME NEW b \in Blocks, Reorg(b) PROVE Moves
  <2>1. /\ top' = top /\ canon' = [canon EXCEPT ![b] = ~@] /\ blocks' = blocks /\ rows' = rows
        /\ credits' = credits
    BY <1>4 DEF Reorg, sql, history
  <2>2. Height[b] \in Nat /\ ReorgDepth \in Nat /\ top \in Nat
    BY <1>0 DEF Standing, BlocksAssumption, DelaysAssumption, TablesOK
  <2>3. ~Final(b)
    BY <2>2, <1>4 DEF Reorg, Final
  <2>4. /\ canon' \in [Blocks -> BOOLEAN]
        /\ \A o \in Blocks \ {b} : canon'[o] = canon[o]
    BY <2>1, <1>0 DEF TablesOK
  <2> QED
    BY <2>1, <2>3, <2>4, <1>0 DEF Moves, TablesOK
<1>5. ASSUME NEW b \in Blocks, NEW v \in Amounts, Found(b, v) PROVE Moves
  <2> DEFINE rec == [Absent EXCEPT !.known = TRUE, !.valid = TRUE, !.value = v]
  <2>1. /\ top' = top /\ canon' = canon /\ credits' = credits /\ rows' = rows
        /\ blocks' = [blocks EXCEPT ![b] = rec]
    BY <1>5 DEF Found, sql, chain, history
  <2>2. rec \in BlockRecord /\ rec.valid = TRUE
    BY FoundRecord
  <2> HIDE DEF rec
  <2> QED
    BY <2>1, <2>2, <1>0, EditMoves DEF TablesOK
<1>6. ASSUME Others PROVE Moves
  <2>1. CASE AccountStep
    <3>1. /\ top' = top /\ canon' = canon /\ credits' = credits /\ rows' = rows /\ blocks' = blocks
      BY <2>1 DEF AccountStep, chain
    <3> QED
      BY <3>1, <1>0, SameMoves DEF TablesOK
  <2>2. ASSUME NEW b, NEW new, ScriptStep(b, new) PROVE Moves
    <3>1. /\ top' = top /\ canon' = canon /\ credits' = credits /\ rows' = rows
          /\ blocks' = [blocks EXCEPT ![b] = new] /\ b \in Blocks /\ Scripted(blocks[b], new)
      BY <2>2 DEF ScriptStep, sql, chain, history
    <3>2. new \in BlockRecord /\ (new.valid = blocks[b].valid \/ new.valid) /\ new.known = blocks[b].known
      BY <3>1 DEF Scripted
    <3> QED
      BY <3>1, <3>2, <1>0, EditMoves DEF TablesOK
  <2> QED
    BY <1>0, <1>6, <2>1, <2>2, OthersSteps DEF TablesOK, Standing
<1>7. ASSUME Cleaner PROVE Moves
  <2>1. /\ top' = top /\ canon' = canon /\ credits' = credits /\ blocks' = blocks
    BY <1>7 DEF Cleaner, CollectLocked, QueryRecent, QueryDistinct, DeleteStale, CleanerSame,
                chain, history
  <2>2. rows' = rows \/ rows' = [b \in Blocks |-> IF b \in clean.stale THEN NoRows ELSE rows[b]]
    BY <1>7 DEF Cleaner, CollectLocked, QueryRecent, QueryDistinct, DeleteStale
  <2> QED
    BY <2>1, <2>2, <1>0, SameMoves DEF TablesOK
<1> QED
  BY <1>2, <1>3, <1>4, <1>5, <1>6, <1>7 DEF Environment

LEMMA ChainStarts ==
    ASSUME Init PROVE BaseInv /\ ChainInv
<1>0. 0 \in Amounts
  BY DEF Amounts
<1>1. Absent \in BlockRecord /\ ~Absent.known
  BY <1>0 DEF Absent, BlockRecord
<1>2. pc = "down" /\ mem = NoMem /\ top = 0 /\ blocks = [b \in Blocks |-> Absent]
  BY DEF Init
<1>3. MemOK
  <2>1. mem.alt \in BOOLEAN
    BY <1>2, NoMemFields, Zenon
  <2> QED
    BY <1>2, <2>1, NoMemFields DEF MemOK, Payers
<1>4. canon \in [Blocks -> BOOLEAN]
  <2>1. TRUE \in BOOLEAN
    OBVIOUS
  <2>2. ASSUME NEW t \in BOOLEAN PROVE [b \in Blocks |-> t] \in [Blocks -> BOOLEAN]
    OBVIOUS
  <2> QED
    BY <2>1, <2>2, Zenon DEF Init
<1>5. TablesOK
  BY <1>1, <1>2, <1>4 DEF Init, TablesOK
<1>6. TopReached /\ CurIsDeep /\ CurOnChain /\ CurIsPaid
  BY <1>2, NoMemFields DEF TopReached, CurIsDeep, CurOnChain, CurIsPaid, Payers
<1>7. DroppedForGood
  BY <1>1, <1>2 DEF DroppedForGood
<1>8. PaidForGood
  BY DEF Init, PaidForGood
<1> QED
  BY <1>3, <1>5, <1>6, <1>7, <1>8 DEF BaseInv, ChainInv

LEMMA StepMoves ==
    ASSUME Standing, BaseInv, [Next]_vars
    PROVE  Flow /\ Moves
<1>1. CASE Next
  BY <1>1, ControlSteps, PrecalcSteps, HeaderSteps, PaySteps, OtherSteps DEF Next, Cycle
<1>2. CASE UNCHANGED vars
  <2>1. /\ pc' = pc /\ mem' = mem /\ paid' = paid /\ top' = top /\ canon' = canon
        /\ credits' = credits /\ blocks' = blocks /\ rows' = rows
    BY <1>2 DEF vars, process, sql, chain, history
  <2>2. DOMAIN rows' = Blocks
    BY <2>1 DEF BaseInv, TablesOK
  <2> QED
    BY <2>1, <2>2, QuietFlow, SameMoves
<1> QED
  BY <1>1, <1>2

LEMMA BaseInvariance ==
    Spec => []BaseInv
<1>0. Standing
  BY BlocksAssumption, DelaysAssumption DEF Standing
<1>1. Init => BaseInv
  BY ChainStarts
<1>2. BaseInv /\ [Next]_vars => BaseInv'
  BY <1>0, StepMoves, BaseKeeps
<1> QED
  BY <1>1, <1>2, PTL DEF Spec

\* The chain invariant holds.
LEMMA ChainInvariance ==
    ASSUME DelaysOutlastReorgs
    PROVE  Spec => []ChainInv
<1>0. Standing
  BY BlocksAssumption, DelaysAssumption DEF Standing
<1>1. Init => ChainInv
  BY ChainStarts
<1>2. BaseInv /\ ChainInv /\ [Next]_vars => ChainInv'
  BY <1>0, StepMoves, ChainKeeps
<1> QED
  BY <1>1, <1>2, BaseInvariance, PTL DEF Spec

\* Where the delays are at least as long as a reorganisation, no block is ever
\* credited that is or becomes orphaned.
THEOREM PaidOnMainChainHolds ==
    ASSUME DelaysOutlastReorgs
    PROVE  Spec => []PaidOnMainChain
<1>1. ChainInv => PaidOnMainChain
  BY DEF ChainInv, PaidForGood, PaidOnMainChain
<1> QED
  BY <1>1, ChainInvariance, PTL

\* Under the same condition no record of a block on its chain is invalidated.
THEOREM OnlyOrphansDroppedHolds ==
    ASSUME DelaysOutlastReorgs
    PROVE  Spec => []OnlyOrphansDropped
<1>1. ChainInv => OnlyOrphansDropped
  BY DEF ChainInv, DroppedForGood, OnlyOrphansDropped
<1> QED
  BY <1>1, ChainInvariance, PTL

\* What the process itself does to a record.
LEMMA CycleEdits ==
    ASSUME BaseInv, Start \/ Stop \/ Crash \/ Cycle
    PROVE  \/ blocks' = blocks
           \/ \E b \in Blocks : \/ blocks' = [blocks EXCEPT ![b] = Invalidated(blocks[b])]
                                \/ blocks' = [blocks EXCEPT ![b] = Ready(blocks[b])]
           \/ /\ mem.cur \in Blocks /\ mem.cur \in paid
              /\ blocks' = [blocks EXCEPT ![mem.cur].unlocked = TRUE]
<1>0. MainBlocks \subseteq Blocks /\ AltBlocks \subseteq Blocks
  BY DEF Blocks
<1>1. ASSUME \/ Start \/ Stop \/ Crash \/ RunCycle \/ GetTopBlockHeight
             \/ MainDone \/ AltDone \/ AnchorsDone
             \/ \E b \in MainBlocks : SkipMain(b)
             \/ \E b \in AltBlocks : SkipAlt(b) \/ AnchorHeader(b)
             \/ PrecalcDelete \/ PrecalcInsert \/ HeaderByHash
             \/ SumBefore \/ LoadRows \/ Resolved \/ CreditBalances
             \/ \E a \in Accounts : ResolveBalance(a)
      PROVE  blocks' = blocks
  BY <1>1 DEF Start, Stop, Crash, Gone, RunCycle, GetTopBlockHeight, MainDone, AltDone,
              AnchorsDone, SkipMain, SkipAlt, AnchorHeader, PrecalcDelete, PrecalcInsert,
              HeaderByHash, SumBefore, LoadRows, Resolved, CreditBalances, ResolveBalance
<1>2. ASSUME \/ \E b \in MainBlocks : HeaderByHeight(b)
             \/ \E b \in AltBlocks : AltHeader(b)
      PROVE  \/ blocks' = blocks
             \/ \E b \in Blocks : blocks' = [blocks EXCEPT ![b] = Invalidated(blocks[b])]
  BY <1>0, <1>2 DEF HeaderByHeight, AltHeader
<1>3. ASSUME AltByHeight
      PROVE  \/ blocks' = blocks
             \/ \E b \in Blocks : blocks' = [blocks EXCEPT ![b] = Invalidated(blocks[b])]
  <2>1. pc = "byHeight"
    BY <1>3 DEF AltByHeight
  <2>2. mem.cur \in Blocks
    BY <2>1 DEF BaseInv, MemOK
  <2> QED
    BY <2>2, <1>3 DEF AltByHeight
<1>4. ASSUME NEW b \in Blocks, MarkReady(b)
      PROVE  blocks' = [blocks EXCEPT ![b] = Ready(blocks[b])]
  BY <1>4 DEF MarkReady
<1>5. ASSUME SumAfter
      PROVE  \/ blocks' = blocks
             \/ /\ mem.cur \in Blocks /\ mem.cur \in paid
                /\ blocks' = [blocks EXCEPT ![mem.cur].unlocked = TRUE]
  <2>1. pc = "sumAfter"
    BY <1>5 DEF SumAfter
  <2>2. mem.cur \in Blocks /\ mem.cur \in paid
    BY <2>1 DEF BaseInv, MemOK, CurIsPaid, Payers
  <2> QED
    BY <2>2, <1>5 DEF SumAfter
<1> QED
  BY <1>1, <1>2, <1>3, <1>4, <1>5 DEF Cycle

\* The block manager unlocks a valid record only when paid_blocks holds the
\* block, although the record may have been edited since it was listed.
THEOREM UnlockedIsPaidHolds ==
    Spec => UnlockedIsPaid
<1>1. ASSUME BaseInv, [Next]_vars
      PROVE  [\A b \in Blocks :
                process' # process /\ blocks'[b].unlocked /\ ~blocks[b].unlocked
                /\ blocks'[b].valid => b \in paid]_vars
  <2> SUFFICES ASSUME NEW b \in Blocks, process' # process, blocks'[b].unlocked,
                      ~blocks[b].unlocked, blocks'[b].valid
               PROVE  b \in paid
    OBVIOUS
  <2>1. ~UNCHANGED vars
    BY DEF vars
  <2>2. ~(Environment \/ Others \/ Cleaner)
    BY DEF Environment, Others, Cleaner, NewTop, Reorg, Found, Exchanged, PaySet, MarkUnpaid,
           RewardFix, Relock, Revalidate, ReadyReset, Edit, DeleteUser, Debit, CollectLocked,
           QueryRecent, QueryDistinct, DeleteStale, CleanerSame
  <2>3. blocks \in [Blocks -> BlockRecord]
    BY <1>1 DEF BaseInv, TablesOK
  <2>4. /\ blocks[b].unlocked \in BOOLEAN
        /\ \A o \in Blocks : blocks[o] \in BlockRecord
    BY <2>3, RecordFields
  <2>5. ASSUME NEW o \in Blocks, blocks' = [blocks EXCEPT ![o] = Invalidated(blocks[o])]
        PROVE  FALSE
    BY <2>3, <2>4, <2>5, InvalidatedRecord
  <2>6. ASSUME NEW o \in Blocks, blocks' = [blocks EXCEPT ![o] = Ready(blocks[o])]
        PROVE  FALSE
    BY <2>3, <2>4, <2>6, ReadyRecord
  <2>7. ASSUME mem.cur \in paid, blocks' = [blocks EXCEPT ![mem.cur].unlocked = TRUE]
        PROVE  b \in paid
    BY <2>3, <2>7
  <2> QED
    BY <1>1, <2>1, <2>2, <2>5, <2>6, <2>7, CycleEdits DEF Next
<1> QED
  BY <1>1, BaseInvariance, PTL DEF Spec, UnlockedIsPaid
-----------------------------------------------------------------------------
(* Sums over finite sets *)

\* Induction over finite sets: a set of finite sets has a member without a smaller one.
LEMMA Smallest ==
    ASSUME NEW S, IsFiniteSet(S), NEW B, B \subseteq SUBSET S, B # {}
    PROVE  \E s \in B : \A t \in B : t \subseteq s => t = s
  <1>1. IsWellFoundedOn(StrictSubsetOrdering(S), FiniteSubsetsOf(S))
    BY FS_StrictSubsetOrderingWellFounded
  <1>2. B \subseteq FiniteSubsetsOf(S)
    BY FS_Subset DEF FiniteSubsetsOf
  <1>3. PICK s \in B : \A t \in B : ~ (<<t, s>> \in StrictSubsetOrdering(S))
    BY <1>1, <1>2, WFMin
  <1>4. \A t \in B : t \subseteq s => t = s
    <2> TAKE t \in B
    <2>1. t \in SUBSET S /\ s \in SUBSET S /\ ~ (<<t, s>> \in StrictSubsetOrdering(S))
      BY <1>3
    <2> QED BY <2>1 DEF StrictSubsetOrdering
  <1> QED BY <1>4

Sum(f, S) == SumFunctionOnSet(f, S)
Some(s) == CHOOSE x \in s : TRUE
Step(f, g, s) == IF s = {} THEN 0 ELSE f[Some(s)] + g[s \ {Some(s)}]
Rec(f, S, g) == g = [s \in SUBSET S |-> Step(f, g, s)]

LEMMA SumIs ==
    ASSUME NEW f, NEW S
    PROVE  Sum(f, S) = (CHOOSE g : Rec(f, S, g))[S]
  BY DEF Sum, SumFunctionOnSet, FoldFunctionOnSet, MapThenFoldSet, Step, Rec, Some

LEMMA SomeIn ==
    ASSUME NEW s, s # {}
    PROVE  Some(s) \in s
  BY DEF Some

LEMMA RecUnique ==
    ASSUME NEW f, NEW S, IsFiniteSet(S), NEW T, NEW g, Rec(f, S, g), NEW h, Rec(f, T, h),
           NEW u, u \subseteq S, u \subseteq T
    PROVE  g[u] = h[u]
  <1> DEFINE B == {v \in SUBSET S : v \subseteq T /\ g[v] # h[v]}
  <1>1. SUFFICES ASSUME B # {} PROVE FALSE
    OBVIOUS
  <1>2. PICK v \in B : \A t \in B : t \subseteq v => t = v
    <2>1. B \subseteq SUBSET S
      OBVIOUS
    <2> HIDE DEF B
    <2> QED BY <1>1, <2>1, Smallest
  <1>3. g[v] = Step(f, g, v) /\ h[v] = Step(f, h, v)
    BY <1>2 DEF Rec
  <1>4. v # {}
    BY <1>2, <1>3 DEF Step
  <1>5. Some(v) \in v
    BY <1>4, SomeIn
  <1>6. v \ {Some(v)} \notin B
    BY <1>2, <1>5
  <1>7. g[v \ {Some(v)}] = h[v \ {Some(v)}]
    BY <1>2, <1>6
  <1> QED BY <1>2, <1>3, <1>7 DEF Step

LEMMA RecExists ==
    ASSUME NEW f, NEW S, IsFiniteSet(S)
    PROVE  \E g : Rec(f, S, g)
  <1> DEFINE B == {v \in SUBSET S : ~ \E g : Rec(f, v, g)}
  <1>1. SUFFICES ASSUME B # {} PROVE FALSE
    OBVIOUS
  <1>2. PICK v \in B : \A t \in B : t \subseteq v => t = v
    <2>1. B \subseteq SUBSET S
      OBVIOUS
    <2> HIDE DEF B
    <2> QED BY <1>1, <2>1, Smallest
  <1> DEFINE h(t) == CHOOSE g : Rec(f, t, g)
             G == [t \in SUBSET v |-> IF t = {} THEN 0
                                      ELSE f[Some(t)] + h(t \ {Some(t)})[t \ {Some(t)}]]
  <1>3. ASSUME NEW t, t \subseteq v, t # v
        PROVE  Rec(f, t, h(t))
    <2>1. t \notin B /\ t \in SUBSET S
      BY <1>2, <1>3
    <2>2. \E g : Rec(f, t, g)
      BY <2>1
    <2> QED BY <2>2
  <1>4. ASSUME NEW t, t \subseteq v, t # v
        PROVE  G[t] = h(t)[t]
    <2>1. h(t)[t] = Step(f, h(t), t)
      <3>1. Rec(f, t, h(t))
        BY <1>3, <1>4
      <3> HIDE DEF h
      <3> QED BY <3>1 DEF Rec
    <2>2. CASE t = {}
      BY <2>1, <2>2 DEF Step
    <2>3. CASE t # {}
      <3>1. Some(t) \in t
        BY <2>3, SomeIn
      <3>2. Rec(f, t, h(t)) /\ Rec(f, t \ {Some(t)}, h(t \ {Some(t)}))
        BY <1>3, <1>4, <3>1
      <3>3. IsFiniteSet(t)
        BY <1>2, <1>4, FS_Subset
      <3> HIDE DEF h
      <3>4. h(t)[t \ {Some(t)}] = h(t \ {Some(t)})[t \ {Some(t)}]
        BY <3>2, <3>3, RecUnique
      <3> QED BY <1>4, <2>1, <2>3, <3>4 DEF Step
    <2> QED BY <2>2, <2>3
  <1>5. ASSUME NEW t, t \subseteq v
        PROVE  G[t] = Step(f, G, t)
    <2>1. CASE t = {}
      BY <1>5, <2>1 DEF Step
    <2>2. CASE t # {}
      <3>1. Some(t) \in t
        BY <2>2, SomeIn
      <3>2. G[t \ {Some(t)}] = h(t \ {Some(t)})[t \ {Some(t)}]
        <4>1. t \ {Some(t)} \subseteq v /\ t \ {Some(t)} # v
          BY <1>5, <3>1
        <4> QED BY <1>4, <4>1
      <3>3. G[t] = f[Some(t)] + h(t \ {Some(t)})[t \ {Some(t)}]
        BY <1>5, <2>2
      <3> HIDE DEF h, G
      <3> QED BY <2>2, <3>2, <3>3 DEF Step
    <2> QED BY <2>1, <2>2
  <1>6. Rec(f, v, G)
    <2>1. G = [t \in SUBSET v |-> G[t]]
      OBVIOUS
    <2> HIDE DEF G
    <2> QED BY <1>5, <2>1 DEF Rec
  <1> QED BY <1>2, <1>6

LEMMA SumUnfold ==
    ASSUME NEW f, NEW S, IsFiniteSet(S)
    PROVE  Sum(f, S) = IF S = {} THEN 0 ELSE f[Some(S)] + Sum(f, S \ {Some(S)})
  <1> DEFINE g == CHOOSE g : Rec(f, S, g)
             T == S \ {Some(S)}
             h == CHOOSE h : Rec(f, T, h)
  <1>1. IsFiniteSet(T)
    BY FS_Subset
  <1>2. Rec(f, S, g) /\ Rec(f, T, h)
    BY <1>1, RecExists
  <1>3. Sum(f, S) = g[S] /\ Sum(f, T) = h[T]
    BY SumIs
  <1> HIDE DEF g, h
  <1>4. g[S] = Step(f, g, S)
    BY <1>2 DEF Rec
  <1>5. g[T] = h[T]
    BY <1>2, RecUnique
  <1> QED BY <1>3, <1>4, <1>5 DEF Step

Summable(f, S) == IsFiniteSet(S) /\ \A x \in S : f[x] \in Nat

LEMMA SumEmpty ==
    ASSUME NEW f
    PROVE  Sum(f, {}) = 0
  BY SumUnfold, FS_EmptySet

LEMMA SumNat ==
    ASSUME NEW f, NEW S, Summable(f, S)
    PROVE  Sum(f, S) \in Nat
  <1> DEFINE B == {v \in SUBSET S : Sum(f, v) \notin Nat}
  <1>1. SUFFICES ASSUME B # {} PROVE FALSE
    OBVIOUS
  <1>2. PICK v \in B : \A t \in B : t \subseteq v => t = v
    <2>1. B \subseteq SUBSET S
      OBVIOUS
    <2> HIDE DEF B
    <2> QED BY <1>1, <2>1, Smallest DEF Summable
  <1>3. v \subseteq S /\ IsFiniteSet(v) /\ Sum(f, v) \notin Nat
    BY <1>2, FS_Subset DEF Summable
  <1>4. CASE v = {}
    BY <1>3, <1>4, SumEmpty
  <1>5. CASE v # {}
    <2>1. Some(v) \in v
      BY <1>5, SomeIn
    <2>2. v \ {Some(v)} \notin B
      BY <1>2, <2>1
    <2>3. Sum(f, v \ {Some(v)}) \in Nat /\ f[Some(v)] \in Nat
      BY <1>3, <2>1, <2>2 DEF Summable
    <2> QED BY <1>3, <1>5, <2>3, SumUnfold
  <1> QED BY <1>4, <1>5

LEMMA OverPart ==
    ASSUME NEW f, NEW S, Summable(f, S), NEW T, T \subseteq S
    PROVE  Summable(f, T)
  BY FS_Subset DEF Summable

LEMMA SumZero ==
    ASSUME NEW f, NEW S, IsFiniteSet(S), f = [x \in S |-> 0]
    PROVE  Sum(f, S) = 0
  <1> DEFINE B == {v \in SUBSET S : Sum(f, v) # 0}
  <1>1. SUFFICES ASSUME B # {} PROVE FALSE
    OBVIOUS
  <1>2. PICK v \in B : \A t \in B : t \subseteq v => t = v
    <2>1. B \subseteq SUBSET S
      OBVIOUS
    <2> HIDE DEF B
    <2> QED BY <1>1, <2>1, Smallest
  <1>3. v \subseteq S /\ IsFiniteSet(v) /\ Sum(f, v) # 0
    BY <1>2, FS_Subset
  <1>4. v # {}
    BY <1>3, SumEmpty
  <1>5. Some(v) \in v
    BY <1>4, SomeIn
  <1>6. v \ {Some(v)} \notin B
    BY <1>2, <1>5
  <1>7. Sum(f, v \ {Some(v)}) = 0 /\ f[Some(v)] = 0
    BY <1>3, <1>5, <1>6
  <1> QED BY <1>3, <1>4, <1>7, SumUnfold

\* Any element may be taken out first.
LEMMA SumWithout ==
    ASSUME NEW f, NEW S, Summable(f, S), NEW x \in S
    PROVE  Sum(f, S) = f[x] + Sum(f, S \ {x})
  <1> DEFINE Goal(v, y) == Sum(f, v) = f[y] + Sum(f, v \ {y})
             B == {v \in SUBSET S : \E y \in v : ~Goal(v, y)}
  <1>1. SUFFICES ASSUME B # {} PROVE FALSE
    OBVIOUS
  <1>2. PICK v \in B : \A t \in B : t \subseteq v => t = v
    <2>1. B \subseteq SUBSET S
      OBVIOUS
    <2> HIDE DEF B
    <2> QED BY <1>1, <2>1, Smallest DEF Summable
  <1>3. PICK y \in v : ~Goal(v, y)
    BY <1>2
  <1> DEFINE z == Some(v)
  <1>4. Summable(f, v) /\ v # {} /\ IsFiniteSet(v)
    BY <1>2, <1>3, OverPart DEF Summable
  <1>5. z \in v
    BY <1>4, SomeIn
  <1>6. Sum(f, v) = f[z] + Sum(f, v \ {z})
    BY <1>4, SumUnfold
  <1> HIDE DEF z
  <1>7. z # y
    BY <1>3, <1>6
  <1>8. Goal(v \ {z}, y) /\ Goal(v \ {y}, z)
    <2>1. v \ {z} \notin B /\ v \ {y} \notin B /\ v \ {z} \in SUBSET S /\ v \ {y} \in SUBSET S
      BY <1>2, <1>3, <1>5
    <2>2. y \in v \ {z} /\ z \in v \ {y}
      BY <1>3, <1>5, <1>7
    <2> QED BY <2>1, <2>2
  <1>9. (v \ {z}) \ {y} = (v \ {y}) \ {z}
    OBVIOUS
  <1> DEFINE u == (v \ {y}) \ {z}
  <1>10. Summable(f, u) /\ f[z] \in Nat /\ f[y] \in Nat
    BY <1>3, <1>4, <1>5, OverPart DEF Summable
  <1>11. Sum(f, u) \in Nat
    BY <1>10, SumNat
  <1>12. Sum(f, v \ {z}) = f[y] + Sum(f, u) /\ Sum(f, v \ {y}) = f[z] + Sum(f, u)
    BY <1>8, <1>9
  <1> HIDE DEF u
  <1> QED BY <1>3, <1>6, <1>10, <1>11, <1>12

LEMMA SumSame ==
    ASSUME NEW f, NEW g, NEW S, Summable(f, S), \A x \in S : g[x] = f[x]
    PROVE  Sum(g, S) = Sum(f, S)
  <1> DEFINE B == {v \in SUBSET S : Sum(g, v) # Sum(f, v)}
  <1>1. SUFFICES ASSUME B # {} PROVE FALSE
    OBVIOUS
  <1>2. PICK v \in B : \A t \in B : t \subseteq v => t = v
    <2>1. B \subseteq SUBSET S
      OBVIOUS
    <2> HIDE DEF B
    <2> QED BY <1>1, <2>1, Smallest DEF Summable
  <1>3. v \subseteq S /\ IsFiniteSet(v) /\ Sum(g, v) # Sum(f, v)
    BY <1>2, FS_Subset DEF Summable
  <1>4. CASE v = {}
    BY <1>3, <1>4, SumEmpty
  <1>5. CASE v # {}
    <2>1. Some(v) \in v
      BY <1>5, SomeIn
    <2>2. v \ {Some(v)} \notin B
      BY <1>2, <2>1
    <2>3. Sum(g, v \ {Some(v)}) = Sum(f, v \ {Some(v)}) /\ g[Some(v)] = f[Some(v)]
      BY <1>3, <2>1, <2>2
    <2> QED BY <1>3, <1>5, <2>3, SumUnfold
  <1> QED BY <1>4, <1>5

LEMMA SumAt ==
    ASSUME NEW f, NEW g, NEW S, Summable(f, S), Summable(g, S), NEW x \in S,
           \A y \in S : y # x => g[y] = f[y]
    PROVE  Sum(g, S) + f[x] = Sum(f, S) + g[x]
  <1>1. Sum(f, S) = f[x] + Sum(f, S \ {x}) /\ Sum(g, S) = g[x] + Sum(g, S \ {x})
    BY SumWithout
  <1>2. Summable(f, S \ {x})
    BY OverPart
  <1>3. Sum(g, S \ {x}) = Sum(f, S \ {x})
    BY <1>2, SumSame
  <1>4. Sum(f, S \ {x}) \in Nat /\ f[x] \in Nat /\ g[x] \in Nat
    BY <1>2, SumNat DEF Summable
  <1> QED BY <1>1, <1>3, <1>4

LEMMA SumPlus ==
    ASSUME NEW f, NEW g, NEW h, NEW S, Summable(f, S), Summable(g, S), Summable(h, S),
           \A x \in S : h[x] = f[x] + g[x]
    PROVE  Sum(h, S) = Sum(f, S) + Sum(g, S)
  <1> DEFINE B == {v \in SUBSET S : Sum(h, v) # Sum(f, v) + Sum(g, v)}
  <1>1. SUFFICES ASSUME B # {} PROVE FALSE
    OBVIOUS
  <1>2. PICK v \in B : \A t \in B : t \subseteq v => t = v
    <2>1. B \subseteq SUBSET S
      OBVIOUS
    <2> HIDE DEF B
    <2> QED BY <1>1, <2>1, Smallest DEF Summable
  <1>3. v \subseteq S /\ IsFiniteSet(v) /\ Sum(h, v) # Sum(f, v) + Sum(g, v)
    BY <1>2, FS_Subset DEF Summable
  <1>4. CASE v = {}
    BY <1>3, <1>4, SumEmpty
  <1>5. CASE v # {}
    <2> DEFINE x == Some(v)
               t == v \ {x}
    <2>1. x \in v
      BY <1>5, SomeIn
    <2>2. t \notin B
      BY <1>2, <2>1
    <2>3. Sum(h, t) = Sum(f, t) + Sum(g, t) /\ h[x] = f[x] + g[x]
      BY <1>3, <2>1, <2>2
    <2>4. f[x] \in Nat /\ g[x] \in Nat /\ Sum(f, t) \in Nat /\ Sum(g, t) \in Nat
      <3>1. Summable(f, t) /\ Summable(g, t)
        BY <1>3, OverPart
      <3> QED BY <1>3, <2>1, <3>1, SumNat DEF Summable
    <2>5. Sum(f, v) = f[x] + Sum(f, t) /\ Sum(g, v) = g[x] + Sum(g, t) /\ Sum(h, v) = h[x] + Sum(h, t)
      BY <1>3, <1>5, SumUnfold
    <2> HIDE DEF x, t
    <2> QED BY <1>3, <2>3, <2>4, <2>5
  <1> QED BY <1>4, <1>5

LEMMA SumScaled ==
    ASSUME NEW f, NEW g, NEW S, Summable(f, S), Summable(g, S), NEW k \in Nat, NEW r \in Nat,
           \A x \in S : k * g[x] <= f[x] * r
    PROVE  k * Sum(g, S) <= Sum(f, S) * r
  <1> DEFINE B == {v \in SUBSET S : ~(k * Sum(g, v) <= Sum(f, v) * r)}
  <1>1. SUFFICES ASSUME B # {} PROVE FALSE
    OBVIOUS
  <1>2. PICK v \in B : \A t \in B : t \subseteq v => t = v
    <2>1. B \subseteq SUBSET S
      OBVIOUS
    <2> HIDE DEF B
    <2> QED BY <1>1, <2>1, Smallest DEF Summable
  <1>3. v \subseteq S /\ IsFiniteSet(v) /\ ~(k * Sum(g, v) <= Sum(f, v) * r)
    BY <1>2, FS_Subset DEF Summable
  <1>4. CASE v = {}
    BY <1>3, <1>4, SumEmpty
  <1>5. CASE v # {}
    <2> DEFINE x == Some(v)
               t == v \ {x}
    <2>1. x \in v
      BY <1>5, SomeIn
    <2>2. t \notin B
      BY <1>2, <2>1
    <2>3. k * Sum(g, t) <= Sum(f, t) * r /\ k * g[x] <= f[x] * r
      BY <1>3, <2>1, <2>2
    <2>4. f[x] \in Nat /\ g[x] \in Nat /\ Sum(f, t) \in Nat /\ Sum(g, t) \in Nat
      <3>1. Summable(f, t) /\ Summable(g, t)
        BY <1>3, OverPart
      <3> QED BY <1>3, <2>1, <3>1, SumNat DEF Summable
    <2>5. Sum(f, v) = f[x] + Sum(f, t) /\ Sum(g, v) = g[x] + Sum(g, t)
      BY <1>3, <1>5, SumUnfold
    <2> HIDE DEF x, t
    <2>6. /\ k * (g[x] + Sum(g, t)) = k * g[x] + k * Sum(g, t)
          /\ (f[x] + Sum(f, t)) * r = f[x] * r + Sum(f, t) * r
      BY <2>4
    <2>7. /\ k * g[x] \in Int /\ k * Sum(g, t) \in Int
          /\ f[x] * r \in Int /\ Sum(f, t) * r \in Int
      BY <2>4
    <2> QED BY <1>3, <2>3, <2>5, <2>6, <2>7
  <1> QED BY <1>4, <1>5
-----------------------------------------------------------------------------
(* The credits *)

\* Rounded down one by one, the parts are not more than the whole.
LEMMA FloorIs ==
    ASSUME NEW n \in Nat, NEW w \in Nat \ {0}
    PROVE  n \div w \in Nat /\ w * (n \div w) <= n
OBVIOUS

LEMMA Cancelled ==
    ASSUME NEW n \in Nat, NEW r \in Nat, NEW w \in Nat \ {0}, w * n <= w * r
    PROVE  n <= r
OBVIOUS

LEMMA CreditTyped ==
    ASSUME NEW s \in Splits, NEW r \in Nat
    PROVE  /\ Credit(s, r) \in [Accounts -> Nat]
           /\ \A a \in Accounts : Window * Credit(s, r)[a] <= s[a] * r
<1>1. s \in [Accounts -> 0..Window] /\ Window \in Nat \ {0}
  BY AccountsAssumption DEF Splits
<1>2. ASSUME NEW a \in Accounts
      PROVE  (s[a] * r) \div Window \in Nat /\ Window * ((s[a] * r) \div Window) <= s[a] * r
  <2>1. s[a] * r \in Nat
    BY <1>1
  <2> QED
    BY <2>1, <1>1, FloorIs
<1> QED
  BY <1>2 DEF Credit

LEMMA TotalIs ==
    ASSUME NEW f PROVE TotalOf(f) = Sum(f, Accounts)
BY DEF TotalOf, Sum

LEMMA SummableIn ==
    ASSUME NEW f, NEW S, IsFiniteSet(S), f \in [S -> Nat]
    PROVE  Summable(f, S)
BY DEF Summable

\* The floors of a split do not exceed the reward.
LEMMA RoundedDown ==
    ASSUME NEW s \in Splits, NEW r \in Nat
    PROVE  TotalOf(Credit(s, r)) \in 0..r
<1>1. /\ s \in [Accounts -> 0..Window] /\ TotalOf(s) = Window /\ Window \in Nat \ {0}
      /\ IsFiniteSet(Accounts)
  BY AccountsAssumption DEF Splits
<1>2. s \in [Accounts -> Nat]
  BY <1>1
<1> DEFINE g == Credit(s, r)
<1>3. g \in [Accounts -> Nat] /\ \A a \in Accounts : Window * g[a] <= s[a] * r
  BY CreditTyped
<1> HIDE DEF g
<1>4. Summable(s, Accounts) /\ Summable(g, Accounts)
  BY <1>1, <1>2, <1>3, SummableIn
<1>5. Window * Sum(g, Accounts) <= Sum(s, Accounts) * r
  BY <1>1, <1>3, <1>4, SumScaled
<1>6. Sum(g, Accounts) \in Nat /\ Sum(s, Accounts) = Window
  BY <1>1, <1>4, SumNat, TotalIs
<1>7. Window * Sum(g, Accounts) <= Window * r
  BY <1>1, <1>5, <1>6
<1>8. Sum(g, Accounts) <= r
  BY <1>1, <1>6, <1>7, Cancelled
<1> QED
  BY <1>6, <1>8, TotalIs DEF g

\* What a step does to the block that is being paid.
Bill ==
    /\ \A b \in DOMAIN mem'.list :
          \/ b \in DOMAIN mem.list /\ mem'.list[b] = mem.list[b]
          \/ b \in Blocks /\ mem'.list[b] = blocks[b]
    /\ pc' \in Payers =>
          /\ mem'.list = mem.list
          /\ \/ pc' = "byHash" /\ mem'.cur \in DOMAIN mem.list
             \/ /\ pc \in Payers /\ mem'.cur = mem.cur
                /\ pc = "byHash" /\ pc' # "byHash" => HeaderMatches(mem.cur, mem.list[mem.cur])
    /\ pc' \in {"resolve", "credit"} =>
          \/ pc \in {"resolve", "credit"} /\ mem'.split = mem.split
          \/ /\ mem.cur \in Blocks /\ mem'.split = rows[mem.cur] /\ mem'.split # NoRows

\* What a step does to block_balance, paid_blocks and the balances.
Books ==
    /\ rows' \in [Blocks -> Splits \cup {NoRows}]
    /\ \/ paid' = paid /\ credits' = credits
       \/ /\ pc = "credit" /\ mem.cur \notin paid
          /\ paid' = paid \cup {mem.cur}
          /\ credits' = [credits EXCEPT ![mem.cur] = @ + TotalOf(CreditNow)]

LEMMA AmountsAreNat ==
    ASSUME NEW x \in Amounts PROVE x \in Nat
<1>1. PayValues \subseteq Nat /\ Reward \in [Blocks -> Nat \ {0}]
  BY AccountsAssumption, BlocksAssumption
<1>2. CASE x \in PayValues
  BY <1>1, <1>2, Zenon
<1>3. CASE x \in Range(Reward)
  <2>1. PICK b \in DOMAIN Reward : x = Reward[b]
    BY <1>3 DEF Range
  <2> QED
    BY <1>1, <2>1
<1>4. CASE x = 0
  BY <1>4
<1>5. x \in PayValues \/ x \in Range(Reward) \/ x = 0
  BY Zenon DEF Amounts
<1> QED
  BY <1>2, <1>3, <1>4, <1>5

\* What is credited is at most the reward it is credited for.
LEMMA CreditIsBounded ==
    ASSUME Standing, BaseInv, CreditInv, pc = "credit"
    PROVE  /\ mem.cur \in Blocks
           /\ \E r \in (IF mem.cur \in MainBlocks THEN {Reward[mem.cur]} ELSE Amounts) :
                 r \in Nat /\ TotalOf(CreditNow) \in 0..r
<1>1. pc \in Payers \ {"byHash"} /\ pc \in Payers
  BY DEF Payers
<1>2. mem.cur \in Blocks /\ mem.cur \in DOMAIN mem.list /\ mem.split \in Splits
  BY <1>1 DEF BaseInv, MemOK, CreditInv, CurIsListed, SplitStored
<1>3. mem.list[mem.cur] \in BlockRecord
  BY <1>2 DEF CreditInv, CopiesTyped
<1> DEFINE r == RewardOf(mem.cur, mem.list[mem.cur])
<1>4. r \in Amounts
  BY <1>3 DEF RewardOf, BlockRecord
<1>5. r \in Nat
  BY <1>4, AmountsAreNat
<1>6. TotalOf(CreditNow) \in 0..r
  BY <1>2, <1>5, RoundedDown DEF CreditNow
<1>7. mem.cur \in MainBlocks => r = Reward[mem.cur]
  BY <1>1 DEF RewardOf, CreditInv, RewardChecked
<1> HIDE DEF r
<1> QED
  BY <1>2, <1>4, <1>5, <1>6, <1>7

LEMMA CreditKeeps ==
    ASSUME Standing, BaseInv, CreditInv, Bill, Books
    PROVE  CreditInv'
<1>0. /\ CopiesTyped /\ CurIsListed /\ RewardChecked /\ SplitStored /\ RowsTyped
      /\ UnpaidUncredited /\ NeverOverCredited
  BY DEF CreditInv
<1>1. blocks \in [Blocks -> BlockRecord] /\ DOMAIN credits = Blocks
  BY DEF BaseInv, TablesOK
<1>2. CopiesTyped'
  BY <1>0, <1>1 DEF CopiesTyped, Bill
<1>3. CurIsListed'
  BY <1>0 DEF CurIsListed, Bill
<1>4. RewardChecked'
  <2>1. ASSUME pc' \in Payers \ {"byHash"}, mem'.cur \in MainBlocks
        PROVE  mem'.list[mem'.cur].value = Reward[mem'.cur]
    <3>1. /\ mem'.list = mem.list /\ mem'.cur = mem.cur /\ pc \in Payers
          /\ pc = "byHash" => HeaderMatches(mem.cur, mem.list[mem.cur])
      BY <2>1 DEF Bill
    <3>2. CASE pc = "byHash"
      BY <2>1, <3>1, <3>2 DEF HeaderMatches
    <3>3. CASE pc # "byHash"
      BY <2>1, <3>1, <3>3, <1>0 DEF RewardChecked
    <3> QED
      BY <3>2, <3>3
  <2> QED
    BY <2>1 DEF RewardChecked
<1>5. SplitStored'
  <2>1. ASSUME pc' \in {"resolve", "credit"} PROVE mem'.split \in Splits
    <3>1. CASE pc \in {"resolve", "credit"} /\ mem'.split = mem.split
      BY <3>1, <1>0 DEF SplitStored
    <3>2. CASE /\ mem.cur \in Blocks /\ mem'.split = rows[mem.cur] /\ mem'.split # NoRows
      BY <3>2, <1>0 DEF RowsTyped
    <3> QED
      BY <2>1, <3>1, <3>2 DEF Bill
  <2> QED
    BY <2>1 DEF SplitStored
<1>6. RowsTyped'
  BY DEF RowsTyped, Books
<1>7. CASE paid' = paid /\ credits' = credits
  <2>1. UnpaidUncredited' /\ NeverOverCredited'
    BY <1>0, <1>7 DEF UnpaidUncredited, NeverOverCredited
  <2> QED
    BY <2>1, <1>2, <1>3, <1>4, <1>5, <1>6 DEF CreditInv
<1>8. CASE /\ pc = "credit" /\ mem.cur \notin paid
           /\ paid' = paid \cup {mem.cur}
           /\ credits' = [credits EXCEPT ![mem.cur] = @ + TotalOf(CreditNow)]
  <2> DEFINE n == TotalOf(CreditNow)
             R(b) == IF b \in MainBlocks THEN {Reward[b]} ELSE Amounts
  <2>1. mem.cur \in Blocks
    BY <1>8, CreditIsBounded
  <2>2. PICK r \in R(mem.cur) : r \in Nat /\ n \in 0..r
    BY <1>8, CreditIsBounded
  <2> HIDE DEF n
  <2>3. /\ credits'[mem.cur] = credits[mem.cur] + n
        /\ \A o \in Blocks \ {mem.cur} : credits'[o] = credits[o]
    BY <2>1, <1>1, <1>8 DEF n
  <2>4. credits[mem.cur] = 0
    BY <2>1, <1>0, <1>8 DEF UnpaidUncredited
  <2>5. credits'[mem.cur] <= r
    BY <2>2, <2>3, <2>4
  <2>6. UnpaidUncredited'
    BY <2>3, <1>0, <1>8 DEF UnpaidUncredited
  <2>7. ASSUME NEW b \in Blocks PROVE \E x \in R(b) : credits'[b] <= x
    BY <2>2, <2>3, <2>5, <1>0 DEF NeverOverCredited
  <2>8. NeverOverCredited'
    BY <2>7 DEF NeverOverCredited
  <2> QED
    BY <2>6, <2>8, <1>2, <1>3, <1>4, <1>5, <1>6 DEF CreditInv
<1> QED
  BY <1>7, <1>8 DEF Books

\* Steps that end, begin or go on without paying.
LEMMA RestBill ==
    ASSUME mem' = NoMem, pc' \in {"timer", "down"}
    PROVE  Bill
BY NoMemFields DEF Bill, Payers

LEMMA ContinueBill ==
    ASSUME BaseInv, NEW b, Continue(b)
    PROVE  Bill
<1>1. pc' \in {"main", "alt"} /\ mem' = Without(mem, b) /\ DOMAIN mem = MemFields
  BY DEF Continue, Walk, BaseInv, MemOK
<1> QED
  BY <1>1, WithoutFields DEF Bill, Payers

LEMMA BeginAltBill ==
    ASSUME BeginAlt
    PROVE  Bill
<1>1. CASE isFullStop
  BY <1>1, RestBill DEF BeginAlt, EndCycle
<1>2. CASE ~isFullStop
  BY <1>2, BeginAltMem DEF Bill, Payers, Blocks
<1> QED
  BY <1>1, <1>2

LEMMA PrecalcEndsBill ==
    ASSUME BaseInv, PrecalcEnds
    PROVE  Bill
<1>1. DOMAIN mem = MemFields
  BY DEF BaseInv, MemOK
<1> QED
  BY <1>1, PrecalcEndsMem DEF Bill, Payers

LEMMA ListBill ==
    ASSUME mem'.list = mem.list, pc' \notin Payers
    PROVE  Bill
BY DEF Bill, Payers

LEMMA TakeBill ==
    ASSUME BaseInv, NEW b \in DOMAIN mem.list, mem' = [mem EXCEPT !.cur = b],
           pc' \in {"byHash", "byHeight"}
    PROVE  Bill
<1>1. mem'.list = mem.list /\ mem'.cur = b
  BY DEF BaseInv, MemOK, MemFields
<1> QED
  BY <1>1 DEF Bill, Payers

LEMMA SameBooks ==
    ASSUME CreditInv, paid' = paid, credits' = credits, rows' = rows
    PROVE  Books
BY DEF CreditInv, RowsTyped, Books

\* Steps of the cycle before a payout.
LEMMA ControlBills ==
    ASSUME BaseInv, CreditInv,
           \/ Start \/ Stop \/ Crash \/ RunCycle \/ GetTopBlockHeight \/ MainDone
           \/ AltDone \/ AnchorsDone \/ \E b \in MainBlocks : SkipMain(b) \/ HeaderByHeight(b)
           \/ \E b \in AltBlocks : SkipAlt(b) \/ AnchorHeader(b) \/ AltHeader(b)
           \/ AltByHeight \/ \E b \in Blocks : MarkReady(b)
    PROVE  Bill /\ Books
<1>0. DOMAIN mem = MemFields
  BY DEF BaseInv, MemOK
<1>1. paid' = paid /\ credits' = credits /\ rows' = rows
  BY DEF Start, Stop, Crash, Gone, RunCycle, GetTopBlockHeight, MainDone, AltDone, AnchorsDone,
         SkipMain, SkipAlt, AnchorHeader, HeaderByHeight, AltHeader, AltByHeight, MarkReady,
         sql, history
<1>2. Books
  BY <1>1, SameBooks
<1>3. ASSUME Start \/ AltDone PROVE Bill
  <2>1. pc' \in {"timer", "anchor"} /\ mem' = mem
    BY <1>3 DEF Start, AltDone
  <2> QED
    BY <2>1, ListBill DEF Payers
<1>4. ASSUME Stop \/ Crash PROVE Bill
  <2>1. CASE Gone
    BY <2>1, RestBill DEF Gone
  <2>2. CASE ~Gone
    <3>1. pc' = pc /\ mem' = mem
      BY <2>2, <1>4 DEF Stop, Crash
    <3>2. mem.cur \in DOMAIN mem.list \/ pc \notin Payers
      BY DEF CreditInv, CurIsListed
    <3> QED
      BY <3>1, <3>2 DEF Bill
  <2> QED
    BY <2>1, <2>2
<1>5. ASSUME RunCycle PROVE Bill
  BY <1>5, RunCycleMem DEF Bill, Payers, Blocks
<1>6. ASSUME GetTopBlockHeight PROVE Bill
  <2>1. CASE pc' = Walk /\ mem' = [mem EXCEPT !.top = top]
    <3>1. pc' \in {"main", "alt"} /\ mem'.list = mem.list
      BY <2>1, <1>0 DEF Walk, MemFields
    <3> QED
      BY <3>1, ListBill DEF Payers
  <2>2. CASE EndCycle \/ BeginAlt
    BY <2>2, RestBill, BeginAltBill DEF EndCycle
  <2> QED
    BY <1>6, <2>1, <2>2 DEF GetTopBlockHeight
<1>7. ASSUME MainDone \/ AnchorsDone PROVE Bill
  BY <1>7, BeginAltBill, RestBill DEF MainDone, AnchorsDone, EndCycle
<1>8. ASSUME NEW b \in MainBlocks, SkipMain(b) PROVE Bill
  BY <1>8, ContinueBill DEF SkipMain
<1>9. ASSUME NEW b \in MainBlocks, HeaderByHeight(b) PROVE Bill
  <2>1. CASE pc' = "precalc" /\ mem' = [mem EXCEPT !.cur = b, !.group = {b}]
    <3>1. mem'.list = mem.list
      BY <2>1, <1>0 DEF MemFields
    <3> QED
      BY <2>1, <3>1, ListBill DEF Payers
  <2>2. CASE pc' = "byHash" /\ mem' = [mem EXCEPT !.cur = b]
    BY <2>2, <1>9, TakeBill DEF HeaderByHeight, Turn
  <2> QED
    BY <1>9, <2>1, <2>2, ContinueBill DEF HeaderByHeight
<1>10. ASSUME NEW b \in AltBlocks, SkipAlt(b) PROVE Bill
  BY <1>0, <1>10, SkipAltMem DEF Bill, Payers
<1>11. ASSUME NEW b \in AltBlocks, AnchorHeader(b) PROVE Bill
  <2>1. mem'.list = mem.list /\ pc' \in {"anchor", "precalc"}
    BY <1>0, <1>11, AnchorMem
  <2> QED
    BY <2>1, ListBill DEF Payers
<1>12. ASSUME NEW b \in AltBlocks, AltHeader(b) PROVE Bill
  BY <1>12, TakeBill, ContinueBill DEF AltHeader, Turn
<1>13. ASSUME AltByHeight PROVE Bill
  BY <1>13, ContinueBill DEF AltByHeight
<1>14. ASSUME NEW b \in Blocks, MarkReady(b) PROVE Bill
  <2>1. CASE pc' = "mark" /\ mem' = [mem EXCEPT !.group = @ \ {b}]
    <3>1. mem'.list = mem.list
      BY <2>1, <1>0 DEF MemFields
    <3> QED
      BY <2>1, <3>1, ListBill DEF Payers
  <2> QED
    BY <1>14, <2>1, PrecalcEndsBill DEF MarkReady
<1> QED
  BY <1>2, <1>3, <1>4, <1>5, <1>6, <1>7, <1>8, <1>9, <1>10, <1>11, <1>12, <1>13, <1>14

\* Steps that write block_balance.
LEMMA RowBills ==
    ASSUME BaseInv, CreditInv, PrecalcDelete \/ PrecalcInsert
    PROVE  Bill /\ Books
<1>0. RowsTyped
  BY DEF CreditInv
<1>1. paid' = paid /\ credits' = credits
  BY DEF PrecalcDelete, PrecalcInsert, history
<1>2. ASSUME NEW s \in Splits \cup {NoRows}
      PROVE  [b \in Blocks |-> IF b \in mem.group THEN s ELSE rows[b]] \in [Blocks -> Splits \cup {NoRows}]
  BY <1>0 DEF RowsTyped
<1>3. ASSUME PrecalcDelete PROVE Bill /\ Books
  <2>1. \/ rows' = rows
        \/ rows' = [b \in Blocks |-> IF b \in mem.group THEN NoRows ELSE rows[b]]
    BY <1>3 DEF PrecalcDelete
  <2>2. rows' \in [Blocks -> Splits \cup {NoRows}]
    BY <2>1, <1>0, <1>2 DEF RowsTyped
  <2>3. PrecalcEnds \/ (pc' = "insert" /\ mem' = mem)
    BY <1>3 DEF PrecalcDelete
  <2> QED
    BY <2>2, <2>3, <1>1, PrecalcEndsBill, ListBill DEF Books, Payers
<1>4. ASSUME PrecalcInsert PROVE Bill /\ Books
  <2>1. PICK s \in Splits :
           LET written == [b \in Blocks |-> IF b \in mem.group THEN s ELSE rows[b]]
           IN \/ NoFault /\ rows' = written /\ pc' = "mark" /\ UNCHANGED mem
              \/ Fault /\ rows' \in {rows, written} /\ PrecalcEnds
    BY <1>4, Zenon DEF PrecalcInsert
  <2> DEFINE written == [b \in Blocks |-> IF b \in mem.group THEN s ELSE rows[b]]
  <2>2. written \in [Blocks -> Splits \cup {NoRows}]
    BY <1>2
  <2>3. /\ rows' = written \/ rows' = rows
        /\ PrecalcEnds \/ (pc' = "mark" /\ mem' = mem)
    BY <2>1, Zenon
  <2> HIDE DEF written
  <2>4. Books
    BY <2>2, <2>3, <1>0, <1>1 DEF Books, RowsTyped
  <2> QED
    BY <2>3, <2>4, PrecalcEndsBill, ListBill DEF Payers
<1> QED
  BY <1>3, <1>4

\* Steps of the payout.
LEMMA PayBills ==
    ASSUME BaseInv, CreditInv,
           \/ HeaderByHash \/ SumBefore \/ LoadRows \/ Resolved \/ CreditBalances \/ SumAfter
           \/ \E a \in Accounts : ResolveBalance(a)
    PROVE  Bill /\ Books
<1>0. DOMAIN mem = MemFields
  BY DEF BaseInv, MemOK
<1>1. rows' = rows /\ pc \in Payers
  BY DEF HeaderByHash, SumBefore, LoadRows, Resolved, CreditBalances, SumAfter, ResolveBalance,
         sql, Payers
<1>2. mem.cur \in Blocks
  BY <1>1 DEF BaseInv, MemOK
<1>3. Books
  <2>1. \/ paid' = paid /\ credits' = credits
        \/ pc = "credit" /\ ~CreditRefused /\ ApplyCredits
    BY DEF HeaderByHash, SumBefore, LoadRows, Resolved, CreditBalances, SumAfter, ResolveBalance,
           sql, history
  <2>2. RowsTyped
    BY DEF CreditInv
  <2> QED
    BY <2>1, <2>2, <1>1 DEF Books, ApplyCredits, CreditRefused, RowsTyped
<1>4. Bill
  <2>1. CASE Continue(mem.cur) \/ EndCycle
    BY <2>1, ContinueBill, RestBill DEF EndCycle
  <2>2. ASSUME pc' \in Payers \ {"byHash"}, mem'.list = mem.list, mem'.cur = mem.cur,
               pc = "byHash" => HeaderMatches(mem.cur, mem.list[mem.cur]),
               pc' \in {"resolve", "credit"} =>
                  \/ pc \in {"resolve", "credit"} /\ mem'.split = mem.split
                  \/ mem'.split = rows[mem.cur] /\ mem'.split # NoRows
        PROVE  Bill
    BY <2>2, <1>1, <1>2 DEF Bill
  <2>3. ASSUME HeaderByHash, ~Continue(mem.cur) PROVE Bill
    <3>1. /\ HeaderMatches(mem.cur, mem.list[mem.cur]) /\ pc' = "sumBefore" /\ mem' = mem
      BY <2>3 DEF HeaderByHash
    <3> QED
      BY <3>1, <2>2 DEF Payers
  <2>4. ASSUME SumBefore, ~Continue(mem.cur) PROVE Bill
    <3>1. pc = "sumBefore" /\ pc' = "rows" /\ mem' = [mem EXCEPT !.sum = BalanceSum]
      BY <2>4 DEF SumBefore, FullStop
    <3>2. mem'.list = mem.list /\ mem'.cur = mem.cur
      BY <3>1, <1>0 DEF MemFields
    <3> QED
      BY <3>1, <3>2, <2>2 DEF Payers
  <2>5. ASSUME LoadRows, ~Continue(mem.cur), ~EndCycle PROVE Bill
    <3>1. /\ pc = "rows" /\ pc' = "resolve" /\ mem' = [mem EXCEPT !.split = rows[mem.cur]]
          /\ rows[mem.cur] # NoRows
      BY <2>5 DEF LoadRows
    <3>2. mem'.list = mem.list /\ mem'.cur = mem.cur /\ mem'.split = rows[mem.cur]
      BY <3>1, <1>0 DEF MemFields
    <3> QED
      BY <3>1, <3>2, <2>2 DEF Payers
  <2>6. ASSUME NEW a \in Accounts, ResolveBalance(a), ~EndCycle PROVE Bill
    <3>1. pc = "resolve" /\ pc' = "resolve" /\ mem' = mem
      BY <2>6 DEF ResolveBalance
    <3> QED
      BY <3>1, <2>2 DEF Payers
  <2>7. ASSUME Resolved, ~Continue(mem.cur) PROVE Bill
    <3>1. pc = "resolve" /\ pc' = "credit" /\ mem' = mem
      BY <2>7 DEF Resolved, FullStop
    <3> QED
      BY <3>1, <2>2 DEF Payers
  <2>8. ASSUME CreditBalances, ~Continue(mem.cur) PROVE Bill
    <3>1. pc = "credit" /\ pc' = "sumAfter" /\ mem' = mem
      BY <2>8 DEF CreditBalances
    <3> QED
      BY <3>1, <2>2 DEF Payers
  <2>9. SumAfter => Continue(mem.cur)
    BY DEF SumAfter, FullStop
  <2> QED
    BY <2>1, <2>3, <2>4, <2>5, <2>6, <2>7, <2>8, <2>9
<1> QED
  BY <1>3, <1>4

\* Steps of the other processes, and no step at all.
LEMMA OtherBills ==
    ASSUME BaseInv, CreditInv, Environment \/ Others \/ Cleaner \/ UNCHANGED vars
    PROVE  Bill /\ Books
<1>0. RowsTyped
  BY DEF CreditInv
<1>1. pc' = pc /\ mem' = mem /\ paid' = paid /\ credits' = credits
  BY DEF Environment, Others, Cleaner, NewTop, Reorg, Found, Exchanged, PaySet, MarkUnpaid,
         RewardFix, Relock, Revalidate, ReadyReset, Edit, DeleteUser, Debit, CollectLocked,
         QueryRecent, QueryDistinct, DeleteStale, CleanerSame, process, sql, history, vars
<1>2. rows' = rows \/ rows' = [b \in Blocks |-> IF b \in clean.stale THEN NoRows ELSE rows[b]]
  BY DEF Environment, Others, Cleaner, NewTop, Reorg, Found, Exchanged, PaySet, MarkUnpaid,
         RewardFix, Relock, Revalidate, ReadyReset, Edit, DeleteUser, Debit, CollectLocked,
         QueryRecent, QueryDistinct, DeleteStale, CleanerSame, sql, vars
<1>3. Books
  BY <1>0, <1>1, <1>2 DEF Books, RowsTyped
<1>4. pc \in Payers => mem.cur \in DOMAIN mem.list
  BY DEF CreditInv, CurIsListed
<1> QED
  BY <1>1, <1>3, <1>4 DEF Bill

LEMMA CreditStarts ==
    ASSUME Init PROVE CreditInv
<1>1. /\ pc = "down" /\ mem = NoMem /\ paid = {} /\ credits = [b \in Blocks |-> 0]
      /\ rows = [b \in Blocks |-> NoRows]
  BY DEF Init
<1>2. CopiesTyped /\ CurIsListed /\ RewardChecked /\ SplitStored /\ RowsTyped /\ UnpaidUncredited
  BY <1>1, NoMemFields DEF CopiesTyped, CurIsListed, RewardChecked, SplitStored, RowsTyped,
                           UnpaidUncredited, Payers
<1>3. NeverOverCredited
  <2>1. \A b \in Blocks : Reward[b] \in Nat
    BY BlocksAssumption
  <2>2. 0 \in Amounts
    BY DEF Amounts
  <2> QED
    BY <1>1, <2>1, <2>2 DEF NeverOverCredited
<1> QED
  BY <1>2, <1>3 DEF CreditInv

LEMMA CreditInvariance ==
    Spec => []CreditInv
<1>0. Standing
  BY BlocksAssumption, DelaysAssumption DEF Standing
<1>1. Init => CreditInv
  BY CreditStarts
<1>2. BaseInv /\ CreditInv /\ [Next]_vars => CreditInv'
  <2> SUFFICES ASSUME BaseInv, CreditInv, [Next]_vars PROVE CreditInv'
    OBVIOUS
  <2>1. Bill /\ Books
    BY ControlBills, RowBills, PayBills, OtherBills DEF Next, Cycle
  <2> QED
    BY <2>1, <1>0, CreditKeeps
<1> QED
  BY <1>1, <1>2, BaseInvariance, PTL DEF Spec

\* No block is ever credited more than its reward, whatever crashes, lost
\* acknowledgements, relocks and edits of its record come between: paid_blocks
\* lets one credit through, and that one is of a split of the checked reward.
THEOREM NeverOverCreditedHolds ==
    Spec => []NeverOverCredited
<1>1. CreditInv => NeverOverCredited
  BY DEF CreditInv
<1> QED
  BY <1>1, CreditInvariance, PTL
-----------------------------------------------------------------------------
(* The balances *)

Amounted(acc) == [a \in Accounts |-> acc[a].amount]

AcctsTyped == acct \in [Accounts -> [id : Nat, issued : Nat, amount : Nat]]
LedgerTyped == credits \in [Blocks -> Nat] /\ debited \in Nat

\* What a deleted row held is gone with it.
NoRowNoAmount == \A a \in Accounts : acct[a].id = 0 => acct[a].amount = 0

\* The ids a credit goes to are ids of rows.
RecipientsCached == pc = "credit" => \A a \in Recipients : cache[a] # 0

SumInv == AcctsTyped /\ LedgerTyped /\ NoRowNoAmount /\ RecipientsCached /\ BalancesAddUp

\* A step that moves no money, and reaches a credit only with cached ids.
Idles ==
    /\ acct' = acct /\ credits' = credits /\ debited' = debited
    /\ pc' = "credit" =>
         \/ pc = "credit" /\ mem' = mem /\ cache' = cache
         \/ (\A a \in Recipients : cache[a] # 0)'

LEMMA IdleKeeps ==
    ASSUME SumInv, Idles PROVE SumInv'
<1>1. BalancesAddUp'
  BY DEF SumInv, Idles, BalancesAddUp, BalanceSum
<1>2. RecipientsCached'
  BY DEF SumInv, Idles, RecipientsCached, Recipients, CreditNow
<1> QED
  BY <1>1, <1>2 DEF SumInv, Idles, AcctsTyped, LedgerTyped, NoRowNoAmount

\* A step on one account.
LEMMA AcctStep ==
    ASSUME SumInv, NEW a \in Accounts, NEW n, n \in Nat, NEW m, m \in Nat, NEW k, k \in Nat,
           acct' = [acct EXCEPT ![a] = [id |-> k, issued |-> m, amount |-> n]],
           k = 0 => n = 0,
           debited' \in Nat, debited' + n = debited + acct[a].amount,
           credits' = credits, pc' # "credit" \/ (pc' = pc /\ mem' = mem /\ cache' = cache)
    PROVE  SumInv'
<1>1. AcctsTyped /\ LedgerTyped /\ NoRowNoAmount /\ IsFiniteSet(Accounts)
  BY AccountsAssumption DEF SumInv
<1>2. AcctsTyped' /\ acct'[a].amount = n /\ acct'[a].id = k /\ acct[a].amount \in Nat
      /\ \A o \in Accounts : o # a => acct'[o] = acct[o]
  BY <1>1 DEF AcctsTyped
<1>3. NoRowNoAmount'
  BY <1>1, <1>2 DEF NoRowNoAmount
<1> DEFINE f == Amounted(acct)
           g == Amounted(acct')
<1>4. f \in [Accounts -> Nat] /\ g \in [Accounts -> Nat] /\ f[a] = acct[a].amount /\ g[a] = n
      /\ \A o \in Accounts : o # a => g[o] = f[o]
  BY <1>1, <1>2 DEF AcctsTyped, Amounted
<1>5. BalanceSum = Sum(f, Accounts) /\ BalanceSum' = Sum(g, Accounts)
  BY TotalIs DEF BalanceSum, Amounted
<1> HIDE DEF f, g
<1>6. Summable(f, Accounts) /\ Summable(g, Accounts)
  BY <1>1, <1>4, SummableIn
<1>7. Sum(g, Accounts) + f[a] = Sum(f, Accounts) + g[a]
  BY <1>4, <1>6, SumAt
<1>8. Sum(f, Accounts) \in Nat /\ Sum(g, Accounts) \in Nat
  BY <1>6, SumNat
<1>9. BalanceSum' + debited' = BalanceSum + debited
  BY <1>1, <1>2, <1>4, <1>5, <1>7, <1>8 DEF LedgerTyped
<1>10. BalancesAddUp'
  BY <1>9 DEF SumInv, BalancesAddUp
<1>11. RecipientsCached'
  BY DEF SumInv, RecipientsCached, Recipients, CreditNow
<1> QED
  BY <1>1, <1>2, <1>3, <1>10, <1>11 DEF SumInv, LedgerTyped

\* What is credited to a block is what its recipients receive.
LEMMA CreditAddsUp ==
    ASSUME BaseInv, CreditInv, SumInv, pc = "credit", ~CreditRefused, ApplyCredits,
           debited' = debited, pc' # "credit"
    PROVE  SumInv'
<1>1. /\ AcctsTyped /\ LedgerTyped /\ NoRowNoAmount /\ RecipientsCached
      /\ IsFiniteSet(Accounts) /\ IsFiniteSet(Blocks)
  BY AccountsAssumption, BlocksAssumption DEF SumInv
<1> DEFINE c == CreditNow
<1>2. mem.cur \in Blocks /\ mem.cur \in DOMAIN mem.list /\ mem.split \in Splits
  BY DEF Payers, BaseInv, MemOK, CreditInv, CurIsListed, SplitStored
<1>3. c \in [Accounts -> Nat]
  <2>1. mem.list[mem.cur] \in BlockRecord
    BY <1>2 DEF CreditInv, CopiesTyped
  <2>2. RewardOf(mem.cur, mem.list[mem.cur]) \in Amounts
    BY <2>1 DEF RewardOf, BlockRecord
  <2>3. RewardOf(mem.cur, mem.list[mem.cur]) \in Nat
    BY <2>2, AmountsAreNat
  <2> QED
    BY <1>2, <2>3, CreditTyped DEF CreditNow
<1>4. /\ acct' = [a \in Accounts |->
                    IF acct[a].id = cache[a] /\ a \in Recipients
                    THEN [acct[a] EXCEPT !.amount = @ + c[a]] ELSE acct[a]]
      /\ credits' = [credits EXCEPT ![mem.cur] = @ + TotalOf(c)]
  BY DEF ApplyCredits
<1>5. \A a \in Accounts : a \in Recipients <=> c[a] # 0
  BY DEF Recipients
<1>6. \A a \in Recipients : acct[a].id = cache[a] /\ cache[a] # 0
  BY <1>1 DEF CreditRefused, RecipientsCached
<1> HIDE DEF c
<1>7. ASSUME NEW a \in Accounts
      PROVE  /\ acct'[a] \in [id : Nat, issued : Nat, amount : Nat]
             /\ acct'[a].id = acct[a].id /\ acct'[a].amount = acct[a].amount + c[a]
             /\ acct[a].id = 0 => c[a] = 0
  <2>1. acct[a] \in [id : Nat, issued : Nat, amount : Nat] /\ c[a] \in Nat
    BY <1>1, <1>3 DEF AcctsTyped
  <2>2. CASE a \in Recipients
    <3>1. acct'[a] = [acct[a] EXCEPT !.amount = @ + c[a]]
      BY <1>4, <1>6, <2>2
    <3> QED
      BY <1>6, <2>1, <2>2, <3>1
  <2>3. CASE a \notin Recipients
    <3>1. acct'[a] = acct[a] /\ c[a] = 0
      BY <1>4, <1>5, <2>3
    <3> QED
      BY <2>1, <3>1
  <2> QED
    BY <2>2, <2>3
<1>8. AcctsTyped'
  BY <1>4, <1>7 DEF AcctsTyped
<1>9. NoRowNoAmount'
  BY <1>1, <1>7 DEF NoRowNoAmount
<1> DEFINE f == Amounted(acct)
           g == Amounted(acct')
<1>10. /\ f \in [Accounts -> Nat] /\ g \in [Accounts -> Nat]
       /\ \A a \in Accounts : g[a] = f[a] + c[a]
  BY <1>1, <1>7, <1>8 DEF AcctsTyped, Amounted
<1>11. BalanceSum = Sum(f, Accounts) /\ BalanceSum' = Sum(g, Accounts)
  BY TotalIs DEF BalanceSum, Amounted
<1> HIDE DEF f, g
<1>12. Summable(f, Accounts) /\ Summable(g, Accounts) /\ Summable(c, Accounts)
  BY <1>1, <1>3, <1>10, SummableIn
<1>13. Sum(g, Accounts) = Sum(f, Accounts) + Sum(c, Accounts)
  BY <1>10, <1>12, SumPlus
<1>14. Sum(f, Accounts) \in Nat /\ Sum(c, Accounts) \in Nat /\ TotalOf(c) = Sum(c, Accounts)
  BY <1>12, SumNat, TotalIs
<1>15. /\ credits' \in [Blocks -> Nat] /\ credits'[mem.cur] = credits[mem.cur] + Sum(c, Accounts)
       /\ \A b \in Blocks : b # mem.cur => credits'[b] = credits[b]
       /\ credits \in [Blocks -> Nat] /\ credits[mem.cur] \in Nat
  BY <1>1, <1>2, <1>4, <1>14 DEF LedgerTyped
<1>16. Summable(credits, Blocks) /\ Summable(credits', Blocks)
  BY <1>1, <1>15, SummableIn
<1>17. Sum(credits', Blocks) + credits[mem.cur] = Sum(credits, Blocks) + credits'[mem.cur]
  BY <1>2, <1>15, <1>16, SumAt
<1>18. Sum(credits, Blocks) \in Nat /\ Sum(credits', Blocks) \in Nat
  BY <1>16, SumNat
<1>19. BalanceSum + debited = Sum(credits, Blocks)
  BY DEF SumInv, BalancesAddUp, Sum
<1>20. BalanceSum' + debited' = Sum(credits', Blocks)
  BY <1>1, <1>11, <1>13, <1>14, <1>15, <1>17, <1>18, <1>19 DEF LedgerTyped
<1>21. BalancesAddUp'
  BY <1>20 DEF BalancesAddUp, Sum
<1> QED
  BY <1>1, <1>8, <1>9, <1>15, <1>21 DEF SumInv, LedgerTyped, RecipientsCached

LEMMA SumStarts ==
    ASSUME Init PROVE SumInv
<1>1. /\ pc = "down" /\ credits = [b \in Blocks |-> 0] /\ debited = 0
      /\ acct = [a \in Accounts |-> [id |-> Given(a), issued |-> Given(a), amount |-> 0]]
      /\ IsFiniteSet(Accounts) /\ IsFiniteSet(Blocks)
  BY AccountsAssumption, BlocksAssumption DEF Init
<1>2. AcctsTyped /\ NoRowNoAmount /\ LedgerTyped /\ RecipientsCached
  BY <1>1 DEF AcctsTyped, NoRowNoAmount, LedgerTyped, RecipientsCached, Given
<1> DEFINE f == Amounted(acct)
<1>3. f = [a \in Accounts |-> 0]
  BY <1>1 DEF Amounted
<1>4. BalanceSum = Sum(f, Accounts)
  BY TotalIs DEF BalanceSum, Amounted
<1> HIDE DEF f
<1>5. Sum(f, Accounts) = 0 /\ Sum(credits, Blocks) = 0
  BY <1>1, <1>3, SumZero
<1>6. BalancesAddUp
  BY <1>1, <1>4, <1>5 DEF BalancesAddUp, Sum
<1> QED
  BY <1>2, <1>6 DEF SumInv

LEMMA SumSteps ==
    ASSUME BaseInv, CreditInv, SumInv, [Next]_vars
    PROVE  SumInv'
<1>0. AcctsTyped /\ LedgerTyped /\ NoRowNoAmount
  BY DEF SumInv
<1>1. ASSUME Start \/ Stop \/ Crash \/ RunCycle \/ GetTopBlockHeight \/ MainDone \/ AltDone \/ AnchorsDone
      PROVE  Idles
  BY <1>1 DEF Start, Stop, Crash, Gone, RunCycle, GetTopBlockHeight, MainDone, AltDone, AnchorsDone,
              BeginAlt, EndCycle, Walk, Idles, sql, history
<1>2. ASSUME \/ \E b \in MainBlocks : SkipMain(b) \/ HeaderByHeight(b)
             \/ \E b \in AltBlocks : SkipAlt(b) \/ AltHeader(b) \/ AnchorHeader(b)
             \/ AltByHeight
      PROVE  Idles
  BY <1>2 DEF SkipMain, HeaderByHeight, SkipAlt, AltHeader, AnchorHeader, AltByHeight,
              Continue, Walk, Idles, sql, history
<1>3. ASSUME PrecalcDelete \/ PrecalcInsert \/ \E b \in Blocks : MarkReady(b)
      PROVE  Idles
  BY <1>3 DEF PrecalcDelete, PrecalcInsert, MarkReady, PrecalcEnds, Idles, sql, history
<1>4. ASSUME HeaderByHash \/ SumBefore \/ LoadRows \/ SumAfter
      PROVE  Idles
  BY <1>4 DEF HeaderByHash, SumBefore, LoadRows, SumAfter, FullStop, EndCycle, Continue, Walk, Idles, sql, history
<1>5. ASSUME Resolved PROVE Idles
  <2>1. CASE pc' = "credit"
    <3>1. mem' = mem /\ cache' = cache /\ \A a \in Recipients : cache[a] # 0
      BY <1>5, <2>1 DEF Resolved, FullStop, Continue, Walk
    <3>2. (\A a \in Recipients : cache[a] # 0)'
      BY <3>1 DEF Recipients, CreditNow
    <3> QED
      BY <1>5, <3>2 DEF Resolved, Idles, sql, history
  <2> QED
    BY <1>5, <2>1 DEF Resolved, Idles, sql, history
<1>6. ASSUME NEW a \in Accounts, ResolveBalance(a) PROVE SumInv'
  <2>1. CASE acct' = acct
    <3>1. Idles
      BY <1>6, <2>1 DEF ResolveBalance, EndCycle, Idles, history
    <3> QED
      BY <3>1, IdleKeeps
  <2>2. CASE acct' # acct
    <3> DEFINE k == acct[a].issued + 1
    <3>1. /\ acct[a].id = 0 /\ acct' = [acct EXCEPT ![a] = [id |-> k, issued |-> k, amount |-> 0]]
          /\ credits' = credits /\ debited' = debited /\ pc' # "credit"
      BY <1>6, <2>2 DEF ResolveBalance, EndCycle, history
    <3>2. k \in Nat /\ k # 0 /\ acct[a].amount = 0
      BY <1>0, <3>1 DEF AcctsTyped, NoRowNoAmount
    <3>3. debited' \in Nat /\ debited' + 0 = debited + acct[a].amount
      BY <1>0, <3>1, <3>2 DEF LedgerTyped
    <3> HIDE DEF k
    <3> QED
      BY <3>1, <3>2, <3>3, AcctStep
  <2> QED
    BY <2>1, <2>2
<1>7. ASSUME CreditBalances PROVE SumInv'
  <2>1. pc = "credit" /\ debited' = debited /\ pc' # "credit"
    BY <1>7 DEF CreditBalances, Continue, Walk
  <2>2. CASE acct' = acct /\ credits' = credits
    BY <2>1, <2>2, IdleKeeps DEF Idles
  <2>3. CASE ~CreditRefused /\ ApplyCredits
    BY <2>1, <2>3, CreditAddsUp
  <2> QED
    BY <1>7, <2>2, <2>3 DEF CreditBalances
<1>8. ASSUME Environment \/ Cleaner \/ UNCHANGED vars PROVE Idles
  BY <1>8 DEF Environment, Cleaner, NewTop, Reorg, Found, CollectLocked,
         QueryRecent, QueryDistinct, DeleteStale, CleanerSame, process, sql, history, vars, Idles
<1>9. ASSUME \/ \E b \in AltBlocks, v \in PayValues : Exchanged(b, v) \/ PaySet(b, v)
             \/ \E b \in Blocks : MarkUnpaid(b) \/ RewardFix(b)
             \/ \E b \in MainBlocks : Relock(b)
             \/ \E b \in AltBlocks : Revalidate(b) \/ ReadyReset(b)
      PROVE  Idles
  BY <1>9 DEF Exchanged, PaySet, MarkUnpaid, RewardFix, Relock, Revalidate, ReadyReset, Edit,
              process, sql, history, Idles
<1>10. ASSUME NEW a \in Accounts, DeleteUser(a) PROVE SumInv'
  <2> DEFINE n == acct[a].issued
  <2>1. /\ debited' = debited + acct[a].amount /\ credits' = credits
        /\ pc' = pc /\ mem' = mem /\ cache' = cache
    BY <1>10 DEF DeleteUser, process
  <2>2. acct' = [acct EXCEPT ![a] = [id |-> 0, issued |-> n, amount |-> 0]]
    BY <1>10 DEF DeleteUser
  <2>3. n \in Nat /\ debited' \in Nat /\ debited' + 0 = debited + acct[a].amount
    BY <1>0, <2>1 DEF AcctsTyped, LedgerTyped
  <2> HIDE DEF n
  <2> QED
    BY <2>1, <2>2, <2>3, AcctStep
<1>11. ASSUME NEW a \in Accounts, NEW m \in 1..acct[a].amount, Debit(a, m) PROVE SumInv'
  <2> DEFINE n == acct[a].issued
             k == acct[a].id
             r == acct[a].amount - m
  <2>1. /\ acct' = [acct EXCEPT ![a].amount = @ - m] /\ acct[a].id # 0
        /\ debited' = debited + m /\ credits' = credits
        /\ pc' = pc /\ mem' = mem /\ cache' = cache
    BY <1>11 DEF Debit, process
  <2>2. acct' = [acct EXCEPT ![a] = [id |-> k, issued |-> n, amount |-> r]]
    <3>1. acct[a] \in [id : Nat, issued : Nat, amount : Nat] /\ acct = [o \in Accounts |-> acct[o]]
      BY <1>0 DEF AcctsTyped
    <3>2. [acct[a] EXCEPT !.amount = r] = [id |-> k, issued |-> n, amount |-> r]
      BY <3>1
    <3>3. acct' = [acct EXCEPT ![a] = [acct[a] EXCEPT !.amount = r]]
      BY <2>1, <3>1
    <3> QED
      BY <3>2, <3>3
  <2>3. /\ n \in Nat /\ k \in Nat /\ k # 0 /\ r \in Nat
        /\ debited' \in Nat /\ debited' + r = debited + acct[a].amount
    BY <1>0, <2>1 DEF AcctsTyped, LedgerTyped
  <2> HIDE DEF n, k, r
  <2> QED
    BY <2>1, <2>2, <2>3, AcctStep
<1> QED
  BY <1>1, <1>2, <1>3, <1>4, <1>5, <1>6, <1>7, <1>8, <1>9, <1>10, <1>11, IdleKeeps
     DEF Next, Cycle, Others

\* What stands on the balances and what was taken from them is what was
\* credited: a credit reaches the rows it names or none at all, although rows
\* are deleted and created again behind balanceIdCache.
THEOREM BalancesAddUpHolds ==
    Spec => []BalancesAddUp
<1>1. Init => SumInv
  BY SumStarts
<1>2. BaseInv /\ CreditInv /\ SumInv /\ [Next]_vars => SumInv'
  BY SumSteps
<1>3. SumInv => BalancesAddUp
  BY DEF SumInv
<1> QED
  BY <1>1, <1>2, <1>3, BaseInvariance, CreditInvariance, PTL DEF Spec
-----------------------------------------------------------------------------
(* The rows *)

\* What a step does to the lists of the cycle.
Course ==
    /\ GroupShape'
    /\ \A b \in mem'.group \cup mem'.waiting :
          \/ b \in mem.group \cup mem.waiting /\ mem'.top \in {mem.top, top}
          \/ /\ b \in DOMAIN mem.list /\ ~mem.list[b].pay_ready
             /\ mem'.top = mem.top /\ mem.top - Height[b] > Delay(b)
    /\ \A b \in DOMAIN mem'.list :
          \/ b \in DOMAIN mem.list /\ mem'.list[b] = mem.list[b]
          \/ blocks[b].known /\ mem'.list[b] = blocks[b]
    /\ pc' = "mark" => /\ mem'.group \subseteq mem.group
                       /\ \/ pc = "mark"
                          \/ pc = "insert" /\ \A b \in mem.group : rows'[b] # NoRows

\* What a step does to the records and to paid_blocks.
Records ==
    /\ paid \subseteq paid' /\ paid' \subseteq Blocks
    /\ \A b \in Blocks : blocks[b].known => blocks'[b].known
    /\ \A b \in Blocks : Over(b) => Over(b)'
    /\ \A b \in Blocks : blocks'[b].known /\ blocks'[b].unlocked =>
          (blocks[b].known /\ blocks[b].unlocked) \/ Over(b)'
    /\ \A b \in Blocks : blocks'[b].known /\ ~blocks[b].known =>
          /\ ~blocks'[b].pay_ready
          /\ top - Height[b] <= LateFind /\ top' = top /\ clean' = clean
    /\ \A b \in Blocks : blocks'[b].known /\ blocks'[b].pay_ready =>
          \/ blocks[b].pay_ready
          \/ /\ pc = "mark" /\ b \in mem.group
             /\ b \notin mem'.group /\ b \notin mem'.waiting /\ b \notin DOMAIN mem'.list

\* What a step does to block_balance.
RowMoves ==
    /\ \A b \in Blocks : rows'[b] = NoRows =>
          rows[b] = NoRows \/ b \in clean.stale \/ (pc = "precalc" /\ b \in mem.group)
    /\ \A b \in Blocks : rows'[b] # NoRows =>
          rows[b] # NoRows \/ (pc = "insert" /\ b \in mem.group)

\* A step that is not the cleaner's.
NotCleaning ==
    /\ clean' = clean
    /\ \/ top' = top
       \/ /\ top' = top + 1
          /\ clean.pc \in {"recent", "distinct"} => top < clean.since + CleanGap

Rules == Standing /\ NoRevival /\ DelaysOutlastCleaner

LEMMA CourseKeeps ==
    ASSUME Rules, BaseInv, RowsInv, BaseInv', Course, Records, RowMoves, Moves
    PROVE  (GroupIsDeep /\ GroupShape /\ CopiesHold /\ UnlockedWasPaid
            /\ RowsAreDeep /\ MarkHasRows /\ PayableHasRows)'
<1>0. /\ GroupIsDeep /\ GroupShape /\ CopiesHold /\ UnlockedWasPaid
      /\ RowsAreDeep /\ MarkHasRows /\ StaleIsOver /\ PayableHasRows
  BY DEF RowsInv
<1>1. /\ mem.top \in Nat /\ mem.top <= top /\ top \in Nat /\ top' \in Nat /\ top <= top'
      /\ mem.group \subseteq Blocks /\ mem.waiting \subseteq Blocks
      /\ DOMAIN mem.list \subseteq Blocks /\ DOMAIN mem'.list \subseteq Blocks
      /\ mem'.group \subseteq Blocks /\ mem'.waiting \subseteq Blocks
  BY DEF BaseInv, MemOK, TablesOK, TopReached, Moves
<1>2. \A b \in Blocks : Height[b] \in Nat /\ Delay(b) \in Nat
  BY DEF Rules, Standing, BlocksAssumption, DelaysAssumption, Delay
<1>3. GroupIsDeep'
  <2>1. ASSUME NEW b \in mem'.group \cup mem'.waiting
        PROVE  mem'.top - Height[b] > Delay(b)
    <3>1. Height[b] \in Nat /\ Delay(b) \in Nat
      BY <2>1, <1>1, <1>2
    <3>2. CASE b \in mem.group \cup mem.waiting /\ mem'.top \in {mem.top, top}
      <4>1. mem.top - Height[b] > Delay(b)
        BY <3>2, <1>0 DEF GroupIsDeep
      <4> QED
        BY <4>1, <3>1, <3>2, <1>1
    <3> QED
      BY <2>1, <3>2 DEF Course
  <2> QED
    BY <2>1 DEF GroupIsDeep, Delay
<1>4. GroupShape'
  BY DEF Course
<1>5. CopiesHold'
  <2>1. ASSUME NEW b \in DOMAIN mem'.list
        PROVE  blocks'[b].known /\ (~mem'.list[b].pay_ready => ~blocks'[b].pay_ready)
    <3>1. b \in Blocks
      BY <1>1
    <3>2. blocks[b].known /\ (~mem'.list[b].pay_ready => ~blocks[b].pay_ready)
      BY <1>0 DEF Course, CopiesHold
    <3> QED
      BY <3>1, <3>2 DEF Records
  <2>2. ASSUME NEW b \in mem'.group \cup mem'.waiting
        PROVE  blocks'[b].known /\ ~blocks'[b].pay_ready
    <3>1. b \in Blocks
      BY <1>1
    <3>2. blocks[b].known /\ ~blocks[b].pay_ready
      BY <1>0 DEF Course, CopiesHold
    <3> QED
      BY <3>1, <3>2 DEF Records
  <2> QED
    BY <2>1, <2>2 DEF CopiesHold
<1>6. UnlockedWasPaid'
  BY <1>0 DEF UnlockedWasPaid, Records
<1>7. RowsAreDeep'
  <2>1. ASSUME NEW b \in Blocks, rows'[b] # NoRows
        PROVE  blocks'[b].known /\ top' - Height[b] > Delay(b)
    <3>1. Height[b] \in Nat /\ Delay(b) \in Nat
      BY <1>2
    <3>2. CASE rows[b] # NoRows
      <4>1. blocks[b].known /\ top - Height[b] > Delay(b)
        BY <3>2, <1>0 DEF RowsAreDeep
      <4> QED
        BY <4>1, <3>1, <1>1 DEF Records
    <3>3. CASE pc = "insert" /\ b \in mem.group
      <4>1. blocks[b].known /\ mem.top - Height[b] > Delay(b)
        BY <3>3, <1>0 DEF CopiesHold, GroupIsDeep
      <4> QED
        BY <4>1, <3>1, <1>1 DEF Records
    <3> QED
      BY <2>1, <3>2, <3>3 DEF RowMoves
  <2> QED
    BY <2>1 DEF RowsAreDeep, Delay
<1>8. ASSUME NEW b \in Blocks, rows[b] # NoRows \/ Over(b), pc # "precalc" \/ b \notin mem.group
      PROVE  rows'[b] # NoRows \/ Over(b)'
  BY <1>0, <1>8 DEF RowMoves, StaleIsOver, Records
<1>9. MarkHasRows'
  <2>1. ASSUME pc' = "mark", NEW b \in mem'.group
        PROVE  rows'[b] # NoRows \/ Over(b)'
    <3>1. b \in mem.group /\ b \in Blocks
      BY <2>1, <1>1 DEF Course
    <3>2. CASE pc = "mark"
      BY <3>1, <3>2, <1>0, <1>8 DEF MarkHasRows
    <3> QED
      BY <2>1, <3>1, <3>2 DEF Course
  <2> QED
    BY <2>1 DEF MarkHasRows
<1>10. PayableHasRows'
  <2>1. ASSUME NEW b \in Blocks, b \notin paid', blocks'[b].known, blocks'[b].valid,
               ~blocks'[b].unlocked, blocks'[b].pay_ready
        PROVE  rows'[b] # NoRows
    <3>1. ~Over(b)' /\ ~Over(b)
      BY <2>1 DEF Over, Records
    <3>2. CASE blocks[b].pay_ready
      <4>1. blocks[b].known /\ blocks[b].valid /\ ~blocks[b].unlocked /\ b \notin paid
        BY <2>1, <3>1, <1>0 DEF Records, Over, UnlockedWasPaid
      <4>2. rows[b] # NoRows
        BY <4>1, <3>2, <1>0 DEF PayableHasRows, Locked
      <4>3. b \notin mem.group
        BY <3>2, <1>0 DEF CopiesHold
      <4> QED
        BY <4>2, <4>3, <3>1, <1>8
    <3>3. CASE pc = "mark" /\ b \in mem.group
      BY <3>1, <3>3, <1>0, <1>8 DEF MarkHasRows
    <3> QED
      BY <2>1, <3>2, <3>3 DEF Records
  <2> QED
    BY <2>1 DEF PayableHasRows, Locked
<1> QED
  BY <1>3, <1>4, <1>5, <1>6, <1>7, <1>9, <1>10

\* Steps of others than the cleaner leave its decisions sound.
LEMMA CleanerUndisturbed ==
    ASSUME Rules, BaseInv, RowsInv, Records, Moves, NotCleaning
    PROVE  (CleanOK /\ KeepIsEnough /\ StaleIsOver)'
<1>0. CleanOK /\ KeepIsEnough /\ StaleIsOver
  BY DEF RowsInv
<1>1. /\ top \in Nat /\ top' \in Nat /\ clean.since \in Nat /\ CleanGap \in Nat /\ LateFind \in Nat
      /\ \A b \in Blocks : Height[b] \in Nat
  BY <1>0 DEF BaseInv, TablesOK, Moves, CleanOK, Rules, Standing, DelaysAssumption, BlocksAssumption
<1>2. clean' = clean
  BY DEF NotCleaning
<1>3. CleanOK'
  BY <1>0, <1>2 DEF CleanOK, Records
<1>4. StaleIsOver'
  <2>1. clean.stale \subseteq Blocks
    BY <1>0 DEF CleanOK
  <2> QED
    BY <1>0, <1>2, <2>1 DEF StaleIsOver, Records
<1>5. ASSUME clean.pc \in {"recent", "distinct"}
      PROVE  /\ clean.since <= top' /\ top' <= clean.since + CleanGap
             /\ \A b \in Blocks \ clean.keep :
                   blocks'[b].known => Over(b)' \/ Height[b] + LateFind >= clean.since
  <2>1. clean.since <= top /\ top <= clean.since + CleanGap
    BY <1>0, <1>5 DEF KeepIsEnough
  <2>2. clean.since <= top' /\ top' <= clean.since + CleanGap
    BY <2>1, <1>1, <1>5 DEF NotCleaning
  <2>3. ASSUME NEW b \in Blocks \ clean.keep, blocks'[b].known
        PROVE  Over(b)' \/ Height[b] + LateFind >= clean.since
    <3>1. CASE blocks[b].known
      BY <3>1, <1>0, <1>5 DEF KeepIsEnough, Records
    <3>2. CASE ~blocks[b].known
      <4>1. top - Height[b] <= LateFind
        BY <2>3, <3>2 DEF Records
      <4>2. Height[b] \in Nat
        BY <1>1
      <4> QED
        BY <4>1, <4>2, <2>1, <1>1
    <3> QED
      BY <3>1, <3>2
  <2> QED
    BY <2>2, <2>3
<1>6. KeepIsEnough'
  BY <1>2, <1>5 DEF KeepIsEnough
<1> QED
  BY <1>3, <1>4, <1>6

\* Steps that leave the records alone.
LEMMA SameRecords ==
    ASSUME RowsInv, blocks' = blocks, paid \subseteq paid', paid' \subseteq Blocks
    PROVE  Records
BY DEF RowsInv, Records, Over

\* A step that edits one record.
LEMMA EditRecords ==
    ASSUME BaseInv, RowsInv, paid' = paid, NEW b \in Blocks, NEW rec,
           blocks' = [blocks EXCEPT ![b] = rec],
           rec.known = blocks[b].known,
           ~blocks[b].valid => ~rec.valid,
           rec.unlocked => blocks[b].unlocked \/ b \in paid \/ ~rec.valid,
           rec.pay_ready =>
              \/ blocks[b].pay_ready
              \/ /\ pc = "mark" /\ b \in mem.group
                 /\ b \notin mem'.group /\ b \notin mem'.waiting /\ b \notin DOMAIN mem'.list
    PROVE  Records
<1>1. /\ blocks'[b] = rec
      /\ \A o \in Blocks \ {b} : blocks'[o] = blocks[o]
  BY DEF BaseInv, TablesOK
<1>2. paid \subseteq Blocks
  BY DEF RowsInv, CleanOK
<1>3. \A o \in Blocks : Over(o) => Over(o)'
  BY <1>1 DEF Over
<1> QED
  BY <1>1, <1>2, <1>3 DEF Records, Over

LEMMA SameRows ==
    ASSUME rows' = rows
    PROVE  RowMoves
BY DEF RowMoves

\* Ways through the cycle, each with what it does to its lists.
LEMMA QuietCourse ==
    ASSUME RowsInv, pc' = pc, mem' = mem
    PROVE  Course
BY DEF RowsInv, GroupShape, Course

LEMMA RestCourse ==
    ASSUME mem' = NoMem, pc' \in {"timer", "down"}
    PROVE  Course
<1>1. GroupShape'
  BY NoMemFields DEF GroupShape, Precalcs
<1> QED
  BY <1>1, NoMemFields DEF Course

LEMMA ContinueCourse ==
    ASSUME BaseInv, RowsInv, NEW b, Continue(b), pc \notin Precalcs
    PROVE  Course
<1>1. /\ pc' = IF mem.alt THEN "alt" ELSE "main"
      /\ mem' = Without(mem, b)
  BY DEF Continue, Walk
<1>2. DOMAIN mem = MemFields /\ GroupShape
  BY DEF BaseInv, MemOK, RowsInv
<1>3. /\ DOMAIN mem'.list = DOMAIN mem.list \ {b}
      /\ \A o \in DOMAIN mem.list \ {b} : mem'.list[o] = mem.list[o]
      /\ mem'.top = mem.top /\ mem'.alt = mem.alt
      /\ mem'.waiting = mem.waiting /\ mem'.group = mem.group
  BY <1>1, <1>2, WithoutFields
<1>4. GroupShape'
  BY <1>1, <1>2, <1>3 DEF GroupShape, Precalcs
<1> QED
  BY <1>1, <1>3, <1>4 DEF Course

LEMMA EndCourse ==
    ASSUME EndCycle
    PROVE  Course
BY RestCourse DEF EndCycle

LEMMA BeginAltCourse ==
    ASSUME BeginAlt
    PROVE  Course
<1>1. CASE isFullStop
  BY <1>1, EndCourse DEF BeginAlt
<1>2. CASE ~isFullStop
  <2>1. GroupShape'
    BY <1>2, BeginAltMem DEF GroupShape, Precalcs
  <2> QED
    BY <1>2, <2>1, BeginAltMem DEF Course, Locked
<1> QED
  BY <1>1, <1>2

LEMMA PrecalcEndsCourse ==
    ASSUME BaseInv, RowsInv, PrecalcEnds, pc \in Precalcs
    PROVE  Course
<1>1. DOMAIN mem = MemFields /\ GroupShape
  BY DEF BaseInv, MemOK, RowsInv
<1>2. GroupShape'
  BY <1>1, PrecalcEndsMem DEF GroupShape, Precalcs
<1> QED
  BY <1>1, <1>2, PrecalcEndsMem DEF Course

\* Steps that leave the lists alone on the way to pc'.
LEMMA KeepCourse ==
    ASSUME BaseInv, RowsInv, pc \notin Precalcs, pc' \notin Precalcs,
           pc' \in {"alt", "anchor"} => mem.alt, pc' = "main" => ~mem.alt,
           pc' = "anchor" => DOMAIN mem.list = {},
           mem'.list = mem.list, mem'.alt = mem.alt, mem'.waiting = mem.waiting,
           mem'.group = mem.group, mem'.top \in {mem.top, top}
    PROVE  Course
<1>1. GroupShape'
  BY DEF RowsInv, GroupShape, Precalcs
<1> QED
  BY <1>1 DEF Course, Precalcs

Untouched == /\ blocks' = blocks /\ rows' = rows /\ paid' = paid /\ clean' = clean /\ top' = top

LEMMA UntouchedMoves ==
    ASSUME RowsInv, Untouched
    PROVE  Records /\ RowMoves /\ NotCleaning
BY SameRecords, SameRows DEF Untouched, NotCleaning, RowsInv, CleanOK

\* Steps of the cycle that only move on.
LEMMA ControlCourse ==
    ASSUME Rules, BaseInv, RowsInv,
           \/ Start \/ Stop \/ Crash \/ RunCycle \/ GetTopBlockHeight \/ MainDone
           \/ AltDone \/ AnchorsDone \/ \E b \in MainBlocks : SkipMain(b)
           \/ \E b \in AltBlocks : SkipAlt(b) \/ AnchorHeader(b)
    PROVE  Course /\ Records /\ RowMoves /\ NotCleaning
<1>0. DOMAIN mem = MemFields /\ GroupShape
  BY DEF BaseInv, MemOK, RowsInv
<1>1. Untouched
  BY DEF Start, Stop, Crash, Gone, RunCycle, GetTopBlockHeight, MainDone, AltDone, AnchorsDone,
         SkipMain, SkipAlt, AnchorHeader, sql, chain, Untouched
<1>2. Records /\ RowMoves /\ NotCleaning
  BY <1>1, UntouchedMoves
<1>3. ASSUME Start PROVE Course
  <2>1. pc = "down" /\ pc' = "timer" /\ mem' = mem
    BY <1>3 DEF Start
  <2> QED
    BY <2>1, KeepCourse DEF Precalcs
<1>4. ASSUME Stop \/ Crash PROVE Course
  <2>1. CASE Gone
    BY <2>1, RestCourse DEF Gone
  <2>2. CASE ~Gone
    BY <2>2, <1>4, QuietCourse DEF Stop, Crash
  <2> QED
    BY <2>1, <2>2
<1>5. ASSUME RunCycle PROVE Course
  <2>1. GroupShape'
    BY <1>5, RunCycleMem DEF GroupShape, Precalcs
  <2> QED
    BY <2>1, <1>5, RunCycleMem DEF Course, Locked
<1>6. ASSUME GetTopBlockHeight PROVE Course
  <2>1. CASE pc' = Walk /\ mem' = [mem EXCEPT !.top = top]
    <3>1. /\ pc' = (IF mem.alt THEN "alt" ELSE "main") /\ pc \in {"mainTop", "altTop"}
          /\ mem'.list = mem.list /\ mem'.top = top
          /\ mem'.alt = mem.alt /\ mem'.waiting = mem.waiting /\ mem'.group = mem.group
      BY <2>1, <1>0, <1>6 DEF Walk, MemFields, GetTopBlockHeight
    <3> QED
      BY <3>1, KeepCourse DEF Precalcs
  <2>2. CASE EndCycle \/ BeginAlt
    BY <2>2, EndCourse, BeginAltCourse
  <2> QED
    BY <1>6, <2>1, <2>2 DEF GetTopBlockHeight
<1>7. ASSUME MainDone PROVE Course
  BY <1>7, BeginAltCourse DEF MainDone
<1>8. ASSUME AltDone PROVE Course
  <2>1. pc = "alt" /\ pc' = "anchor" /\ mem' = mem /\ DOMAIN mem.list = {}
    BY <1>8 DEF AltDone
  <2> QED
    BY <2>1, <1>0, KeepCourse DEF Precalcs, GroupShape
<1>9. ASSUME AnchorsDone PROVE Course
  BY <1>9, EndCourse DEF AnchorsDone
<1>10. ASSUME NEW b \in MainBlocks, SkipMain(b) PROVE Course
  BY <1>10, ContinueCourse DEF SkipMain, Precalcs
<1>11. ASSUME NEW b \in AltBlocks, SkipAlt(b) PROVE Course
  <2>1. pc = "alt" /\ b \in DOMAIN mem.list /\ b \in Blocks
    BY <1>11 DEF SkipAlt, Turn, Blocks
  <2>2. Delay(b) = AltDelay /\ AltDelay \in Nat /\ Standing
    BY DEF Delay, Rules, Standing, BlocksAssumption, DelaysAssumption
  <2>3. ~TooShallow(b, AltDelay) => mem.top - Height[b] > Delay(b)
    BY <2>1, <2>2, NotShallow
  <2>4. GroupShape'
    BY <1>0, <1>11, <2>1, SkipAltMem DEF GroupShape, Precalcs
  <2> QED
    BY <1>0, <1>11, <2>1, <2>3, <2>4, SkipAltMem DEF Course
<1>12. ASSUME NEW b \in AltBlocks, AnchorHeader(b) PROVE Course
  <2>1. pc = "anchor"
    BY <1>12 DEF AnchorHeader
  <2>2. PICK group \in SUBSET mem.waiting :
              /\ DOMAIN mem' = MemFields /\ mem'.list = mem.list
              /\ mem'.top = mem.top /\ mem'.alt = mem.alt /\ mem'.waiting = mem.waiting \ group
              /\ \/ pc' = "anchor" /\ mem'.group = mem.group
                 \/ pc' = "precalc" /\ mem'.group = group
    BY <1>0, <1>12, AnchorMem
  <2>3. GroupShape'
    BY <1>0, <2>1, <2>2 DEF GroupShape, Precalcs
  <2> QED
    BY <2>2, <2>3 DEF Course
<1> QED
  BY <1>2, <1>3, <1>4, <1>5, <1>6, <1>7, <1>8, <1>9, <1>10, <1>11, <1>12

\* Steps of the payout.
LEMMA PayCourse ==
    ASSUME Rules, BaseInv, RowsInv,
           \/ HeaderByHash \/ SumBefore \/ LoadRows \/ Resolved \/ CreditBalances \/ SumAfter
           \/ \E a \in Accounts : ResolveBalance(a)
    PROVE  Course /\ Records /\ RowMoves /\ NotCleaning
<1>0. DOMAIN mem = MemFields /\ blocks \in [Blocks -> BlockRecord] /\ paid \subseteq Blocks
  BY DEF BaseInv, MemOK, TablesOK, RowsInv, CleanOK
<1>1. top' = top /\ clean' = clean /\ rows' = rows /\ pc \in Payers
  BY DEF HeaderByHash, SumBefore, LoadRows, Resolved, CreditBalances, SumAfter, ResolveBalance,
         sql, chain, Payers
<1>2. mem.cur \in Blocks /\ pc \notin Precalcs
  BY <1>1 DEF BaseInv, MemOK, Payers, Precalcs
<1>3. RowMoves /\ NotCleaning
  BY <1>1, SameRows DEF NotCleaning
<1>4. \/ Continue(mem.cur) \/ EndCycle
      \/ /\ pc' \in Payers
         /\ \/ mem' = mem
            \/ mem' = [mem EXCEPT !.sum = BalanceSum]
            \/ mem' = [mem EXCEPT !.split = rows[mem.cur]]
  BY DEF HeaderByHash, SumBefore, LoadRows, Resolved, CreditBalances, SumAfter, ResolveBalance,
         FullStop, Payers
<1>5. Course
  <2>1. CASE Continue(mem.cur)
    BY <2>1, <1>2, ContinueCourse
  <2>2. CASE EndCycle
    BY <2>2, EndCourse
  <2>3. CASE /\ pc' \in Payers
             /\ \/ mem' = mem
                \/ mem' = [mem EXCEPT !.sum = BalanceSum]
                \/ mem' = [mem EXCEPT !.split = rows[mem.cur]]
    <3>1. /\ mem'.list = mem.list /\ mem'.top = mem.top /\ mem'.alt = mem.alt
          /\ mem'.waiting = mem.waiting /\ mem'.group = mem.group
      BY <2>3, <1>0 DEF MemFields
    <3> QED
      BY <3>1, <2>3, <1>2, KeepCourse DEF Payers, Precalcs
  <2> QED
    BY <1>4, <2>1, <2>2, <2>3
<1>6. paid' = paid \/ (paid' = paid \cup {mem.cur} /\ blocks' = blocks)
  BY DEF HeaderByHash, SumBefore, LoadRows, Resolved, CreditBalances, SumAfter, ResolveBalance,
         ApplyCredits, sql
<1>7. Records
  <2>1. CASE blocks' = blocks
    BY <2>1, <1>0, <1>2, <1>6, SameRecords
  <2>2. CASE blocks' # blocks
    <3>1. SumAfter
      BY <2>2 DEF HeaderByHash, SumBefore, LoadRows, Resolved, CreditBalances, ResolveBalance
    <3>2. pc = "sumAfter" /\ blocks' = [blocks EXCEPT ![mem.cur].unlocked = TRUE] /\ paid' = paid
      BY <2>2, <3>1 DEF SumAfter, sql
    <3> DEFINE rec == [blocks[mem.cur] EXCEPT !.unlocked = TRUE]
    <3>3. mem.cur \in paid
      BY <3>2 DEF BaseInv, CurIsPaid
    <3>4. blocks[mem.cur] \in BlockRecord /\ TRUE \in BOOLEAN
      BY <1>0, <1>2
    <3>5. /\ rec.known = blocks[mem.cur].known /\ rec.valid = blocks[mem.cur].valid
          /\ rec.pay_ready = blocks[mem.cur].pay_ready
      BY <3>4, UnlockedRecord, Zenon
    <3>6. blocks' = [blocks EXCEPT ![mem.cur] = rec]
      BY <3>2
    <3> HIDE DEF rec
    <3> QED
      BY <3>2, <3>3, <3>5, <3>6, <1>2, EditRecords
  <2> QED
    BY <2>1, <2>2
<1> QED
  BY <1>3, <1>5, <1>7

\* A record is invalidated.
LEMMA DropRecords ==
    ASSUME BaseInv, RowsInv, paid' = paid, NEW b \in Blocks,
           blocks' = [blocks EXCEPT ![b] = Invalidated(blocks[b])]
    PROVE  Records
<1>1. blocks[b] \in BlockRecord
  BY DEF BaseInv, TablesOK
<1> QED
  BY <1>1, InvalidatedRecord, EditRecords

\* Steps that ask the daemon about a block.
LEMMA HeaderCourse ==
    ASSUME Rules, BaseInv, RowsInv,
           \/ \E b \in MainBlocks : HeaderByHeight(b)
           \/ \E b \in AltBlocks : AltHeader(b)
           \/ AltByHeight
    PROVE  Course /\ Records /\ RowMoves /\ NotCleaning
<1>0. DOMAIN mem = MemFields /\ GroupShape /\ paid \subseteq Blocks
  BY DEF BaseInv, MemOK, RowsInv, CleanOK
<1>1. top' = top /\ clean' = clean /\ rows' = rows /\ paid' = paid
  BY DEF HeaderByHeight, AltHeader, AltByHeight, sql, chain
<1>2. RowMoves /\ NotCleaning
  BY <1>1, SameRows DEF NotCleaning
<1>3. blocks' = blocks => Records
  BY <1>0, <1>1, SameRecords
<1>4. ConfirmDelay \in Nat /\ Standing
  BY DEF Rules, Standing, DelaysAssumption
<1>5. ASSUME NEW b \in MainBlocks, HeaderByHeight(b) PROVE Course /\ Records
  <2>1. b \in Blocks /\ Delay(b) = ConfirmDelay /\ pc = "main" /\ pc \notin Precalcs /\ b \in DOMAIN mem.list
    BY <1>5 DEF Blocks, Delay, HeaderByHeight, Precalcs, Turn
  <2>2. mem.top - Height[b] > Delay(b)
    BY <2>1, <1>4, <1>5, NotShallow DEF HeaderByHeight
  <2>3. CASE Continue(b) /\ blocks' = blocks
    BY <2>1, <2>3, <1>3, ContinueCourse
  <2>4. CASE blocks' = [blocks EXCEPT ![b] = Invalidated(blocks[b])] /\ Continue(b)
    BY <2>1, <2>4, <1>1, DropRecords, ContinueCourse
  <2>5. CASE /\ ~mem.list[b].pay_ready /\ blocks' = blocks
             /\ pc' = "precalc" /\ mem' = [mem EXCEPT !.cur = b, !.group = {b}]
    <3>1. /\ mem'.cur = b /\ mem'.list = mem.list /\ mem'.top = mem.top
          /\ mem'.alt = mem.alt /\ mem'.waiting = mem.waiting /\ mem'.group = {b}
      BY <2>5, <1>0 DEF MemFields
    <3>2. ~mem.alt /\ mem.waiting = {}
      BY <2>1, <1>0 DEF GroupShape
    <3>3. GroupShape'
      BY <3>1, <3>2, <2>5 DEF GroupShape, Precalcs
    <3>4. Course
      BY <3>1, <3>2, <3>3, <2>1, <2>2, <2>5 DEF Course
    <3> QED
      BY <3>4, <2>5, <1>3
  <2>6. CASE pc' = "byHash" /\ mem' = [mem EXCEPT !.cur = b] /\ blocks' = blocks
    <3>1. /\ mem'.list = mem.list /\ mem'.top = mem.top /\ mem'.alt = mem.alt
          /\ mem'.waiting = mem.waiting /\ mem'.group = mem.group
      BY <2>6, <1>0 DEF MemFields
    <3> QED
      BY <3>1, <2>1, <2>6, <1>3, KeepCourse DEF Precalcs
  <2> QED
    BY <1>5, <2>3, <2>4, <2>5, <2>6 DEF HeaderByHeight
<1>6. ASSUME NEW b \in AltBlocks, AltHeader(b) PROVE Course /\ Records
  <2>1. b \in Blocks /\ pc = "alt" /\ pc \notin Precalcs
    BY <1>6 DEF Blocks, AltHeader, Precalcs
  <2>2. CASE blocks' = [blocks EXCEPT ![b] = Invalidated(blocks[b])] /\ Continue(b)
    BY <2>1, <2>2, <1>1, DropRecords, ContinueCourse
  <2>3. CASE pc' \in {"byHash", "byHeight"} /\ mem' = [mem EXCEPT !.cur = b] /\ blocks' = blocks
    <3>1. /\ mem'.list = mem.list /\ mem'.top = mem.top /\ mem'.alt = mem.alt
          /\ mem'.waiting = mem.waiting /\ mem'.group = mem.group
      BY <2>3, <1>0 DEF MemFields
    <3> QED
      BY <3>1, <2>1, <2>3, <1>3, KeepCourse DEF Precalcs
  <2> QED
    BY <1>6, <2>2, <2>3 DEF AltHeader
<1>7. ASSUME AltByHeight PROVE Course /\ Records
  <2>1. pc = "byHeight" /\ Continue(mem.cur)
    BY <1>7 DEF AltByHeight
  <2>2. mem.cur \in Blocks /\ Course
    BY <2>1, ContinueCourse DEF BaseInv, MemOK, Precalcs
  <2>3. CASE blocks' = [blocks EXCEPT ![mem.cur] = Invalidated(blocks[mem.cur])]
    BY <2>2, <2>3, <1>1, DropRecords
  <2> QED
    BY <1>3, <1>7, <2>2, <2>3 DEF AltByHeight
<1> QED
  BY <1>2, <1>5, <1>6, <1>7

\* Steps of the precalculation.
LEMMA PrecalcCourse ==
    ASSUME Rules, BaseInv, RowsInv,
           PrecalcDelete \/ PrecalcInsert \/ \E b \in Blocks : MarkReady(b)
    PROVE  Course /\ Records /\ RowMoves /\ NotCleaning
<1>0. /\ DOMAIN mem = MemFields /\ GroupShape /\ paid \subseteq Blocks
      /\ mem.group \subseteq Blocks /\ pc \in Precalcs
  BY DEF BaseInv, MemOK, RowsInv, CleanOK, PrecalcDelete, PrecalcInsert, MarkReady, Precalcs
<1>1. top' = top /\ clean' = clean /\ paid' = paid
  BY DEF PrecalcDelete, PrecalcInsert, MarkReady, sql, chain
<1>2. NotCleaning
  BY <1>1 DEF NotCleaning
<1>3. ASSUME PrecalcDelete PROVE Course /\ Records /\ RowMoves
  <2>1. blocks' = blocks /\ pc = "precalc"
    BY <1>3 DEF PrecalcDelete
  <2>2. Records
    BY <2>1, <1>0, <1>1, SameRecords
  <2>3. CASE PrecalcEnds /\ rows' = rows
    BY <2>2, <2>3, <1>0, PrecalcEndsCourse, SameRows
  <2>4. CASE /\ pc' = "insert" /\ mem' = mem
             /\ rows' = [b \in Blocks |-> IF b \in mem.group THEN NoRows ELSE rows[b]]
    <3>1. GroupShape'
      BY <2>1, <2>4, <1>0 DEF GroupShape, Precalcs
    <3>2. Course
      BY <2>4, <3>1 DEF Course
    <3>3. RowMoves
      BY <2>1, <2>4 DEF RowMoves
    <3> QED
      BY <3>2, <3>3, <2>2
  <2> QED
    BY <1>3, <2>3, <2>4 DEF PrecalcDelete
<1>4. ASSUME PrecalcInsert PROVE Course /\ Records /\ RowMoves
  <2>1. blocks' = blocks /\ pc = "insert"
    BY <1>4 DEF PrecalcInsert
  <2>2. Records
    BY <2>1, <1>0, <1>1, SameRecords
  <2>3. PICK s \in Splits :
           LET written == [b \in Blocks |-> IF b \in mem.group THEN s ELSE rows[b]]
           IN \/ NoFault /\ rows' = written /\ pc' = "mark" /\ UNCHANGED mem
              \/ Fault /\ rows' \in {rows, written} /\ PrecalcEnds
    BY <1>4, Zenon DEF PrecalcInsert
  <2>4. s # NoRows
    BY DEF Splits
  <2> DEFINE written == [b \in Blocks |-> IF b \in mem.group THEN s ELSE rows[b]]
  <2>5. \/ rows' = written /\ pc' = "mark" /\ mem' = mem
        \/ (rows' = written \/ rows' = rows) /\ PrecalcEnds
    BY <2>3, Zenon
  <2>6. \A b \in Blocks : written[b] = IF b \in mem.group THEN s ELSE rows[b]
    OBVIOUS
  <2> HIDE DEF written
  <2>7. RowMoves
    BY <2>1, <2>4, <2>5, <2>6 DEF RowMoves
  <2>8. CASE rows' = written /\ pc' = "mark" /\ mem' = mem
    <3>1. GroupShape'
      BY <2>1, <2>8, <1>0 DEF GroupShape, Precalcs
    <3>2. \A b \in mem.group : rows'[b] # NoRows
      BY <2>4, <2>6, <2>8, <1>0
    <3>3. Course
      BY <2>1, <2>8, <3>1, <3>2 DEF Course
    <3> QED
      BY <3>3, <2>2, <2>7
  <2> QED
    BY <2>2, <2>5, <2>7, <2>8, <1>0, PrecalcEndsCourse
<1>5. ASSUME NEW b \in Blocks, MarkReady(b) PROVE Course /\ Records /\ RowMoves
  <2>1. /\ blocks' = [blocks EXCEPT ![b] = Ready(blocks[b])] /\ rows' = rows
        /\ pc = "mark" /\ b \in mem.group
        /\ \/ PrecalcEnds /\ mem.group = {b}
           \/ mem.group # {b} /\ pc' = "mark" /\ mem' = [mem EXCEPT !.group = @ \ {b}]
    BY <1>5 DEF MarkReady, sql
  <2>2. /\ Course
        /\ b \notin mem'.group /\ b \notin mem'.waiting /\ b \notin DOMAIN mem'.list
    <3>1. CASE PrecalcEnds
      BY <3>1, <2>1, <1>0, PrecalcEndsMem, PrecalcEndsCourse DEF GroupShape
    <3>2. CASE mem.group # {b} /\ pc' = "mark" /\ mem' = [mem EXCEPT !.group = @ \ {b}]
      <4>1. /\ mem'.list = mem.list /\ mem'.top = mem.top
            /\ mem'.alt = mem.alt /\ mem'.waiting = mem.waiting /\ mem'.group = mem.group \ {b}
        BY <3>2, <1>0 DEF MemFields
      <4>2. mem.alt
        BY <2>1, <3>2, <1>0 DEF GroupShape
      <4>3. GroupShape'
        BY <4>1, <4>2, <2>1, <3>2, <1>0 DEF GroupShape, Precalcs
      <4>4. Course
        BY <4>1, <4>3, <2>1, <3>2 DEF Course
      <4> QED
        BY <4>1, <4>2, <4>4, <2>1, <1>0 DEF GroupShape
    <3> QED
      BY <2>1, <3>1, <3>2
  <2>3. blocks[b] \in BlockRecord
    BY DEF BaseInv, TablesOK
  <2>4. Records
    BY <2>1, <2>2, <2>3, <1>1, ReadyRecord, EditRecords
  <2> QED
    BY <2>1, <2>2, <2>4, SameRows
<1> QED
  BY <1>2, <1>3, <1>4, <1>5

\* Steps of the chain, the ingest, the operator and the payouts.
LEMMA OtherCourse ==
    ASSUME Rules, BaseInv, RowsInv, Environment \/ Others
    PROVE  Course /\ Records /\ RowMoves /\ NotCleaning
<1>0. blocks \in [Blocks -> BlockRecord] /\ paid \subseteq Blocks
  BY DEF BaseInv, TablesOK, RowsInv, CleanOK
<1>1. pc' = pc /\ mem' = mem /\ paid' = paid /\ rows' = rows /\ clean' = clean
  BY DEF Environment, Others, NewTop, Reorg, Found, Exchanged, PaySet, MarkUnpaid,
         RewardFix, Relock, Revalidate, ReadyReset, Edit, DeleteUser, Debit, process, sql
<1>2. Course /\ RowMoves
  BY <1>1, QuietCourse, SameRows
<1>3. ASSUME NewTop PROVE Records /\ NotCleaning
  <2>1. /\ top' = top + 1 /\ blocks' = blocks
        /\ clean.pc \in {"recent", "distinct"} => top < clean.since + CleanGap
    BY <1>3 DEF NewTop
  <2> QED
    BY <2>1, <1>0, <1>1, SameRecords DEF NotCleaning
<1>4. ASSUME NEW b \in Blocks, Reorg(b) PROVE Records /\ NotCleaning
  <2>1. top' = top /\ blocks' = blocks
    BY <1>4 DEF Reorg
  <2> QED
    BY <2>1, <1>0, <1>1, SameRecords DEF NotCleaning
<1>5. ASSUME NEW b \in Blocks, NEW v \in Amounts, Found(b, v) PROVE Records /\ NotCleaning
  <2> DEFINE rec == [Absent EXCEPT !.known = TRUE, !.valid = TRUE, !.value = v]
  <2>1. /\ top' = top /\ ~blocks[b].known /\ top - Height[b] <= LateFind
        /\ blocks' = [blocks EXCEPT ![b] = rec]
    BY <1>5 DEF Found, chain
  <2>2. rec.valid = TRUE /\ rec.unlocked = FALSE /\ rec.pay_ready = FALSE /\ rec.known = TRUE
    BY FoundRecord
  <2> HIDE DEF rec
  <2>3. blocks'[b] = rec /\ \A o \in Blocks \ {b} : blocks'[o] = blocks[o]
    BY <2>1, <1>0
  <2>4. \A o \in Blocks : Over(o) => Over(o)'
    BY <2>1, <2>3, <1>1 DEF Over
  <2>5. Records
    BY <2>1, <2>2, <2>3, <2>4, <1>0, <1>1 DEF Records
  <2> QED
    BY <2>1, <2>5, <1>1 DEF NotCleaning
<1>6. ASSUME Others PROVE Records /\ NotCleaning
  <2>1. CASE AccountStep
    <3>1. blocks' = blocks /\ top' = top
      BY <2>1 DEF AccountStep, chain
    <3> QED
      BY <3>1, <1>0, <1>1, SameRecords DEF NotCleaning
  <2>2. ASSUME NEW b, NEW new, ScriptStep(b, new) PROVE Records /\ NotCleaning
    <3>1. /\ top' = top /\ blocks' = [blocks EXCEPT ![b] = new] /\ b \in Blocks
          /\ Scripted(blocks[b], new)
      BY <2>2 DEF ScriptStep, chain
    <3>2. /\ new.valid = blocks[b].valid /\ new.known = blocks[b].known
          /\ new.pay_ready => blocks[b].pay_ready
          /\ new.unlocked => blocks[b].unlocked
      BY <3>1 DEF Scripted, Rules, NoRevival
    <3> QED
      BY <3>1, <3>2, <1>1, EditRecords DEF NotCleaning
  <2> QED
    BY <1>0, <1>6, <2>1, <2>2, OthersSteps DEF Rules, Standing
<1> QED
  BY <1>2, <1>3, <1>4, <1>5, <1>6 DEF Environment

\* The cleaner keeps what is not over, and what it finds stale is over.
LEMMA CleanerCourse ==
    ASSUME Rules, BaseInv, RowsInv, Cleaner
    PROVE  Course /\ Records /\ RowMoves /\ (CleanOK /\ KeepIsEnough /\ StaleIsOver)'
<1>0. /\ CleanOK /\ KeepIsEnough /\ StaleIsOver /\ UnlockedWasPaid /\ RowsAreDeep
      /\ paid \subseteq Blocks
  BY DEF RowsInv, CleanOK
<1>1. /\ top \in Nat /\ clean.since \in Nat /\ CleanGap \in Nat /\ LateFind \in Nat
      /\ \A b \in Blocks : Height[b] \in Nat /\ Delay(b) \in Nat /\ LateFind + CleanGap <= Delay(b)
  BY <1>0 DEF BaseInv, TablesOK, CleanOK, Rules, Standing, DelaysAssumption, BlocksAssumption,
              DelaysOutlastCleaner, Delay
<1>2. pc' = pc /\ mem' = mem /\ paid' = paid /\ blocks' = blocks /\ top' = top
  BY DEF Cleaner, CollectLocked, QueryRecent, QueryDistinct, DeleteStale, CleanerSame,
         process, chain
<1>3. Course /\ Records
  BY <1>0, <1>2, QuietCourse, SameRecords
<1>4. \A b \in Blocks : Over(b)' <=> Over(b)
  BY <1>2 DEF Over
<1>5. ASSUME CollectLocked PROVE RowMoves /\ (CleanOK /\ KeepIsEnough /\ StaleIsOver)'
  <2>1. rows' = rows /\ clean' = [pc |-> "recent", keep |-> KeepHexes, stale |-> {}, since |-> top]
    BY <1>5 DEF CollectLocked
  <2>2. /\ clean'.pc = "recent" /\ clean'.keep = KeepHexes /\ clean'.stale = {} /\ clean'.since = top
        /\ KeepHexes \subseteq Blocks
    BY <2>1 DEF KeepHexes
  <2>3. ASSUME NEW b \in Blocks \ KeepHexes, blocks[b].known PROVE Over(b)
    BY <2>3, <1>0 DEF KeepHexes, Locked, UnlockedWasPaid, Over
  <2>4. KeepIsEnough'
    BY <2>2, <2>3, <1>1, <1>2, <1>4 DEF KeepIsEnough
  <2>5. CleanOK'
    BY <2>1, <2>2, <1>0, <1>1, <1>2 DEF CleanOK
  <2>6. StaleIsOver'
    BY <2>2 DEF StaleIsOver
  <2> QED
    BY <2>1, <2>4, <2>5, <2>6, SameRows
<1>6. ASSUME NEW recent \in SUBSET paid, QueryRecent(recent)
      PROVE  RowMoves /\ (CleanOK /\ KeepIsEnough /\ StaleIsOver)'
  <2>1. /\ rows' = rows /\ clean.pc = "recent"
        /\ clean' = [clean EXCEPT !.pc = "distinct", !.keep = @ \cup recent]
    BY <1>6 DEF QueryRecent
  <2>2. CleanOK'
    BY <2>1, <1>0, <1>2 DEF CleanOK
  <2>3. /\ clean'.keep = clean.keep \cup recent /\ clean'.stale = clean.stale
        /\ clean'.since = clean.since
    BY <2>1, <1>0 DEF CleanOK
  <2>4. KeepIsEnough'
    BY <2>1, <2>3, <1>0, <1>2, <1>4 DEF KeepIsEnough
  <2>5. StaleIsOver'
    BY <2>3, <1>0, <1>4 DEF StaleIsOver, CleanOK
  <2> QED
    BY <2>1, <2>2, <2>4, <2>5, SameRows
<1>7. ASSUME QueryDistinct PROVE RowMoves /\ (CleanOK /\ KeepIsEnough /\ StaleIsOver)'
  <2> DEFINE S == {b \in Blocks : rows[b] # NoRows} \ clean.keep
  <2>1. /\ rows' = rows /\ clean.pc = "distinct"
        /\ clean' = [clean EXCEPT !.pc = "delete", !.keep = {}, !.stale = S]
    BY <1>7 DEF QueryDistinct
  <2>2. S \subseteq Blocks
    OBVIOUS
  <2>3. ASSUME NEW b \in S PROVE Over(b)
    <3>1. b \in Blocks /\ rows[b] # NoRows /\ b \notin clean.keep
      OBVIOUS
    <3>2. blocks[b].known /\ top - Height[b] > Delay(b)
      BY <3>1, <1>0 DEF RowsAreDeep
    <3>3. /\ clean.since <= top /\ top <= clean.since + CleanGap
          /\ Over(b) \/ Height[b] + LateFind >= clean.since
      BY <2>1, <3>1, <3>2, <1>0 DEF KeepIsEnough
    <3>4. Height[b] \in Nat /\ Delay(b) \in Nat /\ LateFind + CleanGap <= Delay(b)
      BY <3>1, <1>1
    <3>5. ~(Height[b] + LateFind >= clean.since)
      BY <3>2, <3>3, <3>4, <1>1
    <3> QED
      BY <3>3, <3>5
  <2> HIDE DEF S
  <2>4. CleanOK'
    BY <2>1, <2>2, <1>0, <1>2 DEF CleanOK
  <2>5. clean'.pc = "delete" /\ clean'.stale = S
    BY <2>1, <1>0 DEF CleanOK
  <2>6. KeepIsEnough'
    BY <2>5 DEF KeepIsEnough
  <2>7. StaleIsOver'
    BY <2>2, <2>3, <2>5, <1>4 DEF StaleIsOver
  <2> QED
    BY <2>1, <2>4, <2>6, <2>7, SameRows
<1>8. ASSUME DeleteStale PROVE RowMoves /\ (CleanOK /\ KeepIsEnough /\ StaleIsOver)'
  <2>1. clean' = [pc |-> "idle", keep |-> {}, stale |-> {}, since |-> 0]
    BY <1>8 DEF DeleteStale
  <2>2. rows' = rows \/ rows' = [b \in Blocks |-> IF b \in clean.stale THEN NoRows ELSE rows[b]]
    BY <1>8 DEF DeleteStale
  <2>3. RowMoves
    BY <2>2 DEF RowMoves
  <2>4. CleanOK'
    BY <2>1, <1>0, <1>2 DEF CleanOK
  <2>5. KeepIsEnough' /\ StaleIsOver'
    BY <2>1 DEF KeepIsEnough, StaleIsOver
  <2> QED
    BY <2>3, <2>4, <2>5
<1> QED
  BY <1>3, <1>5, <1>6, <1>7, <1>8 DEF Cleaner

LEMMA RowsStart ==
    ASSUME Init PROVE RowsInv
<1>1. ~Absent.known
  BY DEF Absent
<1>2. /\ pc = "down" /\ mem = NoMem /\ blocks = [b \in Blocks |-> Absent] /\ paid = {}
      /\ rows = [b \in Blocks |-> NoRows]
      /\ clean = [pc |-> "idle", keep |-> {}, stale |-> {}, since |-> 0]
  BY DEF Init
<1>3. CleanOK /\ KeepIsEnough /\ StaleIsOver
  BY <1>2 DEF CleanOK, KeepIsEnough, StaleIsOver
<1>4. GroupIsDeep /\ GroupShape /\ CopiesHold /\ MarkHasRows
  BY <1>2, NoMemFields DEF GroupIsDeep, GroupShape, CopiesHold, MarkHasRows, Precalcs
<1>5. UnlockedWasPaid /\ PayableHasRows
  BY <1>1, <1>2 DEF UnlockedWasPaid, PayableHasRows, Locked
<1>6. RowsAreDeep
  BY <1>2 DEF RowsAreDeep
<1> QED
  BY <1>3, <1>4, <1>5, <1>6 DEF RowsInv

LEMMA RowsStep ==
    ASSUME Rules, BaseInv, RowsInv, [Next]_vars
    PROVE  RowsInv'
<1>0. Standing /\ Moves /\ BaseInv'
  BY StepMoves, BaseKeeps DEF Rules
<1>1. CASE UNCHANGED vars
  <2>1. Untouched /\ pc' = pc /\ mem' = mem
    BY <1>1 DEF vars, process, sql, chain, Untouched
  <2>2. Course /\ Records /\ RowMoves /\ NotCleaning
    BY <2>1, UntouchedMoves, QuietCourse
  <2> QED
    BY <2>2, <1>0, CourseKeeps, CleanerUndisturbed DEF RowsInv
<1>2. CASE Start \/ Stop \/ Crash \/ Cycle \/ Environment \/ Others
  <2>1. Course /\ Records /\ RowMoves /\ NotCleaning
    BY <1>2, ControlCourse, PrecalcCourse, HeaderCourse, PayCourse, OtherCourse DEF Cycle
  <2> QED
    BY <2>1, <1>0, CourseKeeps, CleanerUndisturbed DEF RowsInv
<1>3. CASE Cleaner
  BY <1>3, <1>0, CleanerCourse, CourseKeeps DEF RowsInv
<1> QED
  BY <1>1, <1>2, <1>3 DEF Next

\* Every block that is still to be paid has its block_balance rows, whatever is
\* cut off between DELETE and INSERT and whatever the cleaner decided on old
\* reads: the delays outlast a late find and the cleaner's queries, and no
\* operator unlocks an unpaid block or revives an invalid one.
THEOREM PayableHasRowsHolds ==
    ASSUME DelaysOutlastCleaner, NoRevival
    PROVE  Spec => []PayableHasRows
<1>0. Rules
  BY BlocksAssumption, DelaysAssumption DEF Rules, Standing
<1>1. Init => RowsInv
  BY RowsStart
<1>2. BaseInv /\ RowsInv /\ [Next]_vars => RowsInv'
  BY <1>0, RowsStep
<1>3. RowsInv => PayableHasRows
  BY DEF RowsInv
<1> QED
  BY <1>1, <1>2, <1>3, BaseInvariance, PTL DEF Spec
=============================================================================
